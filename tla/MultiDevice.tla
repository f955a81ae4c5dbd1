---------------------------- MODULE MultiDevice ----------------------------
(***************************************************************************)
(* The experiment with several devices: al_sim_multi starts the devices    *)
(* (Launcher), al_sim_upperlayer_multi has one thread and one stream of    *)
(* frames per device (UpperLayer); nobody coordinates the two programs.    *)
(* Of a device only what they see of it is here: it binds the port of its  *)
(* id, takes frames, and ends at a count of packets, or at a SIGINT, that  *)
(* neither controls (module ALNetwork).                                    *)
(***************************************************************************)
EXTENDS Launcher, UpperLayer

CONSTANT NumThreads    \* num_devices of al_sim_upperlayer_multi
ASSUME ThreadsAssumption == NumThreads \in Nat \ {0} /\ Streams = 1..NumThreads

VARIABLES
  socket,     \* per process: the PULL socket of its sending thread
  inQueue,    \* per stream: frames in the queue of its device's socket
  created,    \* i of the loop of pthread_create
  joined,     \* i of the loop of pthread_join
  main        \* main() of al_sim_upperlayer_multi
deviceVars == <<socket, inQueue>>
mainVars   == <<created, joined, main>>
vars == <<launcherVars, upperVars, deviceVars, mainVars>>

Serves(c, s) == /\ c # Root /\ RowOf(c) = s
                /\ status[c] = "device" /\ socket[c] = "bound"
Served(s) == \E c \in Processes : Serves(c, s)

Init ==
  /\ LauncherInit /\ UpperInit
  /\ socket = [p \in Processes |-> "none"]
  /\ inQueue = [s \in Streams |-> 0]
  /\ created = 0 /\ joined = 0 /\ main = "create"

(* al_sim_multi and its processes.                                         *)
Launch == (\E p \in Processes : LauncherStep(p))
          /\ UNCHANGED <<upperVars, deviceVars, mainVars>>
LaunchFault == (\E p \in Processes : LauncherFault(p))
               /\ UNCHANGED <<upperVars, deviceVars, mainVars>>

-----------------------------------------------------------------------------
(* The sending thread of a device.                                         *)

(* zmq_bind: refused if another process has the port, which goes unnoticed.*)
Bind(c) ==
  /\ status[c] = "device" /\ socket[c] = "none"
  /\ socket' = [socket EXCEPT ![c] = IF Served(RowOf(c)) THEN "refused" ELSE "bound"]
  /\ UNCHANGED <<launcherVars, upperVars, inQueue, mainVars>>

Take(s) ==
  /\ Served(s)
  /\ inQueue[s] > 0
  /\ inQueue' = [inQueue EXCEPT ![s] = @ - 1]
  /\ UNCHANGED <<launcherVars, upperVars, socket, mainVars>>

(* The frames left in the queue go with the process.                       *)
End(c) ==
  /\ DeviceEnds(c)
  /\ inQueue' = [s \in Streams |-> IF Serves(c, s) THEN 0 ELSE inQueue[s]]
  /\ UNCHANGED <<upperVars, socket, mainVars>>

-----------------------------------------------------------------------------
(* al_sim_upperlayer_multi.                                                *)

CreateThread ==
  /\ main = "create" /\ created < NumThreads
  /\ UpperStart(created + 1)
  /\ created' = created + 1
  /\ UNCHANGED <<launcherVars, deviceVars, joined, main>>

(* exit(FAIL) ends the threads created before, too.                        *)
CreateFails ==
  /\ main = "create" /\ created < NumThreads
  /\ main' = "failed"
  /\ UNCHANGED <<launcherVars, upperVars, deviceVars, created, joined>>

EndCreates ==
  /\ main = "create" /\ created = NumThreads
  /\ main' = "join"
  /\ UNCHANGED <<launcherVars, upperVars, deviceVars, created, joined>>

Join ==
  /\ main = "join" /\ joined < NumThreads
  /\ uPc[joined + 1] = "done"
  /\ joined' = joined + 1
  /\ main' = IF joined' = NumThreads THEN "returned" ELSE main
  /\ UNCHANGED <<launcherVars, upperVars, deviceVars, created>>

UpperTurn ==
  /\ main # "failed"
  /\ \E s \in Streams : UpperStep(s)
  /\ UNCHANGED <<launcherVars, deviceVars, mainVars>>

(* A frame crosses to the device that serves the stream, if there is one.  *)
Move(s) ==
  /\ main # "failed" /\ Served(s)
  /\ Transfer(s, inQueue[s])
  /\ inQueue' = [inQueue EXCEPT ![s] = @ + 1]
  /\ UNCHANGED <<launcherVars, socket, mainVars>>

-----------------------------------------------------------------------------
Progress == \/ Launch \/ CreateThread \/ EndCreates \/ Join \/ UpperTurn
            \/ \E c \in Processes : Bind(c)
            \/ \E s \in Streams : Take(s) \/ Move(s)
Next == \/ Progress \/ LaunchFault \/ CreateFails
        \/ \E c \in Processes : End(c)

(* As long as some process or thread can take a step, one does (as in      *)
(* Experiment: no step can be taken forever).  No fault has to happen, and *)
(* no device has to end.                                                   *)
Spec == Init /\ [][Next]_vars /\ WF_vars(Progress)

-----------------------------------------------------------------------------
TypeOK ==
  /\ LauncherTypeOK /\ UpperTypeOK
  /\ socket \in [Processes -> {"none", "bound", "refused"}]
  /\ inQueue \in [Streams -> 0..RecvHwm]
  /\ created \in 0..NumThreads /\ joined \in 0..created
  /\ main \in {"create", "join", "returned", "failed"}

(* A device, ended by now perhaps, had the port of stream s.               *)
HadDevice(s) == \E c \in Processes \ {Root} : RowOf(c) = s /\ socket[c] = "bound"

(* If al_sim_upperlayer_multi has returned, every stream has had a device, *)
(* and every frame has been moved to one: with five devices started and    *)
(* ten streams, as the two programs are now, it does not return.           *)
ReturnedWasServed ==
  main = "returned" => \A s \in Streams :
    moved[s] = ToPush /\ (ToPush > 0 => HadDevice(s))

(* When no device runs any more, al_sim_multi comes to its end, whichever  *)
(* of its processes failed.                                                *)
LauncherReturns ==
  <>[](\A c \in Processes : status[c] # "device") => <>(status[Root] \in Ends)

(* If every stream keeps a device, al_sim_upperlayer_multi comes to its    *)
(* end, however small the queues are.                                      *)
UpperReturns ==
  <>[](\A s \in Streams : Served(s)) => <>(main \in {"returned", "failed"})

-----------------------------------------------------------------------------
(* The inductive invariant: a stream is closed when all its frames are     *)
(* handed over and done when they have been moved, no frame is moved       *)
(* without a device, and main() has joined the threads that are done.      *)
StreamInv(s) ==
  /\ uPc[s] \in {"close", "done"} => handed[s] = ToPush
  /\ uPc[s] = "done" => moved[s] = ToPush
  /\ moved[s] > 0 => HadDevice(s)
  /\ s <= joined => uPc[s] = "done"

MainInv == /\ main \in {"join", "returned"} => created = NumThreads
           /\ main = "returned" => joined = NumThreads

MultiInv == TypeOK /\ MainInv /\ \A s \in Streams : StreamInv(s)
=============================================================================
