------------------------------ MODULE Launcher ------------------------------
(***************************************************************************)
(* al_sim_multi: forks one process per row of dev_args, which becomes an   *)
(* al_sim_device by execv, and waits for them one after the other.         *)
(*                                                                         *)
(* A child whose execv fails goes on in the fork loop of main() as a       *)
(* launcher of its own, with a copy of child_pids.  A process is named by  *)
(* the rows at which it and its ancestors were forked: the launcher itself *)
(* is {}, and the process that p forks at row i is p \cup {i}.             *)
(***************************************************************************)
EXTENDS Naturals

CONSTANTS
  NumDevices,    \* NUM_DEVICES
  Interrupted    \* the processes that may receive SIGINT

ASSUME LauncherAssumption == NumDevices \in Nat \ {0}

Rows      == 1..NumDevices
Processes == SUBSET Rows
Root      == {}
NoPid     == {0}       \* what fork returns to the child, and where child_pids starts
ASSUME InterruptAssumption == Interrupted \subseteq Processes

VARIABLES
  status,      \* per process: what it does, and how it ended
  at,          \* per process: i of main(), in the loop it is in
  child_pids,  \* per process
  reaped,      \* the processes whose end waitpid has reported
  signalled    \* the processes SIGINT has been sent to
launcherVars == <<status, at, child_pids, reaped, signalled>>

Launching == {"fork", "exec", "wait"}
Ends      == {"returned", "failed", "killed"}
Running(p)  == status[p] \in Launching \cup {"device"}
Children(p) == {c \in Processes : \E i \in Rows : c = p \cup {i} /\ \A j \in p : j < i}
Forked(p)   == {c \in Children(p) : status[c] # "none"}
RowOf(c)    == CHOOSE i \in c : \A j \in c : j <= i
Above(p, i) == \A j \in p : j < i
Ancestors(q) == {p \in Processes : p \subseteq q /\ \A i \in q \ p : Above(p, i)}

LauncherInit ==
  /\ status = [p \in Processes |-> IF p = Root THEN "fork" ELSE "none"]
  /\ at = [p \in Processes |-> 1]
  /\ child_pids = [p \in Processes |-> [i \in Rows |-> NoPid]]
  /\ reaped = {} /\ signalled = {}

(* fork: the child is a copy of its parent but for what fork returned.     *)
Fork(p) ==
  /\ status[p] = "fork" /\ at[p] \in Rows
  /\ LET i == at[p]
         c == p \cup {i}
     IN /\ status' = [status EXCEPT ![c] = "exec"]
        /\ at' = [at EXCEPT ![p] = i + 1, ![c] = i]
        /\ child_pids' = [child_pids EXCEPT ![p][i] = c,
                                            ![c] = [child_pids[p] EXCEPT ![i] = NoPid]]
  /\ UNCHANGED <<reaped, signalled>>

(* fork returns -1: exit(FAIL), whatever has been started.                 *)
ForkFails(p) ==
  /\ status[p] = "fork" /\ at[p] \in Rows
  /\ status' = [status EXCEPT ![p] = "failed"]
  /\ UNCHANGED <<at, child_pids, reaped, signalled>>

(* execv with the arguments of row i.                                      *)
Exec(c) ==
  /\ status[c] = "exec"
  /\ status' = [status EXCEPT ![c] = "device"]
  /\ UNCHANGED <<at, child_pids, reaped, signalled>>

(* execv returns; nothing looks at its result, and the loop goes on.       *)
ExecFails(c) ==
  /\ status[c] = "exec"
  /\ status' = [status EXCEPT ![c] = "fork"]
  /\ at' = [at EXCEPT ![c] = @ + 1]
  /\ UNCHANGED <<child_pids, reaped, signalled>>

(* The fork loop ends and the loop of waitpid begins.                      *)
EndForks(p) ==
  /\ status[p] = "fork" /\ at[p] = NumDevices + 1
  /\ status' = [status EXCEPT ![p] = "wait"]
  /\ at' = [at EXCEPT ![p] = 1]
  /\ UNCHANGED <<child_pids, reaped, signalled>>

(* waitpid(child_pids[i]): a child not yet waited for, or any of them when *)
(* the pid is 0; a pid inherited from the parent is no child's.            *)
WaitsFor(p) ==
  LET pid == child_pids[p][at[p]]
  IN {c \in Forked(p) \ reaped : pid \in {c, NoPid}}

(* It returns when one of them has ended, or at once when there is none.   *)
(* Mutants: WNOHANG; called again until it reports a child.                *)
WaitOverNow(p)    == TRUE
WaitOverOneEnd(p) == \E c \in WaitsFor(p) : ~Running(c)
WaitOver(p) == WaitsFor(p) = {} \/ \E c \in WaitsFor(p) : ~Running(c)
WaitPid(p) ==
  /\ status[p] = "wait" /\ at[p] \in Rows
  /\ WaitOver(p)
  /\ \/ /\ \A c \in WaitsFor(p) : Running(c)
        /\ UNCHANGED reaped
     \/ \E c \in WaitsFor(p) : ~Running(c) /\ reaped' = reaped \cup {c}
  /\ at' = [at EXCEPT ![p] = @ + 1]
  /\ UNCHANGED <<status, child_pids, signalled>>

Return(p) ==
  /\ status[p] = "wait" /\ at[p] = NumDevices + 1
  /\ status' = [status EXCEPT ![p] = "returned"]
  /\ UNCHANGED <<at, child_pids, reaped, signalled>>

(* A device reaches TOTAL_TO_END or handles SIGINT, and returns.           *)
DeviceEnds(c) ==
  /\ status[c] = "device"
  /\ status' = [status EXCEPT ![c] = "returned"]
  /\ UNCHANGED <<at, child_pids, reaped, signalled>>

(* SIGINT kills a launcher: handle_signal is in the program, but main()    *)
(* installs no handler.                                                    *)
Interrupt(p) ==
  /\ p \in Interrupted
  /\ status[p] \in Launching
  /\ status' = [status EXCEPT ![p] = "killed"]
  /\ signalled' = signalled \cup {p}
  /\ UNCHANGED <<at, child_pids, reaped>>

LauncherStep(p) == Fork(p) \/ Exec(p) \/ EndForks(p) \/ WaitPid(p) \/ Return(p)
LauncherFault(p) == ForkFails(p) \/ ExecFails(p) \/ Interrupt(p)
LauncherNext == \E p \in Processes :
  LauncherStep(p) \/ LauncherFault(p) \/ DeviceEnds(p)
LauncherSpec == LauncherInit /\ [][LauncherNext]_launcherVars

-----------------------------------------------------------------------------
LauncherTypeOK ==
  /\ status \in [Processes -> Launching \cup Ends \cup {"none", "device"}]
  /\ at \in [Processes -> 1..(NumDevices + 1)]
  /\ child_pids \in [Processes -> [Rows -> Processes \cup {NoPid}]]
  /\ reaped \subseteq Processes /\ signalled \subseteq Interrupted

(* A launcher that has come to its end has no child it has not waited for, *)
(* whichever execs failed and in whatever order the children ended: every  *)
(* child is in child_pids, and the calls of waitpid with a pid of 0 or of  *)
(* another process's child skip none of them.                              *)
AllWaitedFor ==
  /\ \A p \in Processes : status[p] = "returned" => Forked(p) \subseteq reaped
  /\ \A c \in reaped : ~Running(c)

(* So a process that al_sim_multi has started, itself or through others,   *)
(* runs on when it returns only if one it descends from ended without      *)
(* waiting: fork failed there, or SIGINT killed it.  A failure in another  *)
(* branch leaves nothing running in this one.                              *)
NothingOutlives ==
  status[Root] = "returned" =>
    \A q \in Processes : Running(q) =>
      \E p \in Ancestors(q) : status[p] \in {"failed", "killed"}

(* What handle_signal is there for ("SIGINT received by parent.            *)
(* Terminating child process..."): SIGINT sent to a launcher is sent on to *)
(* its children.                                                           *)
InterruptForwarded == \A p \in signalled : Forked(p) \subseteq signalled

-----------------------------------------------------------------------------
(* The inductive invariant: every child forked is in its parent's table,   *)
(* none is beyond the parent's loop of fork, and the loop of waitpid       *)
(* leaves none behind.                                                     *)
IsForked(p, i) == Above(p, i) /\ status[p \cup {i}] # "none"
NoneFrom(p, first) == \A i \in Rows : i >= first => ~IsForked(p, i)

Counted(p) ==
  /\ status[p] \in {"none", "exec", "device"} => NoneFrom(p, 1)
  /\ status[p] = "exec" => at[p] \in Rows /\ \A j \in p : j <= at[p]
  /\ status[p] = "fork" => Above(p, at[p]) /\ NoneFrom(p, at[p])
  /\ \A i \in Rows : IsForked(p, i) => child_pids[p][i] = p \cup {i}
  /\ \A i \in Rows :
       /\ IsForked(p, i)
       /\ status[p] = "returned" \/ (status[p] = "wait" /\ i < at[p])
       => p \cup {i} \in reaped

IInv == /\ LauncherTypeOK
        /\ \A c \in reaped : status[c] \in Ends
        /\ \A p \in Processes : Counted(p)
=============================================================================
