----------------------------- MODULE UpperLayer -----------------------------
(***************************************************************************)
(* The programs that push frames into the devices: al_sim_upperlayer has   *)
(* one stream of frames to one device, al_sim_upperlayer_multi has one     *)
(* thread and one stream per device (send_upper_layer).  A stream is a     *)
(* ZeroMQ PUSH socket connected to the port of its device, with a context  *)
(* of its own.                                                             *)
(*                                                                         *)
(* Frames are counted: handed are those zmq_send has returned for, moved   *)
(* are those that have left the program, so handed - moved are in the      *)
(* queue of the PUSH socket.  How many of the moved ones the device has    *)
(* taken, and whether its socket is bound, is for the modules that compose *)
(* this one with devices to say.                                           *)
(***************************************************************************)
EXTENDS Naturals

CONSTANTS
  Streams,     \* one per PUSH socket
  NumSend,     \* num_send, NUM_SEND
  NumRepeat,   \* num_repeat, 0 when the argument is not given
  SendHwm,     \* ZMQ_SNDHWM of the PUSH socket
  RecvHwm      \* ZMQ_RCVHWM of the device's PULL socket

ASSUME UpperLayerAssumption ==
  /\ NumSend \in Nat /\ NumRepeat \in Nat
  /\ SendHwm \in Nat \ {0} /\ RecvHwm \in Nat \ {0}

VARIABLES uPc, handed, moved
upperVars == <<uPc, handed, moved>>

(* A frame is sent once, and again for j = 1 .. num_repeat - 1.            *)
Copies == IF NumRepeat > 1 THEN NumRepeat ELSE 1
ToPush == NumSend * Copies

UpperInit ==
  /\ uPc = [s \in Streams |-> "new"]
  /\ handed = [s \in Streams |-> 0] /\ moved = [s \in Streams |-> 0]

(* zmq_connect returns whether or not anybody has bound the port.          *)
UpperStart(s) ==
  /\ uPc[s] = "new"
  /\ uPc' = [uPc EXCEPT ![s] = "send"]
  /\ UNCHANGED <<handed, moved>>

(* The loop over the frames.  Mutant: it ends one later.                   *)
MoreToPushLate(s) == handed[s] <= ToPush
MoreToPush(s) == handed[s] < ToPush

(* zmq_send blocks while the queue is full.                                *)
CanPush(s) == handed[s] - moved[s] < SendHwm
Push(s) ==
  /\ uPc[s] = "send"
  /\ MoreToPush(s)
  /\ CanPush(s)
  /\ handed' = [handed EXCEPT ![s] = @ + 1]
  /\ UNCHANGED <<uPc, moved>>

(* zmq_close returns at once ...  Mutant: left out, and zmq_ctx_destroy    *)
(* waits for it.                                                           *)
CloseSocketNot(s) == uPc[s] = "send" /\ ~MoreToPush(s) /\ UNCHANGED upperVars
CloseSocket(s) ==
  /\ uPc[s] = "send"
  /\ ~MoreToPush(s)
  /\ uPc' = [uPc EXCEPT ![s] = "close"]
  /\ UNCHANGED <<handed, moved>>

(* ... and zmq_ctx_destroy waits until the queue is empty, without limit.  *)
(* Mutant: ZMQ_LINGER set to 0.                                            *)
LingerOver(s) == TRUE
Lingered(s) == handed[s] = moved[s]
UpperExit(s) ==
  /\ uPc[s] = "close"
  /\ Lingered(s)
  /\ uPc' = [uPc EXCEPT ![s] = "done"]
  /\ UNCHANGED <<handed, moved>>

(* The I/O thread moves a frame into the queue of the device's socket,     *)
(* which has inQueue frames.                                               *)
Room(inQueue) == inQueue < RecvHwm
Transfer(s, inQueue) ==
  /\ uPc[s] \in {"send", "close"}
  /\ moved[s] < handed[s]
  /\ Room(inQueue)
  /\ moved' = [moved EXCEPT ![s] = @ + 1]
  /\ UNCHANGED <<uPc, handed>>

UpperStep(s) == Push(s) \/ CloseSocket(s) \/ UpperExit(s)

UpperTypeOK ==
  /\ uPc \in [Streams -> {"new", "send", "close", "done"}]
  /\ handed \in [Streams -> 0..ToPush] /\ moved \in [Streams -> 0..ToPush]
  /\ \A s \in Streams : /\ moved[s] <= handed[s]
                        /\ handed[s] - moved[s] <= SendHwm
=============================================================================
