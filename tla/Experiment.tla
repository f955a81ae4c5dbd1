----------------------------- MODULE Experiment -----------------------------
(***************************************************************************)
(* One iteration of run_exp.sh: the script starts a device that is to send *)
(* (A) and one that is to receive (B), runs the upper layer (C) against    *)
(* the first and waits for each of them.  Composes the network of devices  *)
(* (ALNetwork) with the process that feeds it (UpperLayer).                *)
(*                                                                         *)
(* Assumption: the script's sleeps suffice.  When its next command is      *)
(* carried out, the devices started before have opened their sockets and   *)
(* their subscriptions have reached the proxy, which the script takes to   *)
(* be running.                                                             *)
(***************************************************************************)
EXTENDS Naturals, Sequences

CONSTANTS A, B,                             \* the ids of the two devices
          PairedWith, Seed, NumKeys, TotalToEnd, Lossy,
          Interrupted, MaxPseudo,           \* as in ALNetwork
          NumSend, NumRepeat, SendHwm, RecvHwm    \* as in UpperLayer

Devices == {A, B}    \* all that the script starts

ASSUME DevicesAssumption == A \in Nat \ {0} /\ B \in Nat \ {0} /\ A # B
ASSUME PairAssumption ==
  PairedWith \in [Devices -> SUBSET Devices] /\ \A d \in Devices : d \notin PairedWith[d]
ASSUME SizeAssumption ==
  /\ NumKeys \in Nat \ {0} /\ TotalToEnd \in Nat \ {0}
  /\ Seed \in [Devices -> Nat] /\ MaxPseudo \in Nat
  /\ Lossy \in BOOLEAN /\ Interrupted \subseteq Devices
ASSUME UpperAssumption ==
  /\ NumSend \in Nat /\ NumRepeat \in Nat
  /\ SendHwm \in Nat \ {0} /\ RecvHwm \in Nat \ {0}

VARIABLES taken, sPc, sPkt, rPc, rPkt, logged, txIv, rxIv, pub, sub, stop,
          sent, recv, noPair, pseudo, under, got,
          uPc, handed, moved,
          line       \* the script's next command

C == INSTANCE UpperLayer WITH Streams <- {A}
Net == INSTANCE ALNetwork WITH
         Upper <- [d \in Devices |-> IF d = A THEN [i \in 1..C!ToPush |-> B]
                                              ELSE <<>>]

netVars == <<taken, sPc, sPkt, rPc, rPkt, logged, txIv, rxIv, pub, sub, stop,
             sent, recv, noPair, pseudo, under, got>>
upperVars == <<uPc, handed, moved>>
vars == <<netVars, upperVars, line>>

UpperProgram == 0    \* not the id of a device

(* run_binaries.  A command that ends in & only starts its process; the    *)
(* upper layer runs in the foreground.  Mutant: the upper layer first.     *)
ScriptUpperFirst ==
  <<<<"start", UpperProgram>>, <<"wait", UpperProgram>>,
    <<"start", A>>, <<"start", B>>, <<"wait", A>>, <<"wait", B>>>>
Script ==
  <<<<"start", A>>, <<"start", B>>,
    <<"start", UpperProgram>>, <<"wait", UpperProgram>>,
    <<"wait", A>>, <<"wait", B>>>>
Finished == line > Len(Script)
NextCommand(kind, p) == line <= Len(Script) /\ Script[line] = <<kind, p>>

Init == Net!InitAt("off") /\ C!UpperInit /\ line = 1

(* al_sim_device starts its two threads.                                   *)
StartDevice(d) ==
  /\ NextCommand("start", d)
  /\ sPc' = [sPc EXCEPT ![d] = "poll"] /\ rPc' = [rPc EXCEPT ![d] = "poll"]
  /\ line' = line + 1
  /\ UNCHANGED <<taken, sPkt, rPkt, logged, txIv, rxIv, pub, sub, stop, sent,
                 recv, noPair, pseudo, under, got, upperVars>>

StartUpper ==
  /\ NextCommand("start", UpperProgram)
  /\ C!UpperStart(A)
  /\ line' = line + 1
  /\ UNCHANGED netVars

(* main() of a device returns when it has joined its two threads.          *)
Ended(d) == sPc[d] = "done" /\ rPc[d] = "done"
Wait ==
  /\ \/ NextCommand("wait", UpperProgram) /\ uPc[A] = "done"
     \/ \E d \in Devices : NextCommand("wait", d) /\ Ended(d)
  /\ line' = line + 1
  /\ UNCHANGED <<netVars, upperVars>>

(* The sending thread of A finds the frames that have been moved to it.    *)
SendTurn(d) ==
  /\ Net!SendStep(d)
  /\ d = A => taken'[d] <= moved[d]
  /\ UNCHANGED <<upperVars, line>>
RecvTurn(d) == Net!RecvStep(d) /\ UNCHANGED <<upperVars, line>>
Signal(d)   == Net!HandleSignal(d) /\ UNCHANGED <<upperVars, line>>
Forward(s)  == Net!Forward(s) /\ UNCHANGED <<upperVars, line>>

(* The PULL socket is bound as long as the sending thread runs.            *)
PullBound == sPc[A] \notin {"off", "done"}
Transfer ==
  /\ PullBound
  /\ C!Transfer(A, moved[A] - taken[A])
  /\ UNCHANGED <<netVars, line>>
Upper == C!UpperStep(A) /\ UNCHANGED <<netVars, line>>

Command == (\E d \in Devices : StartDevice(d)) \/ StartUpper \/ Wait

Progress == \/ Command \/ Upper \/ Transfer
            \/ \E d \in Devices : SendTurn(d) \/ RecvTurn(d)
            \/ \E s \in Net!Sockets : Forward(s)
Next == Progress \/ \E d \in Devices : Signal(d)

(* As long as some thread, the proxy or the script can take a step, one of *)
(* them does.  This is less than fair scheduling of each, and enough: a    *)
(* polling loop that finds nothing is a stuttering step, and no other step *)
(* can be taken forever.  Nobody has to send SIGINT.                       *)
Fairness == WF_vars(Progress)

Spec == Init /\ [][Next]_vars /\ Fairness

-----------------------------------------------------------------------------
(* Types, and that no queue between the upper layer and the device passes  *)
(* its high-water mark.                                                    *)
TypeOK ==
  /\ C!UpperTypeOK
  /\ line \in 1..(Len(Script) + 1)
  /\ taken[A] <= moved[A] /\ moved[A] - taken[A] <= RecvHwm

(* What the two result files say adds up: if both devices have counted up  *)
(* to TOTAL_TO_END, the receiver has decrypted the first frames sent, in   *)
(* order and rightly, and lacks exactly as many of them as it counted      *)
(* packets without a record (pseudo responses of the sender).              *)
ResultsAddUp ==
  ~Lossy /\ Finished /\ sent[A] = TotalToEnd /\ recv[B] = TotalToEnd =>
    got[B] = [i \in 1..(TotalToEnd - noPair[B]) |-> [frame |-> <<A, i>>, right |-> TRUE]]

(* stop, set by a thread or by the signal handler, ends both threads,      *)
(* whatever they were in the middle of.                                    *)
StopEndsProcess == \A d \in Devices : stop[d] ~> Ended(d)

(* Every iteration comes to its end, unless a packet was lost or the       *)
(* sending device stopped before it had sent TOTAL_TO_END packets: then    *)
(* the upper layer can wait forever for its frames to be taken, or the     *)
(* receiving device for packets.                                           *)
StoppedEarly(d) == sPc[d] = "done" /\ sent[d] < TotalToEnd
IterationEnds == ~Lossy => <>(Finished \/ StoppedEarly(A))

-----------------------------------------------------------------------------
(* The inductive invariant of TypeOK, and what the proofs about the whole  *)
(* experiment need to know of the script: which process it has started,    *)
(* that nothing moves before all are, and that it waits for each device.   *)
(* A device that has not been started stands where one stands that waits   *)
(* for its first packet.                                                   *)
Off(d)   == sPc[d] = "off" /\ rPc[d] = "off"
IsOn(d)  == sPc[d] # "off" /\ rPc[d] # "off"
Idle(pc) == \A d \in Devices : pc[d] \in {"off", "poll", "done"}
OnceStarted(pc) == [d \in Devices |-> IF pc[d] = "off" THEN "poll" ELSE pc[d]]

Staged ==
  /\ DOMAIN sPc = Devices /\ DOMAIN rPc = Devices
  /\ IF line = 1 THEN Off(A) ELSE IsOn(A)
  /\ IF line <= 2 THEN Off(B) ELSE IsOn(B)
  /\ line <= 2 => /\ Idle(sPc) /\ Idle(rPc)
                  /\ pub = [s \in Net!Sockets |-> <<>>]
                  /\ sub = [d \in Devices |-> <<>>]
  /\ line <= 3 => uPc[A] = "new" /\ moved[A] = 0
  /\ line > 5 => Ended(A)
  /\ line > 6 => Ended(B)

StageInv == TypeOK /\ taken \in [Devices -> Nat] /\ taken[B] = 0 /\ Staged
=============================================================================
