-------------------------- MODULE ExperimentProofs --------------------------
(***************************************************************************)
(* Proofs about Experiment, for any sizes and numbers of frames, with or   *)
(* without losses and interruptions.  The script, the upper layer and the  *)
(* queues between them only slow the network of module ALNetwork down: it  *)
(* is implemented, and what is proved of it holds of the experiment.       *)
(***************************************************************************)
EXTENDS Experiment, SequenceTheorems, WellFoundedInduction, TLAPS

Pushed == [d \in Devices |-> IF d = A THEN [i \in 1..C!ToPush |-> B] ELSE <<>>]

(* The network whose devices are all running from the start.               *)
Running == INSTANCE ALNetworkProofs WITH
             Upper <- Pushed, sPc <- OnceStarted(sPc), rPc <- OnceStarted(rPc)

LEMMA PushedFacts ==
  /\ C!ToPush \in Nat
  /\ Pushed[A] = [i \in 1..C!ToPush |-> B] /\ Pushed[B] = <<>>
  /\ \A d \in Devices : Pushed[d] \in Seq(Devices)
<1>1. C!ToPush \in Nat
  BY UpperAssumption DEF C!ToPush, C!Copies
<1> QED
  BY <1>1, DevicesAssumption DEF Pushed, Devices

(* The experiment is within what ALNetwork assumes of its constants.       *)
LEMMA NetAssumptions ==
  /\ Running!DeviceAssumption /\ Running!PairAssumption
  /\ Running!UpperAssumption /\ Running!SizeAssumption
<1>1. Running!DeviceAssumption
  BY DevicesAssumption DEF Running!DeviceAssumption, Devices
<1>2. Running!PairAssumption
  BY PairAssumption DEF Running!PairAssumption
<1>3. Running!UpperAssumption
  BY PushedFacts DEF Running!UpperAssumption
<1>4. Running!SizeAssumption
  BY SizeAssumption DEF Running!SizeAssumption
<1> QED
  BY <1>1, <1>2, <1>3, <1>4

-----------------------------------------------------------------------------
(* The script.                                                             *)
LEMMA Commands ==
  ASSUME line \in 1..(Len(Script) + 1)
  PROVE  /\ Len(Script) = 6
         /\ NextCommand("start", A) <=> line = 1
         /\ NextCommand("start", B) <=> line = 2
         /\ NextCommand("start", UpperProgram) <=> line = 3
         /\ NextCommand("wait", UpperProgram) <=> line = 4
         /\ NextCommand("wait", A) <=> line = 5
         /\ NextCommand("wait", B) <=> line = 6
<1>1. /\ Len(Script) = 6
      /\ Script[1] = <<"start", A>> /\ Script[2] = <<"start", B>>
      /\ Script[3] = <<"start", UpperProgram>> /\ Script[4] = <<"wait", UpperProgram>>
      /\ Script[5] = <<"wait", A>> /\ Script[6] = <<"wait", B>>
  BY DEF Script
<1>2. line = 1 \/ line = 2 \/ line = 3 \/ line = 4 \/ line = 5 \/ line = 6 \/ line = 7
  BY <1>1
<1>3. A # 0 /\ B # 0 /\ A # B /\ UpperProgram = 0
  BY DevicesAssumption DEF UpperProgram
<1> QED
  BY <1>1, <1>2, <1>3 DEF NextCommand

LEMMA InitStage == Init => StageInv
<1> SUFFICES ASSUME Init PROVE StageInv
  OBVIOUS
<1>1. C!UpperInit /\ line = 1 /\ taken = [d \in Devices |-> 0]
      /\ sPc = [d \in Devices |-> "off"] /\ rPc = [d \in Devices |-> "off"]
      /\ pub = [s \in Net!Sockets |-> <<>>] /\ sub = [d \in Devices |-> <<>>]
  BY DEF Init, Net!InitAt
<1>2. A \in Devices /\ B \in Devices /\ Len(Script) = 6
  BY DEF Devices, Script
<1>3. C!UpperTypeOK
  BY <1>1, PushedFacts, UpperAssumption DEF C!UpperInit, C!UpperTypeOK
<1>4. TypeOK
  BY <1>1, <1>2, <1>3, UpperAssumption DEF TypeOK, C!UpperInit
<1>5. Staged
  BY <1>1, <1>2 DEF Staged, Off, Idle, C!UpperInit
<1> QED
  BY <1>1, <1>2, <1>4, <1>5 DEF StageInv

(* A command of the script.                                                *)
LEMMA CommandStage == ASSUME StageInv, Command PROVE StageInv'
<1>1. TypeOK /\ Staged /\ line \in 1..7 /\ Len(Script) = 6 /\ A \in Devices /\ B \in Devices
      /\ A # B /\ Devices = {A, B} /\ C!UpperTypeOK
  BY DevicesAssumption DEF StageInv, TypeOK, Devices, Script
<1>2. ASSUME NEW d \in Devices, StartDevice(d) PROVE StageInv'
  <2>1. /\ sPc' = [sPc EXCEPT ![d] = "poll"] /\ rPc' = [rPc EXCEPT ![d] = "poll"]
        /\ line' = line + 1
        /\ UNCHANGED <<taken, pub, sub, uPc, handed, moved>>
        /\ (d = A /\ line = 1) \/ (d = B /\ line = 2)
    BY <1>1, <1>2, Commands DEF StartDevice, upperVars, TypeOK
  <2>2. TypeOK'
    BY <1>1, <2>1 DEF TypeOK, C!UpperTypeOK
  <2>3. Staged'
    BY <1>1, <2>1 DEF Staged, Off, IsOn, Idle, Ended
  <2> QED
    BY <2>1, <2>2, <2>3 DEF StageInv
<1>3. CASE StartUpper
  <2>1. /\ line = 3 /\ line' = 4
        /\ uPc' = [uPc EXCEPT ![A] = "send"]
        /\ UNCHANGED <<handed, moved, taken, sPc, rPc, pub, sub>>
    BY <1>1, <1>3, Commands DEF StartUpper, C!UpperStart, netVars, TypeOK
  <2>2. TypeOK'
    BY <1>1, <2>1 DEF TypeOK, C!UpperTypeOK
  <2>3. Staged'
    BY <1>1, <2>1 DEF Staged, IsOn, Ended
  <2> QED
    BY <2>1, <2>2, <2>3 DEF StageInv
<1>4. CASE Wait
  <2>1. /\ line' = line + 1
        /\ UNCHANGED <<uPc, handed, moved, taken, sPc, rPc, pub, sub>>
        /\ line = 4 \/ (line = 5 /\ Ended(A)) \/ (line = 6 /\ Ended(B))
    BY <1>1, <1>4, Commands DEF Wait, netVars, upperVars, TypeOK
  <2>2. TypeOK'
    BY <1>1, <2>1 DEF TypeOK, C!UpperTypeOK
  <2>3. Staged'
    BY <1>1, <2>1 DEF Staged, IsOn, Ended
  <2> QED
    BY <2>1, <2>2, <2>3 DEF StageInv
<1> QED
  BY <1>2, <1>3, <1>4 DEF Command

(* The upper layer pushes frames only once it has been started.            *)
LEMMA UpperStage == ASSUME StageInv, Upper \/ Transfer PROVE StageInv'
<1>1. TypeOK /\ Staged /\ line \in 1..7 /\ Len(Script) = 6 /\ A \in Devices
      /\ C!UpperTypeOK /\ taken \in [Devices -> Nat]
  BY DEF StageInv, TypeOK, Devices, Script
<1>2. UNCHANGED <<taken, sPc, rPc, pub, sub, line>>
  BY DEF Upper, Transfer, netVars
<1>3. /\ C!ToPush \in Nat /\ SendHwm \in Nat \ {0} /\ RecvHwm \in Nat \ {0}
      /\ uPc \in [{A} -> {"new", "send", "close", "done"}]
      /\ handed \in [{A} -> 0..C!ToPush] /\ moved \in [{A} -> 0..C!ToPush]
      /\ moved[A] <= handed[A] /\ handed[A] - moved[A] <= SendHwm
      /\ taken[A] \in Nat /\ taken[A] <= moved[A] /\ moved[A] - taken[A] <= RecvHwm
  BY <1>1, PushedFacts, UpperAssumption DEF TypeOK, C!UpperTypeOK
<1>4. uPc[A] # "new"
  BY DEF Upper, Transfer, C!UpperStep, C!Push, C!CloseSocket, C!UpperExit, C!Transfer
<1>5. line > 3
  BY <1>1, <1>4 DEF Staged
<1>6. C!UpperTypeOK' /\ taken[A] <= moved'[A] /\ moved'[A] - taken[A] <= RecvHwm
  <2>1. CASE C!Push(A)
    BY <1>3, <2>1 DEF C!Push, C!MoreToPush, C!CanPush, C!UpperTypeOK
  <2>2. CASE C!CloseSocket(A) \/ C!UpperExit(A)
    BY <1>3, <2>2 DEF C!CloseSocket, C!UpperExit, C!UpperTypeOK
  <2>3. CASE Transfer
    BY <1>3, <2>3 DEF Transfer, C!Transfer, C!Room, C!UpperTypeOK
  <2> QED
    BY <2>1, <2>2, <2>3 DEF Upper, C!UpperStep
<1>7. TypeOK'
  BY <1>1, <1>2, <1>6 DEF TypeOK
<1>8. Staged'
  BY <1>1, <1>2, <1>5 DEF Staged, IsOn, Ended
<1> QED
  BY <1>1, <1>2, <1>7, <1>8 DEF StageInv

(* A step of the network: threads are where they can be, a device that has *)
(* not been started or has ended takes none, and nothing moves before all  *)
(* have been started.                                                      *)
LEMMA SendStage == ASSUME StageInv, NEW d \in Devices, SendTurn(d) PROVE StageInv'
<1>1. TypeOK /\ Staged /\ line \in 1..7 /\ Len(Script) = 6 /\ A \in Devices /\ B \in Devices
      /\ A # B /\ Devices = {A, B} /\ C!UpperTypeOK /\ taken \in [Devices -> Nat] /\ taken[B] = 0
      /\ moved[A] \in Nat /\ RecvHwm \in Nat
  BY DevicesAssumption, PushedFacts, UpperAssumption
  DEF StageInv, TypeOK, Devices, Script, C!UpperTypeOK
<1>2. /\ UNCHANGED <<uPc, handed, moved, line, rPc, sub>>
      /\ sPc[d] \notin {"off", "done"} /\ sPc'[d] # "off" /\ DOMAIN sPc' = Devices
      /\ \A e \in Devices \ {d} : sPc'[e] = sPc[e]
  BY <1>1 DEF SendTurn, upperVars, Net!SendStep, Net!SendQuit, Net!SendTake, Net!WrapPacket,
     Net!SendPublish, Net!SendLog, Net!SendCount, Net!NextTurn,
     Net!recvThread, Staged
<1>3. \/ taken' = taken
      \/ /\ d = A /\ taken' = [taken EXCEPT ![A] = @ + 1] /\ taken'[A] <= moved[A]
         /\ sPc[A] = "poll"
  <2>1. CASE Net!SendTake(d)
    <3>1. taken[d] < Len(Pushed[d]) /\ taken' = [taken EXCEPT ![d] = @ + 1] /\ sPc[d] = "poll"
      BY <2>1 DEF Net!SendTake, Pushed
    <3>2. d # B
      BY <1>1, <3>1, PushedFacts
    <3> QED
      BY <1>1, <3>1, <3>2 DEF SendTurn
  <2>2. CASE ~Net!SendTake(d)
    BY <2>2 DEF SendTurn, Net!SendStep, Net!SendQuit, Net!SendPublish, Net!SendLog, Net!SendCount
  <2> QED
    BY <2>1, <2>2
<1>4. /\ taken' \in [Devices -> Nat] /\ taken'[B] = 0 /\ taken[A] <= taken'[A]
      /\ taken'[A] <= moved[A]
  BY <1>1, <1>3 DEF TypeOK
<1>5. TypeOK'
  BY <1>1, <1>2, <1>4 DEF TypeOK, C!UpperTypeOK
<1>6. ASSUME line <= 2 PROVE Idle(sPc)' /\ pub' = pub
  <2>1. moved[A] = 0 /\ Idle(sPc)
    BY <1>1, <1>6 DEF Staged
  <2>2. taken' = taken
    BY <1>1, <1>3, <2>1
  <2>3. ~Net!SendTake(d)
    BY <1>1, <2>2 DEF Net!SendTake
  <2>4. Net!SendQuit(d)
    BY <2>1, <2>3 DEF SendTurn, Net!SendStep, Net!SendPublish, Net!SendLog,
       Net!SendCount, Idle
  <2> QED
    BY <1>1, <2>1, <2>4 DEF Net!SendQuit, Idle, Staged
<1>7. Staged'
  <2>1. \A e \in Devices : /\ Off(e) => Off(e)'
                           /\ IsOn(e) => IsOn(e)'
                           /\ Ended(e) => Ended(e)'
    BY <1>2 DEF Off, IsOn, Ended
  <2>2. Idle(rPc) => Idle(rPc)'
    BY <1>2 DEF Idle
  <2> QED
    BY <1>1, <1>2, <1>6, <2>1, <2>2 DEF Staged
<1> QED
  BY <1>4, <1>5, <1>7 DEF StageInv

LEMMA RecvStage == ASSUME StageInv, NEW d \in Devices, RecvTurn(d) PROVE StageInv'
<1>1. TypeOK /\ Staged /\ line \in 1..7 /\ A \in Devices /\ B \in Devices
  BY DEF StageInv, TypeOK, Devices, Script
<1>2. /\ UNCHANGED <<uPc, handed, moved, line, taken, sPc>>
      /\ rPc[d] \notin {"off", "done"} /\ rPc'[d] # "off" /\ DOMAIN rPc' = Devices
      /\ \A e \in Devices \ {d} : rPc'[e] = rPc[e]
  BY <1>1 DEF RecvTurn, upperVars, Net!RecvStep, Net!RecvQuit, Net!RecvDisregard,
     Net!RecvUnwrap, Net!RecvNoPair, Net!RecvPublish, Net!RecvLog,
     Net!RecvWork, Net!RecvTurn, Net!NextTurn, Net!sendThread, Staged
<1>3. TypeOK'
  BY <1>1, <1>2 DEF TypeOK, C!UpperTypeOK
<1>4. ASSUME line <= 2 PROVE Idle(rPc)' /\ UNCHANGED <<pub, sub>>
  <2>1. Idle(rPc) /\ sub[d] = <<>>
    BY <1>1, <1>4 DEF Staged
  <2>2. Net!RecvQuit(d)
    BY <2>1, <1>2 DEF RecvTurn, Net!RecvStep, Net!RecvDisregard, Net!RecvUnwrap,
       Net!RecvNoPair, Net!RecvPublish, Net!RecvLog, Net!RecvWork, Idle
  <2> QED
    BY <1>1, <2>1, <2>2 DEF Net!RecvQuit, Idle, Staged
<1>5. Staged'
  <2>1. \A e \in Devices : /\ Off(e) => Off(e)'
                           /\ IsOn(e) => IsOn(e)'
                           /\ Ended(e) => Ended(e)'
    BY <1>2 DEF Off, IsOn, Ended
  <2>2. Idle(sPc) => Idle(sPc)'
    BY <1>2 DEF Idle
  <2> QED
    BY <1>1, <1>2, <1>4, <2>1, <2>2 DEF Staged
<1> QED
  BY <1>2, <1>3, <1>5 DEF StageInv

LEMMA OtherStage ==
  ASSUME StageInv,
         UNCHANGED vars \/ (\E s \in Net!Sockets : Forward(s)) \/ \E d \in Devices : Signal(d)
  PROVE  StageInv'
<1>1. TypeOK /\ Staged
  BY DEF StageInv
<1>2. UNCHANGED <<uPc, handed, moved, line, taken, sPc, rPc>>
  BY DEF vars, netVars, upperVars, Forward, Net!Forward, Signal, Net!HandleSignal,
     Net!sendThread, Net!recvThread
<1>3. line <= 2 => UNCHANGED <<pub, sub>>
  BY <1>1 DEF vars, netVars, Forward, Net!Forward, Signal, Net!HandleSignal, Staged
<1>4. TypeOK'
  BY <1>1, <1>2 DEF TypeOK, C!UpperTypeOK
<1>5. Staged'
  BY <1>1, <1>2, <1>3 DEF Staged, Off, IsOn, Idle, Ended
<1> QED
  BY <1>2, <1>4, <1>5 DEF StageInv

LEMMA NextStage == StageInv /\ [Next]_vars => StageInv'
<1> SUFFICES ASSUME StageInv, [Next]_vars PROVE StageInv'
  OBVIOUS
<1> QED
  BY CommandStage, UpperStage, SendStage, RecvStage, OtherStage DEF Next, Progress

(* Types, and that no queue between the upper layer and the device passes  *)
(* its high-water mark, whatever the sizes of the queues.                  *)
THEOREM QueuesBounded == Spec => []TypeOK
<1>1. StageInv => TypeOK
  BY DEF StageInv
<1> QED
  BY <1>1, InitStage, NextStage, PTL DEF Spec

-----------------------------------------------------------------------------
(* The refinement: starting a device is a stuttering step of the network.  *)
LEMMA InitRunning == Init => Running!Init
BY DEF Init, Net!InitAt, Running!Init, Running!InitAt, Pushed, OnceStarted, Net!Frames,
   Running!Frames, Net!Keys, Running!Keys, Net!PairKeys, Running!PairKeys,
   Net!Sockets, Running!Sockets, Net!NoPacket, Running!NoPacket,
   Net!Packet, Running!Packet, Net!NoKey, Running!NoKey, Net!NoFrame, Running!NoFrame

(* A thread takes the same step in the network.                            *)
LEMMA SendRunning ==
  ASSUME StageInv, NEW d \in Devices, Net!SendStep(d) PROVE Running!SendStep(d)
<1>1. DOMAIN sPc = Devices /\ DOMAIN rPc = Devices /\ IsOn(d)
  BY DEF StageInv, Staged, Devices, Off, IsOn, Net!SendStep, Net!SendQuit, Net!SendTake,
     Net!SendPublish, Net!SendLog, Net!SendCount
<1>2. OnceStarted(sPc)[d] = sPc[d] /\ OnceStarted(rPc)[d] = rPc[d]
  BY <1>1 DEF OnceStarted, IsOn
<1>3. rPc' = rPc => OnceStarted(rPc)' = OnceStarted(rPc)
  BY DEF OnceStarted
<1>4. \A x : x # "off" /\ sPc' = [sPc EXCEPT ![d] = x] =>
               OnceStarted(sPc)' = [OnceStarted(sPc) EXCEPT ![d] = x]
  BY <1>1 DEF OnceStarted
<1>5. Net!NextTurn(d) = Running!NextTurn(d) /\ Net!NextTurn(d) # "off"
  BY DEF Net!NextTurn, Running!NextTurn
<1>6. CASE Net!SendQuit(d)
  BY <1>2, <1>3, <1>4, <1>6 DEF Net!SendQuit, Running!SendQuit, Running!SendStep,
     Net!recvThread, Running!recvThread
<1>7. CASE Net!SendTake(d)
  BY <1>2, <1>3, <1>4, <1>5, <1>7 DEF Net!SendTake, Running!SendTake, Running!SendStep,
     Net!WrapPacket, Running!WrapPacket, Pushed, Net!PairKeys, Running!PairKeys,
     Net!Packet, Running!Packet,
     Net!recvThread, Running!recvThread
<1>8. CASE Net!SendPublish(d)
  BY <1>2, <1>3, <1>4, <1>8 DEF Net!SendPublish, Running!SendPublish, Running!SendStep,
     Net!Publish, Running!Publish, Net!recvThread, Running!recvThread
<1>9. CASE Net!SendLog(d)
  BY <1>2, <1>3, <1>4, <1>9 DEF Net!SendLog, Running!SendLog, Running!SendStep,
     Net!LogKey, Running!LogKey, Net!recvThread, Running!recvThread
<1>11. CASE Net!SendCount(d)
  BY <1>2, <1>3, <1>4, <1>5, <1>11 DEF Net!SendCount, Running!SendCount, Running!SendStep,
     Net!LimitReached, Running!LimitReached, Net!NoPacket, Running!NoPacket,
     Net!Packet, Running!Packet, Net!NoKey, Running!NoKey, Net!NoFrame, Running!NoFrame,
     Net!recvThread, Running!recvThread
<1> QED
  BY <1>6, <1>7, <1>8, <1>9, <1>11 DEF Net!SendStep

LEMMA RecvRunning ==
  ASSUME StageInv, NEW d \in Devices, Net!RecvStep(d) PROVE Running!RecvStep(d)
<1>1. DOMAIN sPc = Devices /\ DOMAIN rPc = Devices /\ IsOn(d)
  BY DEF StageInv, Staged, Devices, Off, IsOn, Net!RecvStep, Net!RecvQuit,
     Net!RecvDisregard, Net!RecvUnwrap, Net!RecvNoPair, Net!RecvPublish, Net!RecvLog, Net!RecvWork
<1>2. OnceStarted(sPc)[d] = sPc[d] /\ OnceStarted(rPc)[d] = rPc[d]
  BY <1>1 DEF OnceStarted, IsOn
<1>3. sPc' = sPc => OnceStarted(sPc)' = OnceStarted(sPc)
  BY DEF OnceStarted
<1>4. \A x : x # "off" /\ rPc' = [rPc EXCEPT ![d] = x] =>
               OnceStarted(rPc)' = [OnceStarted(rPc) EXCEPT ![d] = x]
  BY <1>1 DEF OnceStarted
<1>5. Net!NextTurn(d) = Running!NextTurn(d) /\ Net!NextTurn(d) # "off"
  BY DEF Net!NextTurn, Running!NextTurn
<1>6. ASSUME NEW x, x # "off", Net!RecvTurn(d, x) PROVE Running!RecvTurn(d, x)
  BY <1>2, <1>4, <1>6 DEF Net!RecvTurn, Running!RecvTurn
<1>7. UNCHANGED Net!sendThread => UNCHANGED Running!sendThread
  BY <1>3 DEF Net!sendThread, Running!sendThread
<1>8. \A k : /\ Net!CheckLastSent(d, k) = Running!CheckLastSent(d, k)
             /\ Net!KnowsKey(d, k) <=> Running!KnowsKey(d, k)
  BY DEF Net!CheckLastSent, Running!CheckLastSent, Net!KnowsKey, Running!KnowsKey
<1>9. CASE Net!RecvQuit(d)
  BY <1>2, <1>4, <1>7, <1>9 DEF Net!RecvQuit, Running!RecvQuit, Running!RecvStep
<1>10. CASE Net!RecvDisregard(d)
  BY <1>2, <1>5, <1>6, <1>7, <1>8, <1>10
  DEF Net!RecvDisregard, Running!RecvDisregard, Running!RecvStep
<1>11. CASE Net!RecvUnwrap(d)
  BY <1>2, <1>6, <1>7, <1>8, <1>11 DEF Net!RecvUnwrap, Running!RecvUnwrap,
     Running!RecvStep, Net!IvAfterDecrypt, Running!IvAfterDecrypt
<1>12. CASE Net!RecvNoPair(d)
  BY <1>2, <1>6, <1>7, <1>8, <1>12 DEF Net!RecvNoPair, Running!RecvNoPair,
     Running!RecvStep, Net!CountNoPair, Running!CountNoPair, Net!PseudoKeys,
     Running!PseudoKeys, Net!Packet, Running!Packet, Net!NoFrame, Running!NoFrame
<1>13. CASE Net!RecvPublish(d)
  BY <1>2, <1>4, <1>7, <1>13 DEF Net!RecvPublish, Running!RecvPublish, Running!RecvStep,
     Net!Publish, Running!Publish
<1>14. CASE Net!RecvLog(d)
  BY <1>2, <1>4, <1>7, <1>14 DEF Net!RecvLog, Running!RecvLog, Running!RecvStep,
     Net!LogKey, Running!LogKey, Net!CountNoPair, Running!CountNoPair,
     Net!NoPacket, Running!NoPacket, Net!Packet, Running!Packet, Net!NoKey, Running!NoKey,
     Net!NoFrame, Running!NoFrame
<1>16. CASE Net!RecvWork(d)
  BY <1>2, <1>5, <1>6, <1>7, <1>16 DEF Net!RecvWork, Running!RecvWork, Running!RecvStep,
     Net!LimitReached, Running!LimitReached
<1> QED
  BY <1>9, <1>10, <1>11, <1>12, <1>13, <1>14, <1>16 DEF Net!RecvStep

LEMMA OtherRunning ==
  ASSUME StageInv
  PROVE  /\ \A s \in Net!Sockets : Net!Forward(s) => Running!Forward(s) /\ s \in Running!Sockets
         /\ \A d \in Devices : Net!HandleSignal(d) => Running!HandleSignal(d)
         /\ UNCHANGED netVars => UNCHANGED Running!vars
         /\ \A d \in Devices : StartDevice(d) => UNCHANGED Running!vars
<1>1. sPc' = sPc /\ rPc' = rPc =>
        OnceStarted(sPc)' = OnceStarted(sPc) /\ OnceStarted(rPc)' = OnceStarted(rPc)
  BY DEF OnceStarted
<1>2. Net!Sockets = Running!Sockets
  BY DEF Net!Sockets, Running!Sockets
<1>3. ASSUME NEW s \in Net!Sockets, Net!Forward(s) PROVE Running!Forward(s)
  <2>1. line > 2
    BY <1>3 DEF StageInv, TypeOK, Staged, Net!Forward
  <2>2. ASSUME NEW d \in Devices PROVE Net!Subscribed(d) <=> Running!Subscribed(d)
    <3>1. IsOn(d)
      BY <2>1 DEF StageInv, Staged, TypeOK, Devices
    <3> QED
      BY <3>1 DEF Net!Subscribed, Running!Subscribed, OnceStarted, IsOn
  <2>3. /\ UNCHANGED Net!sendThread => sPc' = sPc
        /\ UNCHANGED Net!recvThread => rPc' = rPc
    BY DEF Net!sendThread, Net!recvThread
  <2> QED
    BY <1>1, <1>3, <2>2, <2>3 DEF Net!Forward, Running!Forward, Net!sendThread,
       Running!sendThread, Net!recvThread, Running!recvThread
<1>4. ASSUME NEW d \in Devices, Net!HandleSignal(d) PROVE Running!HandleSignal(d)
  BY <1>1, <1>4 DEF Net!HandleSignal, Running!HandleSignal, OnceStarted, Net!sendThread,
     Running!sendThread, Net!recvThread, Running!recvThread
<1>5. ASSUME UNCHANGED netVars PROVE UNCHANGED Running!vars
  BY <1>1, <1>5 DEF netVars, Running!vars, Running!sendThread, Running!recvThread
<1>6. ASSUME NEW d \in Devices, StartDevice(d) PROVE UNCHANGED Running!vars
  <2>1. Off(d) /\ DOMAIN sPc = Devices /\ DOMAIN rPc = Devices
    BY <1>6, Commands, DevicesAssumption
    DEF StageInv, Staged, TypeOK, StartDevice, Devices
  <2>2. OnceStarted(sPc)' = OnceStarted(sPc) /\ OnceStarted(rPc)' = OnceStarted(rPc)
    BY <1>6, <2>1 DEF OnceStarted, StartDevice, Off
  <2> QED
    BY <1>6, <2>2 DEF StartDevice, Running!vars, Running!sendThread, Running!recvThread
<1> QED
  BY <1>2, <1>3, <1>4, <1>5, <1>6

LEMMA NextRunning == StageInv /\ [Next]_vars => [Running!Next]_Running!vars
<1> SUFFICES ASSUME StageInv, [Next]_vars PROVE [Running!Next]_Running!vars
  OBVIOUS
<1>1. CASE Command
  <2>1. (\E d \in Devices : StartDevice(d)) \/ UNCHANGED netVars
    BY <1>1 DEF Command, StartUpper, Wait
  <2> QED
    BY <2>1, OtherRunning
<1>2. CASE Upper \/ Transfer \/ UNCHANGED vars
  <2>1. UNCHANGED netVars
    BY <1>2 DEF Upper, Transfer, vars
  <2> QED
    BY <2>1, OtherRunning
<1>3. ASSUME NEW d \in Devices, SendTurn(d) \/ RecvTurn(d) \/ Signal(d) PROVE Running!Next
  <2>1. Running!SendStep(d) \/ Running!RecvStep(d) \/ Running!HandleSignal(d)
    BY <1>3, SendRunning, RecvRunning, OtherRunning DEF SendTurn, RecvTurn, Signal
  <2> QED
    BY <2>1 DEF Running!Next
<1>4. ASSUME NEW s \in Net!Sockets, Forward(s) PROVE Running!Next
  <2>1. Running!Forward(s) /\ s \in Running!Sockets
    BY <1>4, OtherRunning DEF Forward
  <2> QED
    BY <2>1 DEF Running!Next
<1> QED
  BY <1>1, <1>2, <1>3, <1>4 DEF Next, Progress

(* Every behaviour of the experiment is one of the network whose devices   *)
(* have been running from the start: neither the script, nor the upper     *)
(* layer's pace, nor the high-water marks make a device do anything that   *)
(* it does not do there.                                                   *)
THEOREM ImplementsNetwork == Spec => Running!Spec
BY InitRunning, InitStage, NextStage, NextRunning, PTL DEF Spec, Running!Spec

-----------------------------------------------------------------------------
(* What the receiver of an experiment has got.                             *)
LEMMA LeastElement ==
  ASSUME NEW T, T \subseteq Nat, T # {}
  PROVE  \E m \in T : \A k \in T : m <= k
<1> DEFINE Less == OpToRel(<, Nat)
<1>1. \E m \in T : \A k \in T : ~ (<<k, m>> \in Less)
  BY NatLessThanWellFounded, WFMin
<1>2. \A k, m \in Nat : <<k, m>> \in Less <=> k < m
  BY DEF OpToRel
<1> HIDE DEF Less
<1>3. PICK m \in T : \A k \in T : ~ (<<k, m>> \in Less)
  BY <1>1
<1>4. ASSUME NEW k \in T PROVE m <= k
  <2>1. ~(k < m)
    BY <1>2, <1>3
  <2> QED
    BY <2>1
<1> QED
  BY <1>4

(* Numbers in increasing order, from 1 and without a gap, are 1, 2, 3, ... *)
Increasing(num, n) == \A i, j \in 1..n : i < j => num[i] < num[j]
Gapless(num, n) ==
  \A i \in 1..n : \A m \in Nat \ {0} : m < num[i] => \E j \in 1..n : num[j] = m

LEMMA Consecutive ==
  ASSUME NEW n \in Nat, NEW num \in [1..n -> Nat \ {0}],
         Increasing(num, n), Gapless(num, n)
  PROVE  \A i \in 1..n : num[i] = i
<1> USE DEF Increasing, Gapless
<1> DEFINE T == {i \in 1..n : num[i] # i}
<1>1. SUFFICES ASSUME T # {} PROVE FALSE
  OBVIOUS
<1>2. PICK i \in T : \A k \in T : i <= k
  <2>1. T \subseteq Nat
    OBVIOUS
  <2> HIDE DEF T
  <2> QED
    BY <1>1, <2>1, LeastElement
<1>3. i \in 1..n /\ num[i] # i /\ num[i] \in Nat \ {0}
  BY <1>2
<1>4. \A k \in 1..n : k < i => num[k] = k
  BY <1>2
<1>5. CASE num[i] > i
  <2>1. i \in Nat \ {0} /\ i < num[i]
    BY <1>3, <1>5
  <2>2. PICK j \in 1..n : num[j] = i
    BY <1>3, <2>1
  <2>3. j < i
    <3>1. i < j => num[i] < num[j]
      BY <1>3
    <3>2. num[j] \in Nat /\ j # i
      BY <1>3, <2>2
    <3> QED
      BY <1>3, <2>1, <2>2, <3>1, <3>2
  <2> QED
    BY <1>3, <1>4, <2>2, <2>3
<1>6. CASE num[i] < i
  <2> DEFINE k == num[i]
  <2>1. k \in 1..n /\ k < i
    BY <1>3, <1>6
  <2>2. num[k] = k
    BY <1>4, <2>1
  <2>3. num[k] < num[i]
    BY <1>3, <2>1
  <2> QED
    BY <1>3, <2>2, <2>3
<1> QED
  BY <1>3, <1>5, <1>6

(* Only A has frames, and all of them are for B.                           *)
LEMMA FramesOfExperiment ==
  /\ \A f \in Running!Frames : /\ f[1] = A /\ f[2] \in 1..C!ToPush /\ f = <<A, f[2]>>
                               /\ Pushed[f[1]][f[2]] = B
  /\ \A n \in 1..C!ToPush : <<A, n>> \in Running!Frames
<1>1. A \in Devices /\ Len(Pushed[A]) = C!ToPush /\ Len(Pushed[B]) = 0
  BY PushedFacts DEF Devices
<1>2. ASSUME NEW f \in Running!Frames
      PROVE  f[1] = A /\ f[2] \in 1..C!ToPush /\ f = <<A, f[2]>> /\ Pushed[f[1]][f[2]] = B
  <2>1. PICK d \in Devices : f \in {d} \X (1..Len(Pushed[d]))
    BY DEF Running!Frames
  <2>2. d = A
    BY <1>1, <2>1 DEF Devices
  <2> QED
    BY <1>1, <2>1, <2>2, PushedFacts
<1>3. \A n \in 1..C!ToPush : <<A, n>> \in {A} \X (1..Len(Pushed[A]))
  BY <1>1
<1>4. \A n \in 1..C!ToPush : <<A, n>> \in Running!Frames
  BY <1>1, <1>3 DEF Running!Frames
<1> QED
  BY <1>2, <1>4

(* The state of the network that a lossless experiment can be in.          *)
RunningInv == /\ Running!TypeOK /\ Running!CountsAgree /\ Running!ChainInv
              /\ Running!InOrderOnce

LEMMA RunningHolds == Spec => []RunningInv
<1>1. Running!Spec => []Running!ChainInv
  BY Running!InitChain, Running!NextChainInv, NetAssumptions, PTL DEF Running!Spec
<1>2. Running!Spec => []Running!TypeOK
  BY Running!CountersBounded, NetAssumptions
<1>3. Running!Spec => []Running!CountsAgree
  BY Running!CountersAgree, NetAssumptions
<1>4. Running!Spec => []Running!InOrderOnce
  BY Running!StreamsInOrder, NetAssumptions
<1>5. Running!TypeOK /\ Running!CountsAgree /\ Running!ChainInv /\ Running!InOrderOnce
        => RunningInv
  BY DEF RunningInv
<1> QED
  BY <1>1, <1>2, <1>3, <1>4, <1>5, ImplementsNetwork, PTL

(* The frames B has unwrapped are the first ones of A.                     *)
LEMMA FirstFrames ==
  ASSUME RunningInv, ~Lossy, NEW n, n = Len(got[B])
  PROVE  got[B] = [i \in 1..n |-> [frame |-> <<A, i>>, right |-> TRUE]]
<1>1. got[B] \in Seq(Running!Results) /\ B \in Devices
  BY DEF RunningInv, Running!ChainInv, Running!IInv, Running!Shapes, Devices
<1>2. /\ n \in Nat /\ DOMAIN got[B] = 1..n /\ got[B] = [i \in 1..n |-> got[B][i]]
      /\ \A i \in 1..n : got[B][i] \in Running!Results
  BY <1>1, LenProperties, ElementOfSeq
<1>3. \A i \in 1..n :
        /\ got[B][i] \in [frame : Running!Frames, right : BOOLEAN]
        /\ got[B][i].frame \in Running!Frames
        /\ got[B][i].frame = <<A, got[B][i].frame[2]>>
        /\ got[B][i].frame[2] \in 1..C!ToPush
  BY <1>2, FramesOfExperiment DEF Running!Results
<1>4. PICK num : num = [i \in 1..n |-> got[B][i].frame[2]]
  OBVIOUS
<1>5. num \in [1..n -> Nat \ {0}]
  BY <1>3, <1>4, PushedFacts
<1>6. \A i \in 1..n : got[B][i].frame = <<A, num[i]>> /\ num[i] \in 1..C!ToPush
  BY <1>3, <1>4
<1>7. ASSUME NEW i \in 1..n, NEW j \in 1..n, i < j PROVE num[i] < num[j]
  <2>1. got[B][i].frame[1] = got[B][j].frame[1] => got[B][i].frame[2] < got[B][j].frame[2]
    BY <1>1, <1>2, <1>7 DEF RunningInv, Running!InOrderOnce
  <2>2. got[B][i].frame = <<A, num[i]>> /\ got[B][j].frame = <<A, num[j]>>
    BY <1>6
  <2> QED
    BY <2>1, <2>2
<1>8. ASSUME NEW i \in 1..n, NEW m \in Nat \ {0}, m < num[i]
      PROVE  \E j \in 1..n : num[j] = m
  <2>1. PICK g : g = got[B][i].frame
    OBVIOUS
  <2>2. g = <<A, num[i]>> /\ g \in Running!Frames /\ g # Running!NoFrame
    BY <1>3, <1>6, <2>1, DevicesAssumption DEF Running!NoFrame
  <2>3. g \in Running!FramesIn(got[B])
    BY <1>2, <2>1, <2>2 DEF Running!FramesIn
  <2>4. Running!IsWrapped(g)
    BY <1>1, <2>3 DEF RunningInv, Running!ChainInv, Running!Labelled
  <2>5. m \in 1..C!ToPush /\ num[i] \in Nat
    BY <1>6, <1>8, PushedFacts
  <2>6. PICK f : f = <<A, m>>
    OBVIOUS
  <2>7. /\ f \in Running!Frames /\ f[1] = A /\ f[2] = m
        /\ Pushed[A][m] = B /\ Pushed[A][num[i]] = B
    BY <1>6, <2>5, <2>6, PushedFacts, FramesOfExperiment
  <2>8. taken[A] \in Nat
    BY DEF RunningInv, Running!TypeOK, Devices
  <2>9. Running!IsWrapped(f)
    BY <1>8, <2>2, <2>4, <2>5, <2>7, <2>8 DEF Running!IsWrapped
  <2>10. f \in Running!FramesIn(got[B])
    <3>1. f[1] = g[1] /\ f[2] < g[2] /\ Pushed[f[1]][f[2]] = B
      BY <1>8, <2>2, <2>7
    <3> QED
      BY <1>1, <2>3, <2>7, <2>9, <3>1 DEF RunningInv, Running!ChainInv, Running!NoGaps
  <2>11. PICK j \in 1..n : got[B][j].frame = f
    BY <1>2, <2>10 DEF Running!FramesIn
  <2> QED
    BY <1>6, <2>6, <2>11
<1>9. \A i \in 1..n : num[i] = i
  <2>1. Increasing(num, n)
    BY <1>7 DEF Increasing
  <2>2. Gapless(num, n)
    BY <1>8 DEF Gapless
  <2>3. n \in Nat
    BY <1>2
  <2> QED
    BY <1>5, <2>1, <2>2, <2>3, Consecutive
<1>10. \A i \in 1..n : got[B][i].right
  BY <1>1, <1>2 DEF RunningInv, Running!ChainInv, Running!RightIfNothingLost
<1>11. ASSUME NEW i \in 1..n PROVE got[B][i] = [frame |-> <<A, i>>, right |-> TRUE]
  <2>1. got[B][i] \in [frame : Running!Frames, right : BOOLEAN]
    BY <1>3
  <2>2. got[B][i].frame = <<A, i>> /\ got[B][i].right
    BY <1>6, <1>9, <1>10
  <2> QED
    BY <2>1, <2>2
<1>12. [i \in 1..n |-> got[B][i]] = [i \in 1..n |-> [frame |-> <<A, i>>, right |-> TRUE]]
  BY <1>11
<1> QED
  BY <1>2, <1>12, Zenon

(* What the two result files say adds up: the receiver has decrypted the   *)
(* first frames sent, in order and rightly, and lacks exactly as many of   *)
(* them as it has counted packets without a record, for any sizes, any     *)
(* interleaving of the threads and any pace of the upper layer.            *)
THEOREM ResultsOfExperiment == Spec => []ResultsAddUp
<1>1. StageInv /\ RunningInv => ResultsAddUp
  <2> SUFFICES ASSUME StageInv, RunningInv, ~Lossy, Finished, recv[B] = TotalToEnd
               PROVE  got[B] = [i \in 1..(TotalToEnd - noPair[B]) |->
                                  [frame |-> <<A, i>>, right |-> TRUE]]
    BY DEF ResultsAddUp
  <2>1. B \in Devices /\ rPc[B] = "done" /\ DOMAIN rPc = Devices
    BY DEF Finished, StageInv, Staged, TypeOK, Ended, Devices, Script
  <2>2. OnceStarted(rPc)[B] = "done"
    BY <2>1 DEF OnceStarted
  <2>3. recv[B] = Len(got[B]) + noPair[B] /\ noPair[B] \in Nat
    BY <2>1, <2>2 DEF RunningInv, Running!CountsAgree, Running!ChainInv, Running!IInv,
       Running!Shapes
  <2>4. TotalToEnd - noPair[B] = Len(got[B])
    <3>1. Len(got[B]) \in Nat /\ TotalToEnd \in Nat
      BY <2>1, LenProperties, SizeAssumption
      DEF RunningInv, Running!ChainInv, Running!IInv, Running!Shapes
    <3> QED
      BY <2>3, <3>1
  <2> QED
    BY <2>4, FirstFrames
<1> QED
  BY <1>1, InitStage, NextStage, RunningHolds, PTL DEF Spec
=============================================================================
