-------------------------- MODULE ALNetworkProofs --------------------------
(***************************************************************************)
(* Proofs about ALNetwork, for any devices, pairing records, streams of    *)
(* frames and sizes, on a broadcast with or without losses.                *)
(***************************************************************************)
EXTENDS ALNetwork, SequenceTheorems, TLAPS

-----------------------------------------------------------------------------
(* Queues.                                                                 *)
LEMMA FramesOfAppend ==
  ASSUME NEW S, NEW q \in Seq(S), NEW p \in S
  PROVE  FramesIn(Append(q, p)) = FramesIn(q) \cup ({p.frame} \ {NoFrame})
<1>1. /\ DOMAIN Append(q, p) = 1..(Len(q) + 1) /\ DOMAIN q = 1..Len(q)
      /\ Len(q) \in Nat
      /\ \A i \in 1..Len(q) : Append(q, p)[i] = q[i]
      /\ Append(q, p)[Len(q) + 1] = p
  BY AppendProperties
<1>2. ASSUME NEW f \in FramesIn(Append(q, p))
      PROVE  f \in FramesIn(q) \cup ({p.frame} \ {NoFrame})
  BY <1>1 DEF FramesIn
<1>3. ASSUME NEW f \in FramesIn(q) PROVE f \in FramesIn(Append(q, p))
  <2>1. PICK i \in 1..Len(q) : f = q[i].frame /\ f # NoFrame
    BY <1>1 DEF FramesIn
  <2>2. i \in DOMAIN Append(q, p) /\ Append(q, p)[i].frame = f
    BY <1>1, <2>1
  <2> QED
    BY <2>1, <2>2 DEF FramesIn
<1>4. p.frame # NoFrame => p.frame \in FramesIn(Append(q, p))
  <2>1. Len(q) + 1 \in DOMAIN Append(q, p)
    BY <1>1
  <2> QED
    BY <1>1, <2>1 DEF FramesIn
<1> QED
  BY <1>2, <1>3, <1>4

LEMMA FramesOfTail ==
  ASSUME NEW S, NEW q \in Seq(S), q # <<>>
  PROVE  /\ FramesIn(Tail(q)) \subseteq FramesIn(q)
         /\ Head(q).frame \in FramesIn(q) \cup {NoFrame}
         /\ Head(q) \in S /\ Tail(q) \in Seq(S)
<1>1. /\ DOMAIN Tail(q) = 1..(Len(q) - 1) /\ DOMAIN q = 1..Len(q)
      /\ Len(q) \in Nat \ {0} /\ Head(q) = q[1]
      /\ \A i \in 1..(Len(q) - 1) : Tail(q)[i] = q[i + 1]
      /\ Head(q) \in S /\ Tail(q) \in Seq(S)
  BY HeadTailProperties, EmptySeq
<1>2. ASSUME NEW f \in FramesIn(Tail(q)) PROVE f \in FramesIn(q)
  <2>1. PICK i \in 1..(Len(q) - 1) : f = Tail(q)[i].frame /\ f # NoFrame
    BY <1>1 DEF FramesIn
  <2>2. i + 1 \in DOMAIN q /\ q[i + 1].frame = f
    BY <1>1, <2>1
  <2> QED
    BY <2>1, <2>2 DEF FramesIn
<1>3. 1 \in DOMAIN q
  BY <1>1
<1> QED
  BY <1>1, <1>2, <1>3 DEF FramesIn

LEMMA SortedAppend ==
  ASSUME NEW S, NEW q \in Seq(S), NEW p \in S, Sorted(q),
         \A f \in FramesIn(q) : f[1] = p.frame[1] => f[2] < p.frame[2]
  PROVE  Sorted(Append(q, p))
<1>1. /\ DOMAIN Append(q, p) = 1..(Len(q) + 1) /\ DOMAIN q = 1..Len(q)
      /\ Len(q) \in Nat
      /\ \A i \in 1..Len(q) : Append(q, p)[i] = q[i]
      /\ Append(q, p)[Len(q) + 1] = p
  BY AppendProperties
<1>2. SUFFICES ASSUME NEW i \in 1..(Len(q) + 1), NEW j \in 1..(Len(q) + 1), i < j,
                      Append(q, p)[i].frame # NoFrame,
                      Append(q, p)[i].frame[1] = Append(q, p)[j].frame[1]
               PROVE  Append(q, p)[i].frame[2] < Append(q, p)[j].frame[2]
  BY <1>1 DEF Sorted
<1>3. i \in 1..Len(q) /\ Append(q, p)[i] = q[i] /\ q[i].frame \in FramesIn(q)
  BY <1>1, <1>2 DEF FramesIn
<1>4. CASE j = Len(q) + 1
  BY <1>1, <1>2, <1>3, <1>4
<1>5. CASE j \in 1..Len(q)
  BY <1>1, <1>2, <1>3, <1>5 DEF Sorted
<1> QED
  BY <1>1, <1>4, <1>5

LEMMA SortedTail ==
  ASSUME NEW S, NEW q \in Seq(S), q # <<>>, Sorted(q)
  PROVE  /\ Sorted(Tail(q))
         /\ Head(q).frame # NoFrame =>
              \A f \in FramesIn(Tail(q)) :
                Head(q).frame[1] = f[1] => Head(q).frame[2] < f[2]
<1>1. /\ DOMAIN Tail(q) = 1..(Len(q) - 1) /\ DOMAIN q = 1..Len(q)
      /\ Len(q) \in Nat \ {0} /\ Head(q) = q[1]
      /\ \A i \in 1..(Len(q) - 1) : Tail(q)[i] = q[i + 1]
  BY HeadTailProperties, EmptySeq
<1>2. Sorted(Tail(q))
  <2> SUFFICES ASSUME NEW i \in 1..(Len(q) - 1), NEW j \in 1..(Len(q) - 1), i < j,
                      Tail(q)[i].frame # NoFrame,
                      Tail(q)[i].frame[1] = Tail(q)[j].frame[1]
               PROVE  Tail(q)[i].frame[2] < Tail(q)[j].frame[2]
    BY <1>1 DEF Sorted
  <2>1. i + 1 \in DOMAIN q /\ j + 1 \in DOMAIN q /\ i + 1 < j + 1
    BY <1>1
  <2> QED
    BY <1>1, <2>1 DEF Sorted
<1>3. ASSUME Head(q).frame # NoFrame, NEW f \in FramesIn(Tail(q)),
             Head(q).frame[1] = f[1]
      PROVE  Head(q).frame[2] < f[2]
  <2>1. PICK i \in 1..(Len(q) - 1) : f = Tail(q)[i].frame
    BY <1>1 DEF FramesIn
  <2>2. 1 \in DOMAIN q /\ i + 1 \in DOMAIN q /\ 1 < i + 1 /\ q[i + 1].frame = f
    BY <1>1, <2>1
  <2> QED
    BY <1>1, <1>3, <2>2 DEF Sorted
<1> QED
  BY <1>2, <1>3

-----------------------------------------------------------------------------
(* Frames, devices and packets.                                            *)
LEMMA FrameOf ==
  /\ \A f \in Frames : /\ f[1] \in Devices /\ f[1] \in Nat \ {0}
                       /\ f[2] \in 1..Len(Upper[f[1]]) /\ f[2] \in Nat \ {0}
                       /\ f # NoFrame
  /\ \A d \in Devices : \A n \in 1..Len(Upper[d]) : <<d, n>> \in Frames
  /\ \A d \in Devices : d \in Nat /\ d # 0 /\ Len(Upper[d]) \in Nat
  /\ Sockets = Devices \X {"send", "recv"}
<1>1. \A d \in Devices : d \in Nat /\ d # 0 /\ Len(Upper[d]) \in Nat
  BY DeviceAssumption, UpperAssumption, LenProperties
<1>2. ASSUME NEW f \in Frames
      PROVE  /\ f[1] \in Devices /\ f[1] \in Nat \ {0}
             /\ f[2] \in 1..Len(Upper[f[1]]) /\ f[2] \in Nat \ {0} /\ f # NoFrame
  <2>1. PICK d \in Devices : f \in {d} \X (1..Len(Upper[d]))
    BY DEF Frames
  <2>2. f[1] = d /\ f[2] \in 1..Len(Upper[d])
    BY <2>1
  <2> QED
    BY <1>1, <2>2 DEF NoFrame
<1>3. ASSUME NEW d \in Devices, NEW n \in 1..Len(Upper[d]) PROVE <<d, n>> \in Frames
  BY DEF Frames
<1> QED
  BY <1>1, <1>2, <1>3 DEF Sockets

(* The packet that is published of a frame, and a pseudo response.         *)
LEMMA WrappedPacket ==
  ASSUME NEW d \in Devices, NEW n \in 1..Len(Upper[d]), NEW k \in PairKeys(d, Upper[d][n])
  PROVE  /\ Packet(k, <<d, n>>, d) \in WirePackets
         /\ Packet(k, <<d, n>>, d).frame = <<d, n>>
<1>1. Upper[d][n] \in Devices /\ <<d, n>> \in Frames /\ <<d, n>> # NoFrame
  BY FrameOf, UpperAssumption, ElementOfSeq
<1>2. PICK m \in 1..NumKeys : k = <<d, Upper[d][n], m>>
  BY DEF PairKeys
<1>3. k \in Nat \X Nat \X Nat /\ k[1] = d /\ k[2] = Upper[d][n]
  BY <1>1, <1>2, DeviceAssumption, SizeAssumption, SMTT(30)
<1> QED
  BY <1>1, <1>3 DEF WirePackets, Packet

LEMMA PseudoPacket ==
  ASSUME NEW d \in Devices, NEW k \in PseudoKeys(d)
  PROVE  /\ Packet(k, NoFrame, d) \in WirePackets
         /\ Packet(k, NoFrame, d) # NoPacket /\ Packet(k, NoFrame, d).frame = NoFrame
<1>1. PICK m \in 1..NumKeys : k = <<0, Seed[d], m>>
  BY DEF PseudoKeys
<1>2. k \in Nat \X Nat \X Nat /\ k[1] = 0
  BY <1>1, SizeAssumption
<1>3. d # 0
  BY DeviceAssumption
<1> QED
  BY <1>2, <1>3 DEF WirePackets, Packet, NoPacket

(* A packet under a key of d's records carries a frame addressed to d.     *)
LEMMA KnownPacket ==
  ASSUME NEW d \in Devices, NEW p \in WirePackets, KnowsKey(d, p.tkey)
  PROVE  p.frame \in Frames /\ Upper[p.frame[1]][p.frame[2]] = d
BY PairAssumption, DeviceAssumption DEF KnowsKey, WirePackets

-----------------------------------------------------------------------------
(* Types, and what is in the queues.                                       *)
LEMMA InitTypes == Init => TypeOK /\ Shapes
<1> SUFFICES ASSUME Init PROVE TypeOK /\ Shapes
  OBVIOUS
<1>1. TypeOK
  BY SizeAssumption, FrameOf DEF Init, InitAt, TypeOK
<1>2. Shapes
  BY DEF Init, InitAt, Shapes
<1> QED
  BY <1>1, <1>2

LEMMA SendTypes ==
  ASSUME IInv, NEW d \in Devices, SendStep(d)
  PROVE  TypeOK' /\ Shapes'
<1> USE DEF sendThread, recvThread
<1>1. TypeOK /\ Shapes /\ Counting(d)
  BY DEF IInv
<1>2. d # 0 /\ Len(Upper[d]) \in Nat /\ TotalToEnd \in Nat \ {0}
  BY FrameOf, SizeAssumption
<1>3. CASE SendQuit(d)
  BY <1>1, <1>3 DEF TypeOK, Shapes, SendQuit
<1>4. CASE SendTake(d)
  <2> DEFINE n == taken[d] + 1
             dst == Upper[d][n]
  <2>1. n \in 1..Len(Upper[d])
    BY <1>1, <1>2, <1>4 DEF SendTake, TypeOK
  <2>2. <<d, n>> \in Frames
    BY <2>1, FrameOf
  <2>3. taken' \in [Devices -> Nat] /\ \A e \in Devices : taken'[e] <= Len(Upper[e])
    <3>1. taken' = [taken EXCEPT ![d] = n] /\ n \in Nat /\ n <= Len(Upper[d])
      BY <1>1, <1>2, <1>4, <2>1 DEF TypeOK, SendTake
    <3> QED
      BY <1>1, <3>1 DEF TypeOK
  <2>4. UNCHANGED <<rPc, stop, sent, recv, rxIv>>
    BY <1>4 DEF SendTake
  <2>5. CASE dst \notin PairedWith[d] /\ sPc' = [sPc EXCEPT ![d] = NextTurn(d)]
             /\ UNCHANGED <<sPkt, txIv, under>>
    <3>1. sPc' \in [Devices -> {"off", "poll", "publish", "log", "count", "done"}]
      BY <1>1, <2>5 DEF TypeOK, NextTurn
    <3>2. TypeOK'
      BY <1>1, <2>3, <2>4, <2>5, <3>1 DEF TypeOK
    <3>3. Shapes'
      BY <1>1, <1>4, <2>5 DEF TypeOK, Shapes, SendTake, NextTurn
    <3> QED
      BY <3>2, <3>3
  <2>6. ASSUME NEW k \in PairKeys(d, dst), txIv' = [txIv EXCEPT ![k] = <<d, n>>],
               sPkt' = [sPkt EXCEPT ![d] = Packet(k, <<d, n>>, d)],
               sPc' = [sPc EXCEPT ![d] = "publish"]
        PROVE  TypeOK' /\ Shapes'
    <3>1. Packet(k, <<d, n>>, d) \in WirePackets /\ Packet(k, <<d, n>>, d).frame = <<d, n>>
      BY <2>1, WrappedPacket
    <3>2. TypeOK'
      BY <1>1, <2>2, <2>3, <2>4, <2>6 DEF TypeOK
    <3>3. Shapes'
      BY <1>1, <1>4, <2>1, <2>6, <3>1 DEF TypeOK, Shapes, SendTake
    <3> QED
      BY <3>2, <3>3
  <2> QED
    BY <1>4, <2>5, <2>6 DEF SendTake, WrapPacket
<1>5. CASE SendPublish(d)
  <2>1. sPkt[d] \in WirePackets
    BY <1>1, <1>2, <1>5 DEF Shapes, SendPublish, NoPacket, Packet, NoFrame
  <2>2. <<d, "send">> \in Sockets
    BY DEF Sockets
  <2>3. pub' \in [Sockets -> Seq(WirePackets)]
    BY <1>1, <1>5, <2>1, <2>2, AppendProperties DEF Shapes, SendPublish, Publish
  <2> QED
    BY <1>1, <1>5, <2>3 DEF TypeOK, Shapes, SendPublish
<1>6. CASE SendLog(d)
  BY <1>1, <1>6 DEF TypeOK, Shapes, SendLog, LogKey
<1>8. CASE SendCount(d)
  <2>1. sent'[d] \in 0..TotalToEnd
    BY <1>1, <1>2, <1>8 DEF TypeOK, SendCount, Counting
  <2>2. TypeOK'
    BY <1>1, <1>8, <2>1 DEF TypeOK, SendCount, NextTurn
  <2>3. Shapes'
    BY <1>1, <1>8, SMTT(30) DEF TypeOK, Shapes, SendCount, NextTurn
  <2> QED
    BY <2>2, <2>3
<1> QED
  BY <1>3, <1>4, <1>5, <1>6, <1>8 DEF SendStep

LEMMA RecvTypes ==
  ASSUME IInv, NEW d \in Devices, RecvStep(d)
  PROVE  TypeOK' /\ Shapes'
<1> USE DEF sendThread, recvThread
<1>1. TypeOK /\ Shapes /\ Counting(d)
  BY DEF IInv
<1>2. TotalToEnd \in Nat \ {0}
  BY SizeAssumption
<1>3. ASSUME sub[d] # <<>>
      PROVE  /\ Head(sub[d]) \in WirePackets
             /\ [sub EXCEPT ![d] = Tail(@)] \in [Devices -> Seq(WirePackets)]
  <2>1. Head(sub[d]) \in WirePackets /\ Tail(sub[d]) \in Seq(WirePackets)
    BY <1>1, <1>3, FramesOfTail DEF Shapes
  <2> QED
    BY <1>1, <2>1 DEF Shapes
<1>4. CASE RecvQuit(d)
  BY <1>1, <1>4 DEF TypeOK, Shapes, RecvQuit
<1>5. CASE RecvDisregard(d)
  <2>1. sub' \in [Devices -> Seq(WirePackets)]
    BY <1>3, <1>5 DEF RecvDisregard, RecvTurn
  <2>2. TypeOK'
    BY <1>1, <1>5 DEF TypeOK, RecvDisregard, RecvTurn, NextTurn
  <2>3. Shapes'
    BY <1>1, <1>5, <2>1 DEF TypeOK, Shapes, RecvDisregard, RecvTurn, NextTurn
  <2> QED
    BY <2>2, <2>3
<1>6. CASE RecvUnwrap(d)
  <2> DEFINE p == Head(sub[d])
             r == [frame |-> p.frame, right |-> rxIv[p.tkey] = under[p.frame].iv]
  <2>1. p \in WirePackets /\ KnowsKey(d, p.tkey)
        /\ sub' \in [Devices -> Seq(WirePackets)]
    BY <1>3, <1>6 DEF RecvUnwrap, RecvTurn
  <2>2. p.frame \in Frames /\ Upper[p.frame[1]][p.frame[2]] = d
    BY <2>1, KnownPacket
  <2>3. got' = [got EXCEPT ![d] = Append(@, r)] /\ r \in Results /\ r.frame = p.frame
    BY <1>6, <2>2 DEF RecvUnwrap, Results
  <2>9. rxIv' = [rxIv EXCEPT ![p.tkey] = p.frame]
    BY <1>6 DEF RecvUnwrap, IvAfterDecrypt
  <2> HIDE DEF p, r
  <2>4. got' \in [Devices -> Seq(Results)]
        /\ \A e \in Devices : \A i \in DOMAIN got'[e] :
             Upper[got'[e][i].frame[1]][got'[e][i].frame[2]] = e
    <3>1. got[d] \in Seq(Results)
      BY <1>1 DEF Shapes
    <3>2. /\ Append(got[d], r) \in Seq(Results)
          /\ DOMAIN Append(got[d], r) = 1..(Len(got[d]) + 1)
          /\ DOMAIN got[d] = 1..Len(got[d]) /\ Len(got[d]) \in Nat
          /\ \A i \in 1..Len(got[d]) : Append(got[d], r)[i] = got[d][i]
          /\ Append(got[d], r)[Len(got[d]) + 1] = r
      BY <2>3, <3>1, AppendProperties
    <3>3. ASSUME NEW i \in DOMAIN Append(got[d], r)
          PROVE  LET f == Append(got[d], r)[i].frame IN Upper[f[1]][f[2]] = d
      <4>1. CASE i = Len(got[d]) + 1
        BY <2>2, <2>3, <3>2, <4>1
      <4>2. CASE i \in 1..Len(got[d])
        <5>1. Append(got[d], r)[i] = got[d][i] /\ i \in DOMAIN got[d]
          BY <3>2, <4>2
        <5>2. Upper[got[d][i].frame[1]][got[d][i].frame[2]] = d
          BY <1>1, <5>1 DEF Shapes
        <5> QED
          BY <5>1, <5>2
      <4>3. i \in 1..(Len(got[d]) + 1) /\ Len(got[d]) \in Nat
        BY <3>2
      <4>4. i = Len(got[d]) + 1 \/ i \in 1..Len(got[d])
        BY <4>3
      <4> QED
        BY <4>1, <4>2, <4>4
    <3>4. got'[d] = Append(got[d], r) /\ \A e \in Devices \ {d} : got'[e] = got[e]
      BY <1>1, <2>3 DEF Shapes
    <3>5. got' \in [Devices -> Seq(Results)]
      BY <1>1, <2>3, <3>2 DEF Shapes
    <3>6. ASSUME NEW e \in Devices, NEW i \in DOMAIN got'[e]
          PROVE  Upper[got'[e][i].frame[1]][got'[e][i].frame[2]] = e
      <4>1. CASE e = d
        BY <3>3, <3>4, <3>6, <4>1
      <4>2. CASE e # d
        BY <1>1, <3>4, <3>6, <4>2, SMTT(30) DEF Shapes
      <4> QED
        BY <4>1, <4>2
    <3> QED
      BY <3>5, <3>6
  <2>5. rxIv' \in [Keys -> Frames \cup {NoFrame}]
    BY <1>1, <2>2, <2>9 DEF TypeOK
  <2>6. rPc' = [rPc EXCEPT ![d] = "work"]
        /\ UNCHANGED <<sendThread, rPkt, recv, noPair, pseudo, logged, pub, stop>>
    BY <1>6 DEF RecvUnwrap, RecvTurn
  <2>7. TypeOK'
    BY <1>1, <2>5, <2>6 DEF TypeOK
  <2>8. Shapes'
    BY <1>1, <2>1, <2>4, <2>6 DEF TypeOK, Shapes
  <2> QED
    BY <2>7, <2>8
<1>7. CASE RecvNoPair(d)
  <2>1. /\ sub' \in [Devices -> Seq(WirePackets)]
        /\ UNCHANGED <<sendThread, rxIv, recv, pseudo, got, logged, pub, stop>>
    BY <1>3, <1>7 DEF RecvNoPair, RecvTurn
  <2>2. ASSUME NEW k \in PseudoKeys(d), rPkt' = [rPkt EXCEPT ![d] = Packet(k, NoFrame, d)],
               rPc' = [rPc EXCEPT ![d] = "publish"], UNCHANGED noPair
        PROVE  TypeOK' /\ Shapes'
    <3>1. /\ Packet(k, NoFrame, d) \in WirePackets
          /\ Packet(k, NoFrame, d) # NoPacket /\ Packet(k, NoFrame, d).frame = NoFrame
      BY PseudoPacket
    <3>2. TypeOK'
      BY <1>1, <2>1, <2>2 DEF TypeOK
    <3>3. Shapes'
      BY <1>1, <2>1, <2>2, <3>1 DEF TypeOK, Shapes
    <3> QED
      BY <3>2, <3>3
  <2>3. CASE /\ noPair' = [noPair EXCEPT ![d] = @ + 1]
             /\ rPc' = [rPc EXCEPT ![d] = "work"] /\ UNCHANGED rPkt
    <3>1. TypeOK'
      BY <1>1, <2>1, <2>3 DEF TypeOK
    <3>2. noPair' \in [Devices -> Nat]
      BY <1>1, <2>3 DEF Shapes
    <3>3. Shapes'
      BY <1>1, <2>1, <2>3, <3>2 DEF TypeOK, Shapes
    <3> QED
      BY <3>1, <3>3
  <2> QED
    BY <1>7, <2>2, <2>3 DEF RecvNoPair, RecvTurn, CountNoPair
<1>8. CASE RecvPublish(d)
  <2>1. rPkt[d] \in WirePackets /\ <<d, "recv">> \in Sockets
    BY <1>1, <1>8 DEF Shapes, RecvPublish, Sockets
  <2>2. pub' \in [Sockets -> Seq(WirePackets)]
    BY <1>1, <1>8, <2>1, AppendProperties DEF Shapes, RecvPublish, Publish
  <2> QED
    BY <1>1, <1>8, <2>2 DEF TypeOK, Shapes, RecvPublish
<1>9. CASE RecvLog(d)
  <2>1. TypeOK'
    BY <1>1, <1>9 DEF TypeOK, RecvLog
  <2>2. noPair' \in [Devices -> Nat] /\ pseudo' \in [Devices -> Nat]
    BY <1>1, <1>9 DEF Shapes, RecvLog, CountNoPair
  <2>3. rPkt' \in [Devices -> WirePackets \cup {NoPacket}]
        /\ \A e \in Devices : rPc'[e] = "publish" => rPc[e] = "publish" /\ rPkt'[e] = rPkt[e]
    BY <1>1, <1>9 DEF Shapes, TypeOK, RecvLog
  <2>4. Shapes'
    BY <1>1, <1>9, <2>2, <2>3 DEF Shapes, RecvLog, LogKey
  <2> QED
    BY <2>1, <2>4
<1>11. CASE RecvWork(d)
  <2>1. recv'[d] \in 0..TotalToEnd /\ sub' = sub
    BY <1>1, <1>2, <1>11 DEF TypeOK, RecvWork, RecvTurn, Counting
  <2>2. TypeOK'
    BY <1>1, <1>11, <2>1 DEF TypeOK, RecvWork, RecvTurn, NextTurn
  <2>3. \A e \in Devices : rPc'[e] = "publish" => rPc[e] = "publish"
    BY <1>1, <1>11 DEF TypeOK, RecvWork, RecvTurn, NextTurn
  <2>4. Shapes'
    BY <1>1, <1>11, <2>1, <2>3 DEF Shapes, RecvWork
  <2> QED
    BY <2>2, <2>4
<1> QED
  BY <1>4, <1>5, <1>6, <1>7, <1>8, <1>9, <1>11 DEF RecvStep

LEMMA ForwardTypes ==
  ASSUME IInv, NEW s \in Sockets, Forward(s)
  PROVE  TypeOK' /\ Shapes'
<1> USE DEF sendThread, recvThread
<1>1. TypeOK /\ Shapes
  BY DEF IInv
<1>2. Head(pub[s]) \in WirePackets /\ Tail(pub[s]) \in Seq(WirePackets)
  BY <1>1, FramesOfTail DEF Shapes, Forward
<1>3. PICK reached \in SUBSET Devices :
        sub' = [d \in Devices |-> IF d \in reached /\ Subscribed(d)
                                  THEN Append(sub[d], Head(pub[s])) ELSE sub[d]]
  BY DEF Forward
<1>4. \A d \in Devices : Append(sub[d], Head(pub[s])) \in Seq(WirePackets)
  BY <1>1, <1>2, AppendProperties DEF Shapes
<1>5. sub' \in [Devices -> Seq(WirePackets)]
  BY <1>1, <1>3, <1>4 DEF Shapes
<1>6. pub' \in [Sockets -> Seq(WirePackets)]
  BY <1>1, <1>2 DEF Shapes, Forward
<1>7. TypeOK'
  BY <1>1 DEF TypeOK, Forward
<1>8. Shapes'
  BY <1>1, <1>5, <1>6 DEF Shapes, Forward
<1> QED
  BY <1>7, <1>8

(* handle_signal changes stop alone.                                       *)
LEMMA SignalTypes ==
  ASSUME IInv, NEW d \in Devices, HandleSignal(d)
  PROVE  TypeOK' /\ Shapes'
BY DEF IInv, TypeOK, Shapes, HandleSignal, sendThread, recvThread

LEMMA TypesKept == ASSUME IInv, [Next]_vars PROVE TypeOK' /\ Shapes'
<1>1. CASE UNCHANGED vars
  BY <1>1 DEF IInv, TypeOK, Shapes, vars, sendThread, recvThread
<1> QED
  BY <1>1, SendTypes, RecvTypes, ForwardTypes, SignalTypes DEF Next

-----------------------------------------------------------------------------
(* The counters.                                                           *)
LEMMA InitCounting == Init => \A d \in Devices : Counting(d)
BY SizeAssumption, LenProperties DEF Init, InitAt, Counting

LEMMA SameCounting ==
  ASSUME NEW d \in Devices, Counting(d), sPc'[d] # "done" => sPc[d] # "done",
         rPc'[d] = rPc[d], sent'[d] = sent[d], recv'[d] = recv[d],
         got'[d] = got[d], noPair'[d] = noPair[d], pseudo'[d] = pseudo[d]
  PROVE  Counting(d)'
BY DEF Counting

LEMMA SendCounting ==
  ASSUME IInv, NEW d \in Devices, SendStep(d), NEW e \in Devices
  PROVE  Counting(e)'
<1> USE DEF sendThread, recvThread
<1>1. TypeOK /\ Counting(e)
  BY DEF IInv
<1>2. CASE SendCount(d)
  <2>1. /\ sent' = [sent EXCEPT ![d] = @ + 1]
        /\ sPc'[d] # "done" => sent'[d] # TotalToEnd
        /\ \A b \in Devices \ {d} : sPc'[b] = sPc[b] /\ sent'[b] = sent[b]
        /\ UNCHANGED recvThread
    BY <1>1, <1>2 DEF SendCount, LimitReached, TypeOK
  <2>2. sPc[d] # "done" /\ sent[d] \in 0..TotalToEnd /\ TotalToEnd \in Nat
    BY <1>1, <1>2, SizeAssumption DEF SendCount, TypeOK
  <2>3. CASE e = d
    <3>1. sent'[d] = sent[d] + 1
      BY <1>1, <2>1 DEF TypeOK
    <3>2. sPc'[d] # "done" => sent'[d] < TotalToEnd
      BY <1>1, <2>1, <2>2, <2>3, <3>1 DEF Counting
    <3> QED
      BY <1>1, <2>1, <2>3, <3>2 DEF Counting
  <2>4. CASE e # d
    BY <1>1, <2>1, <2>4 DEF Counting
  <2> QED
    BY <2>3, <2>4
<1>3. ASSUME ~SendCount(d) PROVE sent' = sent /\ UNCHANGED recvThread
  BY <1>3 DEF SendStep, SendQuit, SendTake, SendPublish, SendLog
<1>4. ASSUME ~SendCount(d) PROVE sPc[e] = "done" => sPc'[e] = "done"
  BY <1>1, <1>4 DEF SendStep, SendQuit, SendTake, WrapPacket, SendPublish, SendLog, TypeOK
<1> QED
  BY <1>1, <1>2, <1>3, <1>4, SameCounting

LEMMA RecvCounting ==
  ASSUME IInv, NEW d \in Devices, RecvStep(d), NEW e \in Devices
  PROVE  Counting(e)'
<1> USE DEF sendThread, recvThread
<1>1. TypeOK /\ Shapes /\ Counting(e) /\ Counting(d)
  BY DEF IInv
<1>2. /\ TotalToEnd \in Nat /\ recv[d] \in Nat /\ noPair[d] \in Nat /\ pseudo[d] \in Nat
      /\ Len(got[d]) \in Nat /\ got[d] \in Seq(Results)
  BY <1>1, SizeAssumption, LenProperties DEF TypeOK, Shapes
<1>3. CASE e # d
  BY <1>1, <1>3, SameCounting
     DEF RecvStep, RecvQuit, RecvDisregard, RecvUnwrap, RecvNoPair, RecvPublish, RecvLog, RecvWork, RecvTurn, CountNoPair, TypeOK, Shapes
<1>4. CASE e = d
  <2>1. CASE RecvQuit(d)
    BY <1>1, <2>1, <1>4 DEF RecvQuit, Counting, TypeOK
  <2>2. CASE RecvDisregard(d)
    BY <1>1, <2>2, <1>4 DEF RecvDisregard, RecvTurn, NextTurn, Counting, TypeOK
  <2>3. CASE RecvUnwrap(d)
    <3>1. /\ rPc[d] = "poll" /\ rPc'[d] = "work"
          /\ \E r : got'[d] = Append(got[d], r) /\ Len(Append(got[d], r)) = Len(got[d]) + 1
          /\ UNCHANGED <<sendThread, recv, noPair, pseudo>>
      <4>1. KnowsKey(d, Head(sub[d]).tkey) /\ Head(sub[d]) \in WirePackets
        BY <1>1, <2>3, FramesOfTail DEF RecvUnwrap, Shapes
      <4> DEFINE r == [frame |-> Head(sub[d]).frame,
                       right |-> rxIv[Head(sub[d]).tkey] = under[Head(sub[d]).frame].iv]
      <4>2. r \in Results
        BY <4>1, KnownPacket DEF Results
      <4>3. got'[d] = Append(got[d], r)
        BY <1>1, <2>3 DEF RecvUnwrap, Shapes
      <4>4. rPc[d] = "poll" /\ rPc'[d] = "work" /\ UNCHANGED <<sendThread, recv, noPair, pseudo>>
        BY <1>1, <2>3 DEF RecvUnwrap, RecvTurn, TypeOK
      <4> HIDE DEF r
      <4>5. Len(Append(got[d], r)) = Len(got[d]) + 1
        BY <1>2, <4>2, AppendProperties
      <4> QED
        BY <4>3, <4>4, <4>5
    <3> QED
      BY <1>1, <1>2, <1>4, <3>1 DEF Counting
  <2>4. CASE RecvNoPair(d)
    <3>1. /\ rPc[d] = "poll" /\ UNCHANGED <<sendThread, recv, pseudo, got>>
          /\ \/ rPc'[d] = "publish" /\ noPair'[d] = noPair[d]
             \/ rPc'[d] = "work" /\ noPair'[d] = noPair[d] + 1
      <4>1. noPair \in [Devices -> Nat] /\ d \in DOMAIN rPc
        BY <1>1 DEF TypeOK, Shapes
      <4>2. CASE RecvTurn(d, "publish") /\ UNCHANGED noPair
        BY <2>4, <4>1, <4>2 DEF RecvNoPair, RecvTurn
      <4>3. CASE CountNoPair(d) /\ RecvTurn(d, "work")
        BY <2>4, <4>1, <4>3 DEF RecvNoPair, RecvTurn, CountNoPair
      <4> QED
        BY <2>4, <4>2, <4>3 DEF RecvNoPair
    <3>2. UNCHANGED <<sPc, sent, recv, pseudo, got>>
      BY <3>1
    <3>3. /\ recv[d] + 0 = Len(got[d]) + noPair[d] /\ recv[d] < TotalToEnd
          /\ pseudo[d] <= noPair[d]
      BY <1>1, <3>1 DEF Counting
    <3>4. CASE rPc'[d] = "publish" /\ noPair'[d] = noPair[d]
      BY <1>1, <1>4, <3>2, <3>3, <3>4 DEF Counting
    <3>5. CASE rPc'[d] = "work" /\ noPair'[d] = noPair[d] + 1
      <4> DEFINE r == recv[d]
                 g == Len(got[d])
                 n == noPair[d]
                 p == pseudo[d]
      <4>1. r \in Nat /\ g \in Nat /\ n \in Nat /\ p \in Nat /\ r + 0 = g + n /\ p <= n
        BY <1>2, <3>3
      <4> HIDE DEF r, g, n, p
      <4>2. r + 1 = g + (n + 1) /\ p <= n + 1
        BY <4>1
      <4> QED
        BY <1>1, <1>4, <3>2, <3>3, <3>5, <4>2 DEF Counting, r, g, n, p
    <3> QED
      BY <3>1, <3>4, <3>5
  <2>5. CASE RecvPublish(d)
    BY <1>1, <2>5, <1>4 DEF RecvPublish, Counting, TypeOK
  <2>6. CASE RecvLog(d)
    <3>1. /\ rPc[d] = "log" /\ UNCHANGED <<sendThread, recv, got>> /\ rPc'[d] = "work"
          /\ noPair'[d] = noPair[d] + 1 /\ pseudo'[d] = pseudo[d] + 1
      BY <1>1, <2>6 DEF RecvLog, CountNoPair, TypeOK, Shapes
    <3>2. pseudo'[d] <= noPair'[d]
      BY <1>1, <1>2, <3>1 DEF Counting
    <3>3. recv[d] = Len(got[d]) + noPair[d] /\ recv[d] < TotalToEnd
      BY <1>1, <1>2, <3>1 DEF Counting
    <3>4. recv'[d] + 1 = Len(got'[d]) + noPair'[d] /\ recv'[d] < TotalToEnd
      <4>1. recv'[d] = recv[d] /\ got'[d] = got[d] /\ noPair'[d] = noPair[d] + 1
        BY <3>1
      <4>2. recv[d] + 1 = Len(got[d]) + (noPair[d] + 1)
        BY <1>2, <3>3
      <4> QED
        BY <3>3, <4>1, <4>2
    <3> QED
      BY <1>1, <1>4, <3>1, <3>2, <3>4 DEF Counting
  <2>8. CASE RecvWork(d)
    <3>1. /\ rPc[d] = "work" /\ UNCHANGED <<sendThread, noPair, pseudo, got>>
          /\ recv'[d] = recv[d] + 1 /\ rPc'[d] # "work"
          /\ rPc'[d] # "done" => recv'[d] # TotalToEnd
      BY <1>1, <2>8 DEF RecvWork, RecvTurn, NextTurn, LimitReached, TypeOK
    <3> QED
      BY <1>1, <1>2, <1>4, <3>1 DEF Counting
  <2> QED
    BY <2>1, <2>2, <2>3, <2>4, <2>5, <2>6, <2>8 DEF RecvStep
<1> QED
  BY <1>3, <1>4

LEMMA CountingKept ==
  ASSUME IInv, [Next]_vars PROVE \A d \in Devices : Counting(d)'
<1> TAKE e \in Devices
<1>1. Counting(e)
  BY DEF IInv
<1>2. CASE UNCHANGED <<sendThread, recvThread>>
  BY <1>1, <1>2, SameCounting DEF sendThread, recvThread
<1>3. ASSUME \/ UNCHANGED vars \/ \E s \in Sockets : Forward(s)
             \/ \E d \in Devices : HandleSignal(d)
      PROVE  UNCHANGED <<sendThread, recvThread>>
  BY <1>3 DEF vars, Forward, HandleSignal
<1> QED
  BY <1>2, <1>3, SendCounting, RecvCounting DEF Next

-----------------------------------------------------------------------------
(* The order of the frames.                                                *)

(* What a queue carries are frames of the upper layers.                    *)
LEMMA FramesAre ==
  ASSUME NEW q, q \in Seq(WirePackets) \/ q \in Seq(Results)
  PROVE  \A f \in FramesIn(q) : f \in Frames /\ f[1] \in Devices /\ f[2] \in Nat
                                /\ f[1] # 0
<1> SUFFICES ASSUME NEW f \in FramesIn(q) PROVE f \in Frames
  BY FrameOf
<1>1. PICK i \in DOMAIN q : f = q[i].frame /\ f # NoFrame
  BY DEF FramesIn
<1>2. q[i] \in WirePackets \/ q[i] \in Results
  BY <1>1
<1> QED
  BY <1>1, <1>2 DEF WirePackets, Results

LEMMA InitOrdered == Init => Ordered
BY DEF Init, InitAt, Ordered, Sorted, Before, FramesIn

(* Nothing is out of order when a queue gets shorter and frames are        *)
(* wrapped.                                                                *)
LEMMA OrderedShrinks ==
  ASSUME TypeOK, TypeOK', Shapes, Ordered, got' = got, pub' = pub,
         \A d \in Devices : \/ sub'[d] = sub[d]
                            \/ sub[d] # <<>> /\ sub'[d] = Tail(sub[d]),
         \A d \in Devices : Published(d) <= Published(d)'
  PROVE  Ordered'
<1>1. \A d \in Devices : Published(d) \in Int /\ Published(d)' \in Int
  BY DEF TypeOK, Published
<1>2. \A d \in Devices : Sorted(sub'[d]) /\ FramesIn(sub'[d]) \subseteq FramesIn(sub[d])
  <2> TAKE d \in Devices
  <2>1. sub[d] \in Seq(WirePackets) /\ Sorted(sub[d])
    BY DEF Shapes, Ordered
  <2> QED
    BY <2>1, FramesOfTail, SortedTail
<1>3. /\ \A d \in Devices : \A f \in FramesIn(got[d]) \cup FramesIn(sub[d]) :
             f[1] \in Devices /\ f[2] \in Nat
      /\ \A s \in Sockets : \A f \in FramesIn(pub[s]) : f[1] \in Devices /\ f[2] \in Nat
  BY FramesAre DEF Shapes
<1>4. \A d \in Devices :
        /\ Sorted(got'[d]) /\ Sorted(sub'[d])
        /\ Before(FramesIn(got'[d]), FramesIn(sub'[d]))
        /\ \A f \in FramesIn(got'[d]) \cup FramesIn(sub'[d]) : f[2] <= Published(f[1])'
  <2> TAKE d \in Devices
  <2>1. Sorted(got'[d]) /\ Sorted(sub'[d])
    BY <1>2 DEF Ordered
  <2>2. Before(FramesIn(got'[d]), FramesIn(sub'[d]))
    BY <1>2 DEF Ordered, Before
  <2>3. ASSUME NEW f \in FramesIn(got'[d]) \cup FramesIn(sub'[d])
        PROVE  f[2] <= Published(f[1])'
    <3>1. f \in FramesIn(got[d]) \cup FramesIn(sub[d])
      BY <1>2
    <3>2. f[1] \in Devices /\ f[2] \in Nat /\ f[2] <= Published(f[1])
      BY <1>3, <3>1 DEF Ordered
    <3> QED
      BY <1>1, <3>2
  <2> QED
    BY <2>1, <2>2, <2>3
<1>5. \A s \in Sockets :
        /\ Sorted(pub'[s])
        /\ \A f \in FramesIn(pub'[s]) : s = <<f[1], "send">> /\ f[2] <= Published(f[1])'
  <2> TAKE s \in Sockets
  <2>1. ASSUME NEW f \in FramesIn(pub'[s])
        PROVE  s = <<f[1], "send">> /\ f[2] <= Published(f[1])'
    <3>1. f[1] \in Devices /\ f[2] \in Nat /\ f[2] <= Published(f[1])
          /\ s = <<f[1], "send">>
      BY <1>3, <2>1 DEF Ordered
    <3> QED
      BY <1>1, <3>1
  <2> QED
    BY <2>1 DEF Ordered
<1>6. \A d \in Devices, s \in Sockets :
        Before(FramesIn(got'[d]) \cup FramesIn(sub'[d]), FramesIn(pub'[s]))
  BY <1>2 DEF Ordered, Before
<1> QED
  BY <1>4, <1>5, <1>6 DEF Ordered

LEMMA SendOrdered ==
  ASSUME IInv, TypeOK', NEW d \in Devices, SendStep(d)
  PROVE  Ordered'
<1> USE DEF sendThread, recvThread
<1>1. TypeOK /\ Shapes /\ Ordered
  BY DEF IInv
<1>2. d # 0 /\ \A e \in Devices : e \in Nat
  BY FrameOf
<1>3. CASE ~SendPublish(d)
  <2>1. UNCHANGED <<got, pub, sub>>
    BY <1>3 DEF SendStep, SendQuit, SendTake, SendLog, SendCount
  <2>2. ASSUME NEW e \in Devices PROVE Published(e) <= Published(e)'
    <3>1. taken[e] \in Nat
      BY <1>1 DEF TypeOK
    <3>2. CASE SendTake(d)
      BY <1>1, <3>1, <3>2 DEF SendTake, WrapPacket, NextTurn, Published, TypeOK
    <3>3. CASE ~SendTake(d)
      BY <1>1, <1>3, <3>1, <3>3, SMTT(30)
         DEF SendStep, SendQuit, SendLog, SendCount, NextTurn, Published, TypeOK
    <3> QED
      BY <3>2, <3>3
  <2> QED
    BY <1>1, <2>1, <2>2, OrderedShrinks
<1>4. CASE SendPublish(d)
  <2> DEFINE sd == <<d, "send">>
             p == sPkt[d]
  <2>1. /\ p \in WirePackets /\ p.frame = <<d, taken[d]>> /\ p.frame # NoFrame
        /\ sd \in Sockets /\ taken[d] \in Nat
    BY <1>1, <1>2, <1>4 DEF Shapes, TypeOK, SendPublish, NoPacket, Packet, NoFrame, Sockets
  <2>2. /\ pub' = [pub EXCEPT ![sd] = Append(@, p)] /\ UNCHANGED <<got, sub>>
        /\ Published(d) = taken[d] - 1 /\ Published(d)' = taken[d]
        /\ \A e \in Devices \ {d} : Published(e)' = Published(e)
    BY <1>1, <1>4 DEF SendPublish, Publish, Published, TypeOK
  <2>3. \A e \in Devices : Published(e) \in Int /\ Published(e)' \in Int
    BY <1>1, SMTT(30) DEF TypeOK, Published
  <2>4. \A e \in Devices : Published(e) <= Published(e)'
    BY <2>1, <2>2, <2>3
  <2> HIDE DEF p, sd
  <2>5. /\ \A e \in Devices : \A f \in FramesIn(got[e]) \cup FramesIn(sub[e]) :
               f[1] \in Devices /\ f[2] \in Nat
        /\ \A s \in Sockets : \A f \in FramesIn(pub[s]) : f[1] \in Devices /\ f[2] \in Nat
    BY <1>1, FramesAre DEF Shapes
  <2>6. /\ \A f \in FramesIn(pub[sd]) : f[1] = p.frame[1] => f[2] < p.frame[2]
        /\ \A e \in Devices : \A f \in FramesIn(got[e]) \cup FramesIn(sub[e]) :
             f[1] = p.frame[1] => f[2] < p.frame[2]
    <3>1. p.frame[1] = d /\ p.frame[2] = taken[d] /\ Published(d) < taken[d]
      BY <2>1, <2>2
    <3>2. ASSUME NEW f, f[2] \in Nat, f[2] <= Published(f[1]), f[1] = p.frame[1]
          PROVE  f[2] < p.frame[2]
      BY <2>1, <2>2, <3>1, <3>2
    <3> QED
      BY <1>1, <2>1, <2>5, <3>2 DEF Ordered
  <2>7. /\ pub'[sd] = Append(pub[sd], p) /\ \A s \in Sockets \ {sd} : pub'[s] = pub[s]
        /\ pub[sd] \in Seq(WirePackets) /\ Sorted(pub[sd])
    BY <1>1, <2>1, <2>2 DEF Shapes, Ordered
  <2>8. Sorted(pub'[sd]) /\ FramesIn(pub'[sd]) = FramesIn(pub[sd]) \cup {p.frame}
    <3>1. Sorted(Append(pub[sd], p))
      BY <2>1, <2>6, <2>7, SortedAppend
    <3>2. FramesIn(Append(pub[sd], p)) = FramesIn(pub[sd]) \cup ({p.frame} \ {NoFrame})
      <4>1. pub[sd] \in Seq(WirePackets) /\ p \in WirePackets
        BY <2>1, <2>7
      <4> QED
        BY <4>1, FramesOfAppend
    <3> QED
      BY <2>1, <2>7, <3>1, <3>2
  <2>9. \A e \in Devices :
          /\ Sorted(got'[e]) /\ Sorted(sub'[e])
          /\ Before(FramesIn(got'[e]), FramesIn(sub'[e]))
          /\ \A f \in FramesIn(got'[e]) \cup FramesIn(sub'[e]) : f[2] <= Published(f[1])'
    <3> TAKE e \in Devices
    <3>1. ASSUME NEW f \in FramesIn(got[e]) \cup FramesIn(sub[e])
          PROVE  f[2] <= Published(f[1])'
      <4>1. f[1] \in Devices /\ f[2] \in Nat /\ f[2] <= Published(f[1])
        BY <1>1, <2>5 DEF Ordered
      <4> QED
        BY <2>3, <2>4, <4>1
    <3> QED
      BY <1>1, <2>2, <3>1 DEF Ordered
  <2>10. \A s \in Sockets :
           /\ Sorted(pub'[s])
           /\ \A f \in FramesIn(pub'[s]) : s = <<f[1], "send">> /\ f[2] <= Published(f[1])'
    <3> TAKE s \in Sockets
    <3>1. ASSUME NEW f \in FramesIn(pub[s])
          PROVE  s = <<f[1], "send">> /\ f[2] <= Published(f[1])'
      <4>1. f[1] \in Devices /\ f[2] \in Nat /\ f[2] <= Published(f[1])
            /\ s = <<f[1], "send">>
        BY <1>1, <2>5 DEF Ordered
      <4> QED
        BY <2>3, <2>4, <4>1
    <3>2. ASSUME NEW f, f = p.frame
          PROVE  sd = <<f[1], "send">> /\ f[2] <= Published(f[1])'
      <4>1. f[1] = d /\ f[2] = taken[d]
        BY <2>1, <3>2
      <4>2. taken[d] <= Published(d)'
        BY <2>1, <2>2
      <4> QED
        BY <4>1, <4>2 DEF sd
    <3>3. Sorted(pub'[s])
      BY <1>1, <2>7, <2>8 DEF Ordered
    <3> QED
      BY <2>7, <2>8, <3>1, <3>2, <3>3
  <2>11. \A e \in Devices, s \in Sockets :
           Before(FramesIn(got'[e]) \cup FramesIn(sub'[e]), FramesIn(pub'[s]))
    <3> TAKE e \in Devices, s \in Sockets
    <3>1. Before(FramesIn(got[e]) \cup FramesIn(sub[e]), FramesIn(pub[s]))
      BY <1>1 DEF Ordered
    <3>2. Before(FramesIn(got[e]) \cup FramesIn(sub[e]), FramesIn(pub'[s]))
      BY <2>6, <2>7, <2>8, <3>1 DEF Before
    <3> QED
      BY <2>2, <3>2
  <2> QED
    BY <2>9, <2>10, <2>11 DEF Ordered
<1> QED
  BY <1>3, <1>4

LEMMA RecvOrdered ==
  ASSUME IInv, TypeOK', NEW d \in Devices, RecvStep(d)
  PROVE  Ordered'
<1> USE DEF sendThread, recvThread
<1>1. TypeOK /\ Shapes /\ Ordered
  BY DEF IInv
<1>2. UNCHANGED sendThread
  BY DEF RecvStep, RecvQuit, RecvDisregard, RecvUnwrap, RecvNoPair, RecvPublish, RecvLog, RecvWork
<1>3. \A e \in Devices : Published(e) \in Int /\ Published(e)' = Published(e)
  BY <1>1, <1>2 DEF Published, TypeOK
<1>4. /\ \A e \in Devices : \A f \in FramesIn(got[e]) \cup FramesIn(sub[e]) :
             f[1] \in Devices /\ f[2] \in Nat
      /\ \A s \in Sockets : \A f \in FramesIn(pub[s]) :
             f[1] \in Devices /\ f[2] \in Nat /\ f[1] # 0
  BY <1>1, FramesAre DEF Shapes
<1>5. CASE RecvUnwrap(d)
  <2>1. PICK h : h = Head(sub[d]) /\ h \in WirePackets /\ KnowsKey(d, h.tkey)
    BY <1>1, <1>5, FramesOfTail DEF Shapes, RecvUnwrap
  <2>2. PICK r : r = [frame |-> h.frame, right |-> rxIv[h.tkey] = under[h.frame].iv]
    OBVIOUS
  <2>3. r \in Results /\ r.frame = h.frame /\ h.frame # NoFrame
    BY <2>1, <2>2, KnownPacket, FrameOf DEF Results
  <2>4. /\ got'[d] = Append(got[d], r) /\ sub'[d] = Tail(sub[d]) /\ sub[d] # <<>>
        /\ \A e \in Devices \ {d} : got'[e] = got[e] /\ sub'[e] = sub[e]
        /\ pub' = pub
    BY <1>1, <1>5, <2>1, <2>2 DEF RecvUnwrap, RecvTurn, Shapes
  <2>5. got[d] \in Seq(Results) /\ sub[d] \in Seq(WirePackets)
        /\ Sorted(got[d]) /\ Sorted(sub[d])
    BY <1>1 DEF Shapes, Ordered
  <2>6. /\ FramesIn(sub'[d]) \subseteq FramesIn(sub[d]) /\ h.frame \in FramesIn(sub[d])
        /\ Sorted(sub'[d])
        /\ \A f \in FramesIn(sub'[d]) : h.frame[1] = f[1] => h.frame[2] < f[2]
    BY <2>1, <2>3, <2>4, <2>5, FramesOfTail, SortedTail
  <2>7. FramesIn(got'[d]) = FramesIn(got[d]) \cup {h.frame}
    BY <2>3, <2>4, <2>5, FramesOfAppend
  <2>8. Sorted(got'[d])
    <3>1. \A f \in FramesIn(got[d]) : f[1] = r.frame[1] => f[2] < r.frame[2]
      BY <1>1, <2>3, <2>6 DEF Ordered, Before
    <3> QED
      BY <2>3, <2>4, <2>5, <3>1, SortedAppend
  <2>9. Before(FramesIn(got'[d]), FramesIn(sub'[d]))
    BY <1>1, <2>6, <2>7 DEF Ordered, Before
  <2>10. \A e \in Devices :
           FramesIn(got'[e]) \cup FramesIn(sub'[e]) \subseteq FramesIn(got[e]) \cup FramesIn(sub[e])
    BY <2>4, <2>6, <2>7
  <2>11. \A e \in Devices :
          /\ Sorted(got'[e]) /\ Sorted(sub'[e])
          /\ Before(FramesIn(got'[e]), FramesIn(sub'[e]))
          /\ \A f \in FramesIn(got'[e]) \cup FramesIn(sub'[e]) : f[2] <= Published(f[1])'
    <3> TAKE e \in Devices
    <3>1. \A f \in FramesIn(got'[e]) \cup FramesIn(sub'[e]) : f[2] <= Published(f[1])'
      BY <1>1, <1>3, <1>4, <2>10 DEF Ordered
    <3>2. CASE e = d
      BY <2>6, <2>8, <2>9, <3>1, <3>2
    <3>3. CASE e # d
      BY <1>1, <2>4, <3>1, <3>3 DEF Ordered
    <3> QED
      BY <3>2, <3>3
  <2>12. \A s \in Sockets :
           /\ Sorted(pub'[s])
           /\ \A f \in FramesIn(pub'[s]) : s = <<f[1], "send">> /\ f[2] <= Published(f[1])'
    BY <1>1, <1>3, <1>4, <2>4 DEF Ordered
  <2>13. \A e \in Devices, s \in Sockets :
           Before(FramesIn(got'[e]) \cup FramesIn(sub'[e]), FramesIn(pub'[s]))
    BY <1>1, <2>4, <2>10 DEF Ordered, Before
  <2> QED
    BY <2>11, <2>12, <2>13 DEF Ordered
<1>6. CASE RecvPublish(d)
  <2>1. PICK p, rv : p = rPkt[d] /\ rv = <<d, "recv">>
    OBVIOUS
  <2>2. p \in WirePackets /\ p.frame = NoFrame /\ rv \in Sockets
    BY <1>1, <1>6, <2>1 DEF Shapes, RecvPublish, Sockets
  <2>3. /\ pub'[rv] = Append(pub[rv], p) /\ \A s \in Sockets \ {rv} : pub'[s] = pub[s]
        /\ UNCHANGED <<got, sub>>
    BY <1>1, <1>6, <2>1, <2>2 DEF RecvPublish, Publish, Shapes
  <2>4. pub[rv] \in Seq(WirePackets) /\ Sorted(pub[rv])
    BY <1>1, <2>2 DEF Shapes, Ordered
  <2>5. FramesIn(pub'[rv]) = FramesIn(pub[rv])
    <3>1. FramesIn(Append(pub[rv], p)) = FramesIn(pub[rv]) \cup ({p.frame} \ {NoFrame})
      <4>1. pub[rv] \in Seq(WirePackets) /\ p \in WirePackets
        BY <2>2, <2>4
      <4> QED
        BY <4>1, FramesOfAppend
    <3> QED
      BY <2>2, <2>3, <3>1
  <2>6. Sorted(pub'[rv])
    <3>1. \A f \in FramesIn(pub[rv]) : f[1] = p.frame[1] => f[2] < p.frame[2]
      BY <1>4, <2>2 DEF NoFrame
    <3> QED
      BY <2>2, <2>3, <2>4, <3>1, SortedAppend
  <2>7. \A s \in Sockets : FramesIn(pub'[s]) = FramesIn(pub[s]) /\ Sorted(pub'[s])
    BY <1>1, <2>3, <2>5, <2>6 DEF Ordered
  <2>8. \A e \in Devices :
          /\ Sorted(got'[e]) /\ Sorted(sub'[e])
          /\ Before(FramesIn(got'[e]), FramesIn(sub'[e]))
          /\ \A f \in FramesIn(got'[e]) \cup FramesIn(sub'[e]) : f[2] <= Published(f[1])'
    BY <1>1, <1>3, <1>4, <2>3 DEF Ordered
  <2>9. \A s \in Sockets :
           /\ Sorted(pub'[s])
           /\ \A f \in FramesIn(pub'[s]) : s = <<f[1], "send">> /\ f[2] <= Published(f[1])'
    BY <1>1, <1>3, <1>4, <2>7 DEF Ordered
  <2>10. \A e \in Devices, s \in Sockets :
           Before(FramesIn(got'[e]) \cup FramesIn(sub'[e]), FramesIn(pub'[s]))
    BY <1>1, <2>3, <2>7 DEF Ordered
  <2> QED
    BY <2>8, <2>9, <2>10 DEF Ordered
<1>7. CASE ~RecvUnwrap(d) /\ ~RecvPublish(d)
  <2>1. UNCHANGED <<got, pub>>
    BY <1>7 DEF RecvStep, RecvQuit, RecvDisregard, RecvNoPair, RecvLog, RecvWork
  <2>2. \/ sub' = sub
        \/ sub[d] # <<>> /\ sub' = [sub EXCEPT ![d] = Tail(@)]
    BY <1>7 DEF RecvStep, RecvQuit, RecvDisregard, RecvNoPair, RecvLog, RecvWork,
                RecvTurn
  <2>3. \A e \in Devices : \/ sub'[e] = sub[e]
                           \/ sub[e] # <<>> /\ sub'[e] = Tail(sub[e])
    BY <1>1, <2>2 DEF Shapes
  <2>4. \A e \in Devices : Published(e) <= Published(e)'
    BY <1>3
  <2> QED
    BY <1>1, <2>1, <2>3, <2>4, OrderedShrinks
<1> QED
  BY <1>5, <1>6, <1>7

LEMMA ForwardOrdered ==
  ASSUME IInv, NEW t \in Sockets, Forward(t)
  PROVE  Ordered'
<1> USE DEF sendThread, recvThread
<1>1. TypeOK /\ Shapes /\ Ordered
  BY DEF IInv
<1>2. UNCHANGED <<taken, sPc, got>> /\ pub[t] # <<>>
  BY DEF Forward
<1>3. \A e \in Devices : Published(e) \in Int /\ Published(e)' = Published(e)
  BY <1>1, <1>2 DEF Published, TypeOK
<1>4. /\ \A e \in Devices : \A f \in FramesIn(got[e]) \cup FramesIn(sub[e]) :
             f[1] \in Devices /\ f[2] \in Nat /\ f[1] # 0
      /\ \A s \in Sockets : \A f \in FramesIn(pub[s]) : f[1] \in Devices /\ f[2] \in Nat
  BY <1>1, FramesAre DEF Shapes
<1>5. PICK h : h = Head(pub[t])
  OBVIOUS
<1>6. /\ pub'[t] = Tail(pub[t]) /\ \A s \in Sockets \ {t} : pub'[s] = pub[s]
      /\ \A e \in Devices : sub'[e] = sub[e] \/ sub'[e] = Append(sub[e], h)
  BY <1>1, <1>5 DEF Forward, Shapes
<1>7. pub[t] \in Seq(WirePackets) /\ Sorted(pub[t])
  BY <1>1 DEF Shapes, Ordered
<1>8. /\ h \in WirePackets /\ h.frame \in FramesIn(pub[t]) \cup {NoFrame}
      /\ FramesIn(pub'[t]) \subseteq FramesIn(pub[t]) /\ Sorted(pub'[t])
      /\ h.frame # NoFrame =>
           \A f \in FramesIn(pub'[t]) : h.frame[1] = f[1] => h.frame[2] < f[2]
  BY <1>2, <1>5, <1>6, <1>7, FramesOfTail, SortedTail
<1>9. \A e \in Devices :
        FramesIn(sub'[e]) \subseteq FramesIn(sub[e]) \cup ({h.frame} \ {NoFrame})
  <2> TAKE e \in Devices
  <2>1. sub[e] \in Seq(WirePackets)
    BY <1>1 DEF Shapes
  <2>2. FramesIn(Append(sub[e], h)) = FramesIn(sub[e]) \cup ({h.frame} \ {NoFrame})
    BY <1>8, <2>1, FramesOfAppend
  <2> QED
    BY <1>6, <2>2
<1>10. \A e \in Devices : \A f \in FramesIn(got[e]) \cup FramesIn(sub[e]) :
         f[1] = h.frame[1] => f[2] < h.frame[2]
  <2> TAKE e \in Devices
  <2>1. CASE h.frame = NoFrame
    BY <1>4, <2>1 DEF NoFrame
  <2>2. CASE h.frame # NoFrame
    BY <1>1, <1>8, <2>2 DEF Ordered, Before
  <2> QED
    BY <2>1, <2>2
<1>11. \A e \in Devices :
        /\ Sorted(got'[e]) /\ Sorted(sub'[e])
        /\ Before(FramesIn(got'[e]), FramesIn(sub'[e]))
        /\ \A f \in FramesIn(got'[e]) \cup FramesIn(sub'[e]) : f[2] <= Published(f[1])'
  <2> TAKE e \in Devices
  <2>1. sub[e] \in Seq(WirePackets) /\ Sorted(sub[e]) /\ Sorted(got'[e])
    BY <1>1, <1>2 DEF Shapes, Ordered
  <2>2. Sorted(Append(sub[e], h))
    BY <1>8, <1>10, <2>1, SortedAppend
  <2>3. Before(FramesIn(got'[e]), FramesIn(sub'[e]))
    BY <1>1, <1>2, <1>9, <1>10 DEF Ordered, Before
  <2>4. ASSUME NEW f \in FramesIn(got'[e]) \cup FramesIn(sub'[e])
        PROVE  f[2] <= Published(f[1])'
    <3>1. \/ f \in FramesIn(got[e]) \cup FramesIn(sub[e])
          \/ f \in FramesIn(pub[t])
      BY <1>2, <1>8, <1>9
    <3> QED
      BY <1>1, <1>3, <1>4, <3>1 DEF Ordered
  <2> QED
    BY <1>6, <2>1, <2>2, <2>3, <2>4
<1>12. \A s \in Sockets :
        /\ Sorted(pub'[s])
        /\ \A f \in FramesIn(pub'[s]) : s = <<f[1], "send">> /\ f[2] <= Published(f[1])'
  <2> TAKE s \in Sockets
  <2>1. Sorted(pub'[s]) /\ FramesIn(pub'[s]) \subseteq FramesIn(pub[s])
    BY <1>1, <1>6, <1>8 DEF Ordered
  <2> QED
    BY <1>1, <1>3, <1>4, <2>1 DEF Ordered
<1>13. ASSUME NEW e \in Devices, NEW s \in Sockets
       PROVE  Before(FramesIn(got'[e]) \cup FramesIn(sub'[e]), FramesIn(pub'[s]))
  <2> SUFFICES ASSUME NEW f \in FramesIn(got'[e]) \cup FramesIn(sub'[e]),
                      NEW g \in FramesIn(pub'[s]), f[1] = g[1]
               PROVE  f[2] < g[2]
    BY DEF Before
  <2>1. g \in FramesIn(pub[s])
    BY <1>6, <1>8
  <2>2. CASE f \in FramesIn(got[e]) \cup FramesIn(sub[e])
    BY <1>1, <2>1, <2>2 DEF Ordered, Before
  <2>3. CASE f = h.frame /\ h.frame # NoFrame
    <3>1. h.frame \in FramesIn(pub[t]) /\ s = t
      BY <1>1, <1>8, <2>1, <2>3 DEF Ordered
    <3> QED
      BY <1>8, <2>3, <3>1
  <2> QED
    BY <1>2, <1>9, <2>2, <2>3
<1> QED
  BY <1>11, <1>12, <1>13 DEF Ordered

LEMMA OrderedKept == ASSUME IInv, TypeOK', [Next]_vars PROVE Ordered'
<1>1. ASSUME UNCHANGED vars \/ \E d \in Devices : HandleSignal(d)
      PROVE  Ordered'
  <2>1. UNCHANGED <<taken, sPc, got, pub, sub>>
    BY <1>1 DEF HandleSignal, vars, sendThread, recvThread
  <2>2. \A d \in Devices : Published(d) <= Published(d)'
    BY <2>1 DEF IInv, TypeOK, Published
  <2> QED
    BY <2>1, <2>2, OrderedShrinks DEF IInv
<1> QED
  BY <1>1, SendOrdered, RecvOrdered, ForwardOrdered DEF Next

-----------------------------------------------------------------------------
(* The inductive invariant, and what it gives.                             *)
LEMMA InitIInv == Init => IInv
BY InitTypes, InitCounting, InitOrdered DEF IInv

LEMMA NextIInv == IInv /\ [Next]_vars => IInv'
BY TypesKept, CountingKept, OrderedKept DEF IInv

(* IInv holds in every state of every run.                                 *)
THEOREM InvariantHolds == Spec => []IInv
BY InitIInv, NextIInv, PTL DEF Spec

(* The counters stay within TOTAL_TO_END, no frame is taken that was    *)
(* not pushed, and a context's IV is that of a frame.                      *)
THEOREM CountersBounded == Spec => []TypeOK
<1>1. IInv => TypeOK
  BY DEF IInv
<1> QED
  BY <1>1, InvariantHolds, PTL

(* However many devices hear a broadcast, and with any of it lost, a frame *)
(* is only ever unwrapped by the device its upper layer addressed it to.   *)
THEOREM OnlyAddresseeDecrypts == Spec => []OnlyAddressee
<1>1. IInv => OnlyAddressee
  <2> SUFFICES ASSUME IInv, NEW d \in Devices, NEW i \in DOMAIN got[d]
               PROVE  LET f == got[d][i].frame IN f \in Frames /\ Upper[f[1]][f[2]] = d
    BY DEF OnlyAddressee
  <2>1. got[d] \in Seq(Results) /\ Upper[got[d][i].frame[1]][got[d][i].frame[2]] = d
    BY DEF IInv, Shapes
  <2>2. got[d][i] \in Results
    BY <2>1
  <2> QED
    BY <2>1, <2>2 DEF Results
<1> QED
  BY <1>1, InvariantHolds, PTL

(* What a device unwraps from another comes in the order it was pushed,    *)
(* each frame at most once, whatever is lost and however the threads and   *)
(* the proxy interleave.                                                   *)
THEOREM StreamsInOrder == Spec => []InOrderOnce
<1>1. IInv => InOrderOnce
  <2> SUFFICES ASSUME IInv, NEW d \in Devices, NEW i \in DOMAIN got[d],
                      NEW j \in DOMAIN got[d], i < j,
                      got[d][i].frame[1] = got[d][j].frame[1]
               PROVE  got[d][i].frame[2] < got[d][j].frame[2]
    BY DEF InOrderOnce
  <2>1. got[d] \in Seq(Results) /\ Sorted(got[d])
    BY DEF IInv, Shapes, Ordered
  <2>2. got[d][i] \in Results
    BY <2>1
  <2>3. got[d][i].frame # NoFrame
    BY <2>2, FrameOf DEF Results
  <2> QED
    BY <2>1, <2>3 DEF Sorted
<1> QED
  BY <1>1, InvariantHolds, PTL

(* Between two packets, a device has counted each packet it did not        *)
(* disregard exactly once: unwrapped, or without a record.                 *)
THEOREM CountersAgree == Spec => []CountsAgree
<1>1. IInv => CountsAgree
  <2> SUFFICES ASSUME IInv, NEW d \in Devices
               PROVE  /\ pseudo[d] <= noPair[d]
                      /\ rPc[d] \in {"poll", "done"} => recv[d] = Len(got[d]) + noPair[d]
    BY DEF CountsAgree
  <2>1. Counting(d) /\ recv[d] \in Nat
    BY SizeAssumption DEF IInv, TypeOK
  <2> QED
    BY <2>1 DEF Counting
<1> QED
  BY <1>1, InvariantHolds, PTL

-----------------------------------------------------------------------------
(* Chains of frames: sets of packets, keys, and last frames.               *)
LEMMA PacketsOfAppend ==
  ASSUME NEW S, NEW q \in Seq(S), NEW p \in S
  PROVE  PacketsIn(Append(q, p)) = PacketsIn(q) \cup {p}
<1>1. /\ DOMAIN Append(q, p) = 1..(Len(q) + 1) /\ DOMAIN q = 1..Len(q)
      /\ Len(q) \in Nat
      /\ \A i \in 1..Len(q) : Append(q, p)[i] = q[i]
      /\ Append(q, p)[Len(q) + 1] = p
  BY AppendProperties
<1>2. ASSUME NEW x \in PacketsIn(Append(q, p)) PROVE x \in PacketsIn(q) \cup {p}
  BY <1>1 DEF PacketsIn
<1>3. ASSUME NEW x \in PacketsIn(q) PROVE x \in PacketsIn(Append(q, p))
  <2>1. PICK i \in 1..Len(q) : x = q[i]
    BY <1>1 DEF PacketsIn
  <2>2. i \in DOMAIN Append(q, p) /\ Append(q, p)[i] = x
    BY <1>1, <2>1
  <2> QED
    BY <2>2 DEF PacketsIn
<1>4. p \in PacketsIn(Append(q, p))
  <2>1. Len(q) + 1 \in DOMAIN Append(q, p)
    BY <1>1
  <2> QED
    BY <1>1, <2>1 DEF PacketsIn
<1> QED
  BY <1>2, <1>3, <1>4

LEMMA PacketsOfTail ==
  ASSUME NEW S, NEW q \in Seq(S), q # <<>>
  PROVE  /\ PacketsIn(q) = PacketsIn(Tail(q)) \cup {Head(q)}
         /\ FramesIn(q) = FramesIn(Tail(q)) \cup ({Head(q).frame} \ {NoFrame})
<1>1. /\ DOMAIN Tail(q) = 1..(Len(q) - 1) /\ DOMAIN q = 1..Len(q)
      /\ Len(q) \in Nat \ {0} /\ Head(q) = q[1]
      /\ \A i \in 1..(Len(q) - 1) : Tail(q)[i] = q[i + 1]
  BY HeadTailProperties, EmptySeq
<1>2. ASSUME NEW x \in PacketsIn(q) PROVE x \in PacketsIn(Tail(q)) \cup {Head(q)}
  <2>1. PICK i \in 1..Len(q) : x = q[i]
    BY <1>1 DEF PacketsIn
  <2>2. CASE i # 1
    <3>1. i - 1 \in DOMAIN Tail(q) /\ Tail(q)[i - 1] = q[i]
      BY <1>1, <2>2
    <3> QED
      BY <2>1, <3>1 DEF PacketsIn
  <2> QED
    BY <1>1, <2>1, <2>2
<1>3. ASSUME NEW x \in PacketsIn(Tail(q)) PROVE x \in PacketsIn(q)
  <2>1. PICK i \in 1..(Len(q) - 1) : x = Tail(q)[i]
    BY <1>1 DEF PacketsIn
  <2>2. i + 1 \in DOMAIN q /\ q[i + 1] = x
    BY <1>1, <2>1
  <2> QED
    BY <2>2 DEF PacketsIn
<1>4. Head(q) \in PacketsIn(q)
  <2>1. 1 \in DOMAIN q
    BY <1>1
  <2> QED
    BY <1>1, <2>1 DEF PacketsIn
<1>5. \A r : FramesIn(r) = {x.frame : x \in PacketsIn(r)} \ {NoFrame}
  BY DEF FramesIn, PacketsIn
<1>6. PacketsIn(q) = PacketsIn(Tail(q)) \cup {Head(q)}
  BY <1>2, <1>3, <1>4
<1>7. FramesIn(q) = {x.frame : x \in PacketsIn(q)} \ {NoFrame}
      /\ FramesIn(Tail(q)) = {x.frame : x \in PacketsIn(Tail(q))} \ {NoFrame}
  BY <1>5
<1> QED
  BY <1>6, <1>7

(* The packets of a queue carry its frames.                                *)
LEMMA FramesOfPackets ==
  \A q : FramesIn(q) = {p.frame : p \in PacketsIn(q)} \ {NoFrame}
BY DEF FramesIn, PacketsIn

(* Frames are told apart by device and number.                             *)
LEMMA FrameEqual ==
  ASSUME NEW f \in Frames, NEW g \in Frames, f[1] = g[1], f[2] = g[2] PROVE f = g
<1>1. PICK d \in Devices : f \in {d} \X (1..Len(Upper[d]))
  BY DEF Frames
<1>2. PICK e \in Devices : g \in {e} \X (1..Len(Upper[e]))
  BY DEF Frames
<1> QED
  BY <1>1, <1>2

LEMMA KeyFacts ==
  /\ \A d, e \in Devices : \A k \in PairKeys(d, e) :
       k \in Keys /\ k[1] = d /\ k[2] = e /\ k \in Nat \X Nat \X Nat /\ k # NoKey
  /\ \A k \in Keys : k[1] \in Devices /\ k[2] \in Devices /\ k # NoKey
<1>1. ASSUME NEW d \in Devices, NEW e \in Devices, NEW k \in PairKeys(d, e)
      PROVE  k \in Keys /\ k[1] = d /\ k[2] = e /\ k \in Nat \X Nat \X Nat /\ k # NoKey
  <2>1. PICK n \in 1..NumKeys : k = <<d, e, n>>
    BY DEF PairKeys
  <2>2. d \in Nat \ {0} /\ e \in Nat \ {0} /\ n \in Nat
    BY DeviceAssumption, SizeAssumption
  <2> QED
    BY <2>1, <2>2 DEF Keys, NoKey
<1>2. ASSUME NEW k \in Keys PROVE k[1] \in Devices /\ k[2] \in Devices /\ k # NoKey
  <2>1. PICK d \in Devices, e \in Devices : k \in PairKeys(d, e)
    BY DEF Keys
  <2> QED
    BY <1>1, <2>1
<1> QED
  BY <1>1, <1>2

LEMMA IsLastAdded ==
  ASSUME NEW F \in SUBSET Frames, NEW f \in Frames, \A g \in F : g[2] < f[2]
  PROVE  IsLast(f, F \cup {f})
<1>1. f[2] \in Nat /\ \A g \in F : g[2] \in Nat
  BY FrameOf
<1> QED
  BY <1>1 DEF IsLast

LEMMA IsLastUnique ==
  ASSUME NEW F \in SUBSET Frames, \A f, g \in F : f[1] = g[1],
         NEW a, NEW b, IsLast(a, F), IsLast(b, F)
  PROVE  a = b
<1>1. CASE F = {}
  BY <1>1 DEF IsLast
<1>2. CASE F # {}
  <2>1. a \in F /\ b \in F /\ a[2] <= b[2] /\ b[2] <= a[2] /\ a[1] = b[1]
    BY <1>2 DEF IsLast
  <2>2. a[2] \in Nat /\ b[2] \in Nat
    BY <2>1, FrameOf
  <2> QED
    BY <2>1, <2>2, FrameEqual
<1> QED
  BY <1>1, <1>2

LEMMA InitChain == Init => ChainInv
<1> SUFFICES ASSUME Init PROVE ChainInv
  OBVIOUS
<1>1. /\ \A f \in Frames : ~IsWrapped(f) /\ under[f].tkey = NoKey
      /\ under \in [Frames -> [tkey : Nat \X Nat \X Nat, iv : Frames \cup {NoFrame}]]
  BY FrameOf DEF Init, InitAt, IsWrapped, NoKey
<1>2. /\ \A d \in Devices : PacketsIn(sub[d]) = {} /\ FramesIn(got[d]) = {} /\ DOMAIN got[d] = {}
      /\ \A s \in Sockets : PacketsIn(pub[s]) = {}
  BY DEF Init, InitAt, PacketsIn, FramesIn
<1>3. OwnKeys
  BY DEF Init, InitAt, OwnKeys, NoPacket, Packet, NoKey
<1>4. Labelled
  BY <1>1, <1>2 DEF Init, InitAt, Labelled
<1>5. Chained
  <2>1. ASSUME NEW k \in Keys PROVE WrappedUnder(k) = {} /\ DecryptedUnder(k) = {}
    BY <1>1, KeyFacts DEF WrappedUnder, DecryptedUnder
  <2>2. \A k \in Keys : txIv[k] = NoFrame /\ rxIv[k] = NoFrame
    BY DEF Init, InitAt
  <2> QED
    BY <1>1, <2>1, <2>2 DEF Chained, IsLast
<1>6. Kept /\ RightIfNothingLost /\ NoGaps
  BY <1>1, <1>2 DEF Kept, RightIfNothingLost, NoGaps
<1> QED
  BY <1>3, <1>4, <1>5, <1>6, InitIInv DEF ChainInv

(* What a device logs are keys of its own.                                 *)
LEMMA LogKeyOwn ==
  ASSUME NEW d \in Devices, NEW k, DOMAIN logged = Devices, k[1] \in {0, d},
         \A e \in Devices : \A l \in logged[e] : l[1] \in {0, e},
         LogKey(d, k)
  PROVE  \A e \in Devices : \A l \in logged'[e] : l[1] \in {0, e}
BY DEF LogKey

LEMMA OwnKeysKept == ASSUME IInv, OwnKeys, [Next]_vars PROVE OwnKeys'
<1> USE DEF sendThread, recvThread
<1>1. TypeOK /\ Shapes
  BY DEF IInv
<1>2. ASSUME UNCHANGED logged, NEW d \in Devices,
             \A e \in Devices \ {d} : UNCHANGED <<rPc[e], sPkt[e], rPkt[e]>>,
             rPc'[d] # "off", sPkt'[d].tkey[1] \in {0, d}, rPkt'[d].tkey[1] = 0
      PROVE  OwnKeys'
  BY <1>2 DEF OwnKeys
<1>3. ASSUME UNCHANGED <<logged, rPc, sPkt, rPkt>> PROVE OwnKeys'
  BY <1>3 DEF OwnKeys
<1>4. ASSUME NEW d \in Devices, SendStep(d) PROVE OwnKeys'
  <2>1. CASE SendQuit(d) \/ SendPublish(d)
    BY <1>3, <2>1 DEF SendQuit, SendPublish
  <2>2. CASE SendTake(d)
    <3>1. CASE UNCHANGED sPkt
      BY <1>3, <2>2, <3>1 DEF SendTake
    <3>2. ASSUME NEW k \in PairKeys(d, Upper[d][taken[d] + 1]),
                 sPkt' = [sPkt EXCEPT ![d] = Packet(k, <<d, taken[d] + 1>>, d)]
          PROVE  OwnKeys'
      <4>1. k[1] = d
        BY DEF PairKeys
      <4>2. sPkt'[d].tkey[1] = d /\ \A e \in Devices \ {d} : sPkt'[e] = sPkt[e]
        BY <1>1, <3>2, <4>1 DEF Shapes, Packet
      <4> QED
        BY <1>2, <2>2, <4>2 DEF SendTake, OwnKeys
    <3> QED
      BY <2>2, <3>1, <3>2 DEF SendTake, WrapPacket
  <2>3. CASE SendLog(d)
    <3>1. \A e \in Devices : \A l \in logged'[e] : l[1] \in {0, e}
      BY <1>1, <2>3, LogKeyOwn DEF SendLog, OwnKeys, Shapes
    <3> QED
      BY <2>3, <3>1 DEF SendLog, OwnKeys
  <2>4. CASE SendCount(d)
    <3>1. sPkt'[d] = NoPacket /\ \A e \in Devices \ {d} : sPkt'[e] = sPkt[e]
      BY <1>1, <2>4 DEF SendCount, Shapes
    <3>2. sPkt'[d].tkey[1] = 0
      BY <3>1 DEF NoPacket, Packet, NoKey
    <3> QED
      BY <1>2, <2>4, <3>1, <3>2 DEF SendCount, OwnKeys
  <2> QED
    BY <1>4, <2>1, <2>2, <2>3, <2>4 DEF SendStep
<1>5. ASSUME NEW d \in Devices, RecvStep(d) PROVE OwnKeys'
  <2>1. rPc'[d] # "off" /\ \A e \in Devices \ {d} : rPc'[e] = rPc[e]
    BY <1>1, <1>5 DEF RecvStep, RecvQuit, RecvDisregard, RecvUnwrap, RecvNoPair, RecvPublish,
       RecvLog, RecvWork, RecvTurn, NextTurn, TypeOK
  <2>2. CASE RecvLog(d)
    <3>1. \A e \in Devices : \A l \in logged'[e] : l[1] \in {0, e}
      <4>1. rPkt[d].tkey[1] \in {0, d}
        BY DEF OwnKeys
      <4> QED
        BY <1>1, <2>2, <4>1, LogKeyOwn DEF RecvLog, OwnKeys, Shapes
    <3>2. rPkt'[d].tkey[1] = 0 /\ \A e \in Devices \ {d} : rPkt'[e] = rPkt[e]
      BY <1>1, <2>2 DEF RecvLog, Shapes, NoPacket, Packet, NoKey
    <3> QED
      BY <2>1, <2>2, <3>1, <3>2 DEF RecvLog, OwnKeys
  <2>3. CASE RecvNoPair(d)
    <3>1. /\ \A e \in Devices \ {d} : rPkt'[e] = rPkt[e]
          /\ \/ rPkt'[d] = rPkt[d]
             \/ \E k \in PseudoKeys(d) : rPkt'[d] = Packet(k, NoFrame, d)
      BY <1>1, <2>3 DEF RecvNoPair, Shapes
    <3>2. rPkt'[d].tkey[1] = 0
      <4>1. CASE rPkt'[d] = rPkt[d]
        BY <4>1 DEF OwnKeys
      <4>2. ASSUME NEW k \in PseudoKeys(d), rPkt'[d] = Packet(k, NoFrame, d)
            PROVE  rPkt'[d].tkey[1] = 0
        <5>1. k[1] = 0
          BY DEF PseudoKeys
        <5> QED
          BY <4>2, <5>1 DEF Packet
      <4> QED
        BY <3>1, <4>1, <4>2
    <3> QED
      BY <1>2, <2>1, <2>3, <3>1, <3>2 DEF RecvNoPair, OwnKeys
  <2>4. CASE ~RecvLog(d) /\ ~RecvNoPair(d)
    <3>1. UNCHANGED <<logged, sPkt, rPkt>>
      BY <1>5, <2>4 DEF RecvStep, RecvQuit, RecvDisregard, RecvUnwrap, RecvPublish, RecvWork
    <3> QED
      BY <1>2, <2>1, <3>1 DEF OwnKeys
  <2> QED
    BY <2>2, <2>3, <2>4
<1>6. ASSUME UNCHANGED vars \/ (\E s \in Sockets : Forward(s))
             \/ \E d \in Devices : HandleSignal(d)
      PROVE  OwnKeys'
  BY <1>3, <1>6 DEF vars, Forward, HandleSignal
<1> QED
  BY <1>4, <1>5, <1>6 DEF Next

(* The sending thread of d wraps its frame f under key k.                  *)
Wraps(d, f, k) ==
  /\ f \in Frames /\ f = <<d, taken[d] + 1>> /\ sPc[d] = "poll"
  /\ Upper[d][f[2]] \in PairedWith[d] /\ k \in PairKeys(d, Upper[d][f[2]])
  /\ taken' = [taken EXCEPT ![d] = @ + 1]
  /\ under' = [under EXCEPT ![f] = [tkey |-> k, iv |-> txIv[k]]]
  /\ txIv' = [txIv EXCEPT ![k] = f]
  /\ sPkt' = [sPkt EXCEPT ![d] = Packet(k, f, d)]
  /\ sPc' = [sPc EXCEPT ![d] = "publish"]
  /\ UNCHANGED <<recvThread, pub, sub>>

(* Nothing is wrapped, and each frame is still wrapped or not.             *)
WrapsNothing ==
  /\ UNCHANGED <<under, txIv>>
  /\ \A f \in Frames : IsWrapped(f)' = IsWrapped(f)
  /\ \A d \in Devices : sPc'[d] = "publish" => sPc[d] = "publish" /\ sPkt'[d] = sPkt[d]

LEMMA TakeWraps ==
  ASSUME TypeOK, Shapes, NEW d \in Devices, SendTake(d)
  PROVE  \/ WrapsNothing /\ UNCHANGED <<recvThread, pub, sub>>
         \/ \E f, k : Wraps(d, f, k)
<1> DEFINE n == taken[d] + 1
           dst == Upper[d][n]
<1>1. n \in 1..Len(Upper[d]) /\ n \in Nat /\ taken[d] \in Nat
  BY FrameOf DEF SendTake, TypeOK
<1>2. <<d, n>> \in Frames
  BY <1>1, FrameOf
<1>3. CASE dst \notin PairedWith[d] /\ sPc' = [sPc EXCEPT ![d] = NextTurn(d)]
           /\ UNCHANGED <<sPkt, txIv, under>>
  <2>1. \A e \in Devices : sPc'[e] = "publish" => sPc[e] = "publish" /\ sPkt'[e] = sPkt[e]
    BY <1>3 DEF TypeOK, NextTurn
  <2>2. ASSUME NEW f \in Frames PROVE IsWrapped(f)' = IsWrapped(f)
    <3>1. f[1] \in Devices /\ f[2] \in Nat
      BY FrameOf
    <3>2. CASE f[1] # d
      <4>1. taken'[f[1]] = taken[f[1]]
        BY <3>1, <3>2 DEF SendTake, TypeOK
      <4> QED
        BY <4>1 DEF IsWrapped
    <3>3. CASE f[1] = d
      <4>1. taken'[d] = n
        BY <1>1 DEF SendTake, TypeOK
      <4>2. f[2] <= n <=> f[2] <= taken[d] \/ f[2] = n
        BY <1>1, <3>1
      <4>3. f[2] = n => Upper[f[1]][f[2]] \notin PairedWith[f[1]]
        BY <1>3, <3>3
      <4> QED
        BY <3>3, <4>1, <4>2, <4>3 DEF IsWrapped
    <3> QED
      BY <3>2, <3>3
  <2> QED
    BY <1>3, <2>1, <2>2 DEF SendTake, WrapsNothing
<1>4. ASSUME NEW k \in PairKeys(d, dst), dst \in PairedWith[d],
             under' = [under EXCEPT ![<<d, n>>] = [tkey |-> k, iv |-> txIv[k]]],
             txIv' = [txIv EXCEPT ![k] = <<d, n>>],
             sPkt' = [sPkt EXCEPT ![d] = Packet(k, <<d, n>>, d)],
             sPc' = [sPc EXCEPT ![d] = "publish"]
      PROVE  Wraps(d, <<d, n>>, k)
  BY <1>1, <1>2, <1>4 DEF SendTake, Wraps
<1> QED
  BY <1>3, <1>4 DEF SendTake, WrapPacket

LEMMA OtherStepsWrapNothing ==
  ASSUME TypeOK, Shapes, [Next]_vars, \A d \in Devices : ~SendTake(d)
  PROVE  WrapsNothing
<1> USE DEF sendThread, recvThread
<1>1. UNCHANGED <<taken, under, txIv>>
      /\ \A d \in Devices : sPc'[d] = "publish" => sPc[d] = "publish" /\ sPkt'[d] = sPkt[d]
  <2>1. ASSUME NEW d \in Devices, SendStep(d)
        PROVE  /\ UNCHANGED <<taken, under, txIv>>
               /\ \A e \in Devices : sPc'[e] = "publish" =>
                                       sPc[e] = "publish" /\ sPkt'[e] = sPkt[e]
    BY <2>1, SMTT(30) DEF SendStep, SendQuit, SendPublish, SendLog, SendCount,
                          NextTurn, TypeOK, Shapes
  <2>2. ASSUME NEW d \in Devices, RecvStep(d)
        PROVE  UNCHANGED <<taken, under, txIv, sPc, sPkt>>
    BY <2>2 DEF RecvStep, RecvQuit, RecvDisregard, RecvUnwrap, RecvNoPair, RecvPublish,
                RecvLog, RecvWork
  <2>3. ASSUME UNCHANGED vars \/ (\E s \in Sockets : Forward(s))
               \/ \E d \in Devices : HandleSignal(d)
        PROVE  UNCHANGED <<taken, under, txIv, sPc, sPkt>>
    BY <2>3 DEF vars, Forward, HandleSignal
  <2> QED
    BY <2>1, <2>2, <2>3 DEF Next
<1> QED
  BY <1>1 DEF WrapsNothing, IsWrapped

(* A frame in transit or received has been taken, so it is not the one     *)
(* that is wrapped next.                                                   *)
LEMMA InTransitTaken ==
  ASSUME IInv
  PROVE  /\ \A d \in Devices : \A f \in FramesIn(sub[d]) \cup FramesIn(got[d]) :
              f \in Frames /\ f[2] <= taken[f[1]]
         /\ \A s \in Sockets : \A f \in FramesIn(pub[s]) :
              f \in Frames /\ f[2] <= taken[f[1]]
<1>1. TypeOK /\ Shapes /\ Ordered
  BY DEF IInv
<1>2. \A d \in Devices : taken[d] \in Nat /\ Published(d) \in Int /\ Published(d) <= taken[d]
  BY <1>1 DEF TypeOK, Published
<1>3. \A n \in Nat : \A d \in Devices : n <= Published(d) => n <= taken[d]
  BY <1>2
<1>4. \A d \in Devices : \A f \in FramesIn(sub[d]) \cup FramesIn(got[d]) :
        f \in Frames /\ f[1] \in Devices /\ f[2] \in Nat /\ f[2] <= Published(f[1])
  BY <1>1, FramesAre DEF Shapes, Ordered
<1>5. \A s \in Sockets : \A f \in FramesIn(pub[s]) :
        f \in Frames /\ f[1] \in Devices /\ f[2] \in Nat /\ f[2] <= Published(f[1])
  BY <1>1, FramesAre DEF Shapes, Ordered
<1> QED
  BY <1>3, <1>4, <1>5

LEMMA WrapFacts ==
  ASSUME IInv, Labelled, NEW d \in Devices, NEW f, NEW k, Wraps(d, f, k)
  PROVE  /\ f \in Frames /\ f[1] = d /\ f[2] = taken[d] + 1 /\ ~IsWrapped(f)
         /\ k \in Keys /\ under[f].tkey = NoKey
         /\ \A g \in Frames : IsWrapped(g)' <=> IsWrapped(g) \/ g = f
         /\ \A g \in Frames \ {f} : under'[g] = under[g]
         /\ under'[f] = [tkey |-> k, iv |-> txIv[k]]
         /\ \A g \in Frames : g[1] = d /\ IsWrapped(g) => g[2] < f[2]
<1>1. TypeOK /\ taken[d] \in Nat
  BY DEF IInv, TypeOK
<1>2. f \in Frames /\ f[1] = d /\ f[2] = taken[d] + 1
  BY DEF Wraps
<1>3. ~IsWrapped(f)
  BY <1>1, <1>2 DEF IsWrapped
<1>4. k \in Keys
  <2>1. Upper[d][f[2]] \in Devices
    BY PairAssumption DEF Wraps
  <2> QED
    BY <2>1, KeyFacts DEF Wraps
<1>5. under \in [Frames -> [tkey : Nat \X Nat \X Nat, iv : Frames \cup {NoFrame}]]
      /\ under[f].tkey = NoKey
  BY <1>2, <1>3 DEF Labelled
<1>6. /\ \A g \in Frames \ {f} : under'[g] = under[g]
      /\ under'[f] = [tkey |-> k, iv |-> txIv[k]]
  BY <1>2, <1>5 DEF Wraps
<1>7. ASSUME NEW g \in Frames PROVE IsWrapped(g)' <=> IsWrapped(g) \/ g = f
  <2>1. g[1] \in Devices /\ g[2] \in Nat
    BY FrameOf
  <2>2. CASE g[1] # d
    <3>1. taken'[g[1]] = taken[g[1]] /\ g # f
      BY <1>1, <1>2, <2>1, <2>2 DEF Wraps, TypeOK
    <3> QED
      BY <3>1 DEF IsWrapped
  <2>3. CASE g[1] = d
    <3>1. taken'[d] = taken[d] + 1
      BY <1>1 DEF Wraps, TypeOK
    <3>2. g[2] <= taken[d] + 1 <=> g[2] <= taken[d] \/ g[2] = f[2]
      BY <1>1, <1>2, <2>1
    <3>3. g[2] = f[2] <=> g = f
      BY <1>2, <2>3, FrameEqual
    <3>4. Upper[d][f[2]] \in PairedWith[d]
      BY DEF Wraps
    <3> QED
      BY <2>3, <3>1, <3>2, <3>3, <3>4 DEF IsWrapped
  <2> QED
    BY <2>2, <2>3
<1>8. ASSUME NEW g \in Frames, g[1] = d, IsWrapped(g) PROVE g[2] < f[2]
  BY <1>1, <1>2, <1>8, FrameOf DEF IsWrapped
<1> QED
  BY <1>2, <1>3, <1>4, <1>5, <1>6, <1>7, <1>8

(* Where the packets of a queue come from.                                 *)
LEMMA PacketsMove ==
  ASSUME IInv, [Next]_vars
  PROVE  /\ \A d \in Devices : \A p \in PacketsIn(sub'[d]) :
              p \in PacketsIn(sub[d]) \/ \E s \in Sockets : p \in PacketsIn(pub[s])
         /\ \A s \in Sockets : \A p \in PacketsIn(pub'[s]) :
              \/ p \in PacketsIn(pub[s]) \/ p.frame = NoFrame
              \/ \E d \in Devices : sPc[d] = "publish" /\ p = sPkt[d]
<1> USE DEF sendThread, recvThread
<1> DEFINE SubMoves == \A d \in Devices : \A p \in PacketsIn(sub'[d]) :
              p \in PacketsIn(sub[d]) \/ \E s \in Sockets : p \in PacketsIn(pub[s])
           PubMoves == \A s \in Sockets : \A p \in PacketsIn(pub'[s]) :
              \/ p \in PacketsIn(pub[s]) \/ p.frame = NoFrame
              \/ \E d \in Devices : sPc[d] = "publish" /\ p = sPkt[d]
<1>1. TypeOK /\ Shapes
  BY DEF IInv
<1>2. sub' = sub => SubMoves
  OBVIOUS
<1>3. pub' = pub => PubMoves
  OBVIOUS
<1>4. ASSUME NEW s \in Sockets, NEW p \in WirePackets,
             pub' = [pub EXCEPT ![s] = Append(@, p)]
      PROVE  \A t \in Sockets : PacketsIn(pub'[t]) \subseteq PacketsIn(pub[t]) \cup {p}
  <2>1. pub[s] \in Seq(WirePackets) /\ p \in WirePackets
    BY <1>1 DEF Shapes
  <2>2. PacketsIn(Append(pub[s], p)) = PacketsIn(pub[s]) \cup {p}
    BY <2>1, PacketsOfAppend
  <2>3. pub'[s] = Append(pub[s], p) /\ \A t \in Sockets \ {s} : pub'[t] = pub[t]
    BY <1>1, <1>4 DEF Shapes
  <2> QED
    BY <2>2, <2>3
<1>5. ASSUME NEW d \in Devices, SendStep(d) PROVE SubMoves /\ PubMoves
  <2>1. sub' = sub
    BY <1>5 DEF SendStep, SendQuit, SendTake, SendPublish, SendLog, SendCount
  <2>2. CASE SendPublish(d)
    <3>1. sPkt[d] \in WirePackets /\ <<d, "send">> \in Sockets
      BY <1>1, <2>2, FrameOf DEF Shapes, SendPublish, NoPacket, Packet, NoFrame, Sockets
    <3>2. \A t \in Sockets : PacketsIn(pub'[t]) \subseteq PacketsIn(pub[t]) \cup {sPkt[d]}
      BY <1>4, <2>2, <3>1 DEF SendPublish, Publish
    <3> QED
      BY <1>2, <2>1, <2>2, <3>2 DEF SendPublish
  <2>3. CASE ~SendPublish(d)
    BY <1>2, <1>3, <1>5, <2>1, <2>3
       DEF SendStep, SendQuit, SendTake, SendLog, SendCount
  <2> QED
    BY <2>2, <2>3
<1>6. ASSUME NEW d \in Devices, RecvStep(d) PROVE SubMoves /\ PubMoves
  <2>1. SubMoves
    <3>1. \A e \in Devices : \/ sub'[e] = sub[e]
                             \/ sub[e] # <<>> /\ sub'[e] = Tail(sub[e])
      <4>1. \/ UNCHANGED sub
            \/ /\ \E next : RecvTurn(d, next)
               /\ rPc[d] = "poll" => sub[d] # <<>>
        BY <1>6 DEF RecvStep, RecvQuit, RecvDisregard, RecvUnwrap, RecvNoPair, RecvPublish,
           RecvLog, RecvWork
      <4> QED
        BY <1>1, <4>1 DEF RecvTurn, Shapes
    <3>2. \A e \in Devices : PacketsIn(sub'[e]) \subseteq PacketsIn(sub[e])
      <4> TAKE e \in Devices
      <4>1. sub[e] \in Seq(WirePackets)
        BY <1>1 DEF Shapes
      <4>2. sub[e] # <<>> => PacketsIn(Tail(sub[e])) \subseteq PacketsIn(sub[e])
        BY <4>1, PacketsOfTail
      <4> QED
        BY <3>1, <4>2
    <3> QED
      BY <3>2
  <2>2. CASE RecvPublish(d)
    <3>1. rPkt[d] \in WirePackets /\ rPkt[d].frame = NoFrame /\ <<d, "recv">> \in Sockets
      BY <1>1, <2>2 DEF Shapes, RecvPublish, Sockets
    <3>2. \A t \in Sockets : PacketsIn(pub'[t]) \subseteq PacketsIn(pub[t]) \cup {rPkt[d]}
      BY <1>4, <2>2, <3>1 DEF RecvPublish, Publish
    <3> QED
      BY <2>1, <3>1, <3>2
  <2>3. CASE ~RecvPublish(d)
    BY <1>3, <1>6, <2>1, <2>3 DEF RecvStep, RecvQuit, RecvDisregard, RecvUnwrap, RecvNoPair,
         RecvLog, RecvWork
  <2> QED
    BY <2>2, <2>3
<1>7. ASSUME NEW t \in Sockets, Forward(t) PROVE SubMoves /\ PubMoves
  <2>1. pub[t] \in Seq(WirePackets) /\ pub[t] # <<>>
    BY <1>1, <1>7 DEF Shapes, Forward
  <2>2. PICK h : h = Head(pub[t])
    OBVIOUS
  <2>3. h \in PacketsIn(pub[t]) /\ PacketsIn(Tail(pub[t])) \subseteq PacketsIn(pub[t])
        /\ h \in WirePackets
    BY <2>1, <2>2, PacketsOfTail, FramesOfTail
  <2>4. /\ pub'[t] = Tail(pub[t]) /\ \A s \in Sockets \ {t} : pub'[s] = pub[s]
        /\ \A e \in Devices : sub'[e] = sub[e] \/ sub'[e] = Append(sub[e], h)
    BY <1>1, <1>7, <2>2 DEF Forward, Shapes
  <2>5. \A e \in Devices : PacketsIn(sub'[e]) \subseteq PacketsIn(sub[e]) \cup {h}
    <3> TAKE e \in Devices
    <3>1. sub[e] \in Seq(WirePackets) /\ h \in WirePackets
      BY <1>1, <2>3 DEF Shapes
    <3>2. PacketsIn(Append(sub[e], h)) = PacketsIn(sub[e]) \cup {h}
      BY <3>1, PacketsOfAppend
    <3> QED
      BY <2>4, <3>2
  <2> QED
    BY <2>3, <2>4, <2>5
<1>8. ASSUME UNCHANGED vars \/ \E d \in Devices : HandleSignal(d)
      PROVE  UNCHANGED <<pub, sub>>
  BY <1>8 DEF vars, HandleSignal
<1> QED
  BY <1>2, <1>3, <1>5, <1>6, <1>7, <1>8 DEF Next

(* The receiving thread of d unwraps frame f, which came under key k.      *)
Unwraps(d, f, k) ==
  /\ f \in Frames /\ f \in FramesIn(sub[d]) /\ IsWrapped(f)
  /\ k \in Keys /\ k = under[f].tkey /\ k[1] = f[1] /\ k[2] = d /\ f[1] \in PairedWith[d]
  /\ FramesIn(got'[d]) = FramesIn(got[d]) \cup {f}
  /\ FramesIn(sub[d]) = FramesIn(sub'[d]) \cup {f}
  /\ \A e \in Devices \ {d} : got'[e] = got[e] /\ sub'[e] = sub[e]
  /\ got'[d] = Append(got[d], [frame |-> f, right |-> rxIv[k] = under[f].iv])
  /\ rxIv' = [rxIv EXCEPT ![k] = f]
  /\ \A g \in FramesIn(got[d]) : g[1] = f[1] => g[2] < f[2]
  /\ \A g \in FramesIn(sub[d]) : g = f \/ (g[1] = f[1] => f[2] < g[2])

LEMMA RecvUnwraps ==
  ASSUME IInv, Labelled, NEW d \in Devices, RecvUnwrap(d)
  PROVE  \E f, k : Unwraps(d, f, k)
<1> DEFINE h == Head(sub[d])
           f == h.frame
           k == h.tkey
<1>1. TypeOK /\ Shapes /\ Ordered
  BY DEF IInv
<1>2. sub[d] \in Seq(WirePackets) /\ sub[d] # <<>> /\ Sorted(sub[d]) /\ got[d] \in Seq(Results)
  BY <1>1 DEF Shapes, Ordered, RecvUnwrap
<1>3. h \in WirePackets /\ h \in PacketsIn(sub[d]) /\ KnowsKey(d, k)
  BY <1>2, FramesOfTail, PacketsOfTail DEF RecvUnwrap
<1>4. f \in Frames /\ Upper[f[1]][f[2]] = d /\ f # NoFrame /\ f[1] # 0
  BY <1>3, KnownPacket, FrameOf
<1>5. k = under[f].tkey /\ k[1] = f[1] /\ k[2] = d /\ f[1] \in PairedWith[d]
  BY <1>3, <1>4 DEF Labelled, CarriesItsKey, KnowsKey, WirePackets
<1>6. IsWrapped(f) /\ k \in PairKeys(f[1], d)
  BY <1>4, <1>5 DEF Labelled, NoKey
<1>7. k \in Keys
  BY <1>4, <1>6, KeyFacts, FrameOf
<1>8. PICK r : r = [frame |-> f, right |-> rxIv[k] = under[f].iv]
  OBVIOUS
<1>9. r \in Results /\ r.frame = f
  BY <1>4, <1>8 DEF Results
<1>10. /\ got'[d] = Append(got[d], r) /\ rxIv' = [rxIv EXCEPT ![k] = f]
       /\ sub'[d] = Tail(sub[d])
       /\ \A e \in Devices \ {d} : got'[e] = got[e] /\ sub'[e] = sub[e]
  BY <1>1, <1>8 DEF RecvUnwrap, RecvTurn, IvAfterDecrypt, Shapes
<1>11. FramesIn(got'[d]) = FramesIn(got[d]) \cup {f}
  BY <1>2, <1>4, <1>9, <1>10, FramesOfAppend
<1>12. FramesIn(sub[d]) = FramesIn(sub'[d]) \cup {f}
  BY <1>2, <1>4, <1>10, PacketsOfTail
<1>13. \A g \in FramesIn(got[d]) : g[1] = f[1] => g[2] < f[2]
  BY <1>1, <1>12 DEF Ordered, Before
<1>14. \A g \in FramesIn(sub[d]) : g = f \/ (g[1] = f[1] => f[2] < g[2])
  BY <1>2, <1>4, <1>10, <1>12, SortedTail
<1> HIDE DEF h, f, k
<1>15. got'[d] = Append(got[d], [frame |-> f, right |-> rxIv[k] = under[f].iv])
  BY <1>8, <1>10
<1>16. Unwraps(d, f, k)
  BY <1>4, <1>5, <1>6, <1>7, <1>10, <1>11, <1>12, <1>13, <1>14, <1>15 DEF Unwraps
<1> QED
  BY <1>16

LEMMA SameGot ==
  ASSUME IInv, [Next]_vars, \A d \in Devices : ~RecvUnwrap(d) PROVE UNCHANGED <<got, rxIv>>
BY DEF Next, SendStep, RecvStep, SendQuit, SendTake, SendPublish, SendLog,
       SendCount, RecvQuit, RecvDisregard, RecvNoPair, RecvPublish, RecvLog,
       RecvWork, Forward, HandleSignal, vars, sendThread, recvThread

LEMMA LabelledKept == ASSUME IInv, Labelled, [Next]_vars PROVE Labelled'
<1>1. TypeOK /\ Shapes
  BY DEF IInv
<1>2. CASE WrapsNothing
  <2>1. \A p : CarriesItsKey(p) => CarriesItsKey(p)'
    BY <1>2 DEF WrapsNothing, CarriesItsKey
  <2>2. /\ \A d \in Devices : \A p \in PacketsIn(sub'[d]) : CarriesItsKey(p)
        /\ \A s \in Sockets : \A p \in PacketsIn(pub'[s]) : CarriesItsKey(p)
    <3> HIDE DEF CarriesItsKey
    <3>1. \A p : p.frame = NoFrame => CarriesItsKey(p)
      BY DEF CarriesItsKey
    <3>2. \A s \in Sockets : \A p \in PacketsIn(pub[s]) : CarriesItsKey(p)
      BY DEF Labelled
    <3>3. \A d \in Devices : /\ sPc[d] = "publish" => CarriesItsKey(sPkt[d])
                            /\ \A p \in PacketsIn(sub[d]) : CarriesItsKey(p)
      BY DEF Labelled
    <3> QED
      BY PacketsMove, <3>1, <3>2, <3>3
  <2>3. ASSUME NEW d \in Devices
        PROVE  \A f \in FramesIn(got'[d]) : f \in Frames /\ IsWrapped(f) /\ f[1] \in PairedWith[d]
    <3>1. \A f \in FramesIn(got[d]) : f \in Frames /\ IsWrapped(f) /\ f[1] \in PairedWith[d]
      BY InTransitTaken DEF Labelled
    <3>2. CASE \A e \in Devices : ~RecvUnwrap(e)
      BY <3>1, <3>2, SameGot
    <3>3. ASSUME NEW e \in Devices, RecvUnwrap(e)
          PROVE  \A f \in FramesIn(got'[d]) :
                   f \in Frames /\ IsWrapped(f) /\ f[1] \in PairedWith[d]
      <4>1. PICK f, k : Unwraps(e, f, k)
        BY <3>3, RecvUnwraps
      <4>2. f \in Frames /\ IsWrapped(f) /\ f[1] \in PairedWith[e]
        BY <4>1 DEF Unwraps
      <4>3. /\ FramesIn(got'[e]) = FramesIn(got[e]) \cup {f}
            /\ \A b \in Devices \ {e} : got'[b] = got[b]
        BY <4>1 DEF Unwraps
      <4> QED
        BY <3>1, <4>2, <4>3
    <3> QED
      BY <3>2, <3>3
  <2>4. ASSUME NEW d \in Devices, sPc'[d] = "publish" PROVE CarriesItsKey(sPkt[d]) /\ sPkt'[d] = sPkt[d]
    BY <1>2, <2>4 DEF WrapsNothing, Labelled
  <2> QED
    BY <1>2, <2>1, <2>2, <2>3, <2>4 DEF WrapsNothing, Labelled, CarriesItsKey
<1>3. ASSUME NEW d \in Devices, NEW f, NEW k, Wraps(d, f, k) PROVE Labelled'
  <2>1. /\ f \in Frames /\ f[1] = d /\ f[2] = taken[d] + 1 /\ ~IsWrapped(f)
        /\ k \in Keys
        /\ \A g \in Frames : IsWrapped(g)' <=> IsWrapped(g) \/ g = f
        /\ \A g \in Frames \ {f} : under'[g] = under[g]
        /\ under'[f] = [tkey |-> k, iv |-> txIv[k]]
    BY <1>3, WrapFacts
  <2>2. UNCHANGED <<got, pub, sub>> /\ k \in PairKeys(f[1], Upper[f[1]][f[2]])
    BY <1>3, <2>1 DEF Wraps, recvThread
  <2>3. under' \in [Frames -> [tkey : Nat \X Nat \X Nat, iv : Frames \cup {NoFrame}]]
    <3>1. txIv[k] \in Frames \cup {NoFrame} /\ k \in Nat \X Nat \X Nat
      <4>1. f[1] \in Devices /\ Upper[f[1]][f[2]] \in Devices
        BY <1>3, <2>1, FrameOf, PairAssumption DEF Wraps
      <4> QED
        BY <1>1, <2>1, <2>2, <4>1, KeyFacts DEF TypeOK
    <3> QED
      BY <1>3, <2>1, <3>1 DEF Wraps, Labelled
  <2>4. \A g \in Frames :
          IF IsWrapped(g)' THEN under'[g].tkey \in PairKeys(g[1], Upper[g[1]][g[2]])
                           ELSE under'[g].tkey = NoKey
    BY <2>1, <2>2 DEF Labelled
  <2>5. taken[d] \in Nat /\ \A g \in Frames : g[2] <= taken[g[1]] => g # f
    BY <1>1, <2>1 DEF TypeOK
  <2>6. ASSUME NEW p, CarriesItsKey(p), p.frame # NoFrame => p.frame \in Frames \ {f}
        PROVE  CarriesItsKey(p)'
    BY <2>1, <2>6 DEF CarriesItsKey
  <2>7. \A q : \A p \in PacketsIn(q) : p.frame # NoFrame => p.frame \in FramesIn(q)
    BY FramesOfPackets
  <2>8. \A e \in Devices : \A p \in PacketsIn(sub[e]) : CarriesItsKey(p)'
    BY <2>5, <2>6, <2>7, InTransitTaken DEF Labelled
  <2>9. \A s \in Sockets : \A p \in PacketsIn(pub[s]) : CarriesItsKey(p)'
    BY <2>5, <2>6, <2>7, InTransitTaken DEF Labelled
  <2>10. ASSUME NEW e \in Devices, sPc'[e] = "publish" PROVE CarriesItsKey(sPkt[e])'
    <3>1. CASE e = d
      <4>1. sPkt'[d] = Packet(k, f, d)
        BY <1>1, <1>3 DEF Wraps, Shapes
      <4> QED
        BY <2>1, <3>1, <4>1 DEF CarriesItsKey, Packet
    <3>2. CASE e # d
      <4>1. sPkt'[e] = sPkt[e] /\ sPc[e] = "publish" /\ sPkt[e].frame = <<e, taken[e]>>
        BY <1>1, <1>3, <2>10, <3>2 DEF Wraps, Shapes, TypeOK
      <4>2. CarriesItsKey(sPkt[e]) /\ sPkt[e].frame # f
        BY <2>1, <3>2, <4>1 DEF Labelled
      <4>3. sPkt[e].frame # NoFrame => sPkt[e].frame \in Frames
        BY <1>1 DEF Shapes, WirePackets, NoPacket, Packet
      <4>4. PICK p : p = sPkt[e]
        OBVIOUS
      <4>5. CarriesItsKey(p)'
        BY <2>6, <4>2, <4>3, <4>4
      <4> QED
        BY <4>1, <4>4, <4>5 DEF CarriesItsKey
    <3> QED
      BY <3>1, <3>2
  <2>11. ASSUME NEW e \in Devices, NEW g \in FramesIn(got[e])
         PROVE  IsWrapped(g)' /\ g[1] \in PairedWith[e]
    BY <2>1, <2>11, InTransitTaken DEF Labelled
  <2> QED
    BY <2>2, <2>3, <2>4, <2>8, <2>9, <2>10, <2>11 DEF Labelled
<1>4. CASE \E d \in Devices : SendTake(d)
  BY <1>1, <1>2, <1>3, <1>4, TakeWraps
<1> QED
  BY <1>1, <1>2, <1>4, OtherStepsWrapNothing

(* The key of a frame is one of its sender's for its addressee.            *)
LEMMA KeyOfFrame ==
  ASSUME Labelled, NEW k \in Keys, NEW f \in WrappedUnder(k)
  PROVE  f \in Frames /\ IsWrapped(f) /\ f[1] = k[1] /\ Upper[f[1]][f[2]] = k[2]
<1>1. f \in Frames /\ under[f].tkey = k /\ k # NoKey
  BY KeyFacts DEF WrappedUnder
<1>2. IsWrapped(f) /\ k \in PairKeys(f[1], Upper[f[1]][f[2]])
  BY <1>1 DEF Labelled
<1>3. f[1] \in Devices /\ Upper[f[1]][f[2]] \in Devices
  BY <1>1, <1>2, FrameOf, PairAssumption DEF IsWrapped
<1> QED
  BY <1>1, <1>2, <1>3, KeyFacts

LEMMA ChainedKept == ASSUME IInv, Labelled, Chained, [Next]_vars PROVE Chained'
<1>1. TypeOK /\ Shapes
  BY DEF IInv
<1>2. \A f \in Frames : IsWrapped(f) => under[f].tkey \in Keys
  <2> SUFFICES ASSUME NEW f \in Frames, IsWrapped(f) PROVE under[f].tkey \in Keys
    OBVIOUS
  <2>1. f[1] \in Devices /\ Upper[f[1]][f[2]] \in Devices
    BY FrameOf, PairAssumption DEF IsWrapped
  <2> QED
    BY <2>1, KeyFacts DEF Labelled
<1>3. CASE WrapsNothing
  <2>1. \A k \in Keys : WrappedUnder(k)' = WrappedUnder(k) /\ txIv'[k] = txIv[k]
    BY <1>3 DEF WrapsNothing, WrappedUnder
  <2>2. \A f \in Frames : IsWrapped(f)' =>
          IsLast(under'[f].iv, {g \in WrappedUnder(under'[f].tkey) : g[2] < f[2]})
    BY <1>3 DEF WrapsNothing, Chained
  <2>3. ASSUME \A k \in Keys : IsLast(rxIv'[k], WrappedUnder(k) \cap FramesIn(got'[k[2]]))
        PROVE  Chained'
    <3>1. under' = under /\ \A f \in Frames : IsWrapped(f)' = IsWrapped(f)
      BY <1>3 DEF WrapsNothing
    <3>2. \A f \in Frames : IsWrapped(f)' =>
            IsLast(under'[f].iv, {g \in WrappedUnder(under[f].tkey)' : g[2] < f[2]})
      BY <1>2, <2>1, <2>2, <3>1
    <3>3. \A k \in Keys : /\ IsLast(txIv'[k], WrappedUnder(k)')
                          /\ IsLast(rxIv'[k], WrappedUnder(k)' \cap FramesIn(got'[k[2]]))
      BY <2>1, <2>3 DEF Chained
    <3> QED
      BY <3>1, <3>2, <3>3 DEF Chained, IsLast, DecryptedUnder, WrappedUnder, FramesIn
  <2>4. CASE \A d \in Devices : ~RecvUnwrap(d)
    <3>1. UNCHANGED <<got, rxIv>>
      BY <2>4, SameGot
    <3> QED
      BY <2>3, <3>1 DEF Chained, DecryptedUnder
  <2>5. ASSUME NEW d \in Devices, RecvUnwrap(d)
        PROVE  Chained'
    <3>1. PICK f, k : Unwraps(d, f, k)
      BY <2>5, RecvUnwraps
    <3>2. /\ f \in Frames /\ k \in Keys /\ k = under[f].tkey /\ k[2] = d /\ k[1] = f[1]
          /\ FramesIn(got'[d]) = FramesIn(got[d]) \cup {f}
          /\ \A e \in Devices \ {d} : got'[e] = got[e]
          /\ \A g \in FramesIn(got[d]) : g[1] = f[1] => g[2] < f[2]
      BY <3>1 DEF Unwraps
    <3>3. rxIv'[k] = f /\ \A l \in Keys \ {k} : rxIv'[l] = rxIv[l]
      BY <1>1, <3>1, <3>2 DEF Unwraps, TypeOK
    <3>4. ASSUME NEW l \in Keys
          PROVE  IsLast(rxIv'[l], WrappedUnder(l) \cap FramesIn(got'[l[2]]))
      <4>1. IsLast(rxIv[l], WrappedUnder(l) \cap FramesIn(got[l[2]]))
        BY DEF Chained, DecryptedUnder
      <4>2. CASE l # k
        <5>1. f \notin WrappedUnder(l) /\ l[2] \in Devices
          BY <3>2, <4>2, KeyFacts DEF WrappedUnder
        <5>2. WrappedUnder(l) \cap FramesIn(got'[l[2]]) = WrappedUnder(l) \cap FramesIn(got[l[2]])
          BY <3>2, <5>1
        <5> QED
          BY <3>3, <4>1, <4>2, <5>2
      <4>3. CASE l = k
        <5> DEFINE F == WrappedUnder(k) \cap FramesIn(got[d])
        <5>1. F \in SUBSET Frames /\ f \in WrappedUnder(k)
          BY <3>2 DEF WrappedUnder
        <5>2. \A g \in F : g[2] < f[2]
          BY <3>2, KeyOfFrame
        <5>3. IsLast(f, F \cup {f})
          BY <3>2, <5>1, <5>2, IsLastAdded
        <5>4. WrappedUnder(l) \cap FramesIn(got'[l[2]]) = F \cup {f}
          BY <3>2, <4>3, <5>1
        <5> QED
          BY <3>3, <4>3, <5>3, <5>4
      <4> QED
        BY <4>2, <4>3
    <3> QED
      BY <2>3, <3>4
  <2> QED
    BY <2>4, <2>5
<1>4. ASSUME NEW d \in Devices, NEW f, NEW k, Wraps(d, f, k) PROVE Chained'
  <2>1. /\ f \in Frames /\ f[1] = d /\ f[2] = taken[d] + 1 /\ ~IsWrapped(f)
        /\ k \in Keys /\ under[f].tkey = NoKey
        /\ \A g \in Frames : IsWrapped(g)' <=> IsWrapped(g) \/ g = f
        /\ \A g \in Frames \ {f} : under'[g] = under[g]
        /\ under'[f] = [tkey |-> k, iv |-> txIv[k]]
        /\ \A g \in Frames : g[1] = d /\ IsWrapped(g) => g[2] < f[2]
    BY <1>4, WrapFacts
  <2>2. /\ txIv'[k] = f /\ \A l \in Keys \ {k} : txIv'[l] = txIv[l]
        /\ UNCHANGED <<got, rxIv>> /\ k[1] = d
    <3>1. Upper[d][f[2]] \in Devices
      BY <1>4, PairAssumption DEF Wraps
    <3> QED
      BY <1>1, <1>4, <2>1, <3>1, KeyFacts DEF Wraps, TypeOK, recvThread
  <2>3. WrappedUnder(k)' = WrappedUnder(k) \cup {f}
    BY <2>1 DEF WrappedUnder
  <2>4. ASSUME NEW l \in Keys \ {k} PROVE WrappedUnder(l)' = WrappedUnder(l)
    BY <2>1, <2>4, KeyFacts DEF WrappedUnder
  <2>5. \A g \in WrappedUnder(k) : g \in Frames /\ g[2] < f[2]
    BY <2>1, <2>2, KeyOfFrame
  <2>6. ASSUME NEW g \in Frames \ {f}, IsWrapped(g)', NEW l \in Keys, l = under[g].tkey
        PROVE  under'[g] = under[g] /\ IsLast(under[g].iv, {x \in WrappedUnder(l)' : x[2] < g[2]})
    <3>1. IsWrapped(g) /\ under'[g] = under[g]
      BY <2>1, <2>6
    <3>3. {x \in WrappedUnder(l)' : x[2] < g[2]} = {x \in WrappedUnder(l) : x[2] < g[2]}
      <4>1. CASE l # k
        BY <2>4, <4>1
      <4>2. CASE l = k
        <5>1. g \in WrappedUnder(k) /\ g[2] \in Nat /\ f[2] \in Nat
          BY <2>1, <2>6, <4>2, FrameOf DEF WrappedUnder
        <5>2. ~(f[2] < g[2])
          BY <2>5, <5>1
        <5> QED
          BY <2>3, <4>2, <5>2
      <4> QED
        BY <4>1, <4>2
    <3>4. IsLast(under[g].iv, {x \in WrappedUnder(l) : x[2] < g[2]})
      BY <2>6, <3>1 DEF Chained
    <3> QED
      BY <3>1, <3>3, <3>4
  <2>7. IsLast(under'[f].iv, {x \in WrappedUnder(k)' : x[2] < f[2]})
    <3>1. f[2] \in Nat
      BY <2>1, FrameOf
    <3>2. {x \in WrappedUnder(k)' : x[2] < f[2]} = WrappedUnder(k)
      BY <2>3, <2>5, <3>1
    <3>3. under'[f].iv = txIv[k] /\ IsLast(txIv[k], WrappedUnder(k))
      BY <2>1 DEF Chained
    <3> QED
      BY <3>2, <3>3
  <2>8. ASSUME NEW l \in Keys PROVE IsLast(txIv'[l], WrappedUnder(l)')
    <3>1. CASE l # k
      BY <2>2, <2>4, <3>1 DEF Chained
    <3>2. CASE l = k
      <4>1. WrappedUnder(k) \in SUBSET Frames
        BY DEF WrappedUnder
      <4>2. IsLast(f, WrappedUnder(k) \cup {f})
        BY <2>1, <2>5, <4>1, IsLastAdded
      <4> QED
        BY <2>2, <2>3, <3>2, <4>2
    <3> QED
      BY <3>1, <3>2
  <2>9. ASSUME NEW l \in Keys
        PROVE  IsLast(rxIv'[l], WrappedUnder(l)' \cap FramesIn(got'[l[2]]))
    <3>1. l[2] \in Devices
      BY KeyFacts
    <3>2. f \notin FramesIn(got[l[2]])
      BY <2>1, <3>1 DEF Labelled
    <3>3. WrappedUnder(l)' \cap FramesIn(got'[l[2]]) = WrappedUnder(l) \cap FramesIn(got[l[2]])
      BY <2>2, <2>3, <2>4, <3>2
    <3> QED
      BY <2>2, <3>3 DEF Chained, DecryptedUnder
  <2>10. ASSUME NEW g \in Frames, IsWrapped(g)'
         PROVE  IsLast(under[g].iv, {x \in WrappedUnder(under[g].tkey) : x[2] < g[2]})'
    <3>1. PICK l \in Keys : l = under'[g].tkey
      BY <1>2, <2>1, <2>10
    <3>2. IsLast(under'[g].iv, {x \in WrappedUnder(l)' : x[2] < g[2]})
      <4>1. CASE g = f
        <5>1. l = k
          BY <2>1, <3>1, <4>1
        <5>2. WrappedUnder(l)' = WrappedUnder(k)'
          BY <5>1 DEF WrappedUnder
        <5> QED
          BY <2>7, <4>1, <5>2
      <4>2. CASE g # f
        <5>1. g \in Frames \ {f} /\ l = under[g].tkey
          BY <2>1, <3>1, <4>2
        <5>2. under'[g] = under[g] /\ IsLast(under[g].iv, {x \in WrappedUnder(l)' : x[2] < g[2]})
          BY <2>6, <2>10, <5>1
        <5> QED
          BY <5>2
      <4> QED
        BY <4>1, <4>2
    <3>3. PICK F, iv : F = {x \in WrappedUnder(l)' : x[2] < g[2]} /\ iv = under'[g].iv
      OBVIOUS
    <3>4. IsLast(iv, F)
      BY <3>2, <3>3
    <3>5. F = {x \in WrappedUnder(under[g].tkey) : x[2] < g[2]}'
      BY <3>1, <3>3 DEF WrappedUnder
    <3> QED
      BY <3>3, <3>4, <3>5 DEF IsLast
  <2>11. \A l \in Keys : /\ IsLast(txIv[l], WrappedUnder(l))'
                         /\ IsLast(rxIv[l], DecryptedUnder(l))'
    BY <2>8, <2>9 DEF IsLast, DecryptedUnder, WrappedUnder, FramesIn
  <2> QED
    BY <2>10, <2>11 DEF Chained
<1>5. CASE \E d \in Devices : SendTake(d)
  BY <1>1, <1>3, <1>4, <1>5, TakeWraps
<1> QED
  BY <1>1, <1>3, <1>5, OtherStepsWrapNothing

(* With nothing lost, when a device unwraps a frame it has unwrapped all    *)
(* those that were wrapped for it before: they can be nowhere else.        *)
LEMMA EarlierUnwrapped ==
  ASSUME IInv, Kept, ~Lossy, NEW d \in Devices, RecvUnwrap(d), NEW f, NEW k, Unwraps(d, f, k),
         NEW g \in Frames, IsWrapped(g), g[1] = f[1], Upper[g[1]][g[2]] = d, g[2] < f[2]
  PROVE  g \in FramesIn(got[d])
<1>1. TypeOK /\ Shapes /\ Ordered
  BY DEF IInv
<1>2. /\ f \in Frames /\ f \in FramesIn(sub[d]) /\ f[1] \in PairedWith[d] /\ f[1] \in Devices
      /\ \A h \in FramesIn(sub[d]) : h = f \/ (h[1] = f[1] => f[2] < h[2])
  BY FrameOf DEF Unwraps
<1>3. g[2] \in Nat /\ f[2] \in Nat /\ ~(f[2] < g[2]) /\ g # f
  BY <1>2, FrameOf
<1>4. InHand(g) /\ rPc[d] # "done"
  BY <1>2 DEF Kept, RecvUnwrap
<1>5. ~(sPc[g[1]] = "publish" /\ sPkt[g[1]].frame = g)
  <2>1. SUFFICES ASSUME sPc[f[1]] = "publish", sPkt[f[1]].frame = g PROVE FALSE
    OBVIOUS
  <2>2. g = <<f[1], taken[f[1]]>> /\ taken[f[1]] \in Nat
    BY <1>1, <1>2, <2>1 DEF Shapes, TypeOK
  <2>3. f[2] <= taken[f[1]] - 1
    BY <1>1, <1>2, <2>1 DEF Ordered, Published
  <2> QED
    BY <1>3, <2>2, <2>3
<1>6. g \notin FramesIn(pub[<<g[1], "send">>])
  <2>1. <<g[1], "send">> \in Sockets
    BY <1>2 DEF Sockets
  <2>2. Before(FramesIn(got[d]) \cup FramesIn(sub[d]), FramesIn(pub[<<g[1], "send">>]))
    BY <1>1, <2>1 DEF Ordered
  <2> QED
    BY <1>2, <1>3, <2>2 DEF Before
<1>7. g \notin FramesIn(sub[d])
  BY <1>2, <1>3
<1> QED
  BY <1>4, <1>5, <1>6, <1>7 DEF InHand

(* With nothing lost, all the frames before the one a device unwraps, under *)
(* the same key, have been unwrapped: its context has the IV it needs.     *)
LEMMA RightKept ==
  ASSUME IInv, Labelled, Chained, Kept, RightIfNothingLost, [Next]_vars
  PROVE  RightIfNothingLost'
<1>1. TypeOK /\ Shapes /\ Ordered
  BY DEF IInv
<1>2. CASE \A d \in Devices : ~RecvUnwrap(d)
  BY <1>2, SameGot DEF RightIfNothingLost
<1>3. ASSUME NEW d \in Devices, RecvUnwrap(d), ~Lossy PROVE RightIfNothingLost'
  <2>1. PICK f, k : Unwraps(d, f, k)
    BY <1>3, RecvUnwraps
  <2>2. /\ f \in Frames /\ f \in FramesIn(sub[d]) /\ IsWrapped(f)
        /\ k \in Keys /\ k = under[f].tkey /\ k[1] = f[1] /\ k[2] = d
        /\ f[1] \in PairedWith[d] /\ f[1] \in Devices
    BY <2>1, FrameOf DEF Unwraps
  <2>3. /\ \A g \in FramesIn(got[d]) : g[1] = f[1] => g[2] < f[2]
        /\ \A g \in FramesIn(sub[d]) : g = f \/ (g[1] = f[1] => f[2] < g[2])
    BY <2>1 DEF Unwraps
  <2> DEFINE F == {g \in WrappedUnder(k) : g[2] < f[2]}
  <2>4. ASSUME NEW g \in F PROVE g \in FramesIn(got[d])
    <3>1. g \in Frames /\ IsWrapped(g) /\ g[1] = f[1] /\ Upper[g[1]][g[2]] = d /\ g[2] < f[2]
      BY <2>2, KeyOfFrame
    <3> QED
      BY <1>3, <2>1, <3>1, EarlierUnwrapped
  <2>5. F = DecryptedUnder(k)
    <3>1. ASSUME NEW g \in DecryptedUnder(k) PROVE g \in F
      <4>1. g \in WrappedUnder(k) /\ g \in FramesIn(got[d])
        BY <2>2, <3>1 DEF DecryptedUnder
      <4>2. g[1] = f[1]
        BY <2>2, <4>1, KeyOfFrame
      <4> QED
        BY <2>3, <4>1, <4>2
    <3> QED
      BY <2>2, <2>4, <3>1 DEF DecryptedUnder
  <2>6. IsLast(under[f].iv, F) /\ IsLast(rxIv[k], F)
    <3>1. IsLast(under[f].iv, {g \in WrappedUnder(under[f].tkey) : g[2] < f[2]})
      BY <2>2 DEF Chained
    <3>2. IsLast(rxIv[k], DecryptedUnder(k))
      BY <2>2 DEF Chained
    <3> QED
      BY <2>2, <2>5, <3>1, <3>2
  <2>7. F \in SUBSET Frames /\ \A g, h \in F : g[1] = h[1]
    <3>1. \A g \in F : g \in Frames /\ g[1] = k[1]
      BY <2>2, KeyOfFrame
    <3> QED
      BY <3>1
  <2> HIDE DEF F
  <2>8. rxIv[k] = under[f].iv
    BY <2>6, <2>7, IsLastUnique
  <2>9. PICK r : r = [frame |-> f, right |-> rxIv[k] = under[f].iv]
    OBVIOUS
  <2>10. r \in Results /\ r.right
    BY <2>2, <2>8, <2>9 DEF Results
  <2>11. /\ got'[d] = Append(got[d], r)
         /\ \A e \in Devices \ {d} : got'[e] = got[e]
    BY <2>1, <2>9 DEF Unwraps
  <2>12. /\ got[d] \in Seq(Results)
         /\ DOMAIN Append(got[d], r) = 1..(Len(got[d]) + 1)
         /\ DOMAIN got[d] = 1..Len(got[d]) /\ Len(got[d]) \in Nat
         /\ \A i \in 1..Len(got[d]) : Append(got[d], r)[i] = got[d][i]
         /\ Append(got[d], r)[Len(got[d]) + 1] = r
    BY <1>1, <2>10, AppendProperties DEF Shapes
  <2>13. \A i \in DOMAIN Append(got[d], r) : Append(got[d], r)[i].right
    <3>1. \A i \in 1..Len(got[d]) : got[d][i].right
      BY <1>3, <2>12 DEF RightIfNothingLost
    <3>2. \A i \in 1..(Len(got[d]) + 1) : i \in 1..Len(got[d]) \/ i = Len(got[d]) + 1
      BY <2>12
    <3> QED
      BY <2>10, <2>12, <3>1, <3>2
  <2>14. ASSUME NEW e \in Devices, NEW i \in DOMAIN got'[e] PROVE got'[e][i].right
    BY <1>3, <2>11, <2>13, <2>14 DEF RightIfNothingLost
  <2> QED
    BY <2>14 DEF RightIfNothingLost
<1>4. Lossy => RightIfNothingLost'
  BY DEF RightIfNothingLost
<1> QED
  BY <1>2, <1>3, <1>4

(* With nothing lost, no step makes a device skip a frame.                 *)
LEMMA NoGapsKept ==
  ASSUME IInv, Labelled, Kept, NoGaps, [Next]_vars PROVE NoGaps'
<1>1. TypeOK /\ Shapes
  BY DEF IInv
<1>2. SUFFICES ASSUME ~Lossy, NEW d \in Devices, NEW f \in Frames, NEW g \in FramesIn(got'[d]),
                      IsWrapped(f)', Upper[f[1]][f[2]] = d, f[1] = g[1], f[2] < g[2]
               PROVE  f \in FramesIn(got'[d])
  BY DEF NoGaps, FramesIn
<1>3. CASE g \in FramesIn(got[d])
  <2>1. IsWrapped(f)
    <3>1. CASE WrapsNothing
      BY <1>2, <3>1 DEF WrapsNothing
    <3>2. ASSUME NEW e \in Devices, NEW h, NEW k, Wraps(e, h, k) PROVE IsWrapped(f)
      <4>1. h[1] = e /\ h[2] = taken[e] + 1 /\ (IsWrapped(f)' <=> IsWrapped(f) \/ f = h)
        BY <3>2, WrapFacts
      <4>2. g[2] <= taken[g[1]] /\ taken[e] \in Nat /\ g[2] \in Nat
        BY <1>1, <1>3, InTransitTaken, FrameOf DEF TypeOK
      <4> QED
        BY <1>2, <4>1, <4>2
    <3> QED
      BY <1>1, <3>1, <3>2, TakeWraps, OtherStepsWrapNothing
  <2>2. f \in FramesIn(got[d])
    BY <1>2, <1>3, <2>1 DEF NoGaps
  <2>3. CASE \A e \in Devices : ~RecvUnwrap(e)
    BY <2>2, <2>3, SameGot
  <2>4. ASSUME NEW e \in Devices, RecvUnwrap(e) PROVE f \in FramesIn(got'[d])
    <3>1. PICK h, k : Unwraps(e, h, k)
      BY <2>4, RecvUnwraps
    <3> QED
      BY <2>2, <3>1 DEF Unwraps
  <2> QED
    BY <2>3, <2>4
<1>4. CASE g \notin FramesIn(got[d])
  <2>1. PICK e \in Devices : RecvUnwrap(e)
    BY <1>2, <1>4, SameGot
  <2>2. PICK h, k : Unwraps(e, h, k)
    BY <2>1, RecvUnwraps
  <2>3. d = e /\ g = h /\ FramesIn(got[d]) \subseteq FramesIn(got'[d])
    BY <1>2, <1>4, <2>2 DEF Unwraps
  <2>4. IsWrapped(f)
    BY <1>2, <2>1 DEF IsWrapped, RecvUnwrap, sendThread
  <2>5. f \in FramesIn(got[d])
    BY <1>2, <2>1, <2>2, <2>3, <2>4, EarlierUnwrapped
  <2> QED
    BY <2>3, <2>5
<1> QED
  BY <1>3, <1>4

(* A frame stays in hand when it moves along its way.                      *)
LEMMA StaysInHand ==
  ASSUME NEW g \in Frames, NEW e, e = Upper[g[1]][g[2]], InHand(g),
         rPc[e] = "done" => rPc'[e] = "done",
         sPc[g[1]] = "publish" /\ sPkt[g[1]].frame = g =>
           \/ sPc'[g[1]] = "publish" /\ sPkt'[g[1]].frame = g
           \/ g \in FramesIn(pub'[<<g[1], "send">>]),
         g \in FramesIn(pub[<<g[1], "send">>]) \cup FramesIn(sub[e]) \cup FramesIn(got[e]) =>
           \/ g \in FramesIn(pub'[<<g[1], "send">>]) \cup FramesIn(sub'[e])
                      \cup FramesIn(got'[e])
           \/ rPc'[e] = "done"
  PROVE  InHand(g)'
BY DEF InHand, FramesIn

(* A device disregards no frame that another sent it, and takes none for a *)
(* stranger's.                                                             *)
LEMMA HeadIsTaken ==
  ASSUME IInv, OwnKeys, Labelled, NEW d \in Devices, sub[d] # <<>>, NEW g \in Frames,
         g = Head(sub[d]).frame, Upper[g[1]][g[2]] = d, g[1] \in PairedWith[d]
  PROVE  TRUE \notin CheckLastSent(d, Head(sub[d]).tkey) /\ KnowsKey(d, Head(sub[d]).tkey)
<1>1. sub[d] \in Seq(WirePackets)
  BY DEF IInv, Shapes
<1>2. Head(sub[d]) \in WirePackets /\ g # NoFrame /\ g[1] \in Nat \ {0}
  BY <1>1, FramesOfTail, FrameOf
<1>3. Head(sub[d]).tkey[1] = g[1] /\ Head(sub[d]).tkey[2] = d
  BY <1>2 DEF WirePackets
<1>4. g[1] # d
  BY PairAssumption
<1> QED
  BY <1>2, <1>3, <1>4 DEF CheckLastSent, KnowsKey, OwnKeys

LEMMA SendKeepsHand ==
  ASSUME IInv, NEW d \in Devices, SendStep(d), NEW g \in Frames, InHand(g)
  PROVE  InHand(g)'
<1> USE DEF sendThread, recvThread
<1>1. TypeOK /\ Shapes
  BY DEF IInv
<1>2. g[1] \in Devices /\ Sockets = Devices \X {"send", "recv"}
  BY FrameOf
<1>3. CASE ~SendPublish(d)
  <2>1. UNCHANGED <<rPc, pub, sub, got>>
    BY <1>3 DEF SendStep, SendQuit, SendTake, SendLog, SendCount
  <2>2. sPc[d] # "publish"
    BY <1>3 DEF SendStep, SendQuit, SendTake, SendLog, SendCount
  <2>3. \A e \in Devices \ {d} : sPc'[e] = sPc[e]
    BY <1>1, <1>3 DEF SendStep, SendQuit, SendTake, WrapPacket, SendLog, SendCount,
       TypeOK
  <2>4. \A e \in Devices \ {d} : sPkt'[e] = sPkt[e]
    BY <1>1, <1>3 DEF SendStep, SendQuit, SendTake, WrapPacket, SendLog, SendCount,
       Shapes
  <2> QED
    BY <1>2, <2>1, <2>2, <2>3, <2>4, StaysInHand
<1>4. CASE SendPublish(d)
  <2>1. /\ UNCHANGED <<rPc, sub, got, sPkt>> /\ \A e \in Devices \ {d} : sPc'[e] = sPc[e]
        /\ \A t \in Sockets : pub'[t] = IF t = <<d, "send">> THEN Append(pub[t], sPkt[d]) ELSE pub[t]
    BY <1>1, <1>4 DEF SendPublish, Publish, TypeOK, Shapes
  <2>2. <<d, "send">> \in Sockets /\ sPkt[d] \in WirePackets
    BY <1>1, <1>2, <1>4, FrameOf DEF Shapes, SendPublish, NoPacket, Packet, NoFrame
  <2>3. pub[<<d, "send">>] \in Seq(WirePackets)
    BY <1>1, <2>2 DEF Shapes
  <2>4. FramesIn(Append(pub[<<d, "send">>], sPkt[d]))
          = FramesIn(pub[<<d, "send">>]) \cup ({sPkt[d].frame} \ {NoFrame})
    BY <2>2, <2>3, FramesOfAppend
  <2>5. \A t \in Sockets : FramesIn(pub[t]) \subseteq FramesIn(pub'[t])
    BY <2>1, <2>4
  <2>6. sPkt[d].frame = g => g \in FramesIn(pub'[<<d, "send">>])
    BY <2>1, <2>2, <2>4, FrameOf
  <2>7. <<g[1], "send">> \in Sockets
    BY <1>2
  <2> QED
    BY <2>1, <2>5, <2>6, <2>7, StaysInHand, <1>2
<1> QED
  BY <1>3, <1>4

LEMMA RecvKeepsHand ==
  ASSUME IInv, OwnKeys, Labelled, NEW d \in Devices, RecvStep(d),
         NEW g \in Frames, InHand(g), NEW e \in Devices, e = Upper[g[1]][g[2]],
         g[1] \in PairedWith[e]
  PROVE  InHand(g)'
<1> USE DEF sendThread, recvThread
<1>1. TypeOK /\ Shapes
  BY DEF IInv
<1>2. g[1] \in Devices /\ g # NoFrame /\ <<g[1], "send">> \in Sockets
  BY FrameOf DEF Sockets
<1>3. /\ rPc[d] # "done" /\ \A b \in Devices \ {d} : rPc'[b] = rPc[b]
      /\ UNCHANGED <<sPc, sPkt>>
  BY <1>1 DEF RecvStep, RecvQuit, RecvDisregard, RecvUnwrap, RecvNoPair, RecvPublish,
     RecvLog, RecvWork, RecvTurn, TypeOK
<1>4. rPc[e] = "done" => rPc'[e] = "done"
  BY <1>3
<1>5. FramesIn(pub[<<g[1], "send">>]) \subseteq FramesIn(pub'[<<g[1], "send">>])
  <2>1. CASE ~RecvPublish(d)
    BY <2>1 DEF RecvStep, RecvQuit, RecvDisregard, RecvUnwrap, RecvNoPair, RecvLog, RecvWork
  <2>2. CASE RecvPublish(d)
    <3>1. <<d, "recv">> # <<g[1], "send">>
      OBVIOUS
    <3>2. pub'[<<g[1], "send">>] = pub[<<g[1], "send">>]
      BY <1>1, <1>2, <2>2, <3>1 DEF RecvPublish, Publish, Shapes
    <3> QED
      BY <3>2
  <2> QED
    BY <2>1, <2>2
<1>6. g \in FramesIn(got[e]) => g \in FramesIn(got'[e])
  <2>1. CASE \A b \in Devices : ~RecvUnwrap(b)
    <3>1. UNCHANGED got
      BY <2>1 DEF RecvStep, RecvQuit, RecvDisregard, RecvNoPair, RecvPublish, RecvLog, RecvWork
    <3> QED
      BY <3>1
  <2>2. ASSUME NEW b \in Devices, RecvUnwrap(b) PROVE FramesIn(got[e]) \subseteq FramesIn(got'[e])
    <3>1. PICK f, k : Unwraps(b, f, k)
      BY <2>2, RecvUnwraps
    <3> QED
      BY <3>1 DEF Unwraps
  <2> QED
    BY <2>1, <2>2
<1>7. g \in FramesIn(sub[e]) =>
        g \in FramesIn(sub'[e]) \cup FramesIn(got'[e]) \/ rPc'[e] = "done"
  <2> SUFFICES ASSUME g \in FramesIn(sub[e])
               PROVE  g \in FramesIn(sub'[e]) \cup FramesIn(got'[e])
    OBVIOUS
  <2>1. CASE sub' = sub
    BY <2>1
  <2>2. CASE RecvUnwrap(d)
    <3>1. PICK f, k : Unwraps(d, f, k)
      BY <2>2, RecvUnwraps
    <3>2. /\ FramesIn(got'[d]) = FramesIn(got[d]) \cup {f}
          /\ FramesIn(sub[d]) = FramesIn(sub'[d]) \cup {f}
          /\ \A b \in Devices \ {d} : sub'[b] = sub[b]
      BY <3>1 DEF Unwraps
    <3> QED
      BY <3>2
  <2>3. CASE RecvDisregard(d) \/ RecvNoPair(d)
    <3>1. /\ sub[d] # <<>> /\ sub'[d] = Tail(sub[d]) /\ sub[d] \in Seq(WirePackets)
          /\ \A b \in Devices \ {d} : sub'[b] = sub[b]
          /\ TRUE \in CheckLastSent(d, Head(sub[d]).tkey) \/ ~KnowsKey(d, Head(sub[d]).tkey)
      BY <1>1, <2>3 DEF RecvDisregard, RecvNoPair, RecvTurn, Shapes
    <3>2. e = d => Head(sub[d]).frame # g
      BY <3>1, HeadIsTaken
    <3>3. FramesIn(sub[d]) = FramesIn(sub'[d]) \cup ({Head(sub[d]).frame} \ {NoFrame})
      BY <3>1, PacketsOfTail
    <3> QED
      BY <3>1, <3>2, <3>3
  <2> QED
    BY <2>1, <2>2, <2>3 DEF RecvStep, RecvQuit, RecvPublish, RecvLog, RecvWork, RecvTurn
<1> QED
  BY <1>3, <1>4, <1>5, <1>6, <1>7, StaysInHand

LEMMA ForwardKeepsHand ==
  ASSUME IInv, OwnKeys, ~Lossy, NEW t \in Sockets, Forward(t),
         NEW g \in Frames, InHand(g), NEW e \in Devices, e = Upper[g[1]][g[2]]
  PROVE  InHand(g)'
<1> USE DEF sendThread, recvThread
<1>1. TypeOK /\ Shapes /\ Ordered
  BY DEF IInv
<1>2. UNCHANGED <<sPc, sPkt, rPc, got>> /\ pub[t] # <<>> /\ pub[t] \in Seq(WirePackets)
  BY <1>1 DEF Forward, Shapes
<1>3. PICK h : h = Head(pub[t])
  OBVIOUS
<1>4. h \in WirePackets /\ FramesIn(pub[t]) = FramesIn(Tail(pub[t])) \cup ({h.frame} \ {NoFrame})
  BY <1>2, <1>3, FramesOfTail, PacketsOfTail
<1>5. /\ pub'[t] = Tail(pub[t]) /\ \A s \in Sockets \ {t} : pub'[s] = pub[s]
      /\ sub'[e] = IF Subscribed(e) THEN Append(sub[e], h) ELSE sub[e]
  BY <1>1, <1>3 DEF Forward, Shapes
<1>6. sub[e] \in Seq(WirePackets)
  BY <1>1 DEF Shapes
<1>7. FramesIn(Append(sub[e], h)) = FramesIn(sub[e]) \cup ({h.frame} \ {NoFrame})
  BY <1>4, <1>6, FramesOfAppend
<1>8. <<g[1], "send">> \in Sockets
  BY FrameOf DEF Sockets
<1>9. g \in FramesIn(pub[<<g[1], "send">>]) =>
        g \in FramesIn(pub'[<<g[1], "send">>]) \cup FramesIn(sub'[e]) \/ rPc[e] = "done"
  <2>1. CASE Subscribed(e)
    BY <1>4, <1>5, <1>7, <1>8, <2>1
  <2>2. CASE ~Subscribed(e)
    BY <2>2 DEF Subscribed, OwnKeys
  <2> QED
    BY <2>1, <2>2
<1>10. FramesIn(sub[e]) \subseteq FramesIn(sub'[e])
  BY <1>5, <1>7
<1> QED
  BY <1>2, <1>9, <1>10, StaysInHand

(* With nothing lost, no step lets go of a frame.                          *)
LEMMA KeptKept == ASSUME IInv, OwnKeys, Labelled, Kept, [Next]_vars PROVE Kept'
<1>1. TypeOK /\ Shapes
  BY DEF IInv
<1>2. SUFFICES ASSUME ~Lossy, NEW g \in Frames, IsWrapped(g)',
                      g[1] \in PairedWith[Upper[g[1]][g[2]]]
               PROVE  InHand(g)'
  BY DEF Kept
<1>3. PICK e \in Devices : e = Upper[g[1]][g[2]]
  BY <1>2, FrameOf, PairAssumption DEF IsWrapped
<1>4. CASE IsWrapped(g)
  <2>1. InHand(g)
    BY <1>2, <1>4 DEF Kept
  <2>2. ASSUME UNCHANGED vars \/ \E d \in Devices : HandleSignal(d) PROVE InHand(g)'
    <3>1. UNCHANGED <<sPc, sPkt, rPc, pub, sub, got>>
      BY <2>2 DEF vars, HandleSignal, sendThread, recvThread
    <3> QED
      BY <2>1, <3>1 DEF InHand
  <2> QED
    BY <1>2, <1>3, <2>1, <2>2, SendKeepsHand, RecvKeepsHand, ForwardKeepsHand DEF Next
<1>5. CASE ~IsWrapped(g)
  <2>1. PICK d \in Devices : SendTake(d)
    BY <1>1, <1>2, <1>5, OtherStepsWrapNothing DEF WrapsNothing
  <2>2. PICK f, k : Wraps(d, f, k)
    BY <1>1, <1>2, <1>5, <2>1, TakeWraps DEF WrapsNothing
  <2>3. g = f /\ f[1] = d
    BY <1>2, <1>5, <2>2, WrapFacts
  <2>4. sPc'[d] = "publish" /\ sPkt'[d].frame = f
    BY <1>1, <2>2 DEF Wraps, TypeOK, Shapes, Packet
  <2> QED
    BY <2>3, <2>4 DEF InHand
<1> QED
  BY <1>4, <1>5

-----------------------------------------------------------------------------
LEMMA NextChainInv == ChainInv /\ [Next]_vars => ChainInv'
BY NextIInv, OwnKeysKept, LabelledKept, ChainedKept, KeptKept, RightKept, NoGapsKept
   DEF ChainInv

(* With nothing lost, however the threads and the proxy interleave, every  *)
(* frame a device unwraps comes out right.                                 *)
THEOREM RightWithoutLoss == Spec => []RightIfNothingLost
<1>1. ChainInv => RightIfNothingLost
  BY DEF ChainInv
<1> QED
  BY <1>1, InitChain, NextChainInv, PTL DEF Spec

(* With nothing lost, what a device has unwrapped from another is an       *)
(* initial part of what that one has wrapped for it, whatever the threads  *)
(* log, disregard or answer in between.                                    *)
THEOREM NothingSkipped == Spec => []NoGaps
<1>1. ChainInv => NoGaps
  BY DEF ChainInv
<1> QED
  BY <1>1, InitChain, NextChainInv, PTL DEF Spec

(* With nothing lost, a frame taken for a paired device is on its way to   *)
(* it or was unwrapped there, until that device's receiving thread ends.   *)
THEOREM NothingForgotten == Spec => []NoFrameForgotten
<1>1. ChainInv => NoFrameForgotten
  <2> SUFFICES ASSUME ChainInv, ~Lossy, NEW f \in Frames, NEW d, d = Upper[f[1]][f[2]],
                      f[2] <= taken[f[1]], d \in PairedWith[f[1]], f[1] \in PairedWith[d]
               PROVE  Arrived(f, d) \/ InTransit(f, d) \/ rPc[d] = "done"
    BY DEF NoFrameForgotten
  <2>1. InHand(f)
    BY DEF ChainInv, Kept, IsWrapped
  <2>2. \A q : f \in FramesIn(q) => \E i \in DOMAIN q : q[i].frame = f
    BY DEF FramesIn
  <2> QED
    BY <2>1, <2>2 DEF InHand, Arrived, InTransit, Carries
<1> QED
  BY <1>1, InitChain, NextChainInv, PTL DEF Spec

=============================================================================
