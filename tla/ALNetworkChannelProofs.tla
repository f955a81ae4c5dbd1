----------------------- MODULE ALNetworkChannelProofs -----------------------
(***************************************************************************)
(* Proof that the packets under one transmission key, for any devices on   *)
(* any broadcast, are a CipherContext, and what that says of the frames    *)
(* that come out damaged.                                                  *)
(***************************************************************************)
EXTENDS ALNetworkChannel, ALNetworkProofs, FiniteSetTheorems, WellFoundedInduction

(* A wire that lists a set of the sender's frames.                         *)
IsWire(w, F) ==
  /\ IsFiniteSet(F) /\ F \subseteq {f \in Frames : f[1] = Sender}
  /\ w \in Seq(F) /\ Len(w) = Cardinality(F) /\ Lists(w, F)

LEMMA LeastElement ==
  ASSUME NEW T, T \subseteq Nat, T # {}
  PROVE  \E m \in T : \A k \in T : m <= k
<1> DEFINE Less == OpToRel(<, Nat)
<1>1. \E m \in T : \A k \in T : ~ (<<k, m>> \in Less)
  BY NatLessThanWellFounded, WFMin
<1>2. \A k, m \in Nat : <<k, m>> \in Less <=> k < m
  BY DEF OpToRel
<1> HIDE DEF Less
<1>3. PICK m \in T : \A k \in T : ~ (<<k, m>> \in Less)
  BY <1>1
<1>4. ASSUME NEW k \in T PROVE m <= k
  <2>1. ~(k < m)
    BY <1>2, <1>3
  <2> QED
    BY <2>1
<1> QED
  BY <1>4

(* Where two wires of one set agree on all frames before some place, the   *)
(* frame of one at that place is no younger than the other's.              *)
LEMMA NoYounger ==
  ASSUME NEW F, NEW v, NEW w, IsWire(v, F), IsWire(w, F),
         NEW j \in 1..Len(w), \A i \in 1..(j - 1) : v[i] = w[i]
  PROVE  v[j][2] <= w[j][2]
<1>1. /\ DOMAIN v = 1..Len(w) /\ DOMAIN w = 1..Len(w) /\ Len(w) \in Nat
      /\ \A i \in 1..Len(w) : v[i] \in F /\ w[i] \in F
  BY DEF IsWire
<1>2. \A f \in F : f[2] \in Nat
  BY FrameOf DEF IsWire
<1>3. PICK i \in 1..Len(w) : v[i] = w[j]
  BY <1>1 DEF IsWire, Lists
<1>4. CASE i < j
  <2>1. i \in 1..(j - 1)
    BY <1>1, <1>4
  <2>2. w[i] = w[j]
    BY <1>3, <2>1
  <2>3. w[i][2] < w[j][2] /\ w[j][2] \in Nat
    BY <1>1, <1>2, <1>4 DEF IsWire, Lists
  <2> QED
    BY <2>2, <2>3
<1>5. CASE ~(i < j)
  <2>1. i = j \/ j < i
    BY <1>1, <1>5
  <2>2. j < i => v[j][2] < v[i][2]
    BY <1>1 DEF IsWire, Lists
  <2>3. v[j][2] \in Nat /\ v[i][2] \in Nat
    BY <1>1, <1>2
  <2> QED
    BY <1>3, <2>1, <2>2, <2>3
<1> QED
  BY <1>4, <1>5

(* So there is only one.                                                   *)
LEMMA OneWire ==
  ASSUME NEW F, NEW v, NEW w, IsWire(v, F), IsWire(w, F) PROVE v = w
<1>1. /\ v \in Seq(F) /\ w \in Seq(F) /\ Len(v) = Len(w) /\ Len(w) \in Nat
      /\ \A i \in 1..Len(w) : v[i] \in F /\ w[i] \in F
  BY DEF IsWire
<1>2. \A i \in 1..Len(w) : v[i] = w[i]
  <2> DEFINE T == {i \in 1..Len(w) : v[i] # w[i]}
  <2> SUFFICES ASSUME T # {} PROVE FALSE
    OBVIOUS
  <2>1. T \subseteq Nat
    BY <1>1
  <2>2. PICK j \in T : \A k \in T : j <= k
    BY <2>1, LeastElement
  <2>3. j \in 1..Len(w) /\ v[j] # w[j] /\ \A i \in 1..(j - 1) : v[i] = w[i]
    <3>1. ASSUME NEW i \in 1..(j - 1) PROVE v[i] = w[i]
      <4>1. i \in 1..Len(w) /\ ~(j <= i)
        BY <1>1, <2>2
      <4> QED
        BY <2>2, <4>1
    <3> QED
      BY <2>2, <3>1
  <2>4. v[j][2] <= w[j][2] /\ w[j][2] <= v[j][2]
    BY <1>1, <2>3, NoYounger
  <2>5. v[j] \in Frames /\ w[j] \in Frames /\ v[j][1] = w[j][1]
    BY <1>1, <2>3 DEF IsWire
  <2>6. v[j][2] \in Nat /\ w[j][2] \in Nat
    BY <2>5, FrameOf
  <2> QED
    BY <2>3, <2>4, <2>5, <2>6, FrameEqual
<1> QED
  BY <1>1, <1>2, SeqEqual

LEMMA WireIs ==
  ASSUME NEW w, IsWire(w, OnItsWay) PROVE WatchedWire = w
<1> DEFINE F == OnItsWay
           n == Cardinality(F)
           Is(v) == Lists(v, F)
<1>1. w \in [1..n -> F] /\ Is(w)
  <2>1. w \in [1..Len(w) -> F]
    BY DEF IsWire
  <2> QED
    BY <2>1 DEF IsWire
<1>2. ASSUME NEW v \in [1..n -> F], Is(v) PROVE v = w
  <2>1. n \in Nat /\ n = Len(w)
    BY DEF IsWire
  <2> HIDE DEF n, F
  <2>2. v \in Seq(F) /\ Len(v) = n
    BY <2>1
  <2>3. IsWire(v, F)
    BY <1>2, <2>1, <2>2 DEF IsWire, F
  <2> QED
    BY <2>3, OneWire DEF F
<1>3. WatchedWire = CHOOSE v \in [1..n -> F] : Is(v)
  BY DEF WatchedWire
<1> HIDE DEF Is, n, F
<1> QED
  BY <1>1, <1>2, <1>3

(* A younger frame goes to the end of a wire, and any frame can leave it.  *)
LEMMA WireAppend ==
  ASSUME NEW F, NEW w, IsWire(w, F), NEW f \in Frames, f[1] = Sender,
         \A g \in F : g[2] < f[2]
  PROVE  IsWire(Append(w, f), F \cup {f})
<1> DEFINE G == F \cup {f}
           v == Append(w, f)
<1>1. w \in Seq(G) /\ f \in G /\ Len(w) \in Nat /\ Len(w) = Cardinality(F)
  BY DEF IsWire
<1>2. /\ v \in Seq(G) /\ Len(v) = Len(w) + 1 /\ DOMAIN v = 1..(Len(w) + 1)
      /\ DOMAIN w = 1..Len(w)
      /\ \A i \in 1..Len(w) : v[i] = w[i]
      /\ v[Len(w) + 1] = f
  BY <1>1, AppendProperties
<1>3. f[2] \in Nat /\ f \notin F
  BY FrameOf
<1>4. IsFiniteSet(G) /\ Cardinality(G) = Cardinality(F) + 1
  BY <1>3, FS_AddElement DEF IsWire
<1> HIDE DEF v
<1>5. ASSUME NEW i \in DOMAIN v, NEW j \in DOMAIN v, i < j PROVE v[i][2] < v[j][2]
  <2>1. i \in 1..Len(w)
    BY <1>1, <1>2, <1>5
  <2>2. v[i] = w[i] /\ w[i] \in F
    BY <1>2, <2>1 DEF IsWire
  <2>3. CASE j = Len(w) + 1
    BY <1>2, <2>2, <2>3
  <2>4. CASE j # Len(w) + 1
    <3>1. j \in 1..Len(w)
      BY <1>1, <1>2, <2>4
    <3> QED
      BY <1>2, <1>5, <2>1, <3>1 DEF IsWire, Lists
  <2> QED
    BY <2>3, <2>4
<1>6. ASSUME NEW g \in G PROVE \E i \in DOMAIN v : v[i] = g
  <2>1. CASE g = f
    <3>1. Len(w) + 1 \in DOMAIN v
      BY <1>1, <1>2
    <3> QED
      BY <1>2, <2>1, <3>1
  <2>2. CASE g # f
    <3>1. PICK i \in 1..Len(w) : w[i] = g
      BY <1>2, <2>2 DEF IsWire, Lists
    <3>2. i \in DOMAIN v
      BY <1>1, <1>2
    <3> QED
      BY <1>2, <3>1, <3>2
  <2> QED
    BY <2>1, <2>2
<1>7. G \subseteq {g \in Frames : g[1] = Sender}
  BY DEF IsWire
<1>8. IsWire(v, G)
  BY <1>1, <1>2, <1>4, <1>5, <1>6, <1>7 DEF IsWire, Lists
<1> QED
  BY <1>8 DEF v

Cut(w, i) == [j \in 1..(Len(w) - 1) |-> IF j < i THEN w[j] ELSE w[j + 1]]

LEMMA WireCut ==
  ASSUME NEW F, NEW w, IsWire(w, F), NEW i \in 1..Len(w)
  PROVE  IsWire(Cut(w, i), F \ {w[i]})
<1> DEFINE G == F \ {w[i]}
           n == Len(w)
<1>0. PICK v : v = Cut(w, i)
  OBVIOUS
<1>1. /\ w \in Seq(F) /\ n \in Nat \ {0} /\ n = Cardinality(F) /\ DOMAIN w = 1..n
      /\ \A j \in 1..n : w[j] \in F
  BY DEF IsWire
<1>2. \A f \in F : f \in Frames /\ f[1] = Sender /\ f[2] \in Nat
  BY FrameOf DEF IsWire
<1>3. \A j, k \in 1..n : j < k => w[j][2] < w[k][2]
  BY <1>1 DEF IsWire, Lists
<1>4. ASSUME NEW j \in 1..n, j # i PROVE w[j] \in G
  <2>1. w[j][2] < w[i][2] \/ w[i][2] < w[j][2]
    BY <1>1, <1>3, <1>4
  <2>2. w[j] # w[i]
    BY <1>1, <1>2, <2>1
  <2> QED
    BY <1>1, <2>2
<1> DEFINE at(j) == IF j < i THEN j ELSE j + 1
<1>5. ASSUME NEW j \in 1..(n - 1)
      PROVE  at(j) \in 1..n /\ at(j) # i /\ v[j] = w[at(j)]
  BY <1>0, <1>1 DEF Cut
<1>6. v \in Seq(G) /\ Len(v) = n - 1 /\ DOMAIN v = 1..(n - 1)
  <2> HIDE DEF at, G
  <2>1. \A j \in 1..(n - 1) : v[j] \in G
    BY <1>4, <1>5
  <2>2. v = [j \in 1..(n - 1) |-> v[j]]
    BY <1>0 DEF Cut
  <2>3. v \in [1..(n - 1) -> G]
    BY <2>1, <2>2
  <2>4. n - 1 \in Nat
    BY <1>1
  <2> QED
    BY <2>3, <2>4
<1>7. IsFiniteSet(G) /\ Cardinality(G) = n - 1
  BY <1>1, FS_RemoveElement DEF IsWire
<1>8. \A j, k \in DOMAIN v : j < k => v[j][2] < v[k][2]
  <2>1. \A j, k \in 1..(n - 1) : j < k => at(j) < at(k)
    BY <1>1
  <2> HIDE DEF at, n
  <2> QED
    BY <1>3, <1>5, <1>6, <2>1
<1>9. ASSUME NEW g \in G PROVE \E j \in DOMAIN v : v[j] = g
  <2>1. PICK k \in 1..n : w[k] = g
    BY <1>1 DEF IsWire, Lists
  <2>2. k # i
    BY <2>1
  <2>3. PICK j \in 1..(n - 1) : at(j) = k
    <3>1. CASE k < i
      <4>1. k \in 1..(n - 1) /\ at(k) = k
        BY <1>1, <3>1
      <4> QED
        BY <4>1
    <3>2. CASE ~(k < i)
      <4>1. k - 1 \in 1..(n - 1) /\ at(k - 1) = k
        BY <1>1, <2>2, <3>2
      <4> QED
        BY <4>1
    <3> QED
      BY <3>1, <3>2
  <2> HIDE DEF at, n
  <2> QED
    BY <1>5, <1>6, <2>1, <2>3
<1>10. G \subseteq {g \in Frames : g[1] = Sender}
  BY DEF IsWire
<1> HIDE DEF G, n
<1>11. IsWire(v, G)
  BY <1>6, <1>7, <1>8, <1>9, <1>10 DEF IsWire, Lists
<1> QED
  BY <1>0, <1>11 DEF G

(* The oldest frame of a set is at the head of its wire.                   *)
LEMMA WireHead ==
  ASSUME NEW F, NEW w, IsWire(w, F), NEW f \in F, \A g \in F : g = f \/ f[2] < g[2]
  PROVE  /\ w # <<>> /\ Head(w) = f /\ Tail(w) = Cut(w, 1)
         /\ 1 \in 1..Len(w) /\ w[1] = f
<1>1. /\ w \in Seq(F) /\ Len(w) \in Nat /\ DOMAIN w = 1..Len(w)
      /\ \A j \in 1..Len(w) : w[j] \in F
  BY DEF IsWire
<1>2. PICK k \in 1..Len(w) : w[k] = f
  BY <1>1 DEF IsWire, Lists
<1>3. 1 \in 1..Len(w) /\ w # <<>>
  BY <1>1, <1>2
<1>4. ~(1 < k)
  <2> SUFFICES ASSUME 1 < k PROVE FALSE
    OBVIOUS
  <2>1. w[1][2] < f[2]
    BY <1>1, <1>2, <1>3 DEF IsWire, Lists
  <2>2. w[1] \in F /\ w[1][2] \in Nat /\ f[2] \in Nat
    BY <1>1, <1>3, FrameOf DEF IsWire
  <2> QED
    BY <2>1, <2>2
<1>5. w[1] = f
  BY <1>2, <1>4
<1>6. Tail(w) = Cut(w, 1)
  <2>1. PICK v : v = Cut(w, 1)
    OBVIOUS
  <2>2. /\ v \in Seq(F) /\ Len(v) = Len(w) - 1
        /\ \A j \in 1..(Len(w) - 1) : v[j] = w[j + 1]
    <3>1. v = [j \in 1..(Len(w) - 1) |-> w[j + 1]]
      BY <2>1 DEF Cut
    <3>2. Len(w) - 1 \in Nat /\ \A j \in 1..(Len(w) - 1) : j + 1 \in 1..Len(w)
      BY <1>1, <1>3
    <3> QED
      BY <1>1, <3>1, <3>2
  <2>3. /\ Tail(w) \in Seq(F) /\ Len(Tail(w)) = Len(w) - 1
        /\ \A j \in 1..(Len(w) - 1) : Tail(w)[j] = w[j + 1]
    BY <1>1, <1>3, HeadTailProperties
  <2> QED
    BY <2>1, <2>2, <2>3, SeqEqual
<1> QED
  BY <1>1, <1>3, <1>5, <1>6

-----------------------------------------------------------------------------
(* The frames on their way, by the queue they are in.                      *)
InSub == FramesIn(sub[Receiver])
InPub == FramesIn(pub[<<Sender, "send">>])
InHands == IF sPc[Sender] = "publish" THEN {sPkt[Sender].frame} ELSE {}
WayIsQueues ==
  /\ OnItsWay = Wrapped \cap (InSub \cup InPub \cup InHands)
  /\ Unwrapped(TRUE) \cup Unwrapped(FALSE) = Wrapped \cap FramesIn(got[Receiver])
  /\ \A f \in Wrapped : /\ f \in Frames /\ f[1] = Sender /\ f # NoFrame
                        /\ f[2] \in Nat /\ IsWrapped(f)

LEMMA Ends ==
  /\ Sender \in Devices /\ Receiver \in Devices /\ <<Sender, "send">> \in Sockets
  /\ WatchedKey \in Keys /\ WatchedKey # NoKey
BY WatchedKeyAssumption, KeyFacts DEF Sender, Receiver, Sockets

LEMMA Way == ChainInv => WayIsQueues
<1> SUFFICES ASSUME ChainInv PROVE WayIsQueues
  OBVIOUS
<1>1. Labelled /\ Shapes
  BY DEF ChainInv, IInv
<1>2. Wrapped = WrappedUnder(WatchedKey)
  BY DEF Wrapped, WrappedUnder
<1>3. \A f \in Wrapped : /\ f \in Frames /\ f[1] = Sender /\ f # NoFrame
                         /\ f[2] \in Nat /\ IsWrapped(f)
  BY <1>1, <1>2, Ends, KeyOfFrame, FrameOf DEF Sender
<1>4. \A q : \A f \in Wrapped : Carries(q, f) <=> f \in FramesIn(q)
  BY <1>3 DEF Carries, FramesIn
<1>5. ASSUME NEW f \in Wrapped
      PROVE  InTransit(f, Receiver) <=> f \in InSub \cup InPub \cup InHands
  <2>1. f[1] = Sender
    BY <1>3
  <2>2. /\ Carries(pub[<<Sender, "send">>], f) <=> f \in InPub
        /\ Carries(sub[Receiver], f) <=> f \in InSub
    BY <1>4 DEF InPub, InSub
  <2>3. (sPc[Sender] = "publish" /\ sPkt[Sender].frame = f) <=> f \in InHands
    BY DEF InHands
  <2> QED
    BY <2>1, <2>2, <2>3 DEF InTransit
<1>6. OnItsWay = Wrapped \cap (InSub \cup InPub \cup InHands)
  BY <1>5 DEF OnItsWay
<1>7. ASSUME NEW f \in Wrapped
      PROVE  f \in Unwrapped(TRUE) \cup Unwrapped(FALSE) <=> f \in FramesIn(got[Receiver])
  <2>1. got[Receiver] \in Seq(Results)
    BY <1>1, Ends DEF Shapes
  <2>2. \A i \in DOMAIN got[Receiver] :
          got[Receiver][i] = [frame |-> got[Receiver][i].frame,
                              right |-> got[Receiver][i].right]
          /\ got[Receiver][i].right \in BOOLEAN
    <3>1. \A r \in Results : /\ r = [frame |-> r.frame, right |-> r.right]
                             /\ r.right \in BOOLEAN
      BY DEF Results
    <3>2. \A i \in DOMAIN got[Receiver] : got[Receiver][i] \in Results
      BY <2>1
    <3> QED
      BY <3>1, <3>2, Zenon
  <2>3. f # NoFrame
    BY <1>3
  <2>4. ASSUME f \in FramesIn(got[Receiver])
        PROVE  f \in Unwrapped(TRUE) \cup Unwrapped(FALSE)
    <3>1. PICK i \in DOMAIN got[Receiver] : f = got[Receiver][i].frame
      BY <2>4 DEF FramesIn
    <3>2. \/ got[Receiver][i] = [frame |-> f, right |-> TRUE]
          \/ got[Receiver][i] = [frame |-> f, right |-> FALSE]
      BY <2>2, <3>1
    <3> QED
      BY <3>2 DEF Unwrapped
  <2>5. ASSUME NEW right, f \in Unwrapped(right)
        PROVE  f \in FramesIn(got[Receiver])
    BY <2>3, <2>5 DEF Unwrapped, FramesIn
  <2> QED
    BY <2>4, <2>5
<1>8. Unwrapped(TRUE) \cup Unwrapped(FALSE) = Wrapped \cap FramesIn(got[Receiver])
  <2>1. Unwrapped(TRUE) \subseteq Wrapped /\ Unwrapped(FALSE) \subseteq Wrapped
    BY DEF Unwrapped
  <2> QED
    BY <1>7, <2>1
<1> QED
  BY <1>3, <1>6, <1>8 DEF WayIsQueues

LEMMA WayNext == ChainInv' => WayIsQueues'
BY Way, PTL

(* A frame is in one of the queues only, and in none once it has been      *)
(* unwrapped; the receiver's queue has the oldest ones, and its head is    *)
(* the oldest of all.                                                      *)
LEMMA OneQueue ==
  ASSUME ChainInv
  PROVE  /\ Wrapped \cap InSub \cap (InPub \cup InHands) = {}
         /\ Wrapped \cap InPub \cap InHands = {}
         /\ OnItsWay \cap FramesIn(got[Receiver]) = {}
         /\ \A f \in Wrapped \cap InSub, g \in Wrapped \cap (InPub \cup InHands) : f[2] < g[2]
<1>1. TypeOK /\ Shapes /\ Ordered /\ WayIsQueues
  BY Way DEF ChainInv, IInv
<1>2. /\ OnItsWay = Wrapped \cap (InSub \cup InPub \cup InHands)
      /\ \A f \in Wrapped : f \in Frames /\ f[1] = Sender /\ f[2] \in Nat
  BY <1>1 DEF WayIsQueues
<1> DEFINE Old == FramesIn(got[Receiver]) \cup InSub
<1>3. ASSUME NEW f \in Wrapped \cap Old, NEW g \in Wrapped \cap InPub PROVE f[2] < g[2]
  BY <1>1, <1>2, Ends DEF Ordered, Before, InSub, InPub
<1>4. ASSUME NEW f \in Wrapped \cap FramesIn(got[Receiver]), NEW g \in Wrapped \cap InSub
      PROVE  f[2] < g[2]
  BY <1>1, <1>2, Ends DEF Ordered, Before, InSub
<1>5. ASSUME NEW f \in Wrapped \cap (Old \cup InPub), NEW g \in Wrapped \cap InHands
      PROVE  f[2] < g[2]
  <2>1. sPc[Sender] = "publish" /\ g = <<Sender, taken[Sender]>> /\ taken[Sender] \in Nat
    BY <1>1, Ends DEF InHands, Shapes, TypeOK
  <2>2. f[2] <= Published(Sender)
    BY <1>1, <1>2, Ends DEF Ordered, InSub, InPub
  <2> QED
    BY <1>2, <2>1, <2>2 DEF Published
<1>6. \A f \in Wrapped : ~(f[2] < f[2])
  BY <1>2
<1> QED
  BY <1>2, <1>3, <1>4, <1>5, <1>6

-----------------------------------------------------------------------------
(* What a step does to the channel.                                        *)
ChannelInv == ChainInv /\ IsWire(WatchedWire, OnItsWay)

SameButWire ==
  /\ txIv'[WatchedKey] = txIv[WatchedKey] /\ rxIv'[WatchedKey] = rxIv[WatchedKey]
  /\ Wrapped' = Wrapped /\ EncryptedUnder' = EncryptedUnder
  /\ Unwrapped(TRUE)' = Unwrapped(TRUE) /\ Unwrapped(FALSE)' = Unwrapped(FALSE)

Mapped == Channel!Next \/ UNCHANGED Channel!vars

LEMMA WireIsNext ==
  ASSUME NEW w, IsWire(w, OnItsWay') PROVE WatchedWire' = w /\ IsWire(WatchedWire, OnItsWay)'
<1> DEFINE F == OnItsWay'
           n == Cardinality(F)
           Is(v) == Lists(v, F)
<1>1. w \in [1..n -> F] /\ Is(w)
  <2>1. w \in [1..Len(w) -> F]
    BY DEF IsWire
  <2> QED
    BY <2>1 DEF IsWire
<1>2. ASSUME NEW v \in [1..n -> F], Is(v) PROVE v = w
  <2>1. n \in Nat /\ n = Len(w)
    BY DEF IsWire
  <2> HIDE DEF n, F
  <2>2. v \in Seq(F) /\ Len(v) = n
    BY <2>1
  <2>3. IsWire(v, F)
    BY <1>2, <2>1, <2>2 DEF IsWire, F
  <2> QED
    BY <2>3, OneWire DEF F
<1>3. WatchedWire' = CHOOSE v \in [1..n -> F] : Is(v)
  BY DEF WatchedWire, Lists
<1> HIDE DEF Is, n, F
<1>4. WatchedWire' = w
  BY <1>1, <1>2, <1>3
<1> QED
  BY <1>4 DEF IsWire, Lists, Sender, Frames

(* Nothing happens under the key ...                                       *)
LEMMA NothingMoves ==
  ASSUME ChannelInv, SameButWire, OnItsWay' = OnItsWay
  PROVE  Mapped /\ IsWire(WatchedWire, OnItsWay)'
<1>1. WatchedWire' = WatchedWire /\ IsWire(WatchedWire, OnItsWay)'
  BY WireIsNext DEF ChannelInv
<1>2. Lost' = Lost
  BY DEF Lost, SameButWire
<1>3. UNCHANGED Channel!vars
  BY <1>1, <1>2 DEF Channel!vars, Channel!history, SameButWire
<1> QED
  BY <1>1, <1>3 DEF Mapped

(* ... or a frame under it is lost.                                        *)
LEMMA FrameLost ==
  ASSUME ChannelInv, SameButWire, NEW f \in OnItsWay, OnItsWay' = OnItsWay \ {f}
  PROVE  Mapped /\ IsWire(WatchedWire, OnItsWay)'
<1>1. /\ IsWire(WatchedWire, OnItsWay) /\ WayIsQueues
      /\ OnItsWay \cap FramesIn(got[Receiver]) = {}
  BY Way, OneQueue DEF ChannelInv
<1>2. PICK i \in 1..Len(WatchedWire) : WatchedWire[i] = f
  BY <1>1 DEF IsWire, Lists
<1>3. IsWire(Cut(WatchedWire, i), OnItsWay')
  BY <1>1, <1>2, WireCut
<1>4. WatchedWire' = Cut(WatchedWire, i) /\ IsWire(WatchedWire, OnItsWay)'
  BY <1>3, WireIsNext
<1>5. Lost' = Lost \cup {f}
  <2>1. f \in Wrapped /\ f \notin Unwrapped(TRUE) \cup Unwrapped(FALSE)
    BY <1>1 DEF WayIsQueues, OnItsWay
  <2> QED
    BY <2>1 DEF Lost, SameButWire
<1>6. Channel!Lose(i)
  BY <1>2, <1>4, <1>5 DEF Channel!Lose, Channel!Without, Cut, SameButWire
<1> QED
  BY <1>4, <1>6 DEF Mapped, Channel!Next

(* A frame is wrapped under the key ...                                    *)
LEMMA FrameWrapped ==
  ASSUME ChannelInv, ChainInv', NEW d \in Devices, NEW f, Wraps(d, f, WatchedKey)
  PROVE  Mapped /\ IsWire(WatchedWire, OnItsWay)'
<1>1. /\ TypeOK /\ Shapes /\ Labelled /\ IInv /\ WayIsQueues /\ WayIsQueues'
      /\ IsWire(WatchedWire, OnItsWay)
  BY Way, WayNext DEF ChannelInv, ChainInv, IInv
<1>2. /\ f \in Frames /\ f[1] = d /\ ~IsWrapped(f) /\ under[f].tkey = NoKey
      /\ \A g \in Frames \ {f} : under'[g] = under[g]
      /\ under'[f] = [tkey |-> WatchedKey, iv |-> txIv[WatchedKey]]
      /\ \A g \in Frames : g[1] = d /\ IsWrapped(g) => g[2] < f[2]
  BY <1>1, WrapFacts
<1>3. /\ d = Sender /\ UNCHANGED <<got, rxIv, pub, sub>>
      /\ txIv'[WatchedKey] = f /\ sPc[d] = "poll" /\ sPc'[d] = "publish"
      /\ sPkt'[d].frame = f
  <2>1. Upper[d][f[2]] \in Devices
    BY PairAssumption DEF Wraps
  <2>2. d = Sender
    BY <2>1, KeyFacts DEF Wraps, Sender
  <2> QED
    BY <1>1, <2>2, Ends DEF Wraps, TypeOK, Shapes, Packet, recvThread
<1>4. Wrapped' = Wrapped \cup {f} /\ f \notin Wrapped
  BY <1>2, Ends DEF Wrapped
<1>5. f \notin FramesIn(got[Receiver]) /\ f \notin InSub /\ f \notin InPub
  <2>1. f[2] = taken[f[1]] + 1 /\ taken[f[1]] \in Nat
    BY <1>1, <1>2, WrapFacts DEF TypeOK
  <2> QED
    BY <1>1, <2>1, Ends, InTransitTaken DEF InSub, InPub
<1>6. OnItsWay' = OnItsWay \cup {f}
  <2>1. InSub' = InSub /\ InPub' = InPub /\ InHands = {} /\ InHands' = {f}
    BY <1>3 DEF InSub, InPub, InHands, FramesIn
  <2> QED
    BY <1>1, <1>4, <1>5, <2>1 DEF WayIsQueues
<1>7. \A g \in OnItsWay : g[2] < f[2]
  <2>1. \A g \in OnItsWay : g \in Frames /\ g[1] = d /\ IsWrapped(g)
    BY <1>1, <1>3 DEF WayIsQueues
  <2> QED
    BY <1>2, <2>1
<1>8. IsWire(Append(WatchedWire, f), OnItsWay')
  BY <1>1, <1>2, <1>3, <1>6, <1>7, WireAppend
<1>9. WatchedWire' = Append(WatchedWire, f) /\ IsWire(WatchedWire, OnItsWay)'
  BY <1>8, WireIsNext
<1>10. /\ Unwrapped(TRUE)' = Unwrapped(TRUE) /\ Unwrapped(FALSE)' = Unwrapped(FALSE)
       /\ Unwrapped(TRUE) \cup Unwrapped(FALSE) \subseteq Wrapped
  <2> DEFINE in(right) == {g \in Wrapped : \E i \in DOMAIN got[Receiver] :
                            got[Receiver][i] = [frame |-> g, right |-> right]}
             out(right) == {g \in Wrapped' : \E i \in DOMAIN got'[Receiver] :
                            got'[Receiver][i] = [frame |-> g, right |-> right]}
  <2>1. ASSUME NEW right PROVE f \notin out(right)
    <3>1. f # NoFrame
      BY <1>2, FrameOf
    <3> QED
      BY <1>3, <1>5, <3>1 DEF FramesIn
  <2>2. ASSUME NEW right PROVE out(right) = in(right)
    BY <1>3, <1>4, <2>1
  <2>3. in(TRUE) = Unwrapped(TRUE) /\ in(FALSE) = Unwrapped(FALSE)
    BY DEF Unwrapped
  <2>4. out(TRUE) = Unwrapped(TRUE)' /\ out(FALSE) = Unwrapped(FALSE)'
    BY DEF Unwrapped
  <2>5. out(TRUE) = in(TRUE) /\ out(FALSE) = in(FALSE)
    BY <2>2
  <2>6. in(TRUE) \subseteq Wrapped /\ in(FALSE) \subseteq Wrapped
    OBVIOUS
  <2> HIDE DEF in, out
  <2> QED
    BY <2>3, <2>4, <2>5, <2>6
<1>11. Lost' = Lost
  BY <1>4, <1>6, <1>10 DEF Lost
<1>12. EncryptedUnder' = [EncryptedUnder EXCEPT ![f] = txIv[WatchedKey]]
  <2> DEFINE new == [EncryptedUnder EXCEPT ![f] = txIv[WatchedKey]]
  <2>1. ASSUME NEW g \in Frames
        PROVE  (IF g \in Wrapped' THEN under'[g].iv ELSE NoFrame)
               = IF g = f THEN txIv[WatchedKey]
                 ELSE IF g \in Wrapped THEN under[g].iv ELSE NoFrame
    BY <1>2, <1>4
  <2>2. EncryptedUnder' =
          [g \in Frames |-> IF g \in Wrapped' THEN under'[g].iv ELSE NoFrame]
    BY DEF EncryptedUnder
  <2>3. new = [g \in Frames |-> IF g = f THEN txIv[WatchedKey]
                 ELSE IF g \in Wrapped THEN under[g].iv ELSE NoFrame]
    BY DEF EncryptedUnder
  <2> HIDE DEF new
  <2>4. EncryptedUnder' = new
    BY <2>1, <2>2, <2>3
  <2> QED
    BY <2>4 DEF new
<1>13. Channel!Wrap(f)
  BY <1>3, <1>4, <1>9, <1>10, <1>11, <1>12
     DEF Channel!Wrap, Channel!IvAfterEncrypt
<1> QED
  BY <1>2, <1>9, <1>13 DEF Mapped, Channel!Next

(* ... or the oldest one on its way is unwrapped.                          *)
LEMMA FrameUnwrapped ==
  ASSUME ChannelInv, ChainInv', NEW d \in Devices, RecvUnwrap(d), NEW f,
         Unwraps(d, f, WatchedKey)
  PROVE  Mapped /\ IsWire(WatchedWire, OnItsWay)'
<1>1. /\ TypeOK /\ Shapes /\ Labelled /\ WayIsQueues /\ WayIsQueues'
      /\ IsWire(WatchedWire, OnItsWay) /\ Ordered
  BY Way, WayNext DEF ChannelInv, ChainInv, IInv
<1>2. /\ f \in Wrapped /\ d = Receiver /\ f \in InSub /\ InSub = InSub' \cup {f}
      /\ got'[d] = Append(got[d], [frame |-> f, right |-> rxIv[WatchedKey] = under[f].iv])
      /\ rxIv' = [rxIv EXCEPT ![WatchedKey] = f]
      /\ \A g \in InSub : g = f \/ (g[1] = f[1] => f[2] < g[2])
  <2>1. f \in Wrapped /\ d = Receiver
    BY DEF Unwraps, Wrapped, Receiver
  <2>2. InSub = FramesIn(sub[d]) /\ InSub' = FramesIn(sub'[d])
    BY <2>1 DEF InSub, FramesIn, Receiver
  <2> QED
    BY <2>1, <2>2 DEF Unwraps
<1>3. /\ UNCHANGED <<under, txIv, pub, sPc, sPkt>>
      /\ rxIv'[WatchedKey] = f
  BY <1>1, <1>2, Ends DEF RecvUnwrap, sendThread, TypeOK
<1>4. Wrapped' = Wrapped /\ InPub' = InPub /\ InHands' = InHands
      /\ EncryptedUnder' = EncryptedUnder
  BY <1>3 DEF Wrapped, InPub, InHands, FramesIn, EncryptedUnder
<1>5. f \notin InSub'
  <2>1. sub'[d] = Tail(sub[d]) /\ sub[d] \in Seq(WirePackets) /\ sub[d] # <<>>
        /\ Sorted(sub[d])
    BY <1>1 DEF Ordered, Shapes, RecvUnwrap, RecvTurn
  <2>2. f # NoFrame /\ f[2] \in Nat
    BY <1>1, <1>2 DEF WayIsQueues
  <2>3. Head(sub[d]).frame = f
    BY <1>1, <1>2, <2>1, <2>2 DEF RecvUnwrap
  <2>4. \A g \in FramesIn(Tail(sub[d])) : f[1] = g[1] => f[2] < g[2]
    BY <2>1, <2>2, <2>3, SortedTail
  <2>5. f \notin FramesIn(Tail(sub[d]))
    BY <2>2, <2>4
  <2> QED
    BY <1>2, <2>1, <2>5 DEF InSub, FramesIn
<1>6. f \in OnItsWay /\ OnItsWay' = OnItsWay \ {f}
  <2>1. f \notin InPub /\ f \notin InHands
    BY <1>2, OneQueue DEF ChannelInv
  <2> QED
    BY <1>1, <1>2, <1>4, <1>5, <2>1 DEF WayIsQueues
<1>7. \A g \in OnItsWay : g = f \/ f[2] < g[2]
  <2>1. \A g \in Wrapped \cap (InPub \cup InHands) : f[2] < g[2]
    BY <1>2, OneQueue DEF ChannelInv
  <2> QED
    BY <1>1, <1>2, <2>1 DEF WayIsQueues
<1>8. PICK w : w = WatchedWire
  OBVIOUS
<1>9. /\ w # <<>> /\ Head(w) = f /\ Tail(w) = Cut(w, 1)
      /\ 1 \in 1..Len(w) /\ w[1] = f
  BY <1>1, <1>6, <1>7, <1>8, WireHead
<1>10. IsWire(Tail(w), OnItsWay')
  <2>1. IsWire(Cut(w, 1), OnItsWay \ {w[1]})
    BY <1>1, <1>8, <1>9, WireCut
  <2> QED
    BY <1>6, <1>9, <2>1
<1>11. WatchedWire' = Tail(w) /\ IsWire(WatchedWire, OnItsWay)'
  BY <1>10, WireIsNext
<1>12. /\ Unwrapped(TRUE)' = IF rxIv[WatchedKey] = under[f].iv
                              THEN Unwrapped(TRUE) \cup {f} ELSE Unwrapped(TRUE)
       /\ Unwrapped(FALSE)' = IF rxIv[WatchedKey] = under[f].iv
                               THEN Unwrapped(FALSE) ELSE Unwrapped(FALSE) \cup {f}
  <2> DEFINE in(right) == {g \in Wrapped : \E i \in DOMAIN got[Receiver] :
                            got[Receiver][i] = [frame |-> g, right |-> right]}
             out(right) == {g \in Wrapped' : \E i \in DOMAIN got'[Receiver] :
                            got'[Receiver][i] = [frame |-> g, right |-> right]}
  <2>1. PICK b \in BOOLEAN : b = (rxIv[WatchedKey] = under[f].iv)
    OBVIOUS
  <2>2. PICK r : r = [frame |-> f, right |-> b]
    OBVIOUS
  <2>3. /\ got[Receiver] \in Seq(Results) /\ r \in Results
        /\ got'[Receiver] = Append(got[Receiver], r)
    BY <1>1, <1>2, <2>1, <2>2, Ends DEF Shapes, Results, WayIsQueues
  <2>4. /\ DOMAIN got'[Receiver] = 1..(Len(got[Receiver]) + 1)
        /\ DOMAIN got[Receiver] = 1..Len(got[Receiver]) /\ Len(got[Receiver]) \in Nat
        /\ \A i \in 1..Len(got[Receiver]) : got'[Receiver][i] = got[Receiver][i]
        /\ got'[Receiver][Len(got[Receiver]) + 1] = r
    BY <2>3, AppendProperties
  <2>5. ASSUME NEW x
        PROVE  (\E i \in DOMAIN got'[Receiver] : got'[Receiver][i] = x)
               <=> (\E i \in DOMAIN got[Receiver] : got[Receiver][i] = x) \/ x = r
    <3>1. \A i \in DOMAIN got'[Receiver] :
            i \in DOMAIN got[Receiver] \/ i = Len(got[Receiver]) + 1
      BY <2>4
    <3>2. \A i \in DOMAIN got[Receiver] : i \in DOMAIN got'[Receiver]
      BY <2>4
    <3>3. Len(got[Receiver]) + 1 \in DOMAIN got'[Receiver]
      BY <2>4
    <3> QED
      BY <2>4, <3>1, <3>2, <3>3
  <2>6. ASSUME NEW right \in BOOLEAN
        PROVE  out(right) = IF right = b THEN in(right) \cup {f} ELSE in(right)
    <3>1. ASSUME NEW g
          PROVE  [frame |-> g, right |-> right] = r <=> g = f /\ right = b
      BY <2>2
    <3>2. ASSUME NEW g PROVE g \in out(right) <=> g \in in(right) \/ (g = f /\ right = b)
      BY <1>2, <1>4, <2>5, <3>1
    <3> HIDE DEF in, out
    <3> QED
      BY <3>2
  <2>7. in(TRUE) = Unwrapped(TRUE) /\ in(FALSE) = Unwrapped(FALSE)
    BY DEF Unwrapped
  <2>8. out(TRUE) = Unwrapped(TRUE)' /\ out(FALSE) = Unwrapped(FALSE)'
    BY DEF Unwrapped
  <2> HIDE DEF in, out
  <2>9. /\ out(TRUE) = IF b = TRUE THEN in(TRUE) \cup {f} ELSE in(TRUE)
        /\ out(FALSE) = IF b = FALSE THEN in(FALSE) \cup {f} ELSE in(FALSE)
    BY <2>6
  <2> QED
    BY <2>1, <2>7, <2>8, <2>9
<1>13. Lost' = Lost
  BY <1>2, <1>4, <1>6, <1>12 DEF Lost
<1>14. EncryptedUnder[f] = under[f].iv
  BY <1>1, <1>2 DEF EncryptedUnder, WayIsQueues
<1>15. (Unwrapped(TRUE) \cup Unwrapped(FALSE))' = Unwrapped(TRUE) \cup Unwrapped(FALSE) \cup {f}
  BY <1>12
<1>16. Channel!Unwrap
  BY <1>3, <1>4, <1>8, <1>9, <1>11, <1>12, <1>13, <1>14, <1>15
     DEF Channel!Unwrap, Channel!FirstBlockRight, Channel!IvAfterDecrypt,
         Channel!WireAfterRecv
<1> QED
  BY <1>11, <1>16 DEF Mapped, Channel!Next

-----------------------------------------------------------------------------
(* The other steps.                                                        *)
LEMMA OtherKeyWrapped ==
  ASSUME ChannelInv, ChainInv', NEW d \in Devices, NEW f, NEW k, Wraps(d, f, k),
         k # WatchedKey
  PROVE  SameButWire /\ OnItsWay' = OnItsWay
<1>1. /\ TypeOK /\ Shapes /\ Labelled /\ IInv /\ WayIsQueues /\ WayIsQueues'
  BY Way, WayNext DEF ChannelInv, ChainInv, IInv
<1>2. /\ f \in Frames /\ under[f].tkey = NoKey /\ k \in Keys
      /\ \A g \in Frames \ {f} : under'[g] = under[g]
      /\ under'[f] = [tkey |-> k, iv |-> txIv[k]]
  BY <1>1, WrapFacts
<1>3. /\ UNCHANGED <<got, rxIv, pub, sub>> /\ txIv'[WatchedKey] = txIv[WatchedKey]
      /\ sPc[d] = "poll" /\ sPkt'[d].frame = f
      /\ \A e \in Devices \ {d} : sPc'[e] = sPc[e] /\ sPkt'[e] = sPkt[e]
  BY <1>1, <1>2, Ends DEF Wraps, TypeOK, Shapes, Packet, recvThread
<1>4. Wrapped' = Wrapped /\ f \notin Wrapped
  BY <1>2, Ends DEF Wrapped
<1>5. EncryptedUnder' = EncryptedUnder
  BY <1>2, <1>4 DEF EncryptedUnder
<1>6. Unwrapped(TRUE)' = Unwrapped(TRUE) /\ Unwrapped(FALSE)' = Unwrapped(FALSE)
  BY <1>3, <1>4 DEF Unwrapped
<1>7. InSub' = InSub /\ InPub' = InPub /\ InHands' \subseteq InHands \cup {f}
      /\ InHands \subseteq InHands'
  BY <1>3, Ends DEF InSub, InPub, InHands, FramesIn
<1>8. OnItsWay' = OnItsWay
  BY <1>1, <1>4, <1>7 DEF WayIsQueues
<1> QED
  BY <1>3, <1>4, <1>5, <1>6, <1>8 DEF SameButWire

LEMMA OtherKeyUnwrapped ==
  ASSUME ChannelInv, ChainInv', NEW d \in Devices, RecvUnwrap(d), NEW f, NEW k,
         Unwraps(d, f, k), k # WatchedKey
  PROVE  SameButWire /\ OnItsWay' = OnItsWay
<1>1. /\ TypeOK /\ Shapes /\ WayIsQueues /\ WayIsQueues'
  BY Way, WayNext DEF ChannelInv, ChainInv, IInv
<1>2. /\ UNCHANGED <<under, txIv, pub, sPc, sPkt>>
      /\ rxIv'[WatchedKey] = rxIv[WatchedKey] /\ f \notin Wrapped
  BY <1>1, Ends DEF RecvUnwrap, Unwraps, sendThread, TypeOK, Wrapped
<1>3. Wrapped' = Wrapped /\ InPub' = InPub /\ InHands' = InHands
      /\ EncryptedUnder' = EncryptedUnder
  BY <1>2 DEF Wrapped, InPub, InHands, FramesIn, EncryptedUnder
<1>4. Wrapped \cap InSub' = Wrapped \cap InSub
  <2>1. CASE d = Receiver
    <3>1. InSub = FramesIn(sub[d]) /\ InSub' = FramesIn(sub'[d])
      BY <2>1 DEF InSub, FramesIn
    <3> QED
      BY <1>2, <3>1 DEF Unwraps
  <2>2. CASE d # Receiver
    <3>1. sub'[Receiver] = sub[Receiver]
      BY <2>2, Ends DEF Unwraps
    <3> QED
      BY <3>1 DEF InSub, FramesIn
  <2> QED
    BY <2>1, <2>2
<1>5. OnItsWay' = OnItsWay
  BY <1>1, <1>3, <1>4 DEF WayIsQueues
<1>6. Unwrapped(TRUE)' = Unwrapped(TRUE) /\ Unwrapped(FALSE)' = Unwrapped(FALSE)
  <2>1. CASE d # Receiver
    <3>1. got'[Receiver] = got[Receiver]
      BY <2>1, Ends DEF Unwraps
    <3> QED
      BY <1>3, <3>1 DEF Unwrapped
  <2>2. CASE d = Receiver
    <3>1. PICK r : r = [frame |-> f, right |-> rxIv[k] = under[f].iv]
      OBVIOUS
    <3>2. /\ got[Receiver] \in Seq(Results) /\ r \in Results /\ r.frame = f
          /\ got'[Receiver] = Append(got[Receiver], r)
      BY <1>1, <2>2, <3>1, Ends DEF Shapes, Results, Unwraps
    <3>3. /\ DOMAIN got'[Receiver] = 1..(Len(got[Receiver]) + 1)
          /\ DOMAIN got[Receiver] = 1..Len(got[Receiver]) /\ Len(got[Receiver]) \in Nat
          /\ \A i \in 1..Len(got[Receiver]) : got'[Receiver][i] = got[Receiver][i]
          /\ got'[Receiver][Len(got[Receiver]) + 1] = r
      BY <3>2, AppendProperties
    <3>4. ASSUME NEW g \in Wrapped, NEW right
          PROVE  (\E i \in DOMAIN got'[Receiver] :
                    got'[Receiver][i] = [frame |-> g, right |-> right])
                 <=> (\E i \in DOMAIN got[Receiver] :
                        got[Receiver][i] = [frame |-> g, right |-> right])
      <4>1. r # [frame |-> g, right |-> right]
        BY <1>2, <3>2
      <4>2. \A i \in DOMAIN got'[Receiver] :
              i \in DOMAIN got[Receiver] \/ i = Len(got[Receiver]) + 1
        BY <3>3
      <4>3. \A i \in DOMAIN got[Receiver] : i \in DOMAIN got'[Receiver]
        BY <3>3
      <4> QED
        BY <3>3, <4>1, <4>2, <4>3
    <3> QED
      BY <1>3, <3>4 DEF Unwrapped
  <2> QED
    BY <2>1, <2>2
<1> QED
  BY <1>2, <1>3, <1>5, <1>6 DEF SameButWire

LEMMA QuietStep ==
  ASSUME UNCHANGED <<under, txIv, got, rxIv>> PROVE SameButWire /\ Wrapped' = Wrapped
BY DEF SameButWire, Wrapped, EncryptedUnder, Unwrapped

(* The sending threads move the frame in hand to the publisher's socket.   *)
LEMMA SendMoves ==
  ASSUME ChannelInv, ChainInv', NEW d \in Devices, SendStep(d), ~SendTake(d)
  PROVE  SameButWire /\ OnItsWay' = OnItsWay
<1> USE DEF recvThread, sendThread
<1>1. TypeOK /\ Shapes /\ WayIsQueues /\ WayIsQueues'
  BY Way, WayNext DEF ChannelInv, ChainInv, IInv
<1>2. UNCHANGED <<under, txIv, got, rxIv, sub>>
  BY DEF SendStep, SendQuit, SendPublish, SendLog, SendCount
<1>3. InSub' = InSub /\ SameButWire /\ Wrapped' = Wrapped
  BY <1>2, QuietStep DEF InSub, FramesIn
<1>4. CASE SendPublish(d)
  <2>1. /\ sPc[d] = "publish" /\ sPc'[d] = "log" /\ sPkt' = sPkt
        /\ \A e \in Devices \ {d} : sPc'[e] = sPc[e]
        /\ pub'[<<d, "send">>] = Append(pub[<<d, "send">>], sPkt[d])
        /\ \A s \in Sockets \ {<<d, "send">>} : pub'[s] = pub[s]
    BY <1>1, <1>4, FrameOf DEF SendPublish, Publish, TypeOK, Shapes
  <2>2. CASE d # Sender
    <3>1. pub'[<<Sender, "send">>] = pub[<<Sender, "send">>]
      BY <2>1, <2>2, Ends
    <3>2. InPub' = InPub /\ InHands' = InHands
      BY <2>1, <2>2, <3>1, Ends DEF InPub, InHands, FramesIn
    <3> QED
      BY <1>1, <1>3, <3>2 DEF WayIsQueues
  <2>3. CASE d = Sender
    <3>1. sPkt[d] \in WirePackets /\ pub[<<d, "send">>] \in Seq(WirePackets)
      <4>1. pub[<<d, "send">>] \in Seq(WirePackets) /\ sPkt[d] \in WirePackets \cup {NoPacket}
        BY <1>1, <2>3, Ends DEF Shapes
      <4>2. sPkt[d].frame = <<d, taken[d]>> /\ d # 0
        BY <1>1, <2>1, FrameOf DEF Shapes
      <4>3. NoPacket.frame = <<0, 0>>
        BY DEF NoPacket, Packet, NoFrame
      <4> QED
        BY <4>1, <4>2, <4>3
    <3>2. FramesIn(Append(pub[<<d, "send">>], sPkt[d]))
            = FramesIn(pub[<<d, "send">>]) \cup ({sPkt[d].frame} \ {NoFrame})
      BY <3>1, FramesOfAppend
    <3>3. InPub = FramesIn(pub[<<d, "send">>])
          /\ InPub' = FramesIn(Append(pub[<<d, "send">>], sPkt[d]))
      <4>1. pub'[<<Sender, "send">>] = Append(pub[<<d, "send">>], sPkt[d])
        BY <2>1, <2>3
      <4> QED
        BY <2>3, <4>1 DEF InPub, FramesIn
    <3>4. InHands = {sPkt[d].frame} /\ InHands' = {}
      BY <2>1, <2>3 DEF InHands
    <3> QED
      BY <1>1, <1>3, <3>2, <3>3, <3>4 DEF WayIsQueues
  <2> QED
    BY <1>3, <2>2, <2>3
<1>5. CASE ~SendPublish(d)
  <2>1. /\ pub' = pub /\ sPc[d] # "publish" /\ sPc'[d] # "publish"
        /\ \A e \in Devices \ {d} : sPc'[e] = sPc[e] /\ sPkt'[e] = sPkt[e]
    <3>1. /\ pub' = pub /\ sPc[d] # "publish"
          /\ \E pc \in {"poll", "count", "done"} : sPc' = [sPc EXCEPT ![d] = pc]
          /\ sPkt' = sPkt \/ sPkt' = [sPkt EXCEPT ![d] = NoPacket]
      BY <1>5 DEF SendStep, SendQuit, SendLog, SendCount, NextTurn
    <3> QED
      BY <1>1, <3>1 DEF TypeOK, Shapes
  <2>2. InPub' = InPub /\ InHands' = InHands
    BY <2>1, Ends DEF InPub, InHands, FramesIn
  <2> QED
    BY <1>1, <1>3, <2>2 DEF WayIsQueues
<1> QED
  BY <1>4, <1>5

(* A frame that will not be published is taken.                            *)
LEMMA DroppedMoves ==
  ASSUME ChannelInv, ChainInv', NEW d \in Devices, SendTake(d), WrapsNothing,
         UNCHANGED <<recvThread, pub, sub>>
  PROVE  SameButWire /\ OnItsWay' = OnItsWay
<1>1. TypeOK /\ Shapes /\ WayIsQueues /\ WayIsQueues'
  BY Way, WayNext DEF ChannelInv, ChainInv, IInv
<1>2. UNCHANGED <<under, txIv, got, rxIv, pub, sub>>
  BY DEF WrapsNothing, recvThread
<1>3. /\ sPc[d] = "poll" /\ sPc'[d] # "publish"
      /\ \A e \in Devices \ {d} : sPc'[e] = sPc[e] /\ sPkt'[e] = sPkt[e]
  BY <1>1 DEF SendTake, WrapPacket, WrapsNothing, TypeOK, Shapes
<1>4. InSub' = InSub /\ InPub' = InPub /\ InHands' = InHands
  BY <1>2, <1>3, Ends DEF InSub, InPub, InHands, FramesIn
<1> QED
  BY <1>1, <1>2, <1>4, QuietStep DEF WayIsQueues

(* The receiving threads take packets off their subscriptions; one that    *)
(* disregards a packet under the key, or has no record for it, loses it.   *)
LEMMA RecvMoves ==
  ASSUME ChannelInv, ChainInv', NEW d \in Devices, RecvStep(d), ~RecvUnwrap(d)
  PROVE  /\ SameButWire
         /\ OnItsWay' = OnItsWay \/ \E f \in OnItsWay : OnItsWay' = OnItsWay \ {f}
<1> USE DEF recvThread, sendThread
<1>1. TypeOK /\ Shapes /\ Ordered /\ WayIsQueues /\ WayIsQueues'
  BY Way, WayNext DEF ChannelInv, ChainInv, IInv
<1>2. UNCHANGED <<under, txIv, got, rxIv, sPc, sPkt>>
  BY DEF RecvStep, RecvQuit, RecvDisregard, RecvNoPair, RecvPublish, RecvLog,
         RecvWork
<1>3. SameButWire /\ Wrapped' = Wrapped
  BY <1>2, QuietStep
<1>4. pub'[<<Sender, "send">>] = pub[<<Sender, "send">>]
  BY <1>1, Ends DEF RecvStep, RecvQuit, RecvDisregard, RecvNoPair, RecvPublish, RecvLog, RecvWork, Publish, Shapes
<1>5. InPub' = InPub /\ InHands' = InHands
  BY <1>2, <1>4 DEF InPub, InHands, FramesIn
<1>6. \/ sub'[Receiver] = sub[Receiver]
      \/ sub[Receiver] # <<>> /\ sub'[Receiver] = Tail(sub[Receiver])
  <2>1. \/ UNCHANGED sub
        \/ /\ \E next : RecvTurn(d, next)
           /\ rPc[d] = "poll" => sub[d] # <<>>
    BY DEF RecvStep, RecvQuit, RecvDisregard, RecvNoPair, RecvPublish, RecvLog,
           RecvWork
  <2>2. \A e \in Devices : \/ sub'[e] = sub[e]
                           \/ sub[e] # <<>> /\ sub'[e] = Tail(sub[e])
    BY <1>1, <2>1 DEF RecvTurn, Shapes
  <2> QED
    BY <2>2, Ends
<1>7. CASE sub'[Receiver] = sub[Receiver]
  <2>1. InSub' = InSub
    BY <1>7 DEF InSub, FramesIn
  <2> QED
    BY <1>1, <1>3, <1>5, <2>1 DEF WayIsQueues
<1>8. CASE sub[Receiver] # <<>> /\ sub'[Receiver] = Tail(sub[Receiver])
  <2>1. PICK h : h = Head(sub[Receiver]).frame
    OBVIOUS
  <2>2. sub[Receiver] \in Seq(WirePackets) /\ Sorted(sub[Receiver])
    BY <1>1, Ends DEF Shapes, Ordered
  <2>3. /\ FramesIn(sub[Receiver]) = FramesIn(Tail(sub[Receiver])) \cup ({h} \ {NoFrame})
        /\ h # NoFrame => \A f \in FramesIn(Tail(sub[Receiver])) : h[1] = f[1] => h[2] < f[2]
    BY <1>8, <2>1, <2>2, PacketsOfTail, SortedTail
  <2>4. InSub = FramesIn(sub[Receiver]) /\ InSub' = FramesIn(Tail(sub[Receiver]))
    BY <1>8 DEF InSub, FramesIn
  <2>5. CASE h \notin Wrapped
    <3>1. Wrapped \cap InSub' = Wrapped \cap InSub
      BY <2>3, <2>4, <2>5
    <3> QED
      BY <1>1, <1>3, <1>5, <3>1 DEF WayIsQueues
  <2>6. CASE h \in Wrapped
    <3>1. h # NoFrame /\ h[2] \in Nat
      BY <1>1, <2>6 DEF WayIsQueues
    <3>2. h \in InSub /\ h \notin InSub' /\ InSub = InSub' \cup {h}
      BY <2>3, <2>4, <3>1
    <3>3. h \notin InPub \cup InHands
      BY <2>6, <3>2, OneQueue DEF ChannelInv
    <3>4. h \in OnItsWay /\ OnItsWay' = OnItsWay \ {h}
      BY <1>1, <1>3, <1>5, <2>6, <3>2, <3>3 DEF WayIsQueues
    <3> QED
      BY <1>3, <3>4
  <2> QED
    BY <2>5, <2>6
<1> QED
  BY <1>6, <1>7, <1>8

(* The proxy moves the oldest packet of a publisher to the subscriptions,  *)
(* or drops it.                                                            *)
LEMMA ForwardMoves ==
  ASSUME ChannelInv, ChainInv', NEW t \in Sockets, Forward(t)
  PROVE  /\ SameButWire
         /\ OnItsWay' = OnItsWay \/ \E f \in OnItsWay : OnItsWay' = OnItsWay \ {f}
<1> USE DEF recvThread, sendThread
<1>1. TypeOK /\ Shapes /\ Ordered /\ WayIsQueues /\ WayIsQueues'
  BY Way, WayNext DEF ChannelInv, ChainInv, IInv
<1>2. UNCHANGED <<under, txIv, got, rxIv, sPc, sPkt>> /\ pub[t] # <<>>
  BY DEF Forward
<1>3. SameButWire /\ Wrapped' = Wrapped /\ InHands' = InHands
  BY <1>2, QuietStep DEF InHands
<1>4. PICK p : p = Head(pub[t])
  OBVIOUS
<1>5. PICK h : h = p.frame
  OBVIOUS
<1>6. /\ pub'[t] = Tail(pub[t]) /\ \A s \in Sockets \ {t} : pub'[s] = pub[s]
      /\ sub'[Receiver] = sub[Receiver] \/ sub'[Receiver] = Append(sub[Receiver], p)
  BY <1>1, <1>4, Ends DEF Forward, Shapes
<1>7. /\ pub[t] \in Seq(WirePackets) /\ Sorted(pub[t]) /\ p \in WirePackets
      /\ FramesIn(pub[t]) = FramesIn(Tail(pub[t])) \cup ({h} \ {NoFrame})
      /\ h # NoFrame => \A f \in FramesIn(Tail(pub[t])) : h[1] = f[1] => h[2] < f[2]
  <2>1. pub[t] \in Seq(WirePackets) /\ Sorted(pub[t])
    BY <1>1 DEF Shapes, Ordered
  <2> QED
    BY <1>2, <1>4, <1>5, <2>1, PacketsOfTail, FramesOfTail, SortedTail
<1>8. \/ InSub' = InSub
      \/ InSub' = InSub \cup ({h} \ {NoFrame})
  <2>1. sub[Receiver] \in Seq(WirePackets)
    BY <1>1, Ends DEF Shapes
  <2>2. FramesIn(Append(sub[Receiver], p)) = FramesIn(sub[Receiver]) \cup ({h} \ {NoFrame})
    BY <1>5, <1>7, <2>1, FramesOfAppend
  <2>3. InSub = FramesIn(sub[Receiver]) /\ InSub' = FramesIn(sub'[Receiver])
    BY DEF InSub, FramesIn
  <2> QED
    BY <1>6, <2>2, <2>3
<1>9. CASE t # <<Sender, "send">>
  <2>1. InPub' = InPub
    <3>1. pub'[<<Sender, "send">>] = pub[<<Sender, "send">>]
      BY <1>6, <1>9, Ends
    <3> QED
      BY <3>1 DEF InPub, FramesIn
  <2>2. h \notin Wrapped
    <3> SUFFICES ASSUME h \in Wrapped PROVE FALSE
      OBVIOUS
    <3>1. h # NoFrame /\ h[1] = Sender
      BY <1>1 DEF WayIsQueues
    <3>2. h \in FramesIn(pub[t])
      BY <1>7, <3>1
    <3>3. t = <<h[1], "send">>
      BY <1>1, <3>2 DEF Ordered
    <3> QED
      BY <1>9, <3>1, <3>3
  <2>3. Wrapped \cap InSub' = Wrapped \cap InSub
    BY <1>8, <2>2
  <2> QED
    BY <1>1, <1>3, <2>1, <2>3 DEF WayIsQueues
<1>10. CASE t = <<Sender, "send">>
  <2>1. InPub = FramesIn(pub[t]) /\ InPub' = FramesIn(Tail(pub[t]))
    BY <1>6, <1>10 DEF InPub, FramesIn
  <2>2. CASE h \notin Wrapped
    <3>1. Wrapped \cap InSub' = Wrapped \cap InSub /\ Wrapped \cap InPub' = Wrapped \cap InPub
      BY <1>7, <1>8, <2>1, <2>2
    <3> QED
      BY <1>1, <1>3, <3>1 DEF WayIsQueues
  <2>3. CASE h \in Wrapped
    <3>1. h # NoFrame /\ h[2] \in Nat
      BY <1>1, <2>3 DEF WayIsQueues
    <3>2. h \in InPub /\ h \notin InPub' /\ InPub = InPub' \cup {h}
      BY <1>7, <2>1, <3>1
    <3>3. h \notin InSub /\ h \notin InHands
      BY <2>3, <3>2, OneQueue DEF ChannelInv
    <3>4. CASE InSub' = InSub
      <4>1. h \in OnItsWay /\ OnItsWay' = OnItsWay \ {h}
        BY <1>1, <1>3, <2>3, <3>2, <3>3, <3>4 DEF WayIsQueues
      <4> QED
        BY <1>3, <4>1
    <3>5. CASE InSub' = InSub \cup ({h} \ {NoFrame})
      <4>1. OnItsWay' = OnItsWay
        BY <1>1, <1>3, <3>1, <3>2, <3>5 DEF WayIsQueues
      <4> QED
        BY <1>3, <4>1
    <3> QED
      BY <1>8, <3>4, <3>5
  <2> QED
    BY <2>2, <2>3
<1> QED
  BY <1>9, <1>10

-----------------------------------------------------------------------------
(* Every step of the network is a step of the channel, or none.            *)
LEMMA NextMapped ==
  ASSUME ChannelInv, [Next]_vars PROVE Mapped /\ ChannelInv'
<1>1. ChainInv' /\ TypeOK /\ Shapes /\ IInv /\ Labelled
  BY NextChainInv DEF ChannelInv, ChainInv, IInv
<1>2. ASSUME SameButWire,
             OnItsWay' = OnItsWay \/ \E f \in OnItsWay : OnItsWay' = OnItsWay \ {f}
      PROVE  Mapped /\ ChannelInv'
  BY <1>1, <1>2, NothingMoves, FrameLost DEF ChannelInv
<1>3. ASSUME NEW d \in Devices, SendStep(d) PROVE Mapped /\ ChannelInv'
  <2>1. CASE ~SendTake(d)
    BY <1>1, <1>2, <1>3, <2>1, SendMoves
  <2>2. CASE SendTake(d)
    <3>1. CASE WrapsNothing /\ UNCHANGED <<recvThread, pub, sub>>
      BY <1>1, <1>2, <2>2, <3>1, DroppedMoves
    <3>2. ASSUME NEW f, NEW k, Wraps(d, f, k) PROVE Mapped /\ ChannelInv'
      <4>1. CASE k = WatchedKey
        BY <1>1, <3>2, <4>1, FrameWrapped DEF ChannelInv
      <4>2. CASE k # WatchedKey
        BY <1>1, <1>2, <3>2, <4>2, OtherKeyWrapped
      <4> QED
        BY <4>1, <4>2
    <3> QED
      BY <1>1, <2>2, <3>1, <3>2, TakeWraps
  <2> QED
    BY <2>1, <2>2
<1>4. ASSUME NEW d \in Devices, RecvStep(d) PROVE Mapped /\ ChannelInv'
  <2>1. CASE ~RecvUnwrap(d)
    BY <1>1, <1>2, <1>4, <2>1, RecvMoves
  <2>2. CASE RecvUnwrap(d)
    <3>1. PICK f, k : Unwraps(d, f, k)
      BY <1>1, <2>2, RecvUnwraps
    <3>2. CASE k = WatchedKey
      BY <1>1, <2>2, <3>1, <3>2, FrameUnwrapped DEF ChannelInv
    <3>3. CASE k # WatchedKey
      BY <1>1, <1>2, <2>2, <3>1, <3>3, OtherKeyUnwrapped
    <3> QED
      BY <3>2, <3>3
  <2> QED
    BY <2>1, <2>2
<1>5. ASSUME NEW t \in Sockets, Forward(t) PROVE Mapped /\ ChannelInv'
  BY <1>1, <1>2, <1>5, ForwardMoves
<1>6. ASSUME UNCHANGED vars \/ \E d \in Devices : HandleSignal(d)
      PROVE  Mapped /\ ChannelInv'
  <2>1. UNCHANGED <<under, txIv, got, rxIv, sPc, sPkt, pub, sub>>
    BY <1>6 DEF vars, HandleSignal, sendThread, recvThread
  <2>2. SameButWire /\ Wrapped' = Wrapped
    BY <2>1, QuietStep
  <2>3. WayIsQueues /\ WayIsQueues'
    BY <1>1, Way, WayNext DEF ChannelInv
  <2>4. InSub' = InSub /\ InPub' = InPub /\ InHands' = InHands
    BY <2>1 DEF InSub, InPub, InHands, FramesIn
  <2>5. OnItsWay' = OnItsWay
    BY <2>2, <2>3, <2>4 DEF WayIsQueues
  <2> QED
    BY <1>2, <2>2, <2>5
<1> QED
  BY <1>3, <1>4, <1>5, <1>6 DEF Next

LEMMA InitMapped == Init => Channel!Init /\ ChannelInv
<1> SUFFICES ASSUME Init PROVE Channel!Init /\ ChannelInv
  OBVIOUS
<1>1. ChainInv /\ Ordered
  BY InitChain DEF ChainInv, IInv
<1>2. Wrapped = {}
  BY Ends DEF Init, InitAt, Wrapped
<1>3. OnItsWay = {} /\ Unwrapped(TRUE) = {} /\ Unwrapped(FALSE) = {} /\ Lost = {}
  BY <1>2 DEF OnItsWay, Unwrapped, Lost
<1>4. IsWire(<<>>, OnItsWay)
  BY <1>3, FS_EmptySet DEF IsWire, Lists
<1>5. WatchedWire = <<>>
  BY <1>4, WireIs
<1>6. EncryptedUnder = [f \in Frames |-> NoFrame]
  BY <1>2 DEF EncryptedUnder
<1>7. txIv[WatchedKey] = NoFrame /\ rxIv[WatchedKey] = NoFrame
  BY Ends DEF Init, InitAt
<1>8. Channel!Init
  BY <1>2, <1>3, <1>5, <1>6, <1>7 DEF Channel!Init, Channel!InitCtxIv
<1> QED
  BY <1>1, <1>4, <1>5, <1>8 DEF ChannelInv

(* The packets under any one key are a CipherContext that is not restarted,*)
(* whatever else the broadcast carries, loses or leaves unread, and        *)
(* however the threads of the two devices and the proxy interleave.        *)
THEOREM KeyIsChannel == Spec => ImplementsChannel
<1>1. ChannelInv /\ [Next]_vars => Mapped /\ ChannelInv'
  BY NextMapped
<1>2. Mapped => [Channel!Next]_(Channel!vars)
  BY DEF Mapped
<1>3. Spec => []ChannelInv
  BY <1>1, InitMapped, PTL DEF Spec
<1> QED
  BY <1>1, <1>2, <1>3, InitMapped, PTL DEF Spec, ImplementsChannel, Channel!Spec

-----------------------------------------------------------------------------
(* What is proved of CipherContext, of the context of the watched key.     *)
Context == INSTANCE CipherContextProofs WITH
  DefaultIv <- NoFrame,
  txIv      <- txIv[WatchedKey],
  rxIv      <- rxIv[WatchedKey],
  wire      <- WatchedWire,
  pred      <- EncryptedUnder,
  wrapped   <- Wrapped,
  intact    <- Unwrapped(TRUE),
  damaged   <- Unwrapped(FALSE),
  lost      <- Lost,
  current   <- Unwrapped(TRUE) \cup Unwrapped(FALSE),
  txStarts  <- 0,
  rxStarts  <- 0

LEMMA ContextAssumption == Context!IvAssumption
BY FrameOf DEF Context!IvAssumption

LEMMA ContextHolds == Spec => Context!Spec
<1>1. Channel!Init => Context!Init
  BY DEF Channel!Init, Context!Init, Channel!InitCtxIv, Context!InitCtxIv
<1>2. [Channel!Next]_(Channel!vars) => [Context!Next]_(Context!vars)
  <2>1. UNCHANGED Channel!vars => UNCHANGED Context!vars
    BY DEF Channel!vars, Context!vars, Channel!history, Context!history
  <2>2. ASSUME NEW f \in Frames, Channel!Wrap(f) PROVE Context!Wrap(f)
    BY <2>2 DEF Channel!Wrap, Context!Wrap, Channel!IvAfterEncrypt, Context!IvAfterEncrypt
  <2>3. ASSUME NEW i \in 1..Len(WatchedWire), Channel!Lose(i) PROVE Context!Lose(i)
    BY <2>3 DEF Channel!Lose, Context!Lose, Channel!Without, Context!Without
  <2>4. Channel!Unwrap => Context!Unwrap
    BY DEF Channel!Unwrap, Context!Unwrap, Channel!IvAfterDecrypt, Context!IvAfterDecrypt,
           Channel!FirstBlockRight, Context!FirstBlockRight,
           Channel!WireAfterRecv, Context!WireAfterRecv
  <2>5. ~Channel!RestartSender /\ \A n \in 0..Len(WatchedWire) : ~Channel!RestartReceiver(n)
    BY DEF Channel!RestartSender, Channel!RestartReceiver
  <2> QED
    BY <2>1, <2>2, <2>3, <2>4, <2>5 DEF Channel!Next, Context!Next
<1>3. Channel!Spec => Context!Spec
  BY <1>1, <1>2, PTL DEF Channel!Spec, Context!Spec
<1> QED
  BY <1>3, KeyIsChannel DEF ImplementsChannel

(* The key is used for finitely many frames, those pushed to the sender.   *)
LEMMA LostIsFinite == ChannelInv => IsFiniteSet(Lost)
<1> SUFFICES ASSUME ChannelInv PROVE IsFiniteSet(Lost)
  OBVIOUS
<1> DEFINE n == Len(Upper[Sender])
           pushed == [m \in 1..n |-> <<Sender, m>>]
           F == {<<Sender, m>> : m \in 1..n}
<1>1. n \in Nat
  BY FrameOf, Ends
<1>2. \A f \in Wrapped : f \in F
  <2>1. \A f \in Wrapped : f \in Frames /\ f[1] = Sender
    BY Way DEF ChannelInv, WayIsQueues
  <2> QED
    BY <2>1 DEF Frames
<1>3. IsFiniteSet(F)
  <2>1. pushed \in Seq(F) /\ Len(pushed) = n
    BY <1>1
  <2>2. \A f \in F : \E m \in 1..Len(pushed) : pushed[m] = f
    BY <2>1
  <2> QED
    BY <2>1, <2>2 DEF IsFiniteSet
<1>4. Lost \in SUBSET F
  BY <1>2 DEF Lost
<1> QED
  BY <1>3, <1>4, FS_Subset

(* On every key, the frames that come out with a wrong header are never    *)
(* more than the frames of that key that were lost: whatever the broadcast *)
(* drops, the contexts of the two ends catch up with the first frame after *)
(* a gap (the IVs that DevicePair_encrypt_data and DevicePair_decrypt_data *)
(* leave for the next call).                                               *)
THEOREM LossCostsOneHeader == Spec => [](Cardinality(Unwrapped(FALSE)) <= Cardinality(Lost))
<1>1. Context!Spec => []Context!OneDamagePerGap
  BY Context!GapsCostOneEach, ContextAssumption
<1>2. Spec => []ChannelInv
  <2>1. ChannelInv /\ [Next]_vars => ChannelInv'
    BY NextMapped
  <2> QED
    BY <2>1, InitMapped, PTL DEF Spec
<1>3. Context!OneDamagePerGap /\ ChannelInv
       => Cardinality(Unwrapped(FALSE)) <= Cardinality(Lost)
  <2>1. \A S : Context!Cardinality(S) = Cardinality(S)
    BY DEF Context!Cardinality, Cardinality
  <2>2. ChannelInv => Cardinality(Lost) + 0 + 0 = Cardinality(Lost)
    BY LostIsFinite, FS_CardinalityType
  <2>3. Context!OneDamagePerGap
         => Cardinality(Unwrapped(FALSE)) <= Cardinality(Lost) + 0 + 0
    BY <2>1, Zenon DEF Context!OneDamagePerGap
  <2> QED
    BY <2>2, <2>3, Zenon
<1> QED
  BY <1>1, <1>2, <1>3, ContextHolds, PTL
=============================================================================
