--------------------------- MODULE LastSentProofs ---------------------------
(***************************************************************************)
(* Proofs about LastSent for any number of writing and checking threads,   *)
(* any keys and any size of the log: what the races of al_sim_device can   *)
(* not do to it.                                                           *)
(***************************************************************************)
EXTENDS LastSent, FiniteSetTheorems, SequenceTheorems, TLAPS

(* What is kept of a sequence is a sequence over the same set.              *)
LEMMA LastOfType ==
  ASSUME NEW S, NEW q \in Seq(S), NEW n \in Nat
  PROVE  LastOf(q, n) \in Seq(S) /\ Len(LastOf(q, n)) <= n
<1> DEFINE m == (IF Len(q) > n THEN Len(q) - n ELSE 0) + 1
<1>1. m \in 1..(Len(q) + 1)
  OBVIOUS
<1>2. \A i \in m..Len(q) : q[i] \in S
  BY <1>1
<1>3. SubSeq(q, m, Len(q)) \in Seq(S)
  BY <1>1, <1>2
<1>4. Len(q) - m + 1 <= n
  OBVIOUS
<1>5. Len(SubSeq(q, m, Len(q))) = Len(q) - m + 1
  <2>1. m \in Nat /\ m <= Len(q) + 1 /\ Len(q) \in Nat
    BY <1>1
  <2> HIDE DEF m
  <2> QED
    BY <2>1
<1> QED
  BY <1>3, <1>4, <1>5 DEF LastOf

(* The incremented index is an index, and one past the one it was loaded   *)
(* from, if that was in the array.                                         *)
LEMMA IncrementedType ==
  /\ \A i \in Indexes : Incremented(i) \in Indexes
  /\ \A i \in Slots : Incremented(i) = i + 1 /\ i + 1 \in Slots \cup {RingSize}
  /\ Slots \subseteq Indexes /\ 0 \in Slots /\ RingSize \in Indexes
<1> USE RingAssumption, IndexAssumption
<1>1. ASSUME NEW i \in Nat PROVE (i + 1) % IndexRange \in 0..(IndexRange - 1)
  OBVIOUS
<1>2. ASSUME NEW i \in Nat, i + 1 < IndexRange PROVE (i + 1) % IndexRange = i + 1
  BY <1>2
<1>3. ASSUME NEW i \in Slots
      PROVE  i \in Nat /\ i + 1 < IndexRange /\ i + 1 \in Slots \cup {RingSize}
  BY DEF Slots
<1>4. Slots \subseteq Indexes /\ 0 \in Slots /\ RingSize \in Indexes /\ Indexes \subseteq Nat
  BY DEF Slots, Indexes
<1>5. \A i \in Indexes : Incremented(i) \in Indexes
  BY <1>1, <1>4 DEF Incremented, Indexes
<1>6. \A i \in Slots : Incremented(i) = i + 1
  BY <1>2, <1>3 DEF Incremented
<1> QED
  BY <1>3, <1>4, <1>5, <1>6, Zenon

(* A scan that has not reached the last slot goes on inside the array.     *)
LEMMA NextSlotType == \A i \in Slots : i # LastSlot => i + 1 \in Slots
BY RingAssumption DEF Slots, LastSlot

LEMMA InitIInv == ASSUME Init PROVE IInv
<1>1. TypeOK
  <2>1. 0 \in Slots /\ 0 \in Indexes /\ 0 <= RingSize
    BY RingAssumption, IncrementedType
  <2>2. lastSent \in [Slots -> (Keys \cup {NoKey}) \X (Keys \cup {NoKey})] /\ index \in Indexes
    BY <2>1 DEF Init, ClearedLog
  <2>3. raced \in BOOLEAN /\ overtaken \in BOOLEAN
    BY Zenon DEF Init
  <2>4. returned \in Seq(Keys \cup {NoKey}) /\ logged \subseteq Keys
        /\ Len(returned) <= RingSize
    <3>1. returned = <<>> /\ logged = {}
      BY Zenon DEF Init
    <3> QED
      BY <2>1, <3>1
  <2>5. /\ pc \in [Threads -> {"idle", "scan"} \cup Setting]
        /\ arg \in [Threads -> Keys \cup {NoKey}]
        /\ slot \in [Threads -> Indexes]
        /\ \A t \in Threads : pc[t] = "scan" => slot[t] \in Slots
    BY <2>1 DEF Init
  <2>6. /\ found \in [Threads -> BOOLEAN] /\ seen \in [Threads -> BOOLEAN]
        /\ held \in [Threads -> SUBSET Slots]
    BY Zenon DEF Init
  <2>7. recent \in [Threads -> SUBSET (0..(RingSize - 1))]
    BY DEF Init
  <2> QED
    BY <2>2, <2>3, <2>4, <2>5, <2>6, <2>7, Zenon DEF TypeOK
<1>2. StoresLogged
  BY DEF Init, ClearedLog, StoresLogged
<1>3. ChecksSound
  BY DEF Init, ChecksSound, CheckSound
<1>4. IndexSeen
  <2>1. index = 0 /\ 0 \in Slots /\ RingSize # 0 /\ \A t \in Threads : pc[t] = "idle"
    BY RingAssumption, IncrementedType DEF Init
  <2> QED
    BY <2>1 DEF IndexSeen
<1> QED
  BY <1>1, <1>2, <1>3, <1>4 DEF IInv

-----------------------------------------------------------------------------
(* The calls counted since a key was logged.                               *)
LEMMA SinceType ==
  ASSUME TypeOK
  PROVE  /\ UnderWay \in 0..1 /\ UnderWay' \in 0..1
         /\ \A k : CallsSince(k) \ {RingSize} \subseteq 0..(RingSize - 1)
         /\ \A N \in SUBSET (0..(RingSize - 1)) :
              {n + 1 : n \in N} \ {RingSize} \subseteq 0..(RingSize - 1)
<1> USE RingAssumption
<1>1. UnderWay \in 0..1 /\ UnderWay' \in 0..1
  BY DEF UnderWay
<1>2. ASSUME NEW k, NEW n \in CallsSince(k) PROVE n \in 0..RingSize
  <2>1. PICK j \in 1..Len(returned) : n = Len(returned) - j + UnderWay
    BY DEF CallsSince
  <2> QED
    BY <1>1, <2>1 DEF TypeOK
<1>3. ASSUME NEW N \in SUBSET (0..(RingSize - 1)), NEW n \in N
      PROVE  n + 1 \in 0..RingSize
  OBVIOUS
<1> QED
  BY <1>1, <1>2, <1>3

(* A step of one thread leaves the registers of the others alone.          *)
LEMMA OthersKeep ==
  ASSUME TypeOK, NEW t \in Threads, Step(t), NEW u \in Threads, u # t
  PROVE  pc'[u] = pc[u] /\ arg'[u] = arg[u] /\ slot'[u] = slot[u] /\ found'[u] = found[u]
BY DEF TypeOK, Step, SetCall, SetHead, SetTail, SetReload, SetStore, SetTest, SetReset,
       SetReturns, CheckCall, CheckSlot

(* A call that returns is the latest of those remembered.                  *)
LEMMA ReturnedType ==
  ASSUME TypeOK, NEW t \in Threads, SetReturns(t)
  PROVE  returned' \in Seq(Keys \cup {NoKey}) /\ Len(returned') <= RingSize
<1>1. Append(returned, arg[t]) \in Seq(Keys \cup {NoKey})
  BY DEF TypeOK
<1> QED
  BY <1>1, LastOfType, RingAssumption DEF SetReturns

(* Every memory access of every thread keeps the types.                    *)
LEMMA StepTypeOK ==
  ASSUME TypeOK, NEW t \in Threads, Step(t), Observe
  PROVE  TypeOK'
<1>1. /\ held' \in [Threads -> SUBSET Slots] /\ seen' \in [Threads -> BOOLEAN]
      /\ raced' \in BOOLEAN /\ overtaken' \in BOOLEAN
  BY DEF TypeOK, Observe
<1>2. recent' \in [Threads -> SUBSET (0..(RingSize - 1))]
  <2> SUFFICES ASSUME NEW u \in Threads PROVE recent'[u] \subseteq 0..(RingSize - 1)
    BY DEF Observe
  <2>1. \/ recent'[u] = recent[u]
        \/ recent'[u] = CallsSince(arg'[u]) \ {RingSize}
        \/ recent'[u] = {n + 1 : n \in recent[u]} \ {RingSize}
    BY DEF Observe
  <2>2. recent[u] \in SUBSET (0..(RingSize - 1))
    BY DEF TypeOK
  <2> QED
    BY <2>1, <2>2, SinceType
<1>3. TypeOK /\ UNCHANGED returned => returned' \in Seq(Keys \cup {NoKey}) /\ Len(returned') <= RingSize
  BY DEF TypeOK
<1> HIDE DEF Setting
<1>4. ASSUME UNCHANGED returned,
             /\ lastSent' \in [Slots -> (Keys \cup {NoKey}) \X (Keys \cup {NoKey})]
             /\ index' \in Indexes
             /\ pc' \in [Threads -> {"idle", "scan"} \cup Setting]
             /\ arg' \in [Threads -> Keys \cup {NoKey}]
             /\ slot' \in [Threads -> Indexes]
             /\ \A u \in Threads : pc'[u] = "scan" => slot'[u] \in Slots
             /\ found' \in [Threads -> BOOLEAN]
             /\ logged' \subseteq Keys
      PROVE  TypeOK'
  BY <1>1, <1>2, <1>3, <1>4, Zenon DEF TypeOK
<1>5. {"head", "tail", "reload", "store", "test", "reset"} \subseteq Setting
  BY DEF Setting
<1>6. CASE \E k \in Keys : SetCall(t, k)
  BY <1>4, <1>5, <1>6 DEF SetCall, TypeOK
<1>7. CASE SetHead(t)
  <2>1. lastSent' \in [Slots -> (Keys \cup {NoKey}) \X (Keys \cup {NoKey})] /\ index' \in Indexes
    BY <1>7 DEF SetHead, TypeOK
  <2>2. /\ pc' = [pc EXCEPT ![t] = "tail"]
        /\ UNCHANGED <<arg, slot, found, returned, logged>>
    BY <1>7 DEF SetHead
  <2>3. pc' \in [Threads -> {"idle", "scan"} \cup Setting]
    BY <1>5, <2>2 DEF TypeOK
  <2>4. \A u \in Threads : pc'[u] = "scan" => slot'[u] \in Slots
    BY <2>2 DEF TypeOK
  <2> QED
    BY <1>4, <2>1, <2>2, <2>3, <2>4 DEF TypeOK
<1>8. CASE SetTail(t)
  BY <1>4, <1>5, <1>8 DEF SetTail, TypeOK
<1>9. CASE SetReload(t)
  BY <1>4, <1>5, <1>9 DEF SetReload, TypeOK
<1>10. CASE SetStore(t)
  <2>1. slot[t] \in Indexes
    BY DEF TypeOK
  <2>2. Incremented(slot[t]) \in Indexes
    BY <2>1, IncrementedType
  <2> QED
    BY <1>4, <1>5, <1>10, <2>2 DEF SetStore, TypeOK
<1>11. CASE SetTest(t)
  <2>1. CASE UNCHANGED returned
    <3>1. pc'[t] \in {"idle", "reset"} /\ pc' = [pc EXCEPT ![t] = pc'[t]]
      BY <1>11 DEF SetTest, SetReturns, TypeOK
    <3>2. pc' \in [Threads -> {"idle", "scan"} \cup Setting]
      BY <1>5, <3>1 DEF TypeOK
    <3>3. \A u \in Threads : pc'[u] = "scan" => slot'[u] \in Slots
      BY <1>11, <3>1 DEF SetTest, TypeOK
    <3> QED
      BY <1>4, <1>11, <2>1, <3>2, <3>3 DEF SetTest, TypeOK
  <2>2. CASE SetReturns(t)
    BY <1>1, <1>2, <1>11, <2>2, ReturnedType DEF SetTest, SetReturns, TypeOK
  <2> QED
    BY <1>11, <2>1, <2>2 DEF SetTest
<1>12. CASE SetReset(t)
  BY <1>1, <1>2, <1>12, ReturnedType, IncrementedType DEF SetReset, SetReturns, TypeOK
<1>13. CASE \E k \in Keys : CheckCall(t, k)
  BY <1>4, <1>13, IncrementedType DEF CheckCall, TypeOK
<1>14. CASE CheckSlot(t)
  <2>1. slot[t] \in Slots /\ slot[t] \in Indexes
    BY <1>14 DEF CheckSlot, TypeOK
  <2>2. CASE ~Matches(slot[t], arg[t]) /\ slot[t] # LastSlot
    <3>1. /\ slot' = [slot EXCEPT ![t] = @ + 1] /\ pc' = pc /\ found' = found
          /\ UNCHANGED <<lastSent, index, arg, returned, logged>>
      BY <1>14, <2>2 DEF CheckSlot
    <3>2. slot[t] + 1 \in Slots /\ slot[t] + 1 \in Indexes
      BY <2>1, <2>2, NextSlotType, IncrementedType
    <3> QED
      BY <1>4, <3>1, <3>2 DEF TypeOK
  <2>3. CASE Matches(slot[t], arg[t]) \/ slot[t] = LastSlot
    BY <1>4, <1>14, <2>3 DEF CheckSlot, TypeOK
  <2> QED
    BY <2>2, <2>3
<1> QED
  BY <1>6, <1>7, <1>8, <1>9, <1>10, <1>11, <1>12, <1>13, <1>14 DEF Step

(* Every half of a slot was stored by a call that logged its key.          *)
LEMMA StepStoresLogged ==
  ASSUME TypeOK, StoresLogged, NEW t \in Threads, Step(t)
  PROVE  StoresLogged'
<1> USE DEF TypeOK, StoresLogged
<1>1. CASE \E k \in Keys : SetCall(t, k)
  BY <1>1 DEF SetCall
<1>2. CASE SetHead(t)
  BY <1>2 DEF SetHead
<1>3. CASE SetTail(t)
  BY <1>3 DEF SetTail
<1>4. CASE SetReload(t)
  BY <1>4 DEF SetReload
<1>5. CASE SetStore(t)
  BY <1>5 DEF SetStore
<1>6. CASE SetTest(t)
  BY <1>6 DEF SetTest, SetReturns
<1>7. CASE SetReset(t)
  BY <1>7 DEF SetReset, SetReturns
<1>8. CASE \E k \in Keys : CheckCall(t, k)
  BY <1>8 DEF CheckCall
<1>9. CASE CheckSlot(t)
  BY <1>9 DEF CheckSlot
<1> QED
  BY <1>1, <1>2, <1>3, <1>4, <1>5, <1>6, <1>7, <1>8, <1>9 DEF Step

(* A check in progress has compared every slot before the one it is at;    *)
(* one that has ended answers for all of them.                             *)
LEMMA StepChecksSound ==
  ASSUME TypeOK, ChecksSound, NEW t \in Threads, Step(t), Observe
  PROVE  ChecksSound'
<1> DEFINE holding(u) == {s \in Slots : Holds(s, arg[u])'}
<1>1. ASSUME NEW u \in Threads
      PROVE  /\ pc[u] # "scan" /\ pc'[u] = "scan" =>
                  held'[u] = holding(u) /\ seen'[u] = (holding(u) # {})
             /\ pc[u] = "scan" => /\ held'[u] = held[u] \cap holding(u)
                                  /\ seen'[u] = (seen[u] \/ holding(u) # {})
             /\ pc[u] # "scan" /\ pc'[u] # "scan" =>
                  held'[u] = held[u] /\ seen'[u] = seen[u]
  BY DEF Observe, Holds
<1>2. ASSUME NEW u \in Threads, pc'[u] = pc[u], slot'[u] = slot[u] \/ pc[u] # "scan",
             found'[u] = found[u]
      PROVE  CheckSound(u)'
  <2>1. CASE pc[u] = "scan"
    <3>1. /\ held'[u] = held[u] \cap holding(u) /\ slot'[u] = slot[u]
          /\ \A s \in held[u] : s >= slot[u]
      BY <1>1, <1>2, <2>1 DEF CheckSound, ChecksSound
    <3>2. \A s \in held'[u] : s >= slot'[u] /\ Holds(s, arg[u])'
      BY <3>1
    <3> QED
      BY <1>2, <2>1, <3>2 DEF CheckSound
  <2>2. CASE pc[u] # "scan"
    BY <1>1, <1>2, <2>2 DEF CheckSound, ChecksSound
  <2> QED
    BY <2>1, <2>2
<1>3. \A u \in Threads : u # t =>
        pc'[u] = pc[u] /\ slot'[u] = slot[u] /\ found'[u] = found[u]
  BY OthersKeep
<1>4. SUFFICES CheckSound(t)'
  BY <1>2, <1>3 DEF ChecksSound
<1>5. CASE \/ \E k \in Keys : SetCall(t, k)
           \/ SetHead(t) \/ SetTail(t) \/ SetReload(t) \/ SetStore(t)
           \/ SetTest(t) \/ SetReset(t)
  <2>1. pc[t] # "scan" /\ pc'[t] # "scan" /\ found'[t] = found[t]
    BY <1>5 DEF SetCall, SetHead, SetTail, SetReload, SetStore, SetTest, SetReset,
                SetReturns, TypeOK
  <2> QED
    BY <1>1, <2>1 DEF CheckSound, ChecksSound
<1>6. CASE \E k \in Keys : CheckCall(t, k)
  <2>1. pc[t] # "scan" /\ pc'[t] = "scan" /\ slot'[t] = 0
    BY <1>6 DEF CheckCall, TypeOK
  <2>2. \A s \in held'[t] : s >= 0 /\ Holds(s, arg[t])'
    BY <1>1, <2>1 DEF Slots
  <2> QED
    BY <2>1, <2>2 DEF CheckSound
<1>7. CASE CheckSlot(t)
  <2>1. /\ pc[t] = "scan" /\ lastSent' = lastSent /\ arg' = arg
        /\ slot[t] \in Slots
        /\ held'[t] = held[t] \cap holding(t)
        /\ \A s \in held'[t] : s >= slot[t] /\ Holds(s, arg[t])'
    BY <1>1, <1>7 DEF CheckSlot, CheckSound, ChecksSound, TypeOK
  <2>2. ASSUME Matches(slot[t], arg[t]) PROVE CheckSound(t)'
    <3>1. pc'[t] = "idle" /\ found'[t] = TRUE
      BY <1>7, <2>2 DEF CheckSlot, TypeOK
    <3>2. slot[t] \in holding(t)
      <4>1. lastSent[slot[t]] = <<lastSent[slot[t]][1], lastSent[slot[t]][2]>>
        BY <2>1 DEF TypeOK
      <4> QED
        BY <2>1, <2>2, <4>1 DEF Matches, Holds
    <3>3. seen'[t]
      BY <1>1, <2>1, <3>2
    <3> QED
      BY <3>1, <3>3 DEF CheckSound
  <2>3. ASSUME ~Matches(slot[t], arg[t]) PROVE CheckSound(t)'
    <3>1. slot[t] \notin held'[t]
      BY <2>1, <2>3 DEF Matches, Holds
    <3>2. \A s \in held'[t] : s \in Slots /\ s >= slot[t] + 1
      <4>1. \A s \in held'[t] : s \in Slots /\ s # slot[t]
        BY <2>1, <3>1
      <4>2. ASSUME NEW s \in Slots, NEW i \in Slots, s >= i, s # i PROVE s >= i + 1
        BY <4>2, RingAssumption DEF Slots
      <4> QED
        BY <2>1, <4>1, <4>2
    <3>3. CASE slot[t] # LastSlot
      <4>1. pc'[t] = "scan" /\ slot'[t] = slot[t] + 1
        BY <1>7, <2>1, <2>3, <3>3 DEF CheckSlot, TypeOK
      <4> QED
        BY <2>1, <3>2, <4>1 DEF CheckSound
    <3>4. CASE slot[t] = LastSlot
      <4>1. pc'[t] = "idle" /\ found'[t] = FALSE
        BY <1>7, <2>3, <3>4 DEF CheckSlot, TypeOK
      <4>2. held'[t] = {}
        BY <3>2, <3>4, RingAssumption DEF LastSlot, Slots
      <4> QED
        BY <4>1, <4>2 DEF CheckSound
    <3> QED
      BY <3>3, <3>4
  <2> QED
    BY <2>2, <2>3
<1> QED
  BY <1>5, <1>6, <1>7 DEF Step

(* Until a call loads the index between the increment and the reset of     *)
(* another, whoever has taken it past the array is about to see it there.  *)
LEMMA StepIndexSeen ==
  ASSUME TypeOK, IndexSeen, NEW t \in Threads, Step(t), Observe
  PROVE  IndexSeen'
<1> SUFFICES ASSUME ~overtaken' PROVE IndexSeen'
  BY DEF IndexSeen
<1> USE RingAssumption
<1> DEFINE Sees(u) == pc[u] = "reset" \/ (pc[u] = "test" /\ slot[u] = RingSize)
<1>1. /\ ~overtaken /\ index \in Slots \cup {RingSize}
      /\ \A u \in Threads : pc[u] \in {"head", "tail", "store"} => slot[u] \in Slots
      /\ index = RingSize => \E u \in Threads : Sees(u)
      /\ RingSize \notin Slots
  <2>1. ~overtaken
    BY Zenon DEF Observe
  <2> QED
    BY <2>1 DEF IndexSeen, Slots
<1>2. \A u \in Threads : u # t => pc'[u] = pc[u] /\ slot'[u] = slot[u]
  BY OthersKeep
<1>3. ASSUME pc[t] # pc'[t], pc'[t] \in {"head", "store"}, pc[t] \notin {"test", "reset"}
      PROVE  index \in Slots
  <2>1. ~\E u \in Threads : t # u /\ index = RingSize /\ pc[u] \in {"test", "reset"}
    BY <1>3 DEF Observe
  <2> QED
    BY <1>1, <1>3, <2>1
<1>4. ASSUME index' = index, ~Sees(t) \/ Sees(t)',
             pc'[t] \in {"head", "tail", "store"} => slot'[t] \in Slots
      PROVE  IndexSeen'
  <2>1. index = RingSize => \E u \in Threads : Sees(u)'
    BY <1>1, <1>2, <1>4
  <2> QED
    BY <1>1, <1>2, <1>4, <2>1 DEF IndexSeen
<1>5. CASE \E k \in Keys : SetCall(t, k)
  <2>1. pc[t] = "idle" /\ pc'[t] = "head" /\ slot'[t] = index /\ index' = index
    BY <1>5 DEF SetCall, TypeOK
  <2> QED
    BY <1>3, <1>4, <2>1
<1>6. CASE SetHead(t)
  <2>1. pc[t] = "head" /\ pc'[t] = "tail" /\ slot'[t] = slot[t] /\ slot[t] \in Slots
    BY <1>1, <1>6 DEF SetHead, TypeOK
  <2>2. index' = index
    BY <1>1, <1>6, <2>1 DEF SetHead, Slots
  <2> QED
    BY <1>4, <2>1, <2>2
<1>7. CASE SetTail(t)
  <2>1. pc[t] = "tail" /\ pc'[t] = "reload" /\ index' = index
    BY <1>7 DEF SetTail, TypeOK
  <2> QED
    BY <1>4, <2>1
<1>8. CASE SetReload(t)
  <2>1. pc[t] = "reload" /\ pc'[t] = "store" /\ slot'[t] = index /\ index' = index
    BY <1>8 DEF SetReload, TypeOK
  <2> QED
    BY <1>3, <1>4, <2>1
<1>9. CASE SetStore(t)
  <2>1. /\ pc[t] = "store" /\ pc'[t] = "test" /\ index' = Incremented(slot[t])
        /\ slot'[t] = index' /\ slot[t] \in Slots
    BY <1>1, <1>9 DEF SetStore, TypeOK
  <2>2. index' \in Slots \cup {RingSize}
    BY <2>1, IncrementedType
  <2> QED
    BY <1>1, <1>2, <2>1, <2>2 DEF IndexSeen
<1>10. CASE SetTest(t)
  <2>1. pc[t] = "test" /\ pc'[t] \in {"reset", "idle"} /\ slot'[t] = slot[t] /\ index' = index
    BY <1>10 DEF SetTest, SetReturns, TypeOK
  <2>2. CASE index = RingSize /\ slot[t] = RingSize
    <3>1. \A i \in {index, slot[t]} : AtEnd(i)
      BY <2>2 DEF AtEnd
    <3>2. pc'[t] = "reset"
      BY <1>10, <3>1 DEF SetTest, TypeOK
    <3> QED
      BY <1>4, <2>1, <3>2
  <2>3. CASE slot[t] # RingSize
    BY <1>4, <2>1, <2>3
  <2>4. CASE index # RingSize
    BY <1>1, <1>2, <2>1, <2>4 DEF IndexSeen
  <2> QED
    BY <2>2, <2>3, <2>4
<1>11. CASE SetReset(t)
  <2>1. pc[t] = "reset" /\ pc'[t] = "idle" /\ index' = 0 /\ 0 \in Slots
    BY <1>11, IncrementedType DEF SetReset, SetReturns, TypeOK
  <2> QED
    BY <1>1, <1>2, <2>1 DEF IndexSeen
<1>12. CASE (\E k \in Keys : CheckCall(t, k)) \/ CheckSlot(t)
  <2>1. pc[t] \in {"idle", "scan"} /\ pc'[t] \in {"idle", "scan"} /\ index' = index
    BY <1>12 DEF CheckCall, CheckSlot, TypeOK
  <2> QED
    BY <1>4, <2>1
<1> QED
  BY <1>5, <1>6, <1>7, <1>8, <1>9, <1>10, <1>11, <1>12 DEF Step

-----------------------------------------------------------------------------
(* Every step preserves the inductive invariant.                           *)
LEMMA NextIInv == ASSUME IInv, [Next]_vars PROVE IInv'
<1>1. CASE Next
  BY <1>1, StepTypeOK, StepStoresLogged, StepChecksSound, StepIndexSeen DEF Next, IInv
<1>2. CASE UNCHANGED vars
  BY <1>2 DEF vars, history, IInv, TypeOK, StoresLogged, ChecksSound, CheckSound, IndexSeen, Holds
<1> QED
  BY <1>1, <1>2

(* The inductive invariant holds in every reachable state.                 *)
THEOREM InvariantHolds == Spec => []IInv
<1> QED
  BY InitIInv, NextIInv, PTL DEF Spec

(* The log and its index keep their types, whatever the threads do.        *)
THEOREM TypeCorrect == Spec => []TypeOK
<1>1. IInv => TypeOK
  BY DEF IInv
<1> QED
  BY <1>1, InvariantHolds, PTL

(* However many threads race in Device_set_lastsent, no write of the log   *)
(* leaves the array, and the index does only in the middle of a call, as   *)
(* long as no call loads it between another one's increment and reset.     *)
THEOREM IndexKept == Spec => []IndexInArray
<1>1. IInv => IndexInArray
  BY DEF IInv, IndexSeen, IndexInArray
<1> QED
  BY <1>1, InvariantHolds, PTL

(* However their stores mix, the log recognises no key that was not logged.*)
THEOREM OnlyLoggedRecognised == Spec => []RecognisedWasLogged
<1>1. IInv => RecognisedWasLogged
  BY KeyAssumption DEF IInv, StoresLogged, RecognisedWasLogged, InLog, Holds
<1> QED
  BY <1>1, InvariantHolds, PTL

(* A check racing with any writers finds a key that one slot held all      *)
(* through it ...                                                          *)
THEOREM ChecksAreSound == Spec => []CheckFindsHeld
<1>1. IInv => CheckFindsHeld
  BY DEF IInv, ChecksSound, CheckSound, CheckFindsHeld, Threads
<1> QED
  BY <1>1, InvariantHolds, PTL

(* ... and finds no key that was never there during it.                    *)
THEOREM FindsOnlySeen == Spec => []CheckFindsOnlySeen
<1>1. IInv => CheckFindsOnlySeen
  BY DEF IInv, ChecksSound, CheckSound, CheckFindsOnlySeen, Threads
<1> QED
  BY <1>1, InvariantHolds, PTL

-----------------------------------------------------------------------------
(* The keys of the last calls, counted from the latest one.                *)
LEMMA LastKeys ==
  ASSUME NEW S, NEW q \in Seq(S), Len(q) <= RingSize, NEW k \in S,
         NEW r, r = LastOf(Append(q, k), RingSize)
  PROVE  /\ Len(r) = IF Len(q) < RingSize THEN Len(q) + 1 ELSE RingSize
         /\ r[Len(r)] = k
         /\ \A i \in 2..Len(r) : r[Len(r) + 1 - i] = q[Len(q) + 2 - i]
<1> DEFINE n == Len(q)
           a == Append(q, k)
           m == IF n < RingSize THEN 1 ELSE 2
<1>1. /\ a \in Seq(S) /\ Len(a) = n + 1 /\ n \in Nat
      /\ a[n + 1] = k /\ \A j \in 1..n : a[j] = q[j]
  OBVIOUS
<1> HIDE DEF a
<1>2. r = SubSeq(a, m, Len(a))
  <2>1. (IF Len(a) > RingSize THEN Len(a) - RingSize ELSE 0) + 1 = m
    BY <1>1, RingAssumption
  <2> QED
    BY <2>1 DEF LastOf, a
<1>3. /\ Len(r) = n + 2 - m
      /\ \A j \in 1..Len(r) : r[j] = a[j + m - 1]
  <2>1. m \in 1..2 /\ m <= Len(a)
    BY <1>1, RingAssumption
  <2> HIDE DEF m
  <2>2. /\ Len(SubSeq(a, m, Len(a))) = Len(a) - m + 1
        /\ \A j \in 1..(Len(a) - m + 1) : SubSeq(a, m, Len(a))[j] = a[j + m - 1]
    BY <1>1, <2>1
  <2> QED
    BY <1>1, <1>2, <2>1, <2>2
<1>4. ASSUME NEW i \in 2..Len(r) PROVE r[Len(r) + 1 - i] = q[n + 2 - i]
  <2>1. /\ Len(r) + 1 - i \in 1..Len(r)
        /\ (Len(r) + 1 - i) + m - 1 = n + 2 - i
        /\ n + 2 - i \in 1..n
    BY <1>1, <1>3, RingAssumption
  <2> HIDE DEF m
  <2>2. r[Len(r) + 1 - i] = a[(Len(r) + 1 - i) + m - 1]
    BY <1>3, <2>1
  <2>3. a[n + 2 - i] = q[n + 2 - i]
    BY <1>1, <2>1
  <2> QED
    BY <2>1, <2>2, <2>3
<1>5. r[Len(r)] = k
  <2>1. Len(r) \in 1..Len(r) /\ Len(r) + m - 1 = n + 1
    BY <1>1, <1>3, RingAssumption
  <2> QED
    BY <1>1, <1>3, <2>1
<1>6. Len(r) = IF n < RingSize THEN n + 1 ELSE RingSize
  BY <1>1, <1>3, RingAssumption
<1> QED
  BY <1>4, <1>5, <1>6, Zenon

(* After a call the slots are one place further behind the current one,    *)
(* and the one it has filled is the first behind it; the oldest one is the *)
(* current slot itself.                                                    *)
LEMMA BehindNext ==
  ASSUME Current \in Slots, Current' = SlotAfter(Current)
  PROVE  /\ Behind(1)' = Current
         /\ \A i \in 2..RingSize : Behind(i)' = Behind(i - 1)
BY RingAssumption DEF Behind, SlotAfter, Slots

LEMMA BehindSlots ==
  ASSUME Current \in Slots, NEW i \in 1..RingSize
  PROVE  Behind(i) \in Slots /\ (Behind(i) = Current <=> i = RingSize)
BY RingAssumption DEF Behind, Slots

(* The current slot is the one at the index until a call has incremented   *)
(* it, and the one before the index until that call returns.               *)
LEMMA CurrentIs ==
  ASSUME TypeOK, IndexSeen, ~overtaken, OneWriter
  PROVE  /\ Current \in Slots
         /\ \A t \in Threads : pc[t] \in {"head", "tail", "reload", "store"} => Current = index
         /\ \A t \in Threads : pc[t] \in {"test", "reset"} => Current = index - 1
         /\ (\A t \in Threads : pc[t] \notin Setting) => Current = index
<1> USE RingAssumption DEF Setting
<1>1. index \in Slots \cup {RingSize} /\ (index = RingSize => InStep({"test", "reset"}))
  BY DEF IndexSeen, OneWriter
<1>2. CASE InStep({"test", "reset"})
  <2>1. PICK t \in Threads : pc[t] \in {"test", "reset"}
    BY <1>2 DEF InStep
  <2>2. index > 0 /\ \A u \in Threads : pc[u] \in Setting => u = t
    BY <2>1 DEF OneWriter
  <2>3. Current = index - 1 /\ Current \in Slots
    BY <1>1, <1>2, <2>2 DEF Current, Slots
  <2> QED
    BY <2>1, <2>2, <2>3
<1>3. CASE ~InStep({"test", "reset"})
  BY <1>1, <1>3 DEF Current, InStep
<1> QED
  BY <1>2, <1>3

(* Calls have not overlapped after a step only if they had not before, and *)
(* then no other thread is in one when the step is one of a call.          *)
LEMMA StepAlone ==
  ASSUME KeptInv, NEW t \in Threads, Step(t), Observe, ~raced'
  PROVE  /\ ~raced /\ ~overtaken /\ ~overtaken'
         /\ OneWriter /\ LastKeysInPlace /\ RecentHeld /\ MissHasCause
         /\ \A u \in Threads : u # t =>
              /\ pc'[u] = pc[u] /\ arg'[u] = arg[u] /\ slot'[u] = slot[u]
              /\ pc[t] \in Setting \/ pc'[t] \in Setting => pc[u] \notin Setting
<1>1. TypeOK
  BY DEF KeptInv, IInv
<1>2. ~raced /\ ~\E u, v \in Threads : u # v /\ pc'[u] \in Setting /\ pc'[v] \in Setting
  BY Zenon DEF Observe
<1>3. ~overtaken /\ OneWriter /\ LastKeysInPlace /\ RecentHeld /\ MissHasCause
  BY <1>2 DEF KeptInv
<1>4. \A u \in Threads : u # t => pc'[u] = pc[u] /\ arg'[u] = arg[u] /\ slot'[u] = slot[u]
  BY <1>1, OthersKeep
<1>5. ASSUME NEW u \in Threads, u # t, pc[t] \in Setting \/ pc'[t] \in Setting
      PROVE  pc[u] \notin Setting
  BY <1>2, <1>3, <1>4, <1>5 DEF OneWriter
<1>6. ~overtaken'
  <2> SUFFICES ASSUME NEW u \in Threads, NEW v \in Threads, u # v,
                      pc[u] # pc'[u], pc'[u] \in {"head", "store"},
                      pc[v] \in {"test", "reset"}
               PROVE  FALSE
    BY <1>3, Zenon DEF Observe
  <2>1. u = t
    BY <1>4
  <2> QED
    BY <1>5, <2>1 DEF Setting
<1> QED
  BY <1>2, <1>3, <1>4, <1>5, <1>6

(* The current slot moves on when a call returns, and at no other step.    *)
LEMMA StepCurrent ==
  ASSUME KeptInv, NEW t \in Threads, Step(t), Observe, ~raced'
  PROVE  /\ Current \in Slots
         /\ pc[t] \in Setting /\ pc'[t] \notin Setting => Current' = SlotAfter(Current)
         /\ ~(pc[t] \in Setting /\ pc'[t] \notin Setting) => Current' = Current
<1> USE RingAssumption
<1>1. /\ TypeOK /\ IndexSeen /\ ~overtaken /\ OneWriter
      /\ \A u \in Threads : u # t => pc'[u] = pc[u]
      /\ \A u \in Threads : u # t /\ (pc[t] \in Setting \/ pc'[t] \in Setting) =>
           pc[u] \notin Setting
  BY StepAlone DEF KeptInv, IInv
<1> USE DEF Setting
<1>2. Current \in Slots
  BY <1>1, CurrentIs
<1>3. ASSUME index' = index, pc[t] \notin {"test", "reset"}, pc'[t] \notin {"test", "reset"}
      PROVE  Current' = Current
  BY <1>1, <1>3 DEF Current, InStep
<1>4. CASE \E k \in Keys : SetCall(t, k) \/ CheckCall(t, k)
  BY <1>1, <1>2, <1>3, <1>4 DEF SetCall, CheckCall, TypeOK
<1>5. CASE SetHead(t)
  <2>1. pc[t] = "head" /\ pc'[t] = "tail" /\ slot[t] = index /\ Current = index
    BY <1>1, <1>5, CurrentIs DEF SetHead, TypeOK, OneWriter
  <2>2. index' = index
    BY <1>2, <1>5, <2>1 DEF SetHead, Slots
  <2> QED
    BY <1>2, <1>3, <2>1, <2>2
<1>6. CASE SetTail(t) \/ SetReload(t) \/ CheckSlot(t)
  BY <1>1, <1>2, <1>3, <1>6 DEF SetTail, SetReload, CheckSlot, TypeOK
<1>7. CASE SetStore(t)
  <2>1. /\ pc[t] = "store" /\ pc'[t] = "test" /\ slot[t] = index /\ Current = index
        /\ index' = Incremented(slot[t])
    BY <1>1, <1>7, CurrentIs DEF SetStore, TypeOK, OneWriter
  <2>2. index' = index + 1 /\ index \in Nat
    BY <1>2, <2>1, IncrementedType DEF Slots
  <2>3. Current' = index' - 1
    BY <2>1 DEF Current, InStep
  <2> QED
    BY <1>2, <2>1, <2>2, <2>3
<1>8. CASE SetTest(t)
  <2>1. /\ pc[t] = "test" /\ slot[t] = index /\ Current = index - 1 /\ index' = index
        /\ index \in Nat
    BY <1>1, <1>8, CurrentIs DEF SetTest, TypeOK, OneWriter, Indexes
  <2>2. CASE pc'[t] = "reset"
    BY <1>2, <2>1, <2>2 DEF Current, InStep
  <2>3. CASE pc'[t] # "reset"
    <3>1. index # RingSize /\ pc'[t] = "idle"
      BY <1>1, <1>8, <2>1, <2>3 DEF SetTest, SetReturns, AtEnd, TypeOK
    <3>2. Current' = index
      BY <1>1, <2>1, <3>1 DEF Current, InStep
    <3> QED
      BY <1>2, <2>1, <3>1, <3>2 DEF SlotAfter, Slots
  <2> QED
    BY <2>2, <2>3
<1>9. CASE SetReset(t)
  <2>1. /\ pc[t] = "reset" /\ pc'[t] = "idle" /\ Current = index - 1 /\ index = RingSize
        /\ index' = 0
    BY <1>1, <1>9, CurrentIs DEF SetReset, SetReturns, TypeOK, OneWriter
  <2>2. Current' = 0
    BY <1>1, <2>1 DEF Current, InStep
  <2> QED
    BY <1>2, <2>1, <2>2 DEF SlotAfter, Slots
<1> QED
  BY <1>4, <1>5, <1>6, <1>7, <1>8, <1>9 DEF Step

(* The steps of a thread by what it does to the log: it begins to write,   *)
(* goes on, returns, or does none of these.                                *)
LEMMA StepStages ==
  ASSUME TypeOK, NEW t \in Threads, Step(t)
  PROVE  \/ /\ pc[t] = "head" /\ pc'[t] = "tail"
            /\ UNCHANGED <<returned, arg, slot>>
         \/ /\ pc[t] \in {"tail"} \cup Stored /\ pc'[t] \in Stored
            /\ UNCHANGED <<returned, arg>>
            /\ pc[t] # "tail" => lastSent' = lastSent
         \/ /\ pc[t] \in {"test", "reset"} /\ SetReturns(t)
            /\ UNCHANGED <<lastSent, arg>>
         \/ /\ pc[t] \in {"idle", "scan"} /\ pc'[t] \in {"idle", "scan", "head"}
            /\ UNCHANGED <<lastSent, returned, index>>
            /\ pc[t] = "scan" => arg' = arg
<1> USE DEF TypeOK, Stored
<1>1. CASE \E k \in Keys : SetCall(t, k) \/ CheckCall(t, k)
  BY <1>1 DEF SetCall, CheckCall
<1>2. CASE SetHead(t)
  BY <1>2 DEF SetHead
<1>3. CASE SetTail(t) \/ SetReload(t) \/ SetStore(t)
  BY <1>3 DEF SetTail, SetReload, SetStore
<1>4. CASE SetTest(t)
  BY <1>4 DEF SetTest
<1>5. CASE SetReset(t)
  BY <1>5 DEF SetReset
<1>6. CASE CheckSlot(t)
  BY <1>6 DEF CheckSlot
<1> QED
  BY <1>1, <1>2, <1>3, <1>4, <1>5, <1>6 DEF Step

(* Until two calls overlap, a step writes no slot but the current one.     *)
LEMMA StepSlots ==
  ASSUME KeptInv, NEW t \in Threads, Step(t), Observe, ~raced'
  PROVE  /\ \A s \in Slots : s # Current => lastSent'[s] = lastSent[s]
         /\ pc[t] = "head" => lastSent'[Current] = <<arg[t], lastSent[Current][2]>>
         /\ pc[t] = "tail" => lastSent'[Current] = <<arg[t], arg[t]>>
<1>1. /\ TypeOK /\ OneWriter /\ Current \in Slots
      /\ pc[t] \in {"head", "tail", "reload", "store"} => Current = index
  BY StepAlone, CurrentIs DEF KeptInv, IInv
<1> USE DEF Setting
<1>2. pc[t] \in {"head", "tail", "store"} => slot[t] = index
  BY <1>1 DEF OneWriter
<1>3. CASE pc[t] = "head"
  <2>1. SetHead(t)
    BY <1>3 DEF Step, SetCall, SetTail, SetReload, SetStore, SetTest, SetReset, CheckCall, CheckSlot
  <2>2. slot[t] = Current /\ slot[t] \in Slots /\ slot[t] # RingSize
    BY <1>1, <1>2, <1>3, RingAssumption DEF Slots
  <2>3. lastSent' = [lastSent EXCEPT ![slot[t]] = <<arg[t], @[2]>>]
    BY <2>1, <2>2, RingAssumption DEF SetHead, Slots
  <2> QED
    BY <1>1, <1>2, <1>3, <2>2, <2>3 DEF TypeOK
<1>4. CASE pc[t] = "tail"
  <2>1. SetTail(t)
    BY <1>4 DEF Step, SetCall, SetHead, SetReload, SetStore, SetTest, SetReset, CheckCall, CheckSlot
  <2>2. slot[t] = Current /\ slot[t] \in Slots /\ lastSent[slot[t]][1] = arg[t]
    BY <1>1, <1>4 DEF OneWriter
  <2>3. lastSent' = [lastSent EXCEPT ![slot[t]] = <<@[1], arg[t]>>]
    BY <2>1, <2>2 DEF SetTail
  <2> QED
    BY <1>1, <1>2, <1>4, <2>2, <2>3 DEF TypeOK
<1>5. CASE pc[t] \notin {"head", "tail"}
  BY <1>1, <1>2, <1>5, StepStages DEF Stored
<1> QED
  BY <1>3, <1>4, <1>5

(* The writing call, if there is one: none, then one, until it returns.    *)
LEMMA StepUnderWay ==
  ASSUME KeptInv, NEW t \in Threads, Step(t), Observe, ~raced'
  PROVE  /\ pc[t] = "head" => Writing = {} /\ Writing' # {}
         /\ pc[t] \in {"tail"} \cup Stored => Writing = {t}
         /\ pc[t] \in {"tail"} \cup Stored /\ pc'[t] \in Setting => Writing' = {t}
         /\ pc[t] \in Setting /\ pc'[t] \notin Setting => Writing' = {}
         /\ pc[t] \in {"idle", "scan"} => Writing' = Writing
<1>1. /\ TypeOK
      /\ \A u \in Threads : u # t =>
           /\ pc'[u] = pc[u]
           /\ pc[t] \in Setting \/ pc'[t] \in Setting => pc[u] \notin Setting
  BY StepAlone DEF KeptInv, IInv
<1> USE DEF Setting, Stored, Writing
<1>2. CASE pc[t] = "head" /\ pc'[t] = "tail"
  BY <1>1, <1>2
<1>3. CASE pc[t] \in {"tail"} \cup Stored /\ pc'[t] \in Stored
  BY <1>1, <1>3
<1>4. CASE pc[t] \in {"test", "reset"} /\ pc'[t] = "idle"
  BY <1>1, <1>4
<1>5. CASE pc[t] \in {"idle", "scan"} /\ pc'[t] \in {"idle", "scan", "head"}
  BY <1>1, <1>5
<1>6. SetReturns(t) => pc'[t] = "idle"
  BY <1>1 DEF SetReturns, TypeOK
<1> QED
  BY <1>1, <1>2, <1>3, <1>4, <1>5, <1>6, StepStages

LEMMA StepOneWriter ==
  ASSUME KeptInv, NEW t \in Threads, Step(t), Observe, ~raced'
  PROVE  OneWriter'
<1>1. /\ TypeOK /\ TypeOK' /\ IndexSeen /\ OneWriter /\ ~overtaken
      /\ \A u \in Threads : u # t =>
           /\ pc'[u] = pc[u] /\ arg'[u] = arg[u] /\ slot'[u] = slot[u]
           /\ pc[t] \in Setting \/ pc'[t] \in Setting => pc[u] \notin Setting
  BY StepAlone, StepTypeOK DEF KeptInv, IInv
<1> USE DEF Setting, Stored
<1>2. /\ Current \in Slots
      /\ pc'[t] \in Setting => Current' = Current
  BY <1>1, StepCurrent, StepStages
<1>3. /\ pc[t] \in {"head", "tail", "reload", "store"} => Current = index /\ index # RingSize
      /\ (\A u \in Threads : pc[u] \notin Setting) => Current = index /\ index # RingSize
  BY <1>1, <1>2, CurrentIs, RingAssumption DEF Slots
<1>4. ASSUME pc'[t] \in Setting, slot'[t] = index',
             pc'[t] = "tail" => lastSent'[index'][1] = arg'[t],
             pc'[t] \in {"test", "reset"} => index' > 0,
             pc'[t] \in Stored => lastSent'[Current] = <<arg'[t], arg'[t]>>,
             pc'[t] = "reset" => index' = RingSize,
             index' = RingSize => pc'[t] \in {"test", "reset"}
      PROVE  OneWriter'
  <2>1. \A u \in Threads : pc'[u] \in Setting => u = t
    BY <1>1, <1>4
  <2> QED
    BY <1>2, <1>4, <2>1 DEF OneWriter, InStep, Holds
<1>5. CASE \E k \in Keys : SetCall(t, k)
  <2>1. pc[t] = "idle" /\ pc'[t] = "head" /\ slot'[t] = index /\ index' = index
    BY <1>1, <1>5 DEF SetCall, TypeOK
  <2>2. index # RingSize
    BY <1>1, <1>3, <2>1
  <2> QED
    BY <1>4, <2>1, <2>2
<1>6. CASE SetHead(t)
  <2>1. pc[t] = "head" /\ pc'[t] = "tail" /\ slot'[t] = slot[t] /\ arg' = arg
    BY <1>1, <1>6 DEF SetHead, TypeOK
  <2>2. Current = index /\ slot[t] = index /\ index # RingSize
    BY <1>1, <1>3, <2>1 DEF OneWriter
  <2>3. index' = index
    BY <1>2, <1>6, <2>2 DEF SetHead
  <2>4. lastSent'[index][1] = arg[t]
    BY <2>1, <2>2, StepSlots
  <2> QED
    BY <1>4, <2>1, <2>2, <2>3, <2>4
<1>7. CASE SetTail(t)
  <2>1. /\ pc[t] = "tail" /\ pc'[t] = "reload" /\ slot'[t] = slot[t] /\ arg' = arg
        /\ index' = index /\ slot[t] = index /\ index # RingSize
    BY <1>1, <1>3, <1>7 DEF SetTail, TypeOK, OneWriter
  <2>2. lastSent'[Current] = <<arg[t], arg[t]>>
    BY <2>1, StepSlots
  <2> QED
    BY <1>4, <2>1, <2>2
<1>8. CASE SetReload(t)
  <2>1. /\ pc[t] = "reload" /\ pc'[t] = "store" /\ slot'[t] = index /\ arg' = arg
        /\ index' = index /\ index # RingSize /\ lastSent' = lastSent
    BY <1>1, <1>3, <1>8 DEF SetReload, TypeOK
  <2>2. lastSent[Current] = <<arg[t], arg[t]>>
    BY <1>1, <2>1 DEF OneWriter, Holds
  <2> QED
    BY <1>4, <2>1, <2>2
<1>9. CASE SetStore(t)
  <2>1. /\ pc[t] = "store" /\ pc'[t] = "test" /\ slot'[t] = index' /\ arg' = arg
        /\ index' = Incremented(slot[t]) /\ slot[t] = index /\ lastSent' = lastSent
        /\ Current = index
    BY <1>1, <1>3, <1>9 DEF SetStore, TypeOK, OneWriter
  <2>2. lastSent[Current] = <<arg[t], arg[t]>>
    BY <1>1, <2>1 DEF OneWriter, Holds
  <2>3. index' > 0
    BY <1>2, <2>1, IncrementedType DEF Slots
  <2> QED
    BY <1>4, <2>1, <2>2, <2>3
<1>10. CASE SetTest(t) /\ pc'[t] = "reset"
  <2>1. /\ pc[t] = "test" /\ slot'[t] = slot[t] /\ arg' = arg /\ slot[t] = index
        /\ index' = index /\ index > 0 /\ lastSent' = lastSent
    BY <1>1, <1>10 DEF SetTest, TypeOK, OneWriter
  <2>2. lastSent[Current] = <<arg[t], arg[t]>>
    BY <1>1, <2>1 DEF OneWriter, Holds
  <2>3. index = RingSize
    BY <1>1, <1>10, <2>1 DEF SetTest, SetReturns, AtEnd, TypeOK
  <2> QED
    BY <1>4, <1>10, <2>1, <2>2, <2>3
<1>11. CASE (SetTest(t) /\ pc'[t] # "reset") \/ SetReset(t)
  <2>1. pc[t] \in Setting /\ pc'[t] = "idle" /\ index' # RingSize
    <3>1. CASE SetTest(t) /\ pc'[t] # "reset"
      <4>1. pc[t] = "test" /\ slot[t] = index /\ index' = index
        BY <1>1, <3>1 DEF SetTest, OneWriter
      <4>2. index # RingSize /\ pc'[t] = "idle"
        BY <1>1, <3>1, <4>1 DEF SetTest, SetReturns, AtEnd, TypeOK
      <4> QED
        BY <4>1, <4>2
    <3>2. CASE SetReset(t)
      BY <1>1, <3>2, RingAssumption DEF SetReset, SetReturns, TypeOK
    <3> QED
      BY <1>11, <3>1, <3>2
  <2>2. \A u \in Threads : pc'[u] \notin Setting
    BY <1>1, <2>1
  <2> QED
    BY <2>1, <2>2 DEF OneWriter
<1>12. CASE (\E k \in Keys : CheckCall(t, k)) \/ CheckSlot(t)
  <2>1. /\ pc[t] \in {"idle", "scan"} /\ pc'[t] \in {"idle", "scan"}
        /\ lastSent' = lastSent /\ index' = index
    BY <1>1, <1>12 DEF CheckCall, CheckSlot, TypeOK
  <2>2. Current' = Current
    BY <2>1, StepCurrent
  <2>3. InStep({"test", "reset"}) => InStep({"test", "reset"})'
    BY <1>1, <2>1 DEF InStep
  <2> QED
    BY <1>1, <2>1, <2>2, <2>3 DEF OneWriter, Holds
<1> QED
  BY <1>5, <1>6, <1>7, <1>8, <1>9, <1>10, <1>11, <1>12 DEF Step

(* A call that returns puts its key, which the current slot holds, first.  *)
LEMMA ReturnedKeys ==
  ASSUME TypeOK, NEW t \in Threads, SetReturns(t)
  PROVE  /\ Len(returned') = IF Len(returned) < RingSize THEN Len(returned) + 1 ELSE RingSize
         /\ returned'[Len(returned')] = arg[t]
         /\ \A i \in 2..Len(returned') :
              returned'[Len(returned') + 1 - i] = returned[Len(returned) + 2 - i]
<1>1. PICK S : returned \in Seq(S) /\ Len(returned) <= RingSize /\ arg[t] \in S
  BY DEF TypeOK
<1>2. PICK r : r = LastOf(Append(returned, arg[t]), RingSize)
  OBVIOUS
<1>3. /\ Len(r) = IF Len(returned) < RingSize THEN Len(returned) + 1 ELSE RingSize
      /\ r[Len(r)] = arg[t]
      /\ \A i \in 2..Len(r) : r[Len(r) + 1 - i] = returned[Len(returned) + 2 - i]
  BY <1>1, <1>2, LastKeys
<1> QED
  BY <1>2, <1>3 DEF SetReturns

(* As long as no two calls overlap, every step keeps the last keys in      *)
(* their places.                                                           *)
LEMMA StepLastKeys ==
  ASSUME KeptInv, NEW t \in Threads, Step(t), Observe, ~raced'
  PROVE  LastKeysInPlace'
<1> USE RingAssumption
<1>1. /\ TypeOK /\ OneWriter /\ LastKeysInPlace /\ Current \in Slots
      /\ Len(returned) \in Nat /\ Len(returned) <= RingSize
  BY StepAlone, StepCurrent DEF KeptInv, IInv, TypeOK
<1>2. ASSUME UNCHANGED returned, Current' = Current,
             lastSent' = lastSent \/ Writing' # {},
             Writing' = {} => Writing = {}
      PROVE  LastKeysInPlace'
  <2> SUFFICES ASSUME NEW i \in 1..Len(returned), i = RingSize => Writing' = {}
               PROVE  lastSent'[Behind(i)'] = <<returned[Len(returned) + 1 - i],
                                                returned[Len(returned) + 1 - i]>>
    BY <1>2 DEF LastKeysInPlace, Holds
  <2>1. i \in 1..RingSize /\ Behind(i)' = Behind(i)
    BY <1>1, <1>2 DEF Behind
  <2>2. lastSent[Behind(i)] = <<returned[Len(returned) + 1 - i],
                                returned[Len(returned) + 1 - i]>>
    BY <1>1, <1>2 DEF LastKeysInPlace, Holds
  <2>3. lastSent'[Behind(i)] = lastSent[Behind(i)]
    BY <1>1, <1>2, <2>1, BehindSlots, StepSlots
  <2> QED
    BY <2>1, <2>2, <2>3
<1> USE DEF Setting, Stored
<1>3. CASE pc[t] = "head" /\ pc'[t] = "tail" /\ UNCHANGED <<returned, arg, slot>>
  BY <1>2, <1>3, StepCurrent, StepUnderWay
<1>4. CASE /\ pc[t] \in {"tail"} \cup Stored /\ pc'[t] \in Stored
           /\ UNCHANGED <<returned, arg>>
  BY <1>2, <1>4, StepCurrent, StepUnderWay
<1>5. CASE /\ pc[t] \in {"test", "reset"} /\ SetReturns(t) /\ UNCHANGED <<lastSent, arg>>
  <2>1. pc'[t] = "idle" /\ Holds(Current, arg[t])
    BY <1>1, <1>5 DEF SetReturns, TypeOK, OneWriter
  <2>2. Current' = SlotAfter(Current)
    BY <1>5, <2>1, StepCurrent
  <2>3. /\ Behind(1)' = Current
        /\ \A i \in 2..RingSize : Behind(i)' = Behind(i - 1)
    BY <1>1, <2>2, BehindNext
  <2>4. /\ Len(returned') = IF Len(returned) < RingSize THEN Len(returned) + 1 ELSE RingSize
        /\ returned'[Len(returned')] = arg[t]
        /\ \A i \in 2..Len(returned') :
             returned'[Len(returned') + 1 - i] = returned[Len(returned) + 2 - i]
    BY <1>1, <1>5, ReturnedKeys
  <2>5. SUFFICES ASSUME NEW i \in 1..Len(returned')
                 PROVE  Holds(Behind(i), returned[Len(returned) + 1 - i])'
    BY DEF LastKeysInPlace
  <2>6. CASE i = 1
    <3>1. Behind(i)' = Current /\ returned'[Len(returned') + 1 - i] = arg[t]
      BY <1>1, <2>3, <2>4, <2>6
    <3> QED
      BY <1>5, <2>1, <3>1 DEF Holds
  <2>7. CASE i # 1
    <3>1. i \in 2..RingSize /\ i \in 2..Len(returned')
      BY <1>1, <2>4, <2>5, <2>7
    <3>2. i - 1 \in 1..Len(returned) /\ i - 1 # RingSize
      BY <1>1, <2>4, <3>1
    <3>3. Holds(Behind(i - 1), returned[Len(returned) + 1 - (i - 1)])
      BY <1>1, <3>2 DEF LastKeysInPlace
    <3>4. Len(returned) + 1 - (i - 1) = Len(returned) + 2 - i
      BY <1>1, <3>1
    <3>5. /\ Behind(i)' = Behind(i - 1)
          /\ returned'[Len(returned') + 1 - i] = returned[Len(returned) + 2 - i]
      BY <2>3, <2>4, <3>1
    <3> QED
      BY <1>5, <3>3, <3>4, <3>5 DEF Holds
  <2> QED
    BY <2>6, <2>7
<1>6. CASE /\ pc[t] \in {"idle", "scan"} /\ pc'[t] \in {"idle", "scan", "head"}
           /\ UNCHANGED <<lastSent, returned, index>>
  BY <1>2, <1>6, StepCurrent, StepUnderWay
<1> QED
  BY <1>1, <1>3, <1>4, <1>5, <1>6, StepStages

(* A check that begins counts the calls since those that have logged its   *)
(* key, and the slot of each holds it.                                     *)
LEMMA NewlyCounted ==
  ASSUME TypeOK, Current \in Slots, LastKeysInPlace, NEW k,
         NEW n \in CallsSince(k) \ {RingSize}
  PROVE  /\ n >= UnderWay /\ n + 1 - UnderWay \in 1..RingSize
         /\ Behind(n + 1 - UnderWay) \in Slots /\ Holds(Behind(n + 1 - UnderWay), k)
<1> USE RingAssumption
<1>1. PICK j \in 1..Len(returned) : returned[j] = k /\ n = Len(returned) - j + UnderWay
  BY DEF CallsSince
<1>2. Len(returned) \in Nat /\ Len(returned) <= RingSize
  BY DEF TypeOK
<1> DEFINE i == Len(returned) + 1 - j
<1>3. /\ i \in 1..Len(returned) /\ i \in 1..RingSize /\ Len(returned) + 1 - i = j
      /\ n + 1 - UnderWay = i /\ n >= UnderWay
  BY <1>1, <1>2, SinceType
<1>4. i = RingSize => Writing = {}
  BY <1>1, <1>2 DEF UnderWay
<1>5. Holds(Behind(i), k)
  BY <1>1, <1>3, <1>4 DEF LastKeysInPlace
<1> QED
  BY <1>3, <1>5, BehindSlots

(* Every such slot goes on holding its key until RingSize calls have begun *)
(* to write, since the one under way writes the slot RingSize places back. *)
LEMMA StepRecent ==
  ASSUME KeptInv, NEW t \in Threads, Step(t), Observe, ~raced'
  PROVE  RecentHeld'
<1> USE RingAssumption DEF Setting, Stored
<1> DEFINE After(i) == IF Current' >= i THEN Current' - i ELSE Current' - i + RingSize
<1>1. /\ TypeOK /\ OneWriter /\ LastKeysInPlace /\ RecentHeld /\ Current \in Slots
      /\ ChecksSound
      /\ \A u \in Threads : u # t => pc'[u] = pc[u] /\ arg'[u] = arg[u]
      /\ \A u \in Threads : u # t /\ (pc[t] \in Setting \/ pc'[t] \in Setting) =>
           pc[u] \notin Setting
  BY StepAlone, StepCurrent DEF KeptInv, IInv
<1>2. /\ UnderWay \in 0..1 /\ UnderWay' \in 0..1
      /\ Writing = {} <=> UnderWay = 0
      /\ Writing' = {} <=> UnderWay' = 0
  BY DEF UnderWay
<1>3. \A i \in 1..RingSize : Current' = Current => After(i) = Behind(i)
  BY DEF Behind
<1>4. SUFFICES ASSUME NEW u \in Threads, pc'[u] = "scan", NEW n \in recent'[u]
               PROVE  n >= UnderWay' /\ After(n + 1 - UnderWay') \in held'[u]
  BY DEF RecentHeld, Behind
<1> HIDE DEF After
<1>5. CASE pc[u] # "scan"
  <2>1. u = t /\ pc[t] = "idle"
    BY <1>1, <1>4, <1>5, StepStages DEF SetReturns, TypeOK
  <2>2. lastSent' = lastSent /\ Current' = Current /\ UnderWay' = UnderWay
    BY <1>1, <1>2, <2>1, StepStages, StepCurrent, StepUnderWay
  <2>3. /\ n \in CallsSince(arg'[u]) \ {RingSize}
        /\ held'[u] = {s \in Slots : lastSent'[s] = <<arg'[u], arg'[u]>>}
    BY <1>4, <1>5 DEF Observe, Holds
  <2>4. /\ n >= UnderWay /\ n + 1 - UnderWay \in 1..RingSize
        /\ Behind(n + 1 - UnderWay) \in Slots /\ Holds(Behind(n + 1 - UnderWay), arg'[u])
    BY <1>1, <2>3, NewlyCounted
  <2> QED
    BY <1>3, <2>2, <2>3, <2>4 DEF Holds
<1>6. CASE pc[u] = "scan"
  <2>1. /\ recent[u] \subseteq 0..(RingSize - 1)
        /\ \A m \in recent[u] :
             /\ m >= UnderWay /\ Behind(m + 1 - UnderWay) \in held[u]
             /\ m + 1 - UnderWay \in 1..RingSize
    BY <1>1, <1>2, <1>6 DEF TypeOK, RecentHeld
  <2>2. \A s \in held[u] : s \in Slots /\ lastSent[s] = <<arg[u], arg[u]>>
    BY <1>1, <1>6 DEF ChecksSound, CheckSound, Holds, TypeOK
  <2>3. arg'[u] = arg[u]
    BY <1>1, <1>6, StepStages
  <2>4. ASSUME NEW s \in held[u], s # Current \/ lastSent' = lastSent
        PROVE  s \in held'[u]
    <3>1. lastSent'[s] = <<arg'[u], arg'[u]>> /\ s \in Slots
      BY <2>2, <2>3, <2>4, StepSlots
    <3>2. held'[u] = held[u] \cap {r \in Slots : lastSent'[r] = <<arg'[u], arg'[u]>>}
      BY <1>6 DEF Observe, Holds
    <3> QED
      BY <3>1, <3>2
  <2>5. recent'[u] = IF \E v \in Threads : pc[v] = "head" /\ pc'[v] = "tail"
                     THEN {m + 1 : m \in recent[u]} \ {RingSize} ELSE recent[u]
    BY <1>4, <1>6 DEF Observe
  <2>6. CASE pc[t] = "head"
    <3>1. pc'[t] = "tail" /\ Current' = Current /\ UnderWay = 0 /\ UnderWay' = 1
      <4>1. pc'[t] = "tail"
        BY <1>1, <2>6, StepStages
      <4> QED
        BY <1>2, <2>6, <4>1, StepCurrent, StepUnderWay
    <3>2. PICK m \in recent[u] : n = m + 1 /\ n # RingSize
      BY <1>4, <2>5, <2>6, <3>1
    <3>3. /\ n + 1 - UnderWay' = m + 1 - UnderWay /\ n >= UnderWay'
          /\ m + 1 - UnderWay \in 1..RingSize /\ m + 1 - UnderWay # RingSize
      BY <2>1, <3>1, <3>2
    <3>4. Behind(m + 1 - UnderWay) \in held[u] /\ Behind(m + 1 - UnderWay) # Current
      BY <1>1, <2>1, <3>3, BehindSlots
    <3> QED
      BY <1>3, <2>4, <3>1, <3>3, <3>4
  <2>7. CASE pc[t] # "head"
    <3>1. n \in recent[u]
      <4>1. ~\E v \in Threads : pc[v] = "head" /\ pc'[v] = "tail"
        BY <1>1, <2>7
      <4> QED
        BY <1>4, <2>5, <4>1
    <3>2. CASE pc[t] \in {"tail"} \cup Stored /\ pc'[t] \in Stored
      <4>1. Current' = Current /\ UnderWay = 1 /\ UnderWay' = 1
        BY <1>2, <3>2, StepCurrent, StepUnderWay
      <4>2. n + 1 - UnderWay \in 1..RingSize /\ n + 1 - UnderWay # RingSize
        BY <2>1, <3>1, <4>1
      <4>3. Behind(n + 1 - UnderWay) \in held[u] /\ Behind(n + 1 - UnderWay) # Current
        BY <1>1, <2>1, <3>1, <4>2, BehindSlots
      <4> QED
        BY <1>3, <2>1, <2>4, <3>1, <4>1, <4>2, <4>3
    <3>3. CASE pc[t] \in {"test", "reset"} /\ SetReturns(t) /\ lastSent' = lastSent
      <4>1. pc'[t] = "idle"
        BY <1>1, <3>3 DEF SetReturns, TypeOK
      <4>2. Current' = SlotAfter(Current) /\ UnderWay = 1 /\ UnderWay' = 0
        BY <1>2, <3>3, <4>1, StepCurrent, StepUnderWay
      <4>3. \A i \in 2..RingSize : After(i) = Behind(i - 1)
        BY <1>1, <4>2, BehindNext DEF After, Behind
      <4>4. n \in 1..(RingSize - 1) /\ n + 1 - UnderWay' = n + 1 /\ n + 1 - UnderWay = n
        BY <2>1, <3>1, <4>2
      <4>5. After(n + 1) = Behind(n)
        BY <4>3, <4>4
      <4>6. Behind(n) \in held[u]
        BY <2>1, <3>1, <4>4
      <4> QED
        BY <2>4, <3>3, <4>2, <4>4, <4>5, <4>6
    <3>4. CASE /\ pc[t] \in {"idle", "scan"} /\ pc'[t] \in {"idle", "scan", "head"}
               /\ lastSent' = lastSent
      <4>1. Current' = Current /\ UnderWay' = UnderWay
        BY <1>2, <3>4, StepCurrent, StepUnderWay
      <4> QED
        BY <1>3, <2>1, <2>4, <3>1, <3>4, <4>1
    <3> QED
      BY <1>1, <2>7, <3>2, <3>3, <3>4, StepStages
  <2> QED
    BY <2>6, <2>7
<1> QED
  BY <1>5, <1>6

(* A check that ends without a match has compared every slot, so no call   *)
(* is left whose slot it would have found the key in.                      *)
LEMMA StepMiss ==
  ASSUME KeptInv, IInv', NEW t \in Threads, Step(t), Observe, ~raced'
  PROVE  MissHasCause'
<1>1. /\ TypeOK /\ MissHasCause /\ RecentHeld' /\ ChecksSound /\ RecentHeld
      /\ ChecksSound'
  BY StepAlone, StepRecent DEF KeptInv, IInv
<1>2. SUFFICES ASSUME NEW u \in Checkers, pc'[u] # "scan", ~found'[u]
               PROVE  recent'[u] = {}
  BY DEF MissHasCause
<1>3. u \in Threads
  BY DEF Threads
<1>4. CASE pc[u] # "scan"
  <2>1. recent'[u] = recent[u]
    BY <1>2, <1>3, <1>4 DEF Observe
  <2>2. found'[u] = found[u]
    BY <1>1, <1>3, <1>4, OthersKeep DEF Step, SetCall, SetHead, SetTail, SetReload, SetStore,
       SetTest, SetReset, CheckCall, CheckSlot
  <2> QED
    BY <1>1, <1>2, <1>4, <2>1, <2>2, StepAlone DEF MissHasCause
<1>5. CASE pc[u] = "scan"
  <2>1. u = t
    BY <1>1, <1>2, <1>3, <1>5, OthersKeep
  <2>2. CheckSlot(t)
    BY <1>5, <2>1 DEF Step, SetCall, SetHead, SetTail, SetReload, SetStore,
       SetTest, SetReset, CheckCall
  <2>3. lastSent' = lastSent /\ arg' = arg
    BY <2>2 DEF CheckSlot
  <2>4. held'[u] = held[u] \cap {s \in Slots : lastSent[s] = <<arg[u], arg[u]>>}
    BY <1>3, <1>5, <2>3 DEF Observe, Holds
  <2>5. held'[u] = held[u]
    BY <1>1, <1>3, <1>5, <2>4 DEF ChecksSound, CheckSound, Holds, TypeOK
  <2>6. held'[u] = {}
    BY <1>1, <1>2, <1>3 DEF ChecksSound, CheckSound
  <2>7. recent[u] = {}
    BY <1>1, <1>3, <1>5, <2>5, <2>6 DEF RecentHeld
  <2>8. ~\E v \in Threads : pc[v] = "head" /\ pc'[v] = "tail"
    BY <1>1, <1>3, <1>5, <2>1, OthersKeep
  <2> QED
    BY <1>2, <1>3, <1>5, <2>7, <2>8 DEF Observe
<1> QED
  BY <1>4, <1>5

-----------------------------------------------------------------------------
LEMMA InitKept == ASSUME Init PROVE KeptInv
<1>1. /\ returned = <<>> /\ Len(returned) = 0 /\ index # RingSize /\ ~overtaken
      /\ \A t \in Threads : pc[t] = "idle" /\ recent[t] = {}
  BY RingAssumption DEF Init
<1>2. OneWriter /\ LastKeysInPlace /\ RecentHeld /\ MissHasCause
  BY <1>1 DEF OneWriter, LastKeysInPlace, RecentHeld, MissHasCause, Setting, Threads
<1> QED
  BY <1>1, <1>2, InitIInv DEF KeptInv

LEMMA NextKept == ASSUME KeptInv, [Next]_vars PROVE KeptInv'
<1>1. IInv'
  BY NextIInv DEF KeptInv
<1>2. CASE Next
  <2>1. PICK t \in Threads : Step(t)
    BY <1>2 DEF Next
  <2>2. Observe
    BY <1>2 DEF Next
  <2>3. ~raced' => /\ ~overtaken' /\ OneWriter' /\ LastKeysInPlace'
                   /\ RecentHeld' /\ MissHasCause'
    BY <1>1, <2>1, <2>2, StepAlone, StepOneWriter, StepLastKeys, StepRecent, StepMiss
  <2> QED
    BY <1>1, <2>3 DEF KeptInv
<1>3. CASE UNCHANGED vars
  <2>1. UNCHANGED <<lastSent, index, pc, arg, slot, found, returned, held, recent, raced, overtaken>>
    BY <1>3 DEF vars, history
  <2>2. OneWriter => OneWriter'
    BY <2>1 DEF OneWriter, Current, InStep, Holds
  <2>3. LastKeysInPlace => LastKeysInPlace'
    BY <2>1 DEF LastKeysInPlace, Behind, Current, InStep, Holds, Writing
  <2>4. RecentHeld => RecentHeld'
    BY <2>1 DEF RecentHeld, Behind, Current, InStep, Writing, UnderWay
  <2>5. MissHasCause => MissHasCause'
    BY <2>1 DEF MissHasCause
  <2> QED
    BY <1>1, <2>1, <2>2, <2>3, <2>4, <2>5 DEF KeptInv
<1> QED
  BY <1>2, <1>3

(* A key that was logged is recognised until RingSize calls have begun to  *)
(* write after that one, whatever the check overlaps: the ring loses none  *)
(* at its wraps, for any size of it and any threads, until two calls of    *)
(* Device_set_lastsent overlap.                                            *)
THEOREM MissesHaveCauses == Spec => []MissHasCause
<1>1. KeptInv => MissHasCause
  BY DEF KeptInv, MissHasCause
<1> QED
  BY <1>1, InitKept, NextKept, PTL DEF Spec

-----------------------------------------------------------------------------
(* The log as a window of keys.                                            *)
LEMMA KnownIs ==
  ASSUME InUse \in Nat, NEW w \in 0..InUse, w > 0 => Newest(w) # NoKey,
         \A i \in (w + 1)..InUse : Newest(i) = NoKey
  PROVE  Known = w
<1> DEFINE Is(n) == /\ n > 0 => Newest(n) # NoKey
                    /\ \A i \in (n + 1)..InUse : Newest(i) = NoKey
<1>1. ASSUME NEW n \in 0..InUse, Is(n) PROVE n = w
  <2>1. ~(w < n)
    BY <1>1
  <2>2. ~(n < w)
    BY <1>1
  <2> QED
    BY <2>1, <2>2
<1>2. Is(w)
  OBVIOUS
<1>3. Known = CHOOSE n \in 0..InUse : Is(n)
  BY DEF Known
<1> HIDE DEF Is
<1> QED
  BY <1>1, <1>2, <1>3

(* The window, key by key.                                                 *)
LEMMA WindowIs ==
  ASSUME InUse \in Nat, NEW q \in Seq(Keys), Len(q) <= InUse,
         \A i \in 1..Len(q) : Newest(i) = q[Len(q) + 1 - i],
         \A i \in (Len(q) + 1)..InUse : Newest(i) = NoKey
  PROVE  KeyWindow = q
<1> DEFINE w == Len(q)
<1>1. w \in 0..InUse /\ \A i \in 1..w : q[i] \in Keys
  OBVIOUS
<1>2. w > 0 => Newest(w) # NoKey
  <2> SUFFICES ASSUME w > 0 PROVE Newest(w) # NoKey
    OBVIOUS
  <2>1. w \in 1..w /\ w + 1 - w = 1 /\ 1 \in 1..w
    BY <1>1
  <2>2. Newest(w) = q[1]
    BY <2>1
  <2> QED
    BY <1>1, <2>1, <2>2, KeyAssumption
<1>3. Known = w
  BY <1>1, <1>2, KnownIs
<1>4. ASSUME NEW i \in 1..w PROVE Newest(w + 1 - i) = q[i]
  <2>1. w + 1 - i \in 1..w /\ w + 1 - (w + 1 - i) = i
    BY <1>1
  <2> QED
    BY <2>1
<1>5. KeyWindow = [i \in 1..w |-> Newest(w + 1 - i)]
  BY <1>3 DEF KeyWindow
<1>6. [i \in 1..w |-> Newest(w + 1 - i)] = [i \in 1..w |-> q[i]]
  BY <1>4
<1>7. q = [i \in 1..w |-> q[i]]
  OBVIOUS
<1> QED
  BY <1>5, <1>6, <1>7, Zenon

(* Which slot the i-th newest key is in, at each stage of a call.          *)
LEMMA NewestSlots ==
  ASSUME TypeOK, IndexSeen, ~overtaken, OneWriter
  PROVE  /\ Writing = {} =>
              InUse = RingSize /\ \A i \in 1..RingSize : Newest(i) = lastSent[Behind(i)][1]
         /\ \A t \in Threads : pc[t] = "tail" =>
              InUse = RingSize - 1 /\ \A i \in 1..RingSize : Newest(i) = lastSent[Behind(i)][1]
         /\ \A t \in Threads : pc[t] \in Stored =>
              /\ InUse = RingSize /\ Newest(1) = arg[t]
              /\ \A i \in 2..RingSize : Newest(i) = lastSent[Behind(i - 1)][1]
<1> USE RingAssumption DEF Setting, Stored
<1>1. Current \in Slots
  BY CurrentIs
<1>2. ASSUME Oldest = Current
      PROVE  \A i \in 1..RingSize : Newest(i) = lastSent[Behind(i)][1]
  BY <1>2 DEF Newest, Behind
<1>3. CASE Writing = {}
  <2>1. \A t \in Threads : pc[t] \notin {"tail"} \cup Stored
    BY <1>3 DEF Writing
  <2>2. Oldest = Current /\ InUse = RingSize
    BY <2>1 DEF Oldest, InUse, InStep
  <2> QED
    BY <1>2, <2>1, <2>2
<1>4. ASSUME NEW t \in Threads, pc[t] = "tail"
      PROVE  /\ Writing # {} /\ InUse = RingSize - 1
             /\ \A i \in 1..RingSize : Newest(i) = lastSent[Behind(i)][1]
             /\ \A u \in Threads : pc[u] \notin Stored
  <2>1. \A u \in Threads : pc[u] \notin Stored
    BY <1>4 DEF OneWriter
  <2>2. Oldest = Current /\ InUse = RingSize - 1 /\ Writing # {}
    BY <1>4, <2>1 DEF Oldest, InUse, InStep, Writing
  <2> QED
    BY <1>2, <2>1, <2>2
<1>5. ASSUME NEW t \in Threads, pc[t] \in Stored
      PROVE  /\ Writing # {} /\ InUse = RingSize /\ Newest(1) = arg[t]
             /\ \A i \in 2..RingSize : Newest(i) = lastSent[Behind(i - 1)][1]
  <2>1. \A u \in Threads : pc[u] # "tail"
    BY <1>5 DEF OneWriter
  <2>2. Oldest = SlotAfter(Current) /\ InUse = RingSize /\ Writing # {}
    BY <1>5, <2>1 DEF Oldest, InUse, InStep, Writing
  <2>3. lastSent[Current][1] = arg[t]
    BY <1>5 DEF OneWriter, Holds
  <2>4. Newest(1) = lastSent[Current][1]
    BY <1>1, <2>2 DEF Newest, SlotAfter, Slots
  <2>5. ASSUME NEW i \in 2..RingSize PROVE Newest(i) = lastSent[Behind(i - 1)][1]
    BY <1>1, <2>2 DEF Newest, SlotAfter, Behind, Slots
  <2> QED
    BY <2>2, <2>3, <2>4, <2>5
<1> QED
  BY <1>3, <1>4, <1>5

(* What the window is at each stage of a call: the last keys; without the  *)
(* oldest of a full log once it has been given up; with the new one once   *)
(* it has been stored.                                                     *)
LEMMA SlotKeys ==
  ASSUME WindowInv, ~raced, NEW i \in 1..RingSize, i = RingSize => Writing = {}
  PROVE  lastSent[Behind(i)][1] =
           IF i <= Len(returned) THEN returned[Len(returned) + 1 - i] ELSE NoKey
<1>1. Len(returned) \in Nat /\ LastKeysInPlace /\ RestUnwritten
  BY DEF WindowInv, KeptInv, IInv, TypeOK
<1>2. CASE i <= Len(returned)
  BY <1>1, <1>2 DEF LastKeysInPlace, Holds
<1>3. CASE ~(i <= Len(returned))
  <2>1. i \in (Len(returned) + 1)..RingSize
    BY <1>1, <1>3
  <2> QED
    BY <1>1, <1>3, <2>1 DEF RestUnwritten
<1> QED
  BY <1>2, <1>3

LEMMA WindowIdle ==
  ASSUME WindowInv, ~raced, Writing = {} PROVE KeyWindow = returned
<1> USE RingAssumption
<1>1. /\ TypeOK /\ IndexSeen /\ ~overtaken /\ OneWriter
      /\ returned \in Seq(Keys) /\ Len(returned) \in Nat /\ Len(returned) <= RingSize
  BY DEF WindowInv, KeptInv, IInv, TypeOK
<1>2. InUse = RingSize /\ \A i \in 1..RingSize : Newest(i) = lastSent[Behind(i)][1]
  BY <1>1, NewestSlots
<1>3. ASSUME NEW i \in 1..RingSize
      PROVE  Newest(i) = IF i <= Len(returned) THEN returned[Len(returned) + 1 - i] ELSE NoKey
  BY <1>2, SlotKeys
<1> QED
  BY <1>1, <1>2, <1>3, WindowIs

LEMMA WindowTail ==
  ASSUME WindowInv, ~raced, NEW t \in Threads, pc[t] = "tail"
  PROVE  KeyWindow = IF Len(returned) = RingSize THEN Tail(returned) ELSE returned
<1> USE RingAssumption
<1>1. /\ TypeOK /\ IndexSeen /\ ~overtaken /\ OneWriter
      /\ returned \in Seq(Keys) /\ Len(returned) \in Nat /\ Len(returned) <= RingSize
  BY DEF WindowInv, KeptInv, IInv, TypeOK
<1>2. InUse = RingSize - 1 /\ \A i \in 1..RingSize : Newest(i) = lastSent[Behind(i)][1]
  BY <1>1, NewestSlots
<1>3. ASSUME NEW i \in 1..RingSize, i # RingSize
      PROVE  Newest(i) = IF i <= Len(returned) THEN returned[Len(returned) + 1 - i] ELSE NoKey
  BY <1>2, <1>3, SlotKeys
<1>4. CASE Len(returned) = RingSize
  <2>1. PICK q : q = Tail(returned)
    OBVIOUS
  <2>2. /\ q \in Seq(Keys) /\ Len(q) = RingSize - 1
        /\ \A i \in 1..Len(q) : q[i] = returned[i + 1]
    BY <1>1, <1>4, <2>1
  <2>3. ASSUME NEW i \in 1..Len(q) PROVE Newest(i) = q[Len(q) + 1 - i]
    <3>1. i \in 1..RingSize /\ i # RingSize /\ i <= Len(returned)
          /\ Len(q) + 1 - i \in 1..Len(q) /\ (Len(q) + 1 - i) + 1 = Len(returned) + 1 - i
      BY <1>4, <2>2
    <3> QED
      BY <1>3, <2>2, <3>1
  <2>4. /\ InUse \in Nat /\ Len(q) <= InUse
        /\ \A i \in (Len(q) + 1)..InUse : Newest(i) = NoKey
    BY <1>2, <2>2
  <2>5. KeyWindow = q
    BY <2>2, <2>3, <2>4, WindowIs
  <2> QED
    BY <1>4, <2>1, <2>5
<1>5. CASE Len(returned) # RingSize
  <2>1. \A i \in 1..Len(returned) : i \in 1..RingSize /\ i # RingSize
    BY <1>1, <1>5
  <2>2. \A i \in (Len(returned) + 1)..InUse : i \in 1..RingSize /\ i # RingSize
                                               /\ ~(i <= Len(returned))
    BY <1>1, <1>2
  <2>3. KeyWindow = returned
    BY <1>1, <1>2, <1>3, <1>5, <2>1, <2>2, WindowIs
  <2> QED
    BY <1>5, <2>3
<1> QED
  BY <1>4, <1>5

LEMMA WindowStored ==
  ASSUME WindowInv, ~raced, NEW t \in Threads, pc[t] \in Stored
  PROVE  KeyWindow = LastOf(Append(returned, arg[t]), RingSize)
<1> USE RingAssumption
<1>1. /\ TypeOK /\ IndexSeen /\ ~overtaken /\ OneWriter
      /\ returned \in Seq(Keys) /\ Len(returned) \in Nat /\ Len(returned) <= RingSize /\ arg[t] \in Keys
  BY DEF WindowInv, KeptInv, IInv, TypeOK, Setting, Stored
<1>2. /\ InUse = RingSize /\ Newest(1) = arg[t]
      /\ \A i \in 2..RingSize : Newest(i) = lastSent[Behind(i - 1)][1]
  BY <1>1, NewestSlots
<1>3. PICK q : q = LastOf(Append(returned, arg[t]), RingSize)
  OBVIOUS
<1>4. /\ Len(q) = IF Len(returned) < RingSize THEN Len(returned) + 1 ELSE RingSize
      /\ q[Len(q)] = arg[t]
      /\ \A i \in 2..Len(q) : q[Len(q) + 1 - i] = returned[Len(returned) + 2 - i]
  BY <1>1, <1>3, LastKeys
<1>5. q \in Seq(Keys)
  <2>1. Append(returned, arg[t]) \in Seq(Keys)
    BY <1>1
  <2> QED
    BY <1>3, <2>1, LastOfType
<1>6. ASSUME NEW i \in 2..RingSize
      PROVE  Newest(i) = IF i <= Len(returned) + 1 THEN returned[Len(returned) + 2 - i]
                         ELSE NoKey
  <2>1. i - 1 \in 1..RingSize /\ i - 1 # RingSize
        /\ Len(returned) + 1 - (i - 1) = Len(returned) + 2 - i
        /\ (i - 1 <= Len(returned) <=> i <= Len(returned) + 1)
    BY <1>1
  <2>2. lastSent[Behind(i - 1)][1] =
          IF i - 1 <= Len(returned) THEN returned[Len(returned) + 1 - (i - 1)] ELSE NoKey
    BY <2>1, SlotKeys
  <2> QED
    BY <1>2, <2>1, <2>2
<1>7. ASSUME NEW i \in 1..Len(q) PROVE Newest(i) = q[Len(q) + 1 - i]
  <2>1. CASE i = 1
    BY <1>1, <1>2, <1>4, <2>1
  <2>2. CASE i # 1
    <3>1. i \in 2..Len(q) /\ i \in 2..RingSize /\ i <= Len(returned) + 1
      BY <1>1, <1>4, <2>2
    <3> QED
      BY <1>4, <1>6, <3>1
  <2> QED
    BY <2>1, <2>2
<1>8. ASSUME NEW i \in (Len(q) + 1)..InUse PROVE Newest(i) = NoKey
  <2>1. i \in 2..RingSize /\ ~(i <= Len(returned) + 1)
    BY <1>1, <1>2, <1>4
  <2> QED
    BY <1>6, <2>1
<1>9. Len(q) <= InUse /\ InUse \in Nat
  BY <1>1, <1>2, <1>4
<1> QED
  BY <1>3, <1>5, <1>7, <1>8, <1>9, WindowIs

-----------------------------------------------------------------------------
(* The three stages together, and at the next state.                       *)
WindowStages ==
  ~raced =>
    /\ Writing = {} => KeyWindow = returned
    /\ \A t \in Threads : pc[t] = "tail" =>
         KeyWindow = IF Len(returned) = RingSize THEN Tail(returned) ELSE returned
    /\ \A t \in Threads : pc[t] \in Stored =>
         KeyWindow = LastOf(Append(returned, arg[t]), RingSize)

LEMMA Stages == WindowInv => WindowStages
BY WindowIdle, WindowTail, WindowStored DEF WindowStages

LEMMA StagesNext == WindowInv' => WindowStages'
BY Stages, PTL

(* One more key on a window that has given up its oldest if it was full.   *)
LEMMA OneMore ==
  ASSUME NEW q \in Seq(Keys), Len(q) <= RingSize, NEW k \in Keys,
         NEW w, w = IF Len(q) = RingSize THEN Tail(q) ELSE q
  PROVE  Len(w) < RingSize /\ LastOf(Append(q, k), RingSize) = Append(w, k)
<1> USE RingAssumption
<1> DEFINE n == Len(q)
           m == IF n < RingSize THEN 1 ELSE 2
           a == Append(q, k)
<1>1. /\ a \in Seq(Keys) /\ Len(a) = n + 1 /\ n \in Nat
      /\ a[n + 1] = k /\ \A j \in 1..n : a[j] = q[j]
  OBVIOUS
<1>2. /\ w \in Seq(Keys) /\ Len(w) = n + 1 - m
      /\ \A j \in 1..Len(w) : w[j] = q[j + m - 1]
  <2>1. CASE n = RingSize
    <3>1. w = Tail(q) /\ m = 2 /\ q \in Seq(Keys) /\ q # <<>>
      BY <2>1
    <3>2. Tail(q) \in Seq(Keys) /\ Len(Tail(q)) = n - 1
      BY <2>1, <3>1
    <3>3. \A j \in 1..(n - 1) : Tail(q)[j] = q[j + 1] /\ j + 2 - 1 = j + 1
      BY <2>1, <3>1
    <3>4. n + 1 - 2 = n - 1
      BY <1>1
    <3> QED
      BY <3>1, <3>2, <3>3, <3>4
  <2>2. CASE n # RingSize
    <3>1. w = q /\ m = 1 /\ n < RingSize
      BY <1>1, <2>2
    <3>2. n + 1 - 1 = n /\ \A j \in 1..n : j + 1 - 1 = j
      BY <1>1
    <3> QED
      BY <3>1, <3>2
  <2> QED
    BY <2>1, <2>2
<1>3. LastOf(a, RingSize) = SubSeq(a, m, Len(a))
  <2>1. (IF Len(a) > RingSize THEN Len(a) - RingSize ELSE 0) + 1 = m
    BY <1>1
  <2> QED
    BY <2>1 DEF LastOf
<1>4. m \in 1..2 /\ m <= n + 1 /\ Len(w) < RingSize
  BY <1>1, <1>2
<1> HIDE DEF a, m
<1>5. PICK r : r = SubSeq(a, m, Len(a))
  OBVIOUS
<1>6. r \in Seq(Keys) /\ Len(r) = n + 2 - m /\ \A j \in 1..Len(r) : r[j] = a[j + m - 1]
  <2>1. /\ Len(SubSeq(a, m, Len(a))) = Len(a) - m + 1
        /\ \A j \in 1..(Len(a) - m + 1) : SubSeq(a, m, Len(a))[j] = a[j + m - 1]
        /\ \A j \in m..Len(a) : a[j] \in Keys
    BY <1>1, <1>4
  <2>2. SubSeq(a, m, Len(a)) \in Seq(Keys)
    BY <1>1, <1>4, <2>1
  <2> QED
    BY <1>1, <1>4, <1>5, <2>1, <2>2
<1>7. PICK v : v = Append(w, k)
  OBVIOUS
<1>8. v \in Seq(Keys) /\ Len(v) = n + 2 - m
      /\ v[Len(v)] = k /\ \A j \in 1..Len(w) : v[j] = w[j]
  BY <1>1, <1>2, <1>4, <1>7
<1>9. ASSUME NEW j \in 1..Len(r) PROVE r[j] = v[j]
  <2>1. CASE j = Len(r)
    <3>1. r[j] = a[j + m - 1] /\ j + m - 1 = n + 1
      BY <1>1, <1>4, <1>6, <2>1
    <3> QED
      BY <1>1, <1>6, <1>8, <2>1, <3>1
  <2>2. CASE j # Len(r)
    <3>1. j \in 1..Len(w) /\ j + m - 1 \in 1..n
      BY <1>1, <1>2, <1>4, <1>6, <2>2
    <3> QED
      BY <1>1, <1>2, <1>6, <1>8, <3>1
  <2> QED
    BY <2>1, <2>2
<1>10. r = v
  BY <1>6, <1>8, <1>9, SeqEqual
<1> QED
  BY <1>3, <1>4, <1>5, <1>7, <1>10 DEF a

(* Initially no key has been logged.                                       *)
LEMMA InitWindow == ASSUME Init PROVE WindowInv /\ KeyWindow = <<>>
<1>1. /\ returned = <<>> /\ Len(returned) = 0 /\ ~raced
      /\ \A t \in Threads : pc[t] = "idle"
  BY DEF Init
<1>2. Writing = {} /\ \A t \in Threads : pc[t] \notin Setting
  BY <1>1 DEF Writing, Setting
<1>3. RestUnwritten
  <2>1. \A s \in Slots : lastSent[s][1] = NoKey
    BY DEF Init, ClearedLog
  <2>2. Current \in Slots
    BY <1>1, InitKept, CurrentIs DEF KeptInv, IInv
  <2> QED
    BY <1>1, <2>1, <2>2, BehindSlots DEF RestUnwritten
<1>4. WindowInv
  BY <1>1, <1>2, <1>3, InitKept DEF WindowInv
<1> QED
  BY <1>1, <1>2, <1>4, WindowIdle

(* The key of a call under way is a key, and a call that returns adds it.  *)
LEMMA NextKeys ==
  ASSUME WindowInv, NEW t \in Threads, Step(t)
  PROVE  /\ returned' \in Seq(Keys)
         /\ \A u \in Threads : pc'[u] \in Setting => arg'[u] \in Keys
<1> USE DEF Setting, Stored
<1>1. /\ TypeOK /\ returned \in Seq(Keys)
      /\ \A u \in Threads : pc[u] \in Setting => arg[u] \in Keys
  BY DEF WindowInv, KeptInv, IInv
<1>2. \A u \in Threads : u # t => pc'[u] = pc[u] /\ arg'[u] = arg[u]
  BY <1>1, OthersKeep
<1>3. CASE \E k \in Keys : SetCall(t, k)
  BY <1>1, <1>3 DEF SetCall, TypeOK
<1>4. CASE SetReturns(t) /\ pc[t] \in Setting
  <2>1. Append(returned, arg[t]) \in Seq(Keys)
    BY <1>1, <1>4
  <2>2. returned' \in Seq(Keys) /\ pc'[t] = "idle"
    BY <1>1, <1>4, <2>1, LastOfType, RingAssumption DEF SetReturns, TypeOK
  <2> QED
    BY <1>1, <1>2, <2>2
<1>5. CASE UNCHANGED <<returned, arg>> /\ pc[t] \in Setting
  BY <1>1, <1>2, <1>5
<1>6. CASE UNCHANGED returned /\ pc'[t] \notin Setting
  BY <1>1, <1>2, <1>6
<1>7. pc'[t] = "head" => \E k \in Keys : SetCall(t, k)
  BY <1>1 DEF Step, SetHead, SetTail, SetReload, SetStore, SetTest, SetReset, SetReturns,
              CheckCall, CheckSlot, TypeOK
<1> QED
  BY <1>1, <1>3, <1>4, <1>5, <1>6, <1>7, StepStages

(* A call writes the oldest slot and no other, so the rest stays unwritten.*)
LEMMA NextRest ==
  ASSUME WindowInv, NEW t \in Threads, Step(t), Observe, ~raced'
  PROVE  RestUnwritten'
<1> USE RingAssumption DEF Setting, Stored
<1>1. /\ TypeOK /\ RestUnwritten /\ Current \in Slots /\ KeptInv
      /\ Len(returned) \in Nat /\ Len(returned) <= RingSize
  BY StepAlone, StepCurrent DEF WindowInv, KeptInv, IInv, TypeOK
<1>2. ASSUME Current' = Current, returned' = returned, Writing' = {} => Writing = {},
             lastSent' = lastSent \/ Writing' # {}
      PROVE  RestUnwritten'
  <2> SUFFICES ASSUME NEW i \in (Len(returned) + 1)..RingSize, i = RingSize => Writing' = {}
               PROVE  lastSent'[Behind(i)'][1] = NoKey
    BY <1>2 DEF RestUnwritten
  <2>1. i \in 1..RingSize /\ Behind(i)' = Behind(i)
    BY <1>1, <1>2 DEF Behind
  <2>2. lastSent[Behind(i)][1] = NoKey
    BY <1>1, <1>2 DEF RestUnwritten
  <2>3. lastSent'[Behind(i)] = lastSent[Behind(i)]
    BY <1>1, <1>2, <2>1, BehindSlots, StepSlots
  <2> QED
    BY <2>1, <2>2, <2>3
<1>3. CASE pc[t] = "head" /\ pc'[t] = "tail" /\ UNCHANGED <<returned, arg, slot>>
  BY <1>1, <1>2, <1>3, StepCurrent, StepUnderWay
<1>4. CASE /\ pc[t] \in {"tail"} \cup Stored /\ pc'[t] \in Stored
           /\ UNCHANGED <<returned, arg>>
  BY <1>1, <1>2, <1>4, StepCurrent, StepUnderWay
<1>5. CASE /\ pc[t] \in {"test", "reset"} /\ SetReturns(t) /\ UNCHANGED <<lastSent, arg>>
  <2>1. pc'[t] = "idle"
    BY <1>1, <1>5 DEF SetReturns, TypeOK
  <2>2. Current' = SlotAfter(Current)
    BY <1>1, <1>5, <2>1, StepCurrent
  <2>3. \A i \in 2..RingSize : Behind(i)' = Behind(i - 1)
    BY <1>1, <2>2, BehindNext
  <2>4. Len(returned') = IF Len(returned) < RingSize THEN Len(returned) + 1 ELSE RingSize
    BY <1>1, <1>5, ReturnedKeys
  <2>5. ASSUME NEW i \in (Len(returned') + 1)..RingSize
        PROVE  lastSent'[Behind(i)'][1] = NoKey
    <3>1. i \in 2..RingSize /\ i - 1 \in (Len(returned) + 1)..RingSize /\ i - 1 # RingSize
      BY <1>1, <2>4
    <3> QED
      BY <1>1, <1>5, <2>3, <3>1 DEF RestUnwritten
  <2> QED
    BY <2>5 DEF RestUnwritten
<1>6. CASE /\ pc[t] \in {"idle", "scan"} /\ pc'[t] \in {"idle", "scan", "head"}
           /\ UNCHANGED <<lastSent, returned, index>>
  BY <1>1, <1>2, <1>6, StepCurrent, StepUnderWay
<1> QED
  BY <1>1, <1>3, <1>4, <1>5, <1>6, StepStages

LEMMA NextWindow == ASSUME WindowInv, [Next]_vars PROVE WindowInv'
<1>1. KeptInv'
  BY NextKept DEF WindowInv
<1>2. CASE Next
  <2>1. PICK t \in Threads : Step(t) /\ Observe
    BY <1>2 DEF Next
  <2> QED
    BY <1>1, <2>1, NextKeys, NextRest DEF WindowInv
<1>3. CASE UNCHANGED vars
  BY <1>1, <1>3
  DEF vars, history, WindowInv, RestUnwritten, Behind, Current, InStep, Writing
<1> QED
  BY <1>2, <1>3

(* A step of a call gives up the oldest key, or adds the new one, or does  *)
(* not touch the window.                                                   *)
LEMMA StepWindow ==
  ASSUME WindowInv, NEW t \in Threads, Step(t), Observe, ~raced', WindowInv'
  PROVE  Window!Next \/ KeyWindow' = KeyWindow
<1> USE RingAssumption DEF Setting, Stored
<1>1. /\ KeptInv /\ TypeOK /\ ~raced /\ returned \in Seq(Keys) /\ Len(returned) <= RingSize
      /\ pc[t] \in Setting => arg[t] \in Keys
      /\ \A u \in Threads : u # t => pc'[u] = pc[u] /\ arg'[u] = arg[u]
  BY StepAlone DEF WindowInv, KeptInv, IInv, TypeOK
<1>2. /\ Writing = {} => KeyWindow = returned
      /\ \A u \in Threads : pc[u] = "tail" =>
           KeyWindow = IF Len(returned) = RingSize THEN Tail(returned) ELSE returned
      /\ \A u \in Threads : pc[u] \in Stored =>
           KeyWindow = LastOf(Append(returned, arg[u]), RingSize)
  BY <1>1, Stages DEF WindowStages
<1>3. /\ Writing' = {} => KeyWindow' = returned'
      /\ \A u \in Threads : pc'[u] = "tail" =>
           KeyWindow' = IF Len(returned') = RingSize THEN Tail(returned') ELSE returned'
      /\ \A u \in Threads : pc'[u] \in Stored =>
           KeyWindow' = LastOf(Append(returned', arg'[u]), RingSize)
  BY StagesNext DEF WindowStages
<1>4. CASE pc[t] = "head" /\ pc'[t] = "tail" /\ UNCHANGED <<returned, arg, slot>>
  <2>1. Writing = {}
    BY <1>1, <1>4, StepUnderWay
  <2>2. /\ KeyWindow = returned
        /\ KeyWindow' = IF Len(returned) = RingSize THEN Tail(returned) ELSE returned
    BY <1>2, <1>3, <1>4, <2>1
  <2> QED
    BY <2>2 DEF Window!Next, Window!Forget
<1>5. CASE /\ pc[t] = "tail" /\ pc'[t] \in Stored /\ UNCHANGED <<returned, arg>>
  <2>1. PICK w : w = IF Len(returned) = RingSize THEN Tail(returned) ELSE returned
    OBVIOUS
  <2>2. KeyWindow = w /\ KeyWindow' = LastOf(Append(returned, arg[t]), RingSize)
    BY <1>2, <1>3, <1>5, <2>1
  <2>3. Len(w) < RingSize /\ LastOf(Append(returned, arg[t]), RingSize) = Append(w, arg[t])
    BY <1>1, <1>5, <2>1, OneMore
  <2>4. Window!Remember(arg[t])
    BY <2>2, <2>3 DEF Window!Remember
  <2> QED
    BY <1>1, <1>5, <2>4 DEF Window!Next
<1>6. CASE pc[t] \in Stored /\ pc'[t] \in Stored /\ UNCHANGED <<returned, arg>>
  BY <1>2, <1>3, <1>6
<1>7. CASE /\ pc[t] \in {"test", "reset"} /\ SetReturns(t) /\ UNCHANGED <<lastSent, arg>>
  <2>1. pc'[t] = "idle" /\ returned' = LastOf(Append(returned, arg[t]), RingSize)
    BY <1>1, <1>7 DEF SetReturns, TypeOK
  <2>2. Writing' = {}
    BY <1>1, <1>7, <2>1, StepUnderWay
  <2> QED
    BY <1>2, <1>3, <1>7, <2>1, <2>2
<1>8. CASE /\ pc[t] \in {"idle", "scan"} /\ pc'[t] \in {"idle", "scan", "head"}
           /\ UNCHANGED <<lastSent, returned, index>>
  <2>1. Writing' = Writing
    BY <1>1, <1>8, StepUnderWay
  <2>2. CASE Writing = {}
    BY <1>2, <1>3, <1>8, <2>1, <2>2
  <2>3. CASE Writing # {}
    <3>1. PICK u \in Threads : pc[u] = "tail" \/ pc[u] \in Stored
      BY <2>3 DEF Writing
    <3>2. pc'[u] = pc[u] /\ arg'[u] = arg[u]
      BY <1>1, <1>8, <3>1
    <3> QED
      BY <1>2, <1>3, <1>8, <3>1, <3>2
  <2> QED
    BY <2>2, <2>3
<1> QED
  BY <1>1, <1>4, <1>5, <1>6, <1>7, <1>8, StepStages

(* While the calls of Device_set_lastsent do not overlap, the log is the   *)
(* window of the latest keys: a call forgets the oldest key of a full log  *)
(* at its first store, and no other, and adds its own at the second.       *)
THEOREM LogIsWindow == Spec => ImplementsWindow
<1>1. Init => WindowInv /\ Window!Init
  <2> SUFFICES ASSUME Init PROVE WindowInv /\ Window!Init
    OBVIOUS
  <2>1. WindowInv /\ KeyWindow = <<>>
    BY InitWindow
  <2> QED
    BY <2>1 DEF Window!Init
<1>2. ASSUME WindowInv, WindowInv', [Next]_vars
      PROVE  [raced' \/ Window!Next]_KeyWindow
  <2>1. CASE Next
    <3>1. PICK t \in Threads : Step(t)
      BY <2>1 DEF Next
    <3> QED
      BY <1>2, <2>1, <3>1, StepWindow DEF Next
  <2>2. CASE UNCHANGED vars
    <3>1. KeyWindow' = KeyWindow
      BY <2>2 DEF vars, history, KeyWindow, Known, Newest, InUse, Oldest, InStep, Current
    <3> QED
      BY <3>1
  <2> QED
    BY <1>2, <2>1, <2>2
<1>3. Spec => []WindowInv
  BY <1>1, NextWindow, PTL DEF Spec
<1> QED
  BY <1>1, <1>2, <1>3, PTL DEF Spec, ImplementsWindow
=============================================================================
