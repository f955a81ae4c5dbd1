------------------------ MODULE CipherContextProofs ------------------------
(***************************************************************************)
(* Proofs about CipherContext, for every set of frames.  The inductive     *)
(* invariant is IInv: the chain of contexts (Chain) is what makes          *)
(* DamageHasCause inductive, and the accounting of every frame             *)
(* (EachFrameOnce) is what keeps a broken link broken.                     *)
(***************************************************************************)
EXTENDS CipherContext, FiniteSetTheorems, TLAPS

-----------------------------------------------------------------------------
(* Taking packet i off the wire leaves the others, in their order.         *)
LEMMA WithoutWire ==
  ASSUME wire \in Seq(Frames), NEW i \in 1..Len(wire)
  PROVE  /\ Without(i) \in Seq(Frames)
         /\ Len(Without(i)) = Len(wire) - 1
         /\ \A j \in 1..(Len(wire) - 1) :
              Without(i)[j] = IF j < i THEN wire[j] ELSE wire[j + 1]
<1> DEFINE n == Len(wire) - 1
           w == [j \in 1..n |-> IF j < i THEN wire[j] ELSE wire[j + 1]]
<1>1. n \in Nat
  OBVIOUS
<1>2. \A j \in 1..n : w[j] \in Frames
  OBVIOUS
<1>3. w \in Seq(Frames) /\ Len(w) = n
  BY <1>1, <1>2
<1>4. Without(i) = w
  BY DEF Without
<1> QED
  BY <1>3, <1>4

(* A frame off the wire is one that was on it, and the others stay.        *)
LEMMA WithoutOnWire ==
  ASSUME wire \in Seq(Frames), NEW i \in 1..Len(wire),
         \A j, k \in 1..Len(wire) : j # k => wire[j] # wire[k]
  PROVE  /\ {Without(i)[j] : j \in 1..Len(Without(i))} = OnWire \ {wire[i]}
         /\ \A j, k \in 1..Len(Without(i)) : j # k => Without(i)[j] # Without(i)[k]
<1> DEFINE W == Without(i)
<1>1. /\ Len(W) = Len(wire) - 1
      /\ \A j \in 1..(Len(wire) - 1) : W[j] = IF j < i THEN wire[j] ELSE wire[j + 1]
  BY WithoutWire
<1>2. ASSUME NEW x \in {W[j] : j \in 1..Len(W)} PROVE x \in OnWire \ {wire[i]}
  <2>1. PICK j \in 1..Len(W) : x = W[j]
    OBVIOUS
  <2>2. CASE j < i
    BY <1>1, <2>1, <2>2 DEF OnWire
  <2>3. CASE ~(j < i)
    BY <1>1, <2>1, <2>3 DEF OnWire
  <2> QED
    BY <2>2, <2>3
<1>3. ASSUME NEW x \in OnWire \ {wire[i]} PROVE x \in {W[j] : j \in 1..Len(W)}
  <2>1. PICK j \in 1..Len(wire) : x = wire[j]
    BY DEF OnWire
  <2>2. CASE j < i
    <3>1. j \in 1..Len(W) /\ W[j] = x
      BY <1>1, <2>1, <2>2
    <3> QED
      BY <3>1
  <2>3. CASE j > i
    <3>1. j - 1 \in 1..Len(W) /\ W[j - 1] = x
      BY <1>1, <2>1, <2>3
    <3> QED
      BY <3>1
  <2> QED
    BY <2>1, <2>2, <2>3
<1>4. ASSUME NEW j \in 1..Len(W), NEW k \in 1..Len(W), j # k PROVE W[j] # W[k]
  BY <1>1, <1>4
<1> QED
  BY <1>2, <1>3, <1>4

(* The same of the step that takes it.                                     *)
LEMMA OnWireAfter ==
  ASSUME TypeOK, EachFrameOnce, NEW i \in 1..Len(wire), wire' = Without(i)
  PROVE  /\ OnWire' = OnWire \ {wire[i]}
         /\ \A j, k \in 1..Len(wire') : j # k => wire'[j] # wire'[k]
<1>1. wire \in Seq(Frames)
  BY DEF TypeOK
<1>2. \A j, k \in 1..Len(wire) : j # k => wire[j] # wire[k]
  BY DEF EachFrameOnce
<1>3. /\ {Without(i)[j] : j \in 1..Len(Without(i))} = OnWire \ {wire[i]}
      /\ \A j, k \in 1..Len(Without(i)) : j # k => Without(i)[j] # Without(i)[k]
  BY <1>1, <1>2, WithoutOnWire
<1>4. OnWire' = {Without(i)[j] : j \in 1..Len(Without(i))}
  BY DEF OnWire
<1> QED
  BY <1>3, <1>4

(* The oldest packet leaves: the first of the two above for i = 1.         *)
LEMMA TailIsWithout ==
  ASSUME wire \in Seq(Frames), wire # <<>>
  PROVE  /\ 1 \in 1..Len(wire)
         /\ Head(wire) = wire[1]
         /\ Tail(wire) = Without(1)
<1>1. 1 \in 1..Len(wire) /\ Head(wire) = wire[1]
  OBVIOUS
<1>2. /\ Tail(wire) \in Seq(Frames)
      /\ Len(Tail(wire)) = Len(wire) - 1
      /\ \A j \in 1..(Len(wire) - 1) : Tail(wire)[j] = wire[j + 1]
  OBVIOUS
<1>3. /\ Without(1) \in Seq(Frames)
      /\ Len(Without(1)) = Len(wire) - 1
      /\ \A j \in 1..(Len(wire) - 1) : Without(1)[j] = wire[j + 1]
  BY <1>1, WithoutWire
<1> QED
  BY <1>1, <1>2, <1>3

-----------------------------------------------------------------------------
(* The initial state satisfies the inductive invariant.                    *)
LEMMA InitIInv == ASSUME Init PROVE IInv
<1>1. TypeOK
  BY IvAssumption DEF Init, TypeOK, Ivs, InitCtxIv
<1>2. EachFrameOnce
  BY DEF Init, EachFrameOnce, OnWire, Decrypted
<1>3. Ends
  BY DEF Init, Ends, Decrypted, InitCtxIv
<1>4. Chain
  BY DEF Init, Chain, After, Before, InitCtxIv
<1>5. DamageHasCause
  BY DEF Init, DamageHasCause
<1>6. IntactFollowsDecrypted
  BY DEF Init, IntactFollowsDecrypted
<1> QED
  BY <1>1, <1>2, <1>3, <1>4, <1>5, <1>6 DEF IInv

(* Encrypting one more frame extends the chain by one sound link.          *)
LEMMA WrapIInv ==
  ASSUME IInv, NEW f \in Frames, Wrap(f)
  PROVE  IInv'
<1> USE DEF IInv
<1>1. /\ wire' \in Seq(Frames)
      /\ Len(wire') = Len(wire) + 1
      /\ \A i \in 1..Len(wire) : wire'[i] = wire[i]
      /\ wire'[Len(wire) + 1] = f
  BY DEF Wrap, TypeOK
<1>2. OnWire' = OnWire \cup {f}
  <2>1. ASSUME NEW x \in OnWire' PROVE x \in OnWire \cup {f}
    <3>1. PICK i \in 1..Len(wire') : x = wire'[i]
      BY DEF OnWire
    <3>2. CASE i = Len(wire) + 1
      BY <1>1, <3>1, <3>2
    <3>3. CASE i \in 1..Len(wire)
      BY <1>1, <3>1, <3>3 DEF OnWire
    <3> QED
      BY <1>1, <3>1, <3>2, <3>3 DEF TypeOK
  <2>2. ASSUME NEW x \in OnWire \cup {f} PROVE x \in OnWire'
    <3>1. CASE x = f
      <4>1. Len(wire) + 1 \in 1..Len(wire')
        BY <1>1 DEF TypeOK
      <4> QED
        BY <1>1, <3>1, <4>1 DEF OnWire
    <3>2. CASE x \in OnWire
      <4>1. PICK i \in 1..Len(wire) : x = wire[i]
        BY <3>2 DEF OnWire
      <4>2. i \in 1..Len(wire') /\ wire'[i] = x
        BY <1>1, <4>1 DEF TypeOK
      <4> QED
        BY <4>2 DEF OnWire
    <3> QED
      BY <3>1, <3>2
  <2> QED
    BY <2>1, <2>2
<1>3. f \notin OnWire /\ f \notin lost \cup Decrypted
  BY DEF Wrap, EachFrameOnce
<1>4. TypeOK'
  BY <1>1 DEF Wrap, TypeOK, Ivs, IvAfterEncrypt
<1>5. EachFrameOnce'
  <2>1. \A i, j \in 1..Len(wire') : i # j => wire'[i] # wire'[j]
    BY <1>1, <1>3 DEF EachFrameOnce, OnWire, TypeOK
  <2> QED
    BY <1>2, <1>3, <2>1 DEF Wrap, EachFrameOnce, Decrypted
<1>6. Ends'
  BY DEF Wrap, Ends, Decrypted, IvAfterEncrypt
<1>7. \A iv : Broken(iv)' <=> Broken(iv)
  BY DEF Wrap, Broken, Decrypted
<1>8. Chain'
  <2> SUFFICES ASSUME NEW i \in 1..(Len(wire) + 2)
               PROVE  After(i)' = Before(i)' \/ Broken(After(i))'
    BY <1>1, <1>7 DEF Chain, TypeOK, After, Before, Broken
  <2>1. CASE i = Len(wire) + 2
    BY <1>1, <2>1 DEF Wrap, After, Before, IvAfterEncrypt, TypeOK
  <2>2. CASE i = Len(wire) + 1
    <3>1. After(i)' = After(i) /\ Before(i)' = Before(i)
      BY <1>1, <2>2 DEF Wrap, After, Before, TypeOK
    <3> QED
      BY <1>7, <2>2, <3>1 DEF Chain, TypeOK
  <2>3. CASE i \in 1..Len(wire)
    <3>1. wire[i] # f
      BY <1>3, <2>3 DEF OnWire
    <3>2. wire[i] \in Frames
      BY <2>3 DEF TypeOK
    <3>3. After(i)' = After(i) /\ Before(i)' = Before(i)
      BY <1>1, <2>3, <3>1, <3>2 DEF Wrap, After, Before, TypeOK
    <3> QED
      BY <1>7, <2>3, <3>3 DEF Chain, TypeOK
  <2> QED
    BY <2>1, <2>2, <2>3 DEF TypeOK
<1>9. DamageHasCause'
  <2> SUFFICES ASSUME NEW g \in damaged PROVE Broken(pred'[g])
    BY <1>7 DEF Wrap, DamageHasCause, Broken, Decrypted
  <2>1. g # f /\ g \in Frames
    BY <1>3 DEF Decrypted, TypeOK
  <2> QED
    BY <2>1 DEF Wrap, DamageHasCause, TypeOK
<1>10. IntactFollowsDecrypted'
  <2> SUFFICES ASSUME NEW g \in intact PROVE pred'[g] \in Decrypted \cup {DefaultIv}
    BY DEF Wrap, IntactFollowsDecrypted, Decrypted
  <2>1. g # f /\ g \in Frames
    BY <1>3 DEF Decrypted, TypeOK
  <2> QED
    BY <2>1 DEF Wrap, IntactFollowsDecrypted, TypeOK
<1> QED
  BY <1>4, <1>5, <1>6, <1>8, <1>9, <1>10

(* Losing a packet joins two links, and the frame lost accounts for it.    *)
LEMMA LoseIInv ==
  ASSUME IInv, NEW k \in 1..Len(wire), Lose(k)
  PROVE  IInv'
<1> USE DEF IInv
<1>1. /\ wire' \in Seq(Frames)
      /\ Len(wire') = Len(wire) - 1
      /\ \A j \in 1..(Len(wire) - 1) :
           wire'[j] = IF j < k THEN wire[j] ELSE wire[j + 1]
  BY WithoutWire DEF Lose, TypeOK
<1>2. /\ OnWire' = OnWire \ {wire[k]}
      /\ \A i, j \in 1..Len(wire') : i # j => wire'[i] # wire'[j]
  BY OnWireAfter DEF Lose
<1>3. wire[k] \in OnWire /\ wire[k] \in Frames
  BY DEF OnWire, TypeOK
<1>4. TypeOK'
  BY <1>1, <1>3 DEF Lose, TypeOK, Ivs
<1>5. EachFrameOnce'
  BY <1>2, <1>3 DEF Lose, EachFrameOnce, Decrypted
<1>6. Ends'
  BY DEF Lose, Ends, Decrypted
<1>7. \A iv : Broken(iv) \/ iv = wire[k] => Broken(iv)'
  BY DEF Lose, Broken, Decrypted
<1>8. Chain'
  <2> SUFFICES ASSUME NEW i \in 1..Len(wire)
               PROVE  After(i)' = Before(i)' \/ Broken(After(i))'
    BY <1>1 DEF Chain, TypeOK, After, Before, Broken
  <2>1. CASE i < k
    <3>1. After(i)' = After(i) /\ Before(i)' = Before(i)
      BY <1>1, <2>1 DEF Lose, After, Before, TypeOK
    <3> QED
      BY <1>7, <3>1 DEF Chain, TypeOK
  <2>2. CASE i = k
    <3>1. After(i)' = After(i + 1)
      BY <1>1, <2>2 DEF Lose, After, TypeOK
    <3>2. After(i + 1) = wire[k] \/ Broken(After(i + 1))
      BY <2>2 DEF Chain, Before, TypeOK
    <3> QED
      BY <1>7, <3>1, <3>2
  <2>3. CASE i > k
    <3>1. After(i)' = After(i + 1) /\ Before(i)' = Before(i + 1)
      BY <1>1, <2>3, SMTT(30) DEF Lose, After, Before, TypeOK
    <3>2. i + 1 \in 1..(Len(wire) + 1)
      BY <2>3 DEF TypeOK
    <3> QED
      BY <1>7, <3>1, <3>2 DEF Chain
  <2> QED
    BY <2>1, <2>2, <2>3 DEF TypeOK
<1>9. DamageHasCause'
  BY <1>7 DEF Lose, DamageHasCause, Broken, Decrypted
<1>10. IntactFollowsDecrypted'
  BY DEF Lose, IntactFollowsDecrypted, Decrypted
<1> QED
  BY <1>4, <1>5, <1>6, <1>8, <1>9, <1>10

(* Decrypting the oldest packet removes the first link; if that link was   *)
(* broken, its cause is the cause of the damage.                           *)
LEMMA UnwrapIInv ==
  ASSUME IInv, Unwrap
  PROVE  IInv'
<1> USE DEF IInv
<1> DEFINE f == wire[1]
<1>1. /\ wire # <<>>
      /\ 1 \in 1..Len(wire)
      /\ Head(wire) = f
      /\ wire' = Without(1)
  BY TailIsWithout DEF Unwrap, WireAfterRecv, TypeOK
<1>2. /\ wire' \in Seq(Frames)
      /\ Len(wire') = Len(wire) - 1
      /\ \A j \in 1..(Len(wire) - 1) : wire'[j] = wire[j + 1]
  BY <1>1, WithoutWire DEF TypeOK
<1>3. /\ OnWire' = OnWire \ {f}
      /\ \A i, j \in 1..Len(wire') : i # j => wire'[i] # wire'[j]
  BY <1>1, OnWireAfter
<1>4. f \in OnWire /\ f \in Frames /\ f \notin lost /\ f \notin Decrypted
  BY <1>1 DEF OnWire, TypeOK, EachFrameOnce
<1>5. /\ rxIv' = f /\ current' = current \cup {f} /\ lost' = lost
      /\ UNCHANGED <<txIv, pred, wrapped, txStarts, rxStarts>>
  BY <1>1 DEF Unwrap, IvAfterDecrypt
<1>6. \/ pred[f] = rxIv /\ intact' = intact \cup {f} /\ damaged' = damaged
      \/ pred[f] # rxIv /\ damaged' = damaged \cup {f} /\ intact' = intact
  BY <1>1 DEF Unwrap, FirstBlockRight
<1>7. Decrypted' = Decrypted \cup {f}
  BY <1>6 DEF Decrypted
<1>8. TypeOK'
  BY <1>2, <1>4, <1>5, <1>6 DEF TypeOK, Ivs
<1>9. EachFrameOnce'
  <2>1. intact' \cap damaged' = {}
    BY <1>4, <1>6 DEF EachFrameOnce, Decrypted
  <2> QED
    BY <1>3, <1>4, <1>5, <1>7, <2>1 DEF EachFrameOnce
<1>10. Ends'
  BY <1>5, <1>7 DEF Ends
<1>11. \A iv : Broken(iv) => Broken(iv)'
  BY <1>4, <1>5, <1>7 DEF Broken
<1>12. Chain'
  <2> SUFFICES ASSUME NEW i \in 1..Len(wire)
               PROVE  After(i)' = Before(i)' \/ Broken(After(i))'
    BY <1>2 DEF Chain, TypeOK, After, Before, Broken
  <2>1. After(i)' = After(i + 1)
    BY <1>2, <1>5 DEF After, TypeOK
  <2>2. Before(i)' = Before(i + 1)
    BY <1>2, <1>5 DEF Before, TypeOK
  <2>3. i + 1 \in 1..(Len(wire) + 1)
    BY DEF TypeOK
  <2> QED
    BY <1>11, <2>1, <2>2, <2>3 DEF Chain
<1>13. DamageHasCause'
  <2> SUFFICES ASSUME NEW g \in damaged' PROVE Broken(pred[g])
    BY <1>5, <1>11 DEF DamageHasCause, Broken
  <2>1. CASE g \in damaged
    BY <2>1 DEF DamageHasCause
  <2>2. CASE g \notin damaged
    <3>1. g = f /\ pred[f] # rxIv
      BY <1>6, <2>2
    <3>2. After(1) = pred[f] /\ Before(1) = rxIv
      BY <1>1 DEF After, Before, TypeOK
    <3>3. 1 \in 1..(Len(wire) + 1)
      BY <1>1 DEF TypeOK
    <3> QED
      BY <3>1, <3>2, <3>3 DEF Chain
  <2> QED
    BY <2>1, <2>2
<1>14. IntactFollowsDecrypted'
  BY <1>5, <1>6, <1>7 DEF IntactFollowsDecrypted, Ends
<1> QED
  BY <1>8, <1>9, <1>10, <1>12, <1>13, <1>14

(* A restarted sender breaks the last link, and the restart accounts for it*)
LEMMA RestartSenderIInv ==
  ASSUME IInv, RestartSender
  PROVE  IInv'
<1> USE DEF IInv
<1>1. /\ txIv' = DefaultIv /\ txStarts' = txStarts + 1
      /\ UNCHANGED <<rxIv, wire, pred, wrapped, intact, damaged, lost, current,
                     rxStarts>>
  BY DEF RestartSender, InitCtxIv
<1>2. TypeOK'
  BY <1>1 DEF TypeOK, Ivs
<1>3. EachFrameOnce'
  BY <1>1 DEF EachFrameOnce, OnWire, Decrypted
<1>4. Ends'
  BY <1>1 DEF Ends, Decrypted
<1>5. \A iv : Broken(iv) \/ iv = DefaultIv => Broken(iv)'
  BY <1>1 DEF Broken, Decrypted, TypeOK
<1>6. Chain'
  <2> SUFFICES ASSUME NEW i \in 1..(Len(wire) + 1)
               PROVE  After(i)' = Before(i)' \/ Broken(After(i))'
    BY <1>1 DEF Chain, After, Before, Broken
  <2>1. Before(i)' = Before(i)
    BY <1>1 DEF Before
  <2>2. CASE i = Len(wire) + 1
    <3>1. After(i)' = DefaultIv
      BY <1>1, <2>2 DEF After
    <3> QED
      BY <1>5, <3>1
  <2>3. CASE i # Len(wire) + 1
    <3>1. After(i)' = After(i)
      BY <1>1, <2>3 DEF After
    <3> QED
      BY <1>5, <2>1, <3>1 DEF Chain
  <2> QED
    BY <2>2, <2>3
<1>7. DamageHasCause'
  BY <1>1, <1>5 DEF DamageHasCause, Broken
<1>8. IntactFollowsDecrypted'
  BY <1>1 DEF IntactFollowsDecrypted, Decrypted
<1> QED
  BY <1>2, <1>3, <1>4, <1>6, <1>7, <1>8

(* A restarted receiver misses the first n packets: the others stay, in    *)
(* their order.                                                            *)
LEMMA DroppedWire ==
  ASSUME wire \in Seq(Frames), NEW n \in 0..Len(wire), RestartReceiver(n)
  PROVE  /\ wire' \in Seq(Frames) /\ Len(wire) \in Nat
         /\ Len(wire') = Len(wire) - n
         /\ \A j \in 1..(Len(wire) - n) : wire'[j] = wire[n + j]
<1> DEFINE w == SubSeq(wire, n + 1, Len(wire))
<1>1. wire' = w /\ Len(wire) \in Nat
  BY DEF RestartReceiver
<1>2. Len(w) = Len(wire) - n
  OBVIOUS
<1>3. \A j \in 1..(Len(wire) - n) : w[j] = wire[n + j]
  OBVIOUS
<1>4. w \in Seq(Frames)
  OBVIOUS
<1> QED
  BY <1>1, <1>2, <1>3, <1>4

(* Its first link starts from the default IV, the others are as before.    *)
LEMMA RestartReceiverIInv ==
  ASSUME IInv, NEW n \in 0..Len(wire), RestartReceiver(n)
  PROVE  IInv'
<1> USE DEF IInv
<1> DEFINE Dropped == {wire[i] : i \in 1..n}
<1>1. /\ rxIv' = DefaultIv /\ lost' = lost \cup Dropped
      /\ current' = {} /\ rxStarts' = rxStarts + 1
      /\ UNCHANGED <<txIv, pred, wrapped, intact, damaged, txStarts>>
  BY DEF RestartReceiver, InitCtxIv
<1>2. /\ wire' \in Seq(Frames) /\ Len(wire) \in Nat
      /\ Len(wire') = Len(wire) - n
      /\ \A j \in 1..(Len(wire) - n) : wire'[j] = wire[n + j]
  BY DroppedWire DEF TypeOK
<1>3. Len(wire') \in Nat /\ n \in Nat /\ n + Len(wire') = Len(wire)
  BY <1>2
<1>4. Decrypted' = Decrypted
  BY <1>1 DEF Decrypted
<1>5. OnWire = OnWire' \cup Dropped /\ OnWire' \cap Dropped = {}
  <2>1. \A j \in 1..Len(wire') : n + j \in 1..Len(wire) /\ wire'[j] = wire[n + j]
    BY <1>2
  <2>2. \A i \in 1..n : i \in 1..Len(wire)
    BY <1>2
  <2>3. \A i \in 1..Len(wire) : i \in 1..n \/ i - n \in 1..Len(wire')
    BY <1>2
  <2>4. \A i \in 1..Len(wire) : wire[i] \in Dropped \/ wire[i] \in OnWire'
    <3> TAKE i \in 1..Len(wire)
    <3>1. CASE i \in 1..n
      BY <3>1
    <3>2. CASE i - n \in 1..Len(wire')
      <4>1. wire'[i - n] = wire[n + (i - n)] /\ n + (i - n) = i
        BY <2>1, <3>2
      <4> QED
        BY <3>2, <4>1 DEF OnWire
    <3> QED
      BY <2>3, <3>1, <3>2
  <2>5. OnWire' \subseteq OnWire /\ Dropped \subseteq OnWire
    BY <2>1, <2>2 DEF OnWire
  <2>6. \A j \in 1..Len(wire') : \A i \in 1..n : wire'[j] # wire[i]
    <3> TAKE j \in 1..Len(wire')
    <3> TAKE i \in 1..n
    <3>1. n + j \in 1..Len(wire) /\ i \in 1..Len(wire) /\ n + j # i
      BY <1>2, <2>2
    <3> QED
      BY <2>1, <3>1 DEF EachFrameOnce
  <2>7. \A x \in OnWire : x \in Dropped \/ x \in OnWire'
    BY <2>4 DEF OnWire
  <2>8. \A x \in OnWire' : x \notin Dropped
    BY <2>6 DEF OnWire
  <2> HIDE DEF Dropped
  <2> QED
    BY <2>5, <2>7, <2>8
<1>6. OnWire \subseteq Frames
  BY DEF OnWire, TypeOK
<1>7. TypeOK'
  BY <1>1, <1>2, <1>5, <1>6 DEF TypeOK, Ivs
<1>8. EachFrameOnce'
  <2>1. \A i, j \in 1..Len(wire') : i # j => wire'[i] # wire'[j]
    <3> TAKE i, j \in 1..Len(wire')
    <3>1. n + i \in 1..Len(wire) /\ n + j \in 1..Len(wire) /\ (i # j => n + i # n + j)
      BY <1>2
    <3> QED
      BY <1>2, <3>1 DEF EachFrameOnce
  <2>2. /\ wrapped' = OnWire' \cup lost' \cup Decrypted'
        /\ OnWire' \cap (lost' \cup Decrypted') = {}
        /\ lost' \cap Decrypted' = {}
        /\ intact' \cap damaged' = {}
    BY <1>1, <1>4, <1>5 DEF EachFrameOnce
  <2> QED
    BY <2>1, <2>2 DEF EachFrameOnce
<1>9. Ends'
  BY <1>1, <1>4 DEF Ends
<1>10. \A iv : Broken(iv) => Broken(iv)'
  BY <1>1, <1>4 DEF Broken
<1>11. Chain'
  <2> SUFFICES ASSUME NEW i \in 1..(Len(wire') + 1)
               PROVE  After(i)' = Before(i)' \/ Broken(After(i))'
    BY DEF Chain
  <2>1. n + i \in 1..(Len(wire) + 1)
    BY <1>2
  <2>2. After(i)' = After(n + i)
    <3>1. CASE i = Len(wire') + 1
      BY <1>1, <1>2, <3>1 DEF After
    <3>2. CASE i # Len(wire') + 1
      <4>1. i \in 1..Len(wire')
        BY <1>3, <3>2
      <4>2. i \in 1..(Len(wire) - n)
        BY <1>2, <4>1
      <4>3. n + i # Len(wire) + 1
        BY <1>2, <4>2
      <4> QED
        BY <1>1, <1>2, <3>2, <4>2, <4>3 DEF After
    <3> QED
      BY <3>1, <3>2
  <2>3. After(n + i) = Before(n + i) \/ Broken(After(i))'
    BY <1>10, <2>1, <2>2 DEF Chain, Broken
  <2>4. CASE i # 1
    <3>1. i - 1 \in 1..(Len(wire) - n) /\ n + (i - 1) = (n + i) - 1 /\ n + i # 1
      BY <1>2, <2>4
    <3>2. Before(i)' = Before(n + i)
      BY <1>2, <2>4, <3>1 DEF Before
    <3> QED
      BY <2>2, <2>3, <3>2
  <2>5. CASE i = 1 /\ n = 0
    <3>1. Before(i)' = DefaultIv /\ Before(n + i) = rxIv
      BY <1>1, <2>5 DEF Before
    <3>2. rxIv = DefaultIv \/ rxIv \in Decrypted' \ current'
      BY <1>1, <1>4 DEF Ends
    <3> QED
      BY <2>2, <2>3, <3>1, <3>2 DEF Broken
  <2>6. CASE i = 1 /\ n # 0
    <3>1. n \in 1..n /\ n + i # 1 /\ (n + i) - 1 = n
      BY <2>6
    <3>2. Before(n + i) = wire[n] /\ wire[n] \in lost'
      BY <1>1, <3>1 DEF Before
    <3> QED
      BY <2>2, <2>3, <3>2 DEF Broken
  <2> QED
    BY <2>4, <2>5, <2>6
<1>12. DamageHasCause'
  BY <1>1, <1>10 DEF DamageHasCause, Broken
<1>13. IntactFollowsDecrypted'
  BY <1>1, <1>4 DEF IntactFollowsDecrypted
<1> QED
  BY <1>7, <1>8, <1>9, <1>11, <1>12, <1>13

-----------------------------------------------------------------------------
(* Every step preserves the inductive invariant.                           *)
LEMMA NextIInv == ASSUME IInv, [Next]_vars PROVE IInv'
<1>1. CASE \E f \in Frames : Wrap(f)
  BY <1>1, WrapIInv
<1>2. CASE \E i \in 1..Len(wire) : Lose(i)
  BY <1>2, LoseIInv
<1>3. CASE Unwrap
  BY <1>3, UnwrapIInv
<1>4. CASE RestartSender
  BY <1>4, RestartSenderIInv
<1>5. CASE \E n \in 0..Len(wire) : RestartReceiver(n)
  BY <1>5, RestartReceiverIInv
<1>6. CASE UNCHANGED vars
  BY <1>6 DEF vars, history, IInv, TypeOK, Ivs, EachFrameOnce, OnWire, Decrypted,
              Ends, Chain, After, Before, Broken, DamageHasCause,
              IntactFollowsDecrypted
<1> QED
  BY <1>1, <1>2, <1>3, <1>4, <1>5, <1>6 DEF Next

(* The inductive invariant holds in every reachable state.                 *)
THEOREM InvariantHolds == Spec => []IInv
<1> QED
  BY InitIInv, NextIInv, PTL DEF Spec

(* The contexts, the channel and the history keep their types.             *)
THEOREM TypeCorrect == Spec => []TypeOK
<1>1. IInv => TypeOK
  BY DEF IInv
<1> QED
  BY <1>1, InvariantHolds, PTL

(* For any number of frames, in any order of losses and restarts, a frame  *)
(* comes out of Device_unwrappacket with a wrong header only if the packet *)
(* before it under its key was lost or one of the two ends was restarted.  *)
THEOREM DamageIsCaused == Spec => []DamageHasCause
<1>1. IInv => DamageHasCause
  BY DEF IInv
<1> QED
  BY <1>1, InvariantHolds, PTL

(* No encrypted frame is decrypted twice, or both lost and decrypted, and  *)
(* none disappears unaccounted for.                                        *)
THEOREM FramesConserved == Spec => []EachFrameOnce
<1>1. IInv => EachFrameOnce
  BY DEF IInv
<1> QED
  BY <1>1, InvariantHolds, PTL

(* At every moment the receiver's context, the packets on their way and    *)
(* the sender's context form one chain, broken only where Broken allows.   *)
THEOREM ChainHolds == Spec => []Chain
<1>1. IInv => Chain
  BY DEF IInv
<1> QED
  BY <1>1, InvariantHolds, PTL

(* A frame never comes out right when the one before it under its key has  *)
(* not been decrypted: no gap goes unnoticed by the chain.                 *)
THEOREM NoGapUnnoticed == Spec => []IntactFollowsDecrypted
<1>1. IInv => IntactFollowsDecrypted
  BY DEF IInv
<1> QED
  BY <1>1, InvariantHolds, PTL

-----------------------------------------------------------------------------
(* One damage per gap: the frames damaged or waiting to be, and the last   *)
(* link, are counted against the losses and restarts.                      *)
AtStake == damaged \cup Waiting

LEMMA FiniteParts ==
  ASSUME EachFrameOnce, IsFiniteSet(wrapped)
  PROVE  /\ IsFiniteSet(AtStake) /\ IsFiniteSet(lost)
         /\ Cardinality(AtStake) \in Nat /\ Cardinality(lost) \in Nat /\ TailGap \in {0, 1}
<1>1. AtStake \subseteq wrapped /\ lost \subseteq wrapped
  BY DEF AtStake, Waiting, EachFrameOnce, OnWire, Decrypted
<1>2. IsFiniteSet(AtStake) /\ IsFiniteSet(lost)
  BY <1>1, FS_Subset
<1> QED
  BY <1>2, FS_CardinalityType DEF TailGap

LEMMA SumIsNat == \A m, n \in Nat : m + n \in Nat
OBVIOUS

(* A step keeps the count if it breaks no link, or if it breaks one and    *)
(* loses a frame or restarts an end.                                       *)
LEMMA CountKept ==
  ASSUME GapInv, IInv', IsFiniteSet(wrapped'), lost \subseteq lost',
         txStarts + rxStarts <= txStarts' + rxStarts',
         \/ AtStake' \subseteq AtStake /\ TailGap' <= TailGap
         \/ AtStake' \subseteq AtStake /\ txStarts + rxStarts < txStarts' + rxStarts'
         \/ AtStake' \subseteq AtStake /\ lost' # lost
         \/ (\E f : AtStake' \subseteq AtStake \cup {f}) /\ TailGap' < TailGap
         \/ (\E f : AtStake' \subseteq AtStake \cup {f}) /\ TailGap' = TailGap /\ lost' # lost
         \/ /\ \E f : AtStake' \subseteq AtStake \cup {f}
            /\ TailGap' = TailGap
            /\ txStarts + rxStarts < txStarts' + rxStarts'
  PROVE  GapInv'
<1>1. /\ IsFiniteSet(AtStake) /\ IsFiniteSet(lost)
      /\ Cardinality(AtStake) \in Nat /\ Cardinality(lost) \in Nat /\ TailGap \in {0, 1}
  BY FiniteParts DEF GapInv, IInv
<1>2. /\ IsFiniteSet(AtStake') /\ IsFiniteSet(lost')
      /\ Cardinality(AtStake') \in Nat /\ Cardinality(lost') \in Nat /\ TailGap' \in {0, 1}
  <2>1. EachFrameOnce'
    BY DEF IInv
  <2>2. AtStake' \subseteq wrapped' /\ lost' \subseteq wrapped'
    BY <2>1 DEF AtStake, Waiting, EachFrameOnce, OnWire, Decrypted
  <2>3. IsFiniteSet(AtStake') /\ IsFiniteSet(lost')
    BY <2>2, FS_Subset
  <2> QED
    BY <2>3, FS_CardinalityType DEF TailGap
<1>3. txStarts + rxStarts \in Nat /\ txStarts' + rxStarts' \in Nat
  <2>1. txStarts \in Nat /\ rxStarts \in Nat
    BY DEF GapInv, IInv, TypeOK
  <2>2. txStarts' \in Nat /\ rxStarts' \in Nat
    BY DEF IInv, TypeOK
  <2> QED
    BY <2>1, <2>2, SumIsNat
<1>4. AtStake' \subseteq AtStake => Cardinality(AtStake') <= Cardinality(AtStake)
  BY <1>1, FS_Subset
<1>5. ASSUME NEW f, AtStake' \subseteq AtStake \cup {f}
      PROVE  Cardinality(AtStake') <= Cardinality(AtStake) + 1
  <2>1. /\ IsFiniteSet(AtStake \cup {f})
        /\ Cardinality(AtStake \cup {f}) <= Cardinality(AtStake) + 1
    <3>1. PICK S : S = AtStake
      OBVIOUS
    <3>2. IsFiniteSet(S) /\ Cardinality(S) \in Nat
      BY <1>1, <3>1
    <3>3. /\ IsFiniteSet(S \cup {f})
          /\ Cardinality(S \cup {f}) = IF f \in S THEN Cardinality(S) ELSE Cardinality(S) + 1
      BY <3>2, FS_AddElement
    <3>4. Cardinality(S \cup {f}) <= Cardinality(S) + 1
      BY <3>2, <3>3
    <3> QED
      BY <3>1, <3>3, <3>4
  <2>2. Cardinality(AtStake') <= Cardinality(AtStake \cup {f})
        /\ Cardinality(AtStake \cup {f}) \in Nat
    BY <1>5, <2>1, FS_Subset, FS_CardinalityType
  <2> QED
    BY <1>1, <1>2, <2>1, <2>2
<1>6. Cardinality(lost) <= Cardinality(lost')
      /\ (lost' # lost => Cardinality(lost) + 1 <= Cardinality(lost'))
  <2>1. /\ Cardinality(lost) <= Cardinality(lost')
        /\ Cardinality(lost') = Cardinality(lost) => lost' = lost
    BY <1>2, FS_Subset
  <2> QED
    BY <1>1, <1>2, <2>1
<1>7. Cardinality(AtStake) + TailGap <= Cardinality(lost) + (txStarts + rxStarts)
  <2>1. Cardinality(AtStake) + TailGap <= Cardinality(lost) + txStarts + rxStarts
    BY DEF GapInv, AtStake
  <2> QED
    BY <1>1, <2>1 DEF GapInv, IInv, TypeOK
<1>8. (\E f : AtStake' \subseteq AtStake \cup {f})
         => Cardinality(AtStake') <= Cardinality(AtStake) + 1
  BY <1>5
<1>9. Cardinality(AtStake') + TailGap' <= Cardinality(lost') + (txStarts' + rxStarts')
  <2>1. CASE AtStake' \subseteq AtStake /\ TailGap' <= TailGap
    BY <1>1, <1>2, <1>3, <1>4, <1>6, <1>7, <2>1
  <2>2. CASE AtStake' \subseteq AtStake /\ txStarts + rxStarts < txStarts' + rxStarts'
    BY <1>1, <1>2, <1>3, <1>4, <1>6, <1>7, <2>2
  <2>3. CASE AtStake' \subseteq AtStake /\ lost' # lost
    BY <1>1, <1>2, <1>3, <1>4, <1>6, <1>7, <2>3
  <2>4. CASE (\E f : AtStake' \subseteq AtStake \cup {f}) /\ TailGap' < TailGap
    BY <1>1, <1>2, <1>3, <1>6, <1>7, <1>8, <2>4
  <2>5. CASE (\E f : AtStake' \subseteq AtStake \cup {f}) /\ TailGap' = TailGap /\ lost' # lost
    BY <1>1, <1>2, <1>3, <1>6, <1>7, <1>8, <2>5
  <2>6. CASE /\ \E f : AtStake' \subseteq AtStake \cup {f}
             /\ TailGap' = TailGap
             /\ txStarts + rxStarts < txStarts' + rxStarts'
    BY <1>1, <1>2, <1>3, <1>6, <1>7, <1>8, <2>6
  <2> QED
    BY <2>1, <2>2, <2>3, <2>4, <2>5, <2>6
<1>10. Cardinality(AtStake)' + TailGap' <= Cardinality(lost)' + txStarts' + rxStarts'
  <2>1. txStarts' \in Nat /\ rxStarts' \in Nat
    BY DEF IInv, TypeOK
  <2> QED
    BY <1>2, <1>9, <2>1
<1> QED
  BY <1>10 DEF GapInv, AtStake

(* Where a frame waits.                                                    *)
LEMMA WaitingAt ==
  /\ \A f \in Waiting : \E j \in 1..Len(wire) : f = wire[j] /\ After(j) # Before(j)
  /\ \A j \in 1..Len(wire) : After(j) # Before(j) => wire[j] \in Waiting
BY DEF Waiting

LEMMA InitGapInv == Init => GapInv
<1> SUFFICES ASSUME Init PROVE GapInv
  OBVIOUS
<1>1. IInv
  BY InitIInv
<1>2. damaged \cup Waiting = {} /\ TailGap = 0 /\ lost = {} /\ wrapped = {}
      /\ txStarts = 0 /\ rxStarts = 0
  BY DEF Init, Waiting, TailGap, After, Before, InitCtxIv
<1>3. Cardinality({}) = 0 /\ IsFiniteSet({})
  BY FS_EmptySet
<1>4. Cardinality(damaged \cup Waiting) = 0 /\ Cardinality(lost) = 0 /\ IsFiniteSet(wrapped)
  BY <1>2, <1>3
<1>5. Cardinality(damaged \cup Waiting) + TailGap <= Cardinality(lost) + txStarts + rxStarts
  BY <1>2, <1>4
<1> QED
  BY <1>1, <1>4, <1>5 DEF GapInv

(* If the last link was broken, it is now the new frame's.                 *)
LEMMA WrapGap ==
  ASSUME GapInv, NEW f \in Frames, Wrap(f)
  PROVE  GapInv'
<1>1. IInv /\ IInv'
  BY WrapIInv DEF GapInv
<1>2. /\ wire' \in Seq(Frames) /\ Len(wire) \in Nat
      /\ Len(wire') = Len(wire) + 1
      /\ \A i \in 1..Len(wire) : wire'[i] = wire[i] /\ wire[i] \in Frames /\ wire[i] # f
      /\ wire'[Len(wire) + 1] = f
  BY <1>1 DEF Wrap, IInv, TypeOK, EachFrameOnce, OnWire
<1>3. /\ pred'[f] = txIv /\ \A g \in Frames \ {f} : pred'[g] = pred[g]
      /\ txIv' = f /\ UNCHANGED <<rxIv, damaged, lost, txStarts, rxStarts>>
  BY <1>1 DEF Wrap, IInv, TypeOK, IvAfterEncrypt
<1>4. TailGap' = 0
  BY <1>2, <1>3 DEF TailGap, After, Before
<1>5. \A j \in 1..Len(wire) : After(j)' = After(j) /\ Before(j)' = Before(j)
  BY <1>2, <1>3 DEF After, Before
<1>6. After(Len(wire) + 1) = txIv
  BY DEF After
<1>7. \A j \in {Len(wire) + 1} : After(j)' = txIv /\ Before(j)' = Before(j)
  BY <1>2, <1>3 DEF After, Before
<1>8. ASSUME NEW x \in Waiting' PROVE x \in Waiting \/ (x = f /\ TailGap = 1)
  <2>1. PICK j \in 1..Len(wire') : x = wire'[j] /\ After(j)' # Before(j)'
    BY <1>8 DEF Waiting
  <2>2. CASE j \in 1..Len(wire)
    BY <1>2, <1>5, <2>1, <2>2, WaitingAt
  <2>3. CASE j = Len(wire) + 1
    BY <1>2, <1>6, <1>7, <2>1, <2>3 DEF TailGap
  <2> QED
    BY <1>2, <2>1, <2>2, <2>3
<1>9. CASE TailGap = 1
  <2>1. AtStake' \subseteq AtStake \cup {f}
    BY <1>3, <1>8 DEF AtStake
  <2>2. IsFiniteSet(wrapped')
    BY FS_AddElement DEF Wrap, GapInv
  <2> QED
    BY <1>1, <1>3, <1>4, <1>9, <2>1, <2>2, CountKept, SMTT(30) DEF IInv, TypeOK
<1>10. CASE TailGap = 0
  <2>1. AtStake' \subseteq AtStake
    BY <1>3, <1>8, <1>10 DEF AtStake
  <2>2. IsFiniteSet(wrapped')
    BY FS_AddElement DEF Wrap, GapInv
  <2> QED
    BY <1>1, <1>3, <1>4, <1>10, <2>1, <2>2, CountKept, SMTT(30) DEF IInv, TypeOK
<1> QED
  BY <1>9, <1>10 DEF TailGap

(* A loss breaks one link at most: that of the packet behind, or the last. *)
LEMMA LoseGap ==
  ASSUME GapInv, NEW k \in 1..Len(wire), Lose(k)
  PROVE  GapInv'
<1>1. IInv /\ IInv'
  BY LoseIInv DEF GapInv
<1>2. /\ wire' \in Seq(Frames) /\ Len(wire) \in Nat
      /\ Len(wire') = Len(wire) - 1
      /\ \A j \in 1..(Len(wire) - 1) :
           wire'[j] = IF j < k THEN wire[j] ELSE wire[j + 1]
  BY <1>1, WithoutWire, SMTT(30) DEF Lose, IInv, TypeOK
<1>3. UNCHANGED <<txIv, rxIv, pred, damaged, wrapped, txStarts, rxStarts>>
      /\ lost' = lost \cup {wire[k]} /\ wire[k] \notin lost
  BY <1>1 DEF Lose, IInv, EachFrameOnce, OnWire
<1>8. /\ lost \subseteq lost' /\ lost' # lost /\ IsFiniteSet(wrapped')
      /\ txStarts + rxStarts <= txStarts' + rxStarts'
  BY <1>1, <1>3 DEF GapInv, IInv, TypeOK
<1>4. \A j \in 1..(Len(wire) - 1) :
        /\ j < k => After(j)' = After(j) /\ Before(j)' = Before(j)
        /\ j > k => After(j)' = After(j + 1) /\ Before(j)' = Before(j + 1)
  <2> TAKE j \in 1..(Len(wire) - 1)
  <2>1. (j < k => After(j)' = After(j)) /\ (j > k => After(j)' = After(j + 1))
    BY <1>2, <1>3 DEF After
  <2>2. (j < k => Before(j)' = Before(j)) /\ (j > k => Before(j)' = Before(j + 1))
    BY <1>2, <1>3 DEF Before
  <2> QED
    BY <2>1, <2>2
<1>5. ASSUME NEW x \in Waiting' PROVE x \in Waiting \/ (k # Len(wire) /\ x = wire[k + 1])
  <2>1. PICK j \in 1..(Len(wire) - 1) : x = wire'[j] /\ After(j)' # Before(j)'
    BY <1>2, <1>5 DEF Waiting
  <2>2. CASE j < k
    BY <1>2, <1>4, <2>1, <2>2, WaitingAt
  <2>3. CASE j = k
    BY <1>2, <2>1, <2>3
  <2>4. CASE j > k
    BY <1>2, <1>4, <2>1, <2>4, WaitingAt, SMTT(30)
  <2> QED
    BY <1>2, <2>2, <2>3, <2>4
<1>6. CASE k = Len(wire)
  <2>1. AtStake' \subseteq AtStake
    BY <1>3, <1>5, <1>6 DEF AtStake
  <2> QED
    BY <1>1, <1>8, <2>1, CountKept
<1>7. CASE k # Len(wire)
  <2>1. AtStake' \subseteq AtStake \cup {wire[k + 1]}
    BY <1>3, <1>5 DEF AtStake
  <2>2. TailGap' = TailGap
    BY <1>2, <1>3, <1>7 DEF TailGap, After, Before
  <2> QED
    BY <1>1, <1>8, <2>1, <2>2, CountKept
<1> QED
  BY <1>6, <1>7

(* A frame that was waiting is damaged.                                    *)
LEMMA UnwrapGap ==
  ASSUME GapInv, Unwrap
  PROVE  GapInv'
<1>1. IInv /\ IInv'
  BY UnwrapIInv DEF GapInv
<1>2. /\ Head(wire) = wire[1] /\ 1 \in 1..Len(wire)
      /\ wire' = Without(1)
  BY <1>1, TailIsWithout DEF Unwrap, WireAfterRecv, IInv, TypeOK
<1>3. /\ wire' \in Seq(Frames) /\ Len(wire) \in Nat
      /\ Len(wire') = Len(wire) - 1
      /\ \A j \in 1..(Len(wire) - 1) : wire'[j] = wire[j + 1]
  <2>1. wire \in Seq(Frames)
    BY <1>1 DEF IInv, TypeOK
  <2>2. /\ Without(1) \in Seq(Frames) /\ Len(Without(1)) = Len(wire) - 1
        /\ \A j \in 1..(Len(wire) - 1) :
             Without(1)[j] = IF j < 1 THEN wire[j] ELSE wire[j + 1]
    BY <1>2, <2>1, WithoutWire
  <2> QED
    BY <1>2, <2>1, <2>2
<1>4. /\ rxIv' = wire[1] /\ UNCHANGED <<txIv, pred, wrapped, lost, txStarts, rxStarts>>
      /\ damaged' = IF pred[wire[1]] = rxIv THEN damaged ELSE damaged \cup {wire[1]}
  BY <1>2 DEF Unwrap, IvAfterDecrypt, FirstBlockRight
<1>5. \A j \in 1..Len(wire) : After(j)' = After(j + 1) /\ Before(j)' = Before(j + 1)
  BY <1>3, <1>4 DEF After, Before
<1>6. ASSUME NEW x \in Waiting' PROVE x \in Waiting
  <2>1. PICK j \in 1..(Len(wire) - 1) : x = wire'[j] /\ After(j)' # Before(j)'
    BY <1>3, <1>6 DEF Waiting
  <2> QED
    BY <1>3, <1>5, <2>1, WaitingAt, SMTT(30)
<1>7. pred[wire[1]] # rxIv => wire[1] \in Waiting
  <2>1. After(1) = pred[wire[1]] /\ Before(1) = rxIv
    BY <1>2, <1>3 DEF After, Before
  <2> QED
    BY <1>2, <2>1, WaitingAt
<1>8. AtStake' \subseteq AtStake
  BY <1>4, <1>6, <1>7 DEF AtStake
<1>9. TailGap' = TailGap
  BY <1>3, <1>4 DEF TailGap, After, Before
<1>10. TailGap \in {0, 1}
  BY DEF TailGap
<1> QED
  BY <1>1, <1>4, <1>8, <1>9, <1>10, CountKept DEF GapInv, IInv, TypeOK

(* A restart breaks one link at most: of the sender, the last one; of the  *)
(* receiver, that of the first packet it does not miss, or the last.       *)
LEMMA RestartSenderGap ==
  ASSUME GapInv, RestartSender
  PROVE  GapInv'
<1>1. IInv /\ IInv'
  BY RestartSenderIInv DEF GapInv
<1>2. txStarts \in Nat /\ rxStarts \in Nat
  BY <1>1 DEF IInv, TypeOK
<1>3. /\ UNCHANGED <<rxIv, wire, pred, damaged, wrapped, lost>>
      /\ txStarts' = txStarts + 1 /\ rxStarts' = rxStarts
  BY DEF RestartSender
<1>4. \A j \in 1..Len(wire) : After(j)' = After(j) /\ Before(j)' = Before(j)
  BY <1>1, <1>3 DEF After, Before, IInv, TypeOK
<1>5. AtStake' \subseteq AtStake
  BY <1>3, <1>4 DEF AtStake, Waiting
<1>6. txStarts + rxStarts < txStarts' + rxStarts' /\ txStarts + rxStarts <= txStarts' + rxStarts'
  BY <1>2, <1>3
<1>7. IsFiniteSet(wrapped') /\ lost \subseteq lost'
  BY <1>3 DEF GapInv
<1> QED
  BY <1>1, <1>5, <1>6, <1>7, CountKept

LEMMA RestartReceiverGap ==
  ASSUME GapInv, NEW n \in 0..Len(wire), RestartReceiver(n)
  PROVE  GapInv'
<1>1. IInv /\ IInv'
  BY RestartReceiverIInv DEF GapInv
<1>2. txStarts \in Nat /\ rxStarts \in Nat
  BY <1>1 DEF IInv, TypeOK
<1>3. /\ UNCHANGED <<txIv, pred, damaged, wrapped>> /\ lost \subseteq lost'
      /\ txStarts' = txStarts /\ rxStarts' = rxStarts + 1
  BY DEF RestartReceiver
<1>4. /\ wire' \in Seq(Frames) /\ Len(wire) \in Nat
      /\ Len(wire') = Len(wire) - n
      /\ \A j \in 1..(Len(wire) - n) : wire'[j] = wire[n + j]
  BY <1>1, DroppedWire DEF IInv, TypeOK
<1>5. txStarts + rxStarts < txStarts' + rxStarts' /\ txStarts + rxStarts <= txStarts' + rxStarts'
  BY <1>2, <1>3
<1>6. IsFiniteSet(wrapped')
  BY <1>3 DEF GapInv
<1>7. ASSUME NEW x \in Waiting' PROVE x \in Waiting \/ (n # Len(wire) /\ x = wire[n + 1])
  <2>1. PICK j \in 1..(Len(wire) - n) : x = wire'[j] /\ After(j)' # Before(j)'
    BY <1>4, <1>7 DEF Waiting
  <2>2. CASE j = 1
    BY <1>4, <2>1, <2>2
  <2>3. CASE j # 1
    <3>1. /\ n + j \in 1..Len(wire) /\ n + j # Len(wire) + 1 /\ n + j # 1
          /\ j # Len(wire') + 1
          /\ j - 1 \in 1..(Len(wire) - n) /\ n + (j - 1) = (n + j) - 1
      BY <1>4, <2>1, <2>3
    <3>2. After(j)' = After(n + j)
      BY <1>3, <1>4, <2>1, <3>1 DEF After
    <3>3. Before(j)' = Before(n + j)
      BY <1>4, <2>3, <3>1 DEF Before
    <3>4. wire[n + j] \in Waiting
      BY <2>1, <3>1, <3>2, <3>3, WaitingAt
    <3> QED
      BY <1>4, <2>1, <3>4
  <2> QED
    BY <2>2, <2>3
<1>8. CASE n = Len(wire)
  <2>1. AtStake' \subseteq AtStake
    BY <1>3, <1>7, <1>8 DEF AtStake
  <2> QED
    BY <1>1, <1>3, <1>5, <1>6, <2>1, CountKept
<1>9. CASE n # Len(wire)
  <2>1. AtStake' \subseteq AtStake \cup {wire[n + 1]}
    BY <1>3, <1>7 DEF AtStake
  <2>2. TailGap' = TailGap
    <3>1. /\ Len(wire) # 0 /\ Len(wire') # 0
          /\ Len(wire') \in 1..(Len(wire) - n) /\ n + Len(wire') = Len(wire)
      BY <1>4, <1>9
    <3>2. Before(Len(wire) + 1)' = Before(Len(wire) + 1)
      <4>1. Before(Len(wire) + 1) = wire[Len(wire)]
        BY <1>4, <3>1 DEF Before
      <4>2. Before(Len(wire) + 1)' = wire'[Len(wire')]
        BY <1>4, <3>1 DEF Before
      <4>3. wire'[Len(wire')] = wire[n + Len(wire')]
        BY <1>4, <3>1
      <4> QED
        BY <3>1, <4>1, <4>2, <4>3
    <3>3. After(Len(wire) + 1)' = After(Len(wire) + 1)
      BY <1>3 DEF After
    <3> QED
      BY <3>2, <3>3 DEF TailGap
  <2> QED
    BY <1>1, <1>3, <1>5, <1>6, <2>1, <2>2, CountKept
<1> QED
  BY <1>8, <1>9

LEMMA NextGapInv == ASSUME GapInv, [Next]_vars PROVE GapInv'
<1>1. CASE UNCHANGED vars
  <2>1. IInv'
    BY <1>1, NextIInv DEF GapInv
  <2> QED
    BY <1>1, <2>1 DEF vars, history, GapInv, Waiting, TailGap, After, Before
<1> QED
  BY <1>1, WrapGap, LoseGap, UnwrapGap, RestartSenderGap,
     RestartReceiverGap DEF Next

(* For any number of frames, and any losses and restarts, no more frames   *)
(* are damaged than packets were lost and ends were restarted.             *)
THEOREM GapsCostOneEach == Spec => []OneDamagePerGap
<1>1. GapInv => OneDamagePerGap
  <2> SUFFICES ASSUME GapInv PROVE OneDamagePerGap
    OBVIOUS
  <2>1. /\ IsFiniteSet(AtStake) /\ Cardinality(AtStake) \in Nat
        /\ Cardinality(lost) \in Nat /\ TailGap \in {0, 1}
    BY FiniteParts DEF GapInv, IInv
  <2>2. Cardinality(damaged) <= Cardinality(AtStake) /\ Cardinality(damaged) \in Nat
    BY <2>1, FS_Subset, FS_CardinalityType DEF AtStake
  <2>3. Cardinality(AtStake) + TailGap <= Cardinality(lost) + txStarts + rxStarts
    BY DEF GapInv, AtStake
  <2>4. txStarts \in Nat /\ rxStarts \in Nat
    BY DEF GapInv, IInv, TypeOK
  <2>5. Cardinality(damaged) <= Cardinality(lost) + txStarts + rxStarts
    BY <2>1, <2>2, <2>3, <2>4
  <2> QED
    BY <2>5 DEF OneDamagePerGap
<1> QED
  BY <1>1, InitGapInv, NextGapInv, PTL DEF Spec
=============================================================================
