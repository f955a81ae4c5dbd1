--------------------------- MODULE CipherContext ---------------------------
(***************************************************************************)
(* One transmission key of one direction of a device pair: the AES-CBC     *)
(* context at the sender (transmission_keys_src[i].aes_ctx), the one at    *)
(* the receiver (transmission_keys_recv[i].aes_ctx), and the packets under *)
(* that key that are on their way.                                         *)
(*                                                                         *)
(* Both contexts are created from the same key and the same default IV,    *)
(* and neither side ever sends its IV: each stores, after every packet,    *)
(* the last ciphertext block it produced or consumed.  A packet carries    *)
(* no sequence number either, so what the two contexts agree on is all     *)
(* that ties a packet to the one before it.                                *)
(*                                                                         *)
(* Abstraction.  A frame stands for one call of the encryption, its last   *)
(* ciphertext block included, so "the IV is the last ciphertext block of   *)
(* frame f" is written "the IV is f".  Only the first block of a frame     *)
(* depends on the stored IV (the other blocks depend on the ciphertext     *)
(* block before them, which the packet carries), so a frame decrypted      *)
(* under another IV than the one it was encrypted under comes out with     *)
(* its first block, the one with the MAC addresses, wrong: "damaged".      *)
(* Module CbcBuffer has the blocks, and proves these facts of them.        *)
(*                                                                         *)
(* This is also the abstract specification of what the packet path of      *)
(* module ALNetwork promises for each key.                                 *)
(***************************************************************************)
EXTENDS Naturals, Sequences, FiniteSets

CONSTANTS Frames,     \* the encryptions performed under this key
          DefaultIv   \* g_aes_default_iv, the IV of a new context

ASSUME IvAssumption == DefaultIv \notin Frames

VARIABLES
  txIv,      \* aes_ctx.Iv of the sender's context
  rxIv,      \* aes_ctx.Iv of the receiver's context
  wire,      \* the packets under this key on their way, oldest first
  pred,      \* history: the IV under which each frame was encrypted
  wrapped,   \* history: the frames encrypted so far
  intact,    \* history: the frames the receiver reconstructed exactly
  damaged,   \* history: the frames it reconstructed with a wrong first block
  lost,      \* history: the frames no longer on their way, never decrypted
  current,   \* history: the frames decrypted since the receiver started
  txStarts,  \* history: how often the sender has been restarted
  rxStarts   \* history: how often the receiver has been restarted

history == <<wrapped, intact, damaged, lost, current, txStarts, rxStarts>>
vars == <<txIv, rxIv, wire, pred, history>>

Ivs       == Frames \cup {DefaultIv}
Decrypted == intact \cup damaged
OnWire    == {wire[i] : i \in 1..Len(wire)}

(* The packets left when the i-th one is taken off the wire.               *)
Without(i) == [j \in 1..(Len(wire) - 1) |-> IF j < i THEN wire[j] ELSE wire[j + 1]]

(* AES_init_ctx_iv: a new context holds the default IV.                    *)
InitCtxIv == DefaultIv

(* The first block of f comes out right under the context's IV.            *)
FirstBlockRight(f, iv) == pred[f] = iv

(* AES_CBC_encrypt_buffer leaves the last ciphertext block of the buffer   *)
(* in the context "for next call".  Mutant: another block of the buffer.   *)
IvAfterEncryptOther(f) == <<"other block", f>>
IvAfterEncrypt(f) == f

(* AES_CBC_decrypt_buffer does the same.  Mutants: it leaves the context   *)
(* alone; it does so when the first block came out wrong; the sender and   *)
(* the receiver share one context.                                         *)
IvAfterDecryptKept(f)     == rxIv
IvAfterDecryptIfRight(f)  == IF FirstBlockRight(f, rxIv) THEN f ELSE rxIv
IvAfterDecryptShared(f)   == txIv
IvAfterDecrypt(f) == f

(* zmq_recv takes the oldest packet off the queue.  Mutant: it stays.      *)
WirePeeked == wire
WireAfterRecv == Tail(wire)

Init ==
  /\ txIv = InitCtxIv
  /\ rxIv = InitCtxIv
  /\ wire = <<>>
  /\ pred = [f \in Frames |-> DefaultIv]
  /\ wrapped = {} /\ intact = {} /\ damaged = {} /\ lost = {} /\ current = {}
  /\ txStarts = 0 /\ rxStarts = 0

(* DevicePair_encrypt_data on the sender's context, then the packet leaves.*)
Wrap(f) ==
  /\ f \notin wrapped
  /\ wrapped' = wrapped \cup {f}
  /\ pred' = [pred EXCEPT ![f] = txIv]
  /\ txIv' = IvAfterEncrypt(f)
  /\ wire' = Append(wire, f)
  /\ UNCHANGED <<rxIv, intact, damaged, lost, current, txStarts, rxStarts>>

(* The broadcast channel may drop any packet.                              *)
Lose(i) ==
  /\ lost' = lost \cup {wire[i]}
  /\ wire' = Without(i)
  /\ UNCHANGED <<txIv, rxIv, pred, wrapped, intact, damaged, current,
                 txStarts, rxStarts>>

(* DevicePair_decrypt_data on the receiver's context for the oldest packet.*)
(* It reports SUCCESS whatever comes out.                                  *)
Unwrap ==
  /\ wire # <<>>
  /\ LET f == Head(wire) IN
       /\ IF FirstBlockRight(f, rxIv)
          THEN intact' = intact \cup {f} /\ UNCHANGED damaged
          ELSE damaged' = damaged \cup {f} /\ UNCHANGED intact
       /\ rxIv' = IvAfterDecrypt(f)
       /\ current' = current \cup {f}
  /\ wire' = WireAfterRecv
  /\ UNCHANGED <<txIv, pred, wrapped, lost, txStarts, rxStarts>>

(* The sending process ends and is started again: the keys are derived     *)
(* anew from the same inputs, so they are the same, under the default IV.  *)
RestartSender ==
  /\ txIv # DefaultIv
  /\ txIv' = InitCtxIv
  /\ txStarts' = txStarts + 1
  /\ UNCHANGED <<rxIv, wire, pred, wrapped, intact, damaged, lost, current,
                 rxStarts>>

(* The receiving process ends and is started again: the queue of its       *)
(* subscription goes with it, and what is sent before it subscribes again  *)
(* is not delivered; the packets behind those still arrive.                *)
RestartReceiver(n) ==
  /\ rxIv # DefaultIv \/ n > 0
  /\ rxIv' = InitCtxIv
  /\ lost' = lost \cup {wire[i] : i \in 1..n}
  /\ wire' = SubSeq(wire, n + 1, Len(wire))
  /\ current' = {}
  /\ rxStarts' = rxStarts + 1
  /\ UNCHANGED <<txIv, pred, wrapped, intact, damaged, txStarts>>

Next ==
  \/ \E f \in Frames : Wrap(f)
  \/ \E i \in 1..Len(wire) : Lose(i)
  \/ Unwrap
  \/ RestartSender
  \/ \E n \in 0..Len(wire) : RestartReceiver(n)

Spec == Init /\ [][Next]_vars

-----------------------------------------------------------------------------
(* The types of the two contexts, the channel and the history.             *)
TypeOK ==
  /\ txIv \in Ivs /\ rxIv \in Ivs
  /\ wire \in Seq(Frames)
  /\ pred \in [Frames -> Ivs]
  /\ wrapped \subseteq Frames
  /\ intact \subseteq Frames /\ damaged \subseteq Frames
  /\ lost \subseteq Frames /\ current \subseteq Frames
  /\ txStarts \in Nat /\ rxStarts \in Nat

(* What can make an encryption's IV one that the receiver does not hold:   *)
(* the frame before was lost, or was decrypted by an earlier life of the   *)
(* receiver, or the sender has started over from the default IV.           *)
Broken(iv) ==
  \/ iv \in lost
  \/ iv \in Decrypted \ current
  \/ iv = DefaultIv /\ txStarts > 0

(* A frame is damaged only if the frame encrypted before it under the same *)
(* key was lost, or one of the two ends was restarted in between: a gap in *)
(* the sequence costs one frame header and no more.  (The persistent IVs   *)
(* of DevicePair_encrypt_data and DevicePair_decrypt_data.)                *)
DamageHasCause == \A f \in damaged : Broken(pred[f])

(* A frame comes out intact only if the frame encrypted just before it was *)
(* itself decrypted: a gap never goes unnoticed by the chain.              *)
IntactFollowsDecrypted ==
  \A f \in intact : pred[f] \in Decrypted \cup {DefaultIv}

(* A lost packet or a restart costs at most one damaged frame: the chain   *)
(* catches up at the first packet after a gap, whatever the gap was.       *)
OneDamagePerGap ==
  Cardinality(damaged) <= Cardinality(lost) + txStarts + rxStarts

(* Every frame encrypted is in exactly one place: on its way, lost, or     *)
(* decrypted once, right or wrong.                                         *)
EachFrameOnce ==
  /\ wrapped = OnWire \cup lost \cup Decrypted
  /\ OnWire \cap (lost \cup Decrypted) = {}
  /\ lost \cap Decrypted = {}
  /\ intact \cap damaged = {}
  /\ \A i, j \in 1..Len(wire) : i # j => wire[i] # wire[j]

-----------------------------------------------------------------------------
(* Link i of the chain goes from what the receiver will hold when packet i *)
(* arrives (Before) to what packet i was encrypted under (After); the last *)
(* link ends in the sender's context.                                      *)
Before(i) == IF i = 1 THEN rxIv ELSE wire[i - 1]
After(i)  == IF i = Len(wire) + 1 THEN txIv ELSE pred[wire[i]]

(* At every moment the chain from the receiver's context over the packets  *)
(* on their way to the sender's context is unbroken except where a frame   *)
(* was lost or an end was restarted.                                       *)
Chain == \A i \in 1..(Len(wire) + 1) : After(i) = Before(i) \/ Broken(After(i))

(* What the two contexts hold is accounted for by the history.             *)
Ends ==
  /\ txIv \in wrapped \cup {DefaultIv}
  /\ rxIv \in current \cup {DefaultIv}
  /\ current \subseteq Decrypted

(* The inductive invariant: DamageHasCause and IntactFollowsDecrypted need *)
(* Chain and Ends, which need EachFrameOnce.                               *)
IInv == /\ TypeOK /\ EachFrameOnce /\ Ends /\ Chain
        /\ DamageHasCause /\ IntactFollowsDecrypted

(* The frames on their way whose link is broken, those that will come out  *)
(* damaged if nothing more is lost, and whether the last link is.          *)
Waiting == {wire[i] : i \in {j \in 1..Len(wire) : After(j) # Before(j)}}
TailGap == IF After(Len(wire) + 1) = Before(Len(wire) + 1) THEN 0 ELSE 1

(* The inductive invariant of OneDamagePerGap: links break one at a time,  *)
(* each by a loss or a restart, and a damaged frame uses one up.           *)
GapInv ==
  /\ IInv /\ IsFiniteSet(wrapped)
  /\ Cardinality(damaged \cup Waiting) + TailGap <= Cardinality(lost) + txStarts + rxStarts
=============================================================================
