----------------------------- MODULE CbcBuffer -----------------------------
(***************************************************************************)
(* AES_CBC_encrypt_buffer and AES_CBC_decrypt_buffer, block by block and   *)
(* in place, on the two contexts of one transmission key: a frame is       *)
(* encrypted in its own buffer, the buffer travels or is lost, and what    *)
(* arrives is decrypted in its own buffer.                                 *)
(*                                                                         *)
(* This is what module CipherContext takes for granted about a frame: that *)
(* it depends on the stored IV in its first block only, and that a call    *)
(* leaves the last ciphertext block in the context, whatever was there.    *)
(* The block cipher itself is any pair of inverse functions.               *)
(***************************************************************************)
EXTENDS Naturals

CONSTANTS Blocks,          \* the values of 16 bytes
          NumBlocks,       \* sizeof(L2Frame) / AES_BLOCKLEN
          Cipher(_),       \* Cipher with the context's round keys
          InvCipher(_),    \* InvCipher with the same
          Xor(_, _),       \* bytewise exclusive or of two blocks
          DefaultIv        \* g_aes_default_iv

ASSUME SizeAssumption == NumBlocks \in Nat \ {0}
ASSUME BlockAssumption ==
  /\ DefaultIv \in Blocks
  /\ \A x \in Blocks : Cipher(x) \in Blocks /\ InvCipher(x) \in Blocks
  /\ \A x \in Blocks : InvCipher(Cipher(x)) = x
ASSUME XorAssumption ==
  \A x, y \in Blocks : /\ Xor(x, y) \in Blocks
                       /\ Xor(x, y) = Xor(y, x)
                       /\ Xor(Xor(x, y), y) = x

VARIABLES
  pc,       \* the call in progress, or what has become of the last frame
  i,        \* the block the loop is at
  buf,      \* the buffer the calls work in: the frame, then the packet's data
  txIv,     \* Iv of the sender's context
  rxIv,     \* Iv of the receiver's context
  frame,    \* history: the plaintext
  packet,   \* history: the ciphertext, as far as it has been made
  usedIv,   \* history: txIv when the encryption started
  heldIv    \* history: rxIv when the decryption started

vars == <<pc, i, buf, txIv, rxIv, frame, packet, usedIv, heldIv>>

Index  == 1..NumBlocks
Buffer == [Index -> Blocks]

(* Both loops start at the first block.  Mutant: one before it.            *)
BlockBeforeFirst == 0
FirstBlock == 1

Init ==
  /\ pc = "idle"
  /\ i = FirstBlock
  /\ buf = [j \in Index |-> DefaultIv]
  /\ txIv = DefaultIv /\ rxIv = DefaultIv
  /\ frame = buf /\ packet = buf
  /\ usedIv = DefaultIv /\ heldIv = DefaultIv

-----------------------------------------------------------------------------
(* A call of DevicePair_encrypt_data with a frame.                         *)
StartEncrypt ==
  /\ pc \in {"idle", "received"}
  /\ buf' \in Buffer
  /\ frame' = buf'
  /\ usedIv' = txIv
  /\ i' = FirstBlock
  /\ pc' = "encrypt"
  /\ UNCHANGED <<txIv, rxIv, packet, heldIv>>

(* "Iv = buf": from the second block on the pointer is to the ciphertext   *)
(* block just written into the same buffer.  Mutant: it stays at the       *)
(* context's Iv.                                                           *)
EncryptIvFixed == txIv
EncryptIv == IF i = 1 THEN txIv ELSE buf[i - 1]

EncryptBlock ==
  /\ pc = "encrypt" /\ i <= NumBlocks
  /\ buf' = [buf EXCEPT ![i] = Cipher(Xor(@, EncryptIv))]
  /\ packet' = [packet EXCEPT ![i] = buf'[i]]
  /\ i' = i + 1
  /\ UNCHANGED <<pc, txIv, rxIv, frame, usedIv, heldIv>>

(* "store Iv in ctx for next call": the pointer is at the last block.      *)
(* Mutant: the context is left alone.                                      *)
StoredIvNot == txIv
StoredIv == buf[NumBlocks]

EndEncrypt ==
  /\ pc = "encrypt" /\ i > NumBlocks
  /\ txIv' = StoredIv
  /\ pc' = "sent"
  /\ UNCHANGED <<i, buf, rxIv, frame, packet, usedIv, heldIv>>

(* The packet does not arrive.                                             *)
Lose ==
  /\ pc = "sent"
  /\ pc' = "idle"
  /\ UNCHANGED <<i, buf, txIv, rxIv, frame, packet, usedIv, heldIv>>

(* A call of DevicePair_decrypt_data with the packet's data.               *)
StartDecrypt ==
  /\ pc = "sent"
  /\ heldIv' = rxIv
  /\ i' = FirstBlock
  /\ pc' = "decrypt"
  /\ UNCHANGED <<buf, txIv, rxIv, frame, packet, usedIv>>

(* storeNextIv: the block's ciphertext, copied before it is overwritten.   *)
(* Mutant: copied from the buffer after the block has been decrypted.      *)
NextIvLate == Xor(InvCipher(buf[i]), rxIv)
NextIv == buf[i]

(* Mutant: every call starts from the default IV.                          *)
DecryptIvDefault == IF i = 1 THEN DefaultIv ELSE rxIv
DecryptIv == rxIv

DecryptBlock ==
  /\ pc = "decrypt" /\ i <= NumBlocks
  /\ buf' = [buf EXCEPT ![i] = Xor(InvCipher(@), DecryptIv)]
  /\ rxIv' = NextIv
  /\ i' = i + 1
  /\ UNCHANGED <<pc, txIv, frame, packet, usedIv, heldIv>>

EndDecrypt ==
  /\ pc = "decrypt" /\ i > NumBlocks
  /\ pc' = "received"
  /\ UNCHANGED <<i, buf, txIv, rxIv, frame, packet, usedIv, heldIv>>

Next == \/ StartEncrypt \/ EncryptBlock \/ EndEncrypt
        \/ Lose \/ StartDecrypt \/ DecryptBlock \/ EndDecrypt

Spec == Init /\ [][Next]_vars

-----------------------------------------------------------------------------
(* Types; the loops stay inside the buffer.                                *)
TypeOK ==
  /\ pc \in {"idle", "encrypt", "sent", "decrypt", "received"}
  /\ i \in 1..(NumBlocks + 1)
  /\ {buf, frame, packet} \subseteq Buffer
  /\ {txIv, rxIv, usedIv, heldIv} \subseteq Blocks

(* Whatever IV the receiver holds, every block of a frame after the first  *)
(* is decrypted right: losing packets never costs more than one block.     *)
OnlyHeaderAtStake ==
  pc = "received" => \A j \in 2..NumBlocks : buf[j] = frame[j]

(* The first block, with the two MAC addresses, is right exactly when the  *)
(* receiver held the IV the frame was encrypted under.                     *)
HeaderNeedsIv ==
  pc = "received" => (buf[1] = frame[1] <=> heldIv = usedIv)

(* A frame that arrives brings the two contexts together again, right or   *)
(* wrong: the damage of a loss ends with the first frame after it.         *)
ContextsMeet == pc = "received" => rxIv = txIv

-----------------------------------------------------------------------------
(* The inductive invariant: what the loops have done so far.  LinkIv(j) is *)
(* the IV of block j of the packet.                                        *)
LinkIv(j) == IF j = 1 THEN usedIv ELSE packet[j - 1]
Sealed(j) == packet[j] = Cipher(Xor(frame[j], LinkIv(j)))
Opened(j) == buf[j] = Xor(InvCipher(packet[j]), IF j = 1 THEN heldIv ELSE packet[j - 1])

Encrypting ==
  pc = "encrypt" =>
    /\ usedIv = txIv
    /\ \A j \in Index : IF j < i THEN Sealed(j) /\ buf[j] = packet[j]
                        ELSE buf[j] = frame[j]
Travelling ==
  pc = "sent" => /\ txIv = packet[NumBlocks]
                 /\ \A j \in Index : Sealed(j) /\ buf[j] = packet[j]
Decrypting ==
  pc \in {"decrypt", "received"} =>
    /\ txIv = packet[NumBlocks]
    /\ rxIv = IF i = 1 THEN heldIv ELSE packet[i - 1]
    /\ pc = "received" => i = NumBlocks + 1
    /\ \A j \in Index : /\ Sealed(j)
                        /\ IF j < i THEN Opened(j) ELSE buf[j] = packet[j]

IInv == TypeOK /\ Encrypting /\ Travelling /\ Decrypting
=============================================================================
