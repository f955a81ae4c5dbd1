-------------------------- MODULE CbcBufferProofs --------------------------
(***************************************************************************)
(* Proofs about CbcBuffer for any block cipher, any set of blocks with an  *)
(* exclusive or, and frames of any number of blocks.                       *)
(***************************************************************************)
EXTENDS CbcBuffer, TLAPS

(* Exclusive or with a block can be undone, on either side.                *)
LEMMA XorCancels ==
  ASSUME NEW x \in Blocks, NEW y \in Blocks, NEW z \in Blocks
  PROVE  /\ Xor(x, y) = Xor(x, z) => y = z
         /\ Xor(x, z) = Xor(y, z) => x = y
<1>1. Xor(Xor(x, z), z) = x /\ Xor(Xor(y, z), z) = y
  BY XorAssumption
<1>2. Xor(Xor(y, x), x) = y /\ Xor(Xor(z, x), x) = z
  BY XorAssumption
<1>3. Xor(x, y) = Xor(y, x) /\ Xor(x, z) = Xor(z, x)
  BY XorAssumption
<1> QED
  BY <1>1, <1>2, <1>3

(* Decrypting a sealed block under any IV yields the plaintext exclusive   *)
(* or what tells the two IVs apart.                                        *)
LEMMA OpensSealed ==
  ASSUME NEW p \in Blocks, NEW used \in Blocks, NEW held \in Blocks
  PROVE  Xor(InvCipher(Cipher(Xor(p, used))), held) = p <=> held = used
<1>1. Xor(p, used) \in Blocks /\ Xor(Xor(p, used), used) = p
  BY XorAssumption
<1>2. InvCipher(Cipher(Xor(p, used))) = Xor(p, used)
  BY <1>1, BlockAssumption
<1>3. Xor(Xor(p, used), held) = p => held = used
  <2>1. SUFFICES ASSUME Xor(Xor(p, used), held) = p PROVE held = used
    OBVIOUS
  <2>2. Xor(Xor(p, used), held) = Xor(Xor(p, used), used)
    BY <1>1, <2>1
  <2> QED
    BY <1>1, <2>2, XorCancels
<1> QED
  BY <1>1, <1>2, <1>3

LEMMA InitIInv == ASSUME Init PROVE IInv
<1>1. TypeOK
  BY SizeAssumption, BlockAssumption DEF Init, TypeOK, Buffer, Index, FirstBlock
<1> QED
  BY <1>1 DEF Init, IInv, Encrypting, Travelling, Decrypting

-----------------------------------------------------------------------------
LEMMA StartEncryptIInv == ASSUME IInv, StartEncrypt PROVE IInv'
<1>1. TypeOK'
  BY SizeAssumption DEF IInv, StartEncrypt, TypeOK, FirstBlock
<1>2. Encrypting'
  BY DEF StartEncrypt, Encrypting, Index, FirstBlock
<1>3. Travelling' /\ Decrypting'
  BY DEF StartEncrypt, Travelling, Decrypting
<1> QED
  BY <1>1, <1>2, <1>3 DEF IInv

(* The block becomes ciphertext, linked to the block before it.            *)
LEMMA EncryptBlockIInv == ASSUME IInv, EncryptBlock PROVE IInv'
<1> USE SizeAssumption DEF IInv
<1>1. i \in Index /\ i + 1 \in 1..(NumBlocks + 1) /\ pc = "encrypt"
  BY DEF EncryptBlock, TypeOK, Index
<1>2. EncryptIv \in Blocks /\ EncryptIv = LinkIv(i)
  BY <1>1 DEF EncryptIv, LinkIv, TypeOK, Encrypting, Buffer, Index
<1>3. buf[i] = frame[i] /\ frame[i] \in Blocks
  BY <1>1 DEF Encrypting, TypeOK, Buffer
<1> DEFINE c == Cipher(Xor(frame[i], LinkIv(i)))
<1>4. c \in Blocks
  BY <1>2, <1>3, XorAssumption, BlockAssumption
<1>5. buf' = [buf EXCEPT ![i] = c] /\ packet' = [packet EXCEPT ![i] = c]
  BY <1>1, <1>2, <1>3 DEF EncryptBlock, TypeOK, Buffer
<1> HIDE DEF c
<1>6. TypeOK'
  BY <1>1, <1>4, <1>5 DEF EncryptBlock, TypeOK, Buffer
<1>7. \A j \in Index : IF j < i' THEN Sealed(j)' /\ buf'[j] = packet'[j]
                       ELSE buf'[j] = frame'[j]
  <2> SUFFICES ASSUME NEW j \in Index
               PROVE  IF j < i' THEN Sealed(j)' /\ buf'[j] = packet'[j]
                      ELSE buf'[j] = frame'[j]
    OBVIOUS
  <2>1. frame' = frame /\ usedIv' = usedIv /\ i' = i + 1
    BY DEF EncryptBlock
  <2>2. j <= i => LinkIv(j)' = LinkIv(j)
    BY <1>1, <1>5, <2>1 DEF LinkIv, TypeOK, Buffer, Index
  <2>3. CASE j = i
    BY <1>1, <1>5, <2>1, <2>2, <2>3 DEF Sealed, TypeOK, Buffer, Index, c
  <2>4. CASE j < i
    BY <1>1, <1>5, <2>1, <2>2, <2>4 DEF Sealed, Encrypting, TypeOK, Buffer, Index
  <2>5. CASE j > i
    BY <1>1, <1>5, <2>1, <2>5 DEF Encrypting, TypeOK, Buffer, Index
  <2> QED
    BY <1>1, <2>3, <2>4, <2>5 DEF Index
<1>8. Encrypting'
  BY <1>1, <1>7 DEF EncryptBlock, Encrypting
<1> QED
  BY <1>1, <1>6, <1>8 DEF EncryptBlock, Travelling, Decrypting

LEMMA EndEncryptIInv == ASSUME IInv, EndEncrypt PROVE IInv'
<1> USE SizeAssumption DEF IInv
<1>1. i = NumBlocks + 1 /\ NumBlocks \in Index /\ pc = "encrypt"
  BY DEF EndEncrypt, TypeOK, Index
<1>2. \A j \in Index : Sealed(j) /\ buf[j] = packet[j]
  BY <1>1 DEF Encrypting, Index
<1>3. TypeOK'
  BY <1>1 DEF EndEncrypt, StoredIv, TypeOK, Buffer
<1>4. Travelling'
  BY <1>1, <1>2 DEF EndEncrypt, StoredIv, Travelling, Sealed, LinkIv
<1> QED
  BY <1>3, <1>4 DEF EndEncrypt, Encrypting, Decrypting

LEMMA LoseIInv == ASSUME IInv, Lose PROVE IInv'
BY DEF IInv, Lose, TypeOK, Encrypting, Travelling, Decrypting

LEMMA StartDecryptIInv == ASSUME IInv, StartDecrypt PROVE IInv'
<1> USE SizeAssumption DEF IInv
<1>1. TypeOK'
  BY DEF StartDecrypt, TypeOK, FirstBlock
<1>2. Decrypting'
  BY DEF StartDecrypt, Decrypting, Travelling, FirstBlock, Index, Sealed, LinkIv
<1> QED
  BY <1>1, <1>2 DEF StartDecrypt, Encrypting, Travelling

(* The block is opened under the ciphertext block before it.               *)
LEMMA DecryptBlockIInv == ASSUME IInv, DecryptBlock PROVE IInv'
<1> USE SizeAssumption DEF IInv
<1>1. i \in Index /\ i + 1 \in 1..(NumBlocks + 1) /\ pc = "decrypt"
  BY DEF DecryptBlock, TypeOK, Index
<1>2. buf[i] = packet[i] /\ packet[i] \in Blocks /\ rxIv \in Blocks
  BY <1>1 DEF Decrypting, TypeOK, Buffer, Index
<1> DEFINE p == Xor(InvCipher(packet[i]), rxIv)
<1>3. p \in Blocks
  BY <1>2, XorAssumption, BlockAssumption
<1>4. buf' = [buf EXCEPT ![i] = p] /\ rxIv' = packet[i]
  BY <1>1, <1>2 DEF DecryptBlock, DecryptIv, NextIv, TypeOK, Buffer
<1>5. rxIv = IF i = 1 THEN heldIv ELSE packet[i - 1]
  BY <1>1 DEF Decrypting
<1> HIDE DEF p
<1>6. TypeOK'
  BY <1>1, <1>2, <1>3, <1>4 DEF DecryptBlock, TypeOK, Buffer
<1>7. UNCHANGED <<pc, txIv, frame, packet, usedIv, heldIv>> /\ i' = i + 1
  BY DEF DecryptBlock
<1>8. \A j \in Index : /\ Sealed(j)'
                       /\ IF j < i' THEN Opened(j)' ELSE buf'[j] = packet'[j]
  <2> SUFFICES ASSUME NEW j \in Index
               PROVE  /\ Sealed(j)'
                      /\ IF j < i' THEN Opened(j)' ELSE buf'[j] = packet'[j]
    OBVIOUS
  <2>1. Sealed(j)'
    BY <1>1, <1>7 DEF Decrypting, Sealed, LinkIv
  <2>2. CASE j = i
    BY <1>1, <1>4, <1>5, <1>7, <2>1, <2>2 DEF Opened, TypeOK, Buffer, Index, p
  <2>3. CASE j < i
    BY <1>1, <1>4, <1>7, <2>1, <2>3 DEF Opened, Decrypting, TypeOK, Buffer, Index
  <2>4. CASE j > i
    BY <1>1, <1>4, <1>7, <2>1, <2>4 DEF Decrypting, TypeOK, Buffer, Index
  <2> QED
    BY <1>1, <2>2, <2>3, <2>4 DEF Index
<1>9. Decrypting'
  BY <1>1, <1>4, <1>7, <1>8 DEF Decrypting, Index
<1> QED
  BY <1>1, <1>6, <1>7, <1>9 DEF Encrypting, Travelling

LEMMA EndDecryptIInv == ASSUME IInv, EndDecrypt PROVE IInv'
<1> USE SizeAssumption DEF IInv
<1>1. i = NumBlocks + 1 /\ pc = "decrypt"
  BY DEF EndDecrypt, TypeOK
<1>2. TypeOK'
  BY DEF EndDecrypt, TypeOK
<1>3. Decrypting'
  BY <1>1 DEF EndDecrypt, Decrypting, Sealed, Opened, LinkIv
<1> QED
  BY <1>2, <1>3 DEF EndDecrypt, Encrypting, Travelling

(* The loops build the chain of blocks the invariant describes, and the    *)
(* decryption takes it apart link by link.                                 *)
THEOREM InvariantHolds == Spec => []IInv
<1>1. Init => IInv
  BY InitIInv
<1>2. IInv /\ [Next]_vars => IInv'
  <2> SUFFICES ASSUME IInv, [Next]_vars PROVE IInv'
    OBVIOUS
  <2>1. CASE Next
    BY <2>1, StartEncryptIInv, EncryptBlockIInv, EndEncryptIInv, LoseIInv,
       StartDecryptIInv, DecryptBlockIInv, EndDecryptIInv DEF Next
  <2>2. CASE UNCHANGED vars
    BY <2>2 DEF vars, IInv, TypeOK, Encrypting, Travelling, Decrypting,
                Sealed, Opened, LinkIv
  <2> QED
    BY <2>1, <2>2
<1> QED
  BY <1>1, <1>2, PTL DEF Spec

-----------------------------------------------------------------------------
(* Of a received frame, each block is right exactly when it was opened     *)
(* under the IV it was sealed under.                                       *)
LEMMA ReceivedBlock ==
  ASSUME IInv, pc = "received", NEW j \in Index
  PROVE  /\ j = 1 => (buf[j] = frame[j] <=> heldIv = usedIv)
         /\ j # 1 => buf[j] = frame[j]
<1>1. Sealed(j) /\ Opened(j)
  BY SizeAssumption DEF IInv, Decrypting, Index
<1>2. frame[j] \in Blocks /\ usedIv \in Blocks /\ heldIv \in Blocks
  BY DEF IInv, TypeOK, Buffer
<1>3. j # 1 => packet[j - 1] \in Blocks
  BY SizeAssumption DEF IInv, TypeOK, Buffer, Index
<1>4. CASE j = 1
  BY <1>1, <1>2, <1>4, OpensSealed DEF Sealed, Opened, LinkIv
<1>5. CASE j # 1
  BY <1>1, <1>2, <1>3, <1>5, OpensSealed DEF Sealed, Opened, LinkIv
<1> QED
  BY <1>4, <1>5

(* The loops of the two functions stay inside the frame.                   *)
THEOREM TypeCorrect == Spec => []TypeOK
<1>1. IInv => TypeOK
  BY DEF IInv
<1> QED
  BY <1>1, InvariantHolds, PTL

(* A wrong stored IV costs the first block and no other.                   *)
THEOREM LossCostsOneBlock == Spec => []OnlyHeaderAtStake
<1>1. IInv => OnlyHeaderAtStake
  <2> SUFFICES ASSUME IInv, pc = "received", NEW j \in 2..NumBlocks
               PROVE  buf[j] = frame[j]
    BY DEF OnlyHeaderAtStake
  <2>1. j \in Index /\ j # 1
    BY SizeAssumption DEF Index
  <2> QED
    BY <2>1, ReceivedBlock
<1> QED
  BY <1>1, InvariantHolds, PTL

(* The two contexts agree again after any frame that arrives.              *)
THEOREM FrameHealsChain == Spec => []ContextsMeet
<1>1. IInv => ContextsMeet
  BY SizeAssumption DEF IInv, Decrypting, ContextsMeet
<1> QED
  BY <1>1, InvariantHolds, PTL

(* The first block is right exactly when the contexts agreed.              *)
THEOREM HeaderTellsIv == Spec => []HeaderNeedsIv
<1>1. IInv => HeaderNeedsIv
  <2>1. 1 \in Index
    BY SizeAssumption DEF Index
  <2> QED
    BY <2>1, ReceivedBlock DEF HeaderNeedsIv
<1> QED
  BY <1>1, InvariantHolds, PTL
=============================================================================
