------------------------------- MODULE MCCbc -------------------------------
(* A block cipher on blocks of two bits for the model-checking run.        *)
EXTENDS CbcBuffer

TwoBits == 0..3

(* A permutation that exclusive or does not commute with.                  *)
TwoBitCipher(x)    == (x + 1) % 4
TwoBitInvCipher(x) == (x + 3) % 4
TwoBitXor(x, y)    == ((x + y) % 2) + 2 * (((x \div 2) + (y \div 2)) % 2)
=============================================================================
