SPECIFICATION Spec
CONSTANTS
  Blocks <- TwoBits
  NumBlocks = 3
  Cipher <- TwoBitCipher
  InvCipher <- TwoBitInvCipher
  Xor <- TwoBitXor
  DefaultIv = 0
INVARIANTS
  TypeOK OnlyHeaderAtStake HeaderNeedsIv ContextsMeet
