SPECIFICATION Spec
CONSTANTS
  Frames = {f1, f2, f3, f4}
  DefaultIv = iv0
INVARIANTS
  TypeOK DamageHasCause IntactFollowsDecrypted OneDamagePerGap EachFrameOnce Chain
CHECK_DEADLOCK FALSE
