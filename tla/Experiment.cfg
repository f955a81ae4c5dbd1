SPECIFICATION Spec
CONSTANTS
  A = 1
  B = 2
  PairedWith <- PairOfTwo
  Seed <- SeedsDiffer
  NumKeys = 1
  TotalToEnd = 2
  Lossy = FALSE
  Interrupted = {2}
  MaxPseudo = 2
  NumSend = 2
  NumRepeat = 0
  SendHwm = 1
  RecvHwm = 1
INVARIANTS TypeOK ResultsAddUp
PROPERTIES StopEndsProcess IterationEnds
CHECK_DEADLOCK FALSE
