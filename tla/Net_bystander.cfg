SPECIFICATION Spec
CONSTANTS
  Devices = {1, 2, 3}
  PairedWith <- PairAndBystander
  Upper <- UpperBystander
  Seed <- SeedsEqual
  NumKeys = 1
  TotalToEnd = 2
  Lossy = FALSE
  Interrupted = {}
  MaxPseudo = 1
INVARIANTS TypeOK OnlyAddressee NoFrameForgotten
CHECK_DEADLOCK FALSE
