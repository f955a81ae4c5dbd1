SPECIFICATION Spec
CONSTANTS
  Devices = {1, 2}
  PairedWith <- PairOfTwo
  Upper <- UpperBoth
  Seed <- SeedsEqual
  NumKeys = 1
  TotalToEnd = 3
  Lossy = FALSE
  Interrupted = {}
  MaxPseudo = 3
INVARIANTS RightIfNothingLost NoFrameForgotten CountsAgree
CHECK_DEADLOCK FALSE
