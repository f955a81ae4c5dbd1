SPECIFICATION Spec
CONSTANTS
  Devices = {1, 2}
  PairedWith <- PairOfTwo
  Upper <- UpperThree
  Seed <- SeedsDiffer
  NumKeys = 2
  WatchedKey <- KeyOneTwo
  TotalToEnd = 3
  Lossy = TRUE
  Interrupted = {2}
  MaxPseudo = 0
INVARIANT InOrderOnce
PROPERTY ImplementsChannel
CHECK_DEADLOCK FALSE
