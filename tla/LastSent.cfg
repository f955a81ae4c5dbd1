SPECIFICATION Spec
CONSTANTS
  Writers = {send, recv}
  Checkers = {recv}
  Keys = {k1, k2}
  NoKey = zero
  RingSize = 2
  IndexRange = 4
INVARIANTS
  TypeOK IndexInArray RecognisedWasLogged MissHasCause CheckFindsHeld CheckFindsOnlySeen
PROPERTY ImplementsWindow
