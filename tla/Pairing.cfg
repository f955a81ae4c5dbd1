SPECIFICATION Spec
CONSTANTS
  Devices = {1, 2, 3}
  Launches <- LaunchesOfThree
  NumKeys = 2
  UpperBuild = "zero"
INVARIANTS TypeOK RecordFoundByAddress KeysMeet NoForeignMatch HashMethodMatches
\* The loops end when every record exists.
CHECK_DEADLOCK FALSE
