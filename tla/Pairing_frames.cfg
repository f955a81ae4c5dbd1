SPECIFICATION Spec
CONSTANTS
  Devices = {1, 2, 3}
  Launches <- LaunchesOfThree
  NumKeys = 1
  UpperBuild = "wrap"
INVARIANT RecordFoundByAddress
CHECK_DEADLOCK FALSE
