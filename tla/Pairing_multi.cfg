SPECIFICATION Spec
CONSTANTS
  Devices = {1, 2, 3, 4, 5}
  Launches <- LaunchOfMulti
  NumKeys = 1
  UpperBuild = "zero"
INVARIANT GroupingPaired
CHECK_DEADLOCK FALSE
