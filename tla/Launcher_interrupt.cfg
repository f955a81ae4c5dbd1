SPECIFICATION LauncherSpec
CONSTANTS
  NumDevices = 3
  Interrupted = {{}}
INVARIANT InterruptForwarded
CHECK_DEADLOCK FALSE
