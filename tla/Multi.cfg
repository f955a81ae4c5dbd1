SPECIFICATION Spec
CONSTANTS
  NumDevices = 2
  Interrupted = {{}}
  NumThreads = 2
  Streams <- TwoStreams
  NumSend = 2
  NumRepeat = 0
  SendHwm = 1
  RecvHwm = 1
INVARIANTS TypeOK AllWaitedFor NothingOutlives ReturnedWasServed
PROPERTIES LauncherReturns UpperReturns
CHECK_DEADLOCK FALSE
