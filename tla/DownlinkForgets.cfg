SPECIFICATION Spec
CONSTANTS
  SeqSpace = 8
  LastChannel = 1
  MaxInflight = 2
  MaxSent = 3
  NetBound = 3
  CanLose = TRUE
  ReorderDepth = 1
INVARIANT ForgottenWasReceived
CHECK_DEADLOCK FALSE
