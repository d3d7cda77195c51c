SPECIFICATION FairSpec
CONSTANTS
  SeqSpace = 8
  RecvWindow = 3
  MaxSent = 3
  CanLose = FALSE
  CanDuplicate = FALSE
  ReorderDepth = 2
  CopyLife = 3
PROPERTY EveryPacketDispatched
CHECK_DEADLOCK FALSE
