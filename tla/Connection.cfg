SPECIFICATION MCSpec
CONSTANTS
  SeqSpace = 8
  RecvWindow = 3
  MaxSent = 9
  CanLose = FALSE
  CanDuplicate = TRUE
  ReorderDepth = 3
  CopyLife = 3
  a1 = a1
  a2 = a2
  Addrs = {a1, a2, a3}
  Npcs <- MCNpcs
  Refs <- MCRefs
  EntityId <- MCEntityId
  Connections = 2
  MaxPlayers = 4
  MaxReports = 3
  CanCull = TRUE
  CanReauth = TRUE
  n1 = n1
  n2 = n2
  Nobody = Nobody
INVARIANTS TypesOK DownlinkKeepsOrder OwnedIsPresent
PROPERTIES EveryPacketAccepted DeliversInOrder EveryPacketLeavesWindow DeadStayDead SeenIsSimulated
CHECK_DEADLOCK FALSE
