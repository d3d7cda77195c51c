SPECIFICATION FairCoopSpec
CONSTANTS
  Addrs = {a1, a2}
  n1 = n1
  n2 = n2
  Npcs <- MCNpcs
  Refs <- MCRefs
  EntityId <- MCEntityId
  Nobody = Nobody
  Connections = 2
  MaxPlayers = 2
  MaxReports = 4
  CanCull = FALSE
  CanReauth = FALSE
  CanKick = FALSE
  CanLoseSight = TRUE
  SeesEarly = FALSE
  MaxQueue = 4
PROPERTY SeenIsSimulated
CHECK_DEADLOCK FALSE
