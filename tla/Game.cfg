SPECIFICATION MCSpec
CONSTANTS
  Addrs = {a1, a2}
  n1 = n1
  n2 = n2
  self = self
  npc = npc
  Npcs <- MCNpcs
  Refs <- MCRefs
  EntityId <- MCEntityId
  Nobody = Nobody
  Connections = 2
  MaxPlayers = 2
  MaxReports = 4
  CanCull = FALSE
  CanReauth = FALSE
  CanKick = TRUE
  CanLoseSight = TRUE
  SeesEarly = FALSE
  MaxQueue = 2
  Builds = {"gog"}
  Ids = {self, npc}
  Local = self
  Points <- MCPoints
  Scales = {8, 10}
  Cells = {20}
  MaxPackets = 2
  MaxEngine = 1
  MaxLoads = 1
SYMMETRY ClientSymmetry
INVARIANTS BeliefIsBacked OneSimulator FieldsFollow DetoursAreWhole
PROPERTY KeepsPromise
CHECK_DEADLOCK FALSE
