SPECIFICATION MCSpec
CONSTANTS
  Plugins <- MCPlugins
  Indices = {1, 2}
  MaxImports = 2
  MaxStarts = 1
  npc = npc
  c1 = c1
  c2 = c2
  Clients = {c1, c2}
  Npc = npc
  Item = item
  Holder = c1
  Nobody = Nobody
  Places <- MCPlaces
  Doors <- MCDoors
  Samples <- MCSamples
  Counts <- MCCounts
  Hits <- MCHits
  MaxHandled = 3
  Addrs = {c1, c2}
  Npcs = {npc}
  Slots = 3
  Targets <- MCTargets
  Connections = 2
  NameLengths = {0, 16, 17}
  Arguments <- MCArguments
  Other = Other
  MaxLost = 1
  MaxPlayers = 3
  MaxKills = 4
  Names = {Empty, x, y}
  Empty = Empty
  IdSpace = 3
  MaxSent = 4
  MaxSessions = 2
  x = x
  y = y
INVARIANTS TypesOK ContentIsPlugins OthersAgree ProgressIsKills ProgressIsKnown NeverWrongName NamesAreShown
PROPERTIES  FriendlyFireBlocked
CHECK_DEADLOCK FALSE
