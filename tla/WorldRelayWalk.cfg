SPECIFICATION RelaySpec
CONSTANTS
  Clients = {a, b}
  Npc = n
  Item = i
  Holder = a
  Nobody = nobody
  Places <- MCPlaces
  Doors <- MCDoors
  Samples <- MCSamples
  Counts <- MCCounts
  Hits <- MCHits
  MaxHandled = 3
PROPERTIES WalkersAreFollowed
CHECK_DEADLOCK FALSE
