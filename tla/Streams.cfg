SPECIFICATION MCSpec
CONSTANTS
  Clients = {c1, c2}
  Values = {v1, v2}
  NoValue = NoValue
  Window = 2
  MaxChanges = 3
  MaxJoins = 2
  MaxUp = 1
  Npcs = {n1}
  Player = player
  Capacity = 3
  MaxEvents = 3
  MaxCommands = 2
  MaxLinks = 2
  MaxWork = 4
INVARIANTS HeardIsRecent FramesConserved NpcStoryIsSound
PROPERTIES EventuallyAgreed PipeMoves
CHECK_DEADLOCK FALSE
