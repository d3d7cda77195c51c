CONSTANTS
  both = both
  nobody = nobody
  Instances = 2
  Callbacks = {both, nobody}
  Exports <- MCExports
  Players = {p1, p2}
  Intervals = {1, 2}
  MaxTimers = 2
  MaxEffects = 2
  MaxAsked = 2
  Addrs = {a1, a2}
  WrongMods = {a2}
  Connections = 2
  RecvWindow = 2
  Patience = 1
  MaxFrames = 3
  MaxArrivals = 4
  Servers = {s1}
  Master = Master
  NoEntry = NoEntry
  Heartbeat = 2
  Stale = 4
  CullEvery = 2
  Delay = 1
  None = None
SPECIFICATION MCSpec
INVARIANTS KilledStaysDead NothingAfterFarewell InboxIsExact
INVARIANTS SessionsAreWhole PlayIsChecked ListIsCurrent
PROPERTIES TicksServe NeverReplaced GoneIsForgotten
CHECK_DEADLOCK FALSE
