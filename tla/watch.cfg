\* Two hooks start daemons at once; daemons die and the server restarts.
SPECIFICATION FairSpec
CONSTANTS
  d1 = d1
  d2 = d2
  h1 = h1
  h2 = h2
  NoPid = NoPid
  Pids <- TwoPids
  Hooks <- TwoHooks
  TickerPeriod = 1
  Debounce = 1
  WorkMax = 2
  HeartbeatStale = 4
  MaxDisturbances = 2
INVARIANTS
  TypeOK
  OwnerStaysFresh
PROPERTIES
  LockIsSpared
  OneDaemonRemains
  Rearmed
