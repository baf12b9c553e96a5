\* The server restarts under a daemon that runs.
SPECIFICATION FairSpec
CONSTANTS
  d1 = d1
  d2 = d2
  h1 = h1
  h2 = h2
  NoPid = NoPid
  Pids <- OnePid
  Hooks <- OneHook
  TickerPeriod = 1
  Debounce = 1
  WorkMax = 2
  HeartbeatStale = 4
  MaxDisturbances = 1
PROPERTIES
  EofEndsDaemon
