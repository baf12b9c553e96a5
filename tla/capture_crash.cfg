\* Two closes and two recoveries; one process is killed anywhere, the others end.
SPECIFICATION FairSpec
CONSTANTS
  None = None
  h1 = h1
  h2 = h2
  h3 = h3
  r1 = r1
  r2 = r2
  c1 = c1
  c2 = c2
  Hooks <- FirstHooks
  Reopens <- NoReopens
  Recoverers <- TwoRecoverers
  Ids <- IdsInUse
  Gesture <- NeighbourGestures
  Snapshots <- KnownOrBlank
  Rebuilt <- NoRebuilt
  StackCap = 2
  EntryTTL = 0
  BurstWindow = 1
  BurstStale = 1
  CaptureExited = TRUE
  SelfTTL = 1
  MaxTime = 3
  MaxCrashes = 1
INVARIANTS
  NothingLost
  CapturedOncePerCrash
PROPERTIES
  BurstIsKeptOrSettled
  UndoRefined
  EveryProcessEnds
\* every process may have ended and the clock be at its bound
CHECK_DEADLOCK FALSE
