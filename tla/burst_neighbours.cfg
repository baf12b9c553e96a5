\* A pane close and a tab close of one workspace in one burst.
SPECIFICATION Spec
CONSTANTS
  None = None
  h1 = h1
  h2 = h2
  h3 = h3
  r1 = r1
  r2 = r2
  c1 = c1
  c2 = c2
  Hooks <- FirstHooks
  Reopens <- NoReopens
  Recoverers <- NoRecoverers
  Ids <- IdsInUse
  Gesture <- NeighbourGestures
  Snapshots <- Known
  Rebuilt <- NoRebuilt
  StackCap = 2
  EntryTTL = 0
  BurstWindow = 1
  BurstStale = 1
  CaptureExited = TRUE
  SelfTTL = 1
  MaxTime = 4
  MaxCrashes = 0
INVARIANTS
  UnrelatedClosesStay
\* every process may have ended and the clock be at its bound
CHECK_DEADLOCK FALSE
