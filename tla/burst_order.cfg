\* Two closes in one burst: which one is at the head.
SPECIFICATION Spec
CONSTANTS
  None = None
  h1 = h1
  h2 = h2
  h3 = h3
  r1 = r1
  r2 = r2
  c1 = c1
  c2 = c2
  Hooks <- FirstHooks
  Reopens <- NoReopens
  Recoverers <- NoRecoverers
  Ids <- IdsInUse
  Gesture <- CascadeGestures
  Snapshots <- Known
  Rebuilt <- NoRebuilt
  StackCap = 2
  EntryTTL = 0
  BurstWindow = 1
  BurstStale = 1
  CaptureExited = TRUE
  SelfTTL = 1
  MaxTime = 4
  MaxCrashes = 0
INVARIANTS
  HeadIsNewest
\* every process may have ended and the clock be at its bound
CHECK_DEADLOCK FALSE
