\* Recovery runs while a restore is under way.
SPECIFICATION Spec
CONSTANTS
  None = None
  h1 = h1
  h2 = h2
  h3 = h3
  r1 = r1
  r2 = r2
  c1 = c1
  c2 = c2
  Hooks <- FirstHooks
  Reopens <- OneReopen
  Recoverers <- OneRecoverer
  Ids <- IdsInUse
  Gesture <- RebuiltGestures
  Snapshots <- Known
  Rebuilt <- RebuiltId
  StackCap = 2
  EntryTTL = 0
  BurstWindow = 1
  BurstStale = 1
  CaptureExited = TRUE
  SelfTTL = 2
  MaxTime = 5
  MaxCrashes = 0
PROPERTIES
  RestoreArtefactsIgnored
\* every process may have ended and the clock be at its bound
CHECK_DEADLOCK FALSE
