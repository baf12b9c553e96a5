\* Two reopens race; the second close hits the pane the first rebuilt.
SPECIFICATION FairSpec
CONSTANTS
  None = None
  h1 = h1
  h2 = h2
  h3 = h3
  r1 = r1
  r2 = r2
  c1 = c1
  c2 = c2
  Hooks <- AllHooks
  Reopens <- TwoReopens
  Recoverers <- NoRecoverers
  Ids <- IdsInUse
  Gesture <- CascadeRebuiltGestures
  Snapshots <- Known
  Rebuilt <- RebuiltIds
  StackCap = 1
  EntryTTL = 2
  BurstWindow = 1
  BurstStale = 1
  CaptureExited = TRUE
  SelfTTL = 2
  MaxTime = 4
  MaxCrashes = 1
INVARIANTS
  TypeOK
  OneReopenPerEntry
  IdsNeverReused
  NothingLost
  PendingHasOwner
  BurstSpan
PROPERTIES
  RestoreArtefactsIgnored
  EveryProcessEnds
  BurstIsFinalized
  UndoRefined
\* every process may have ended and the clock be at its bound
CHECK_DEADLOCK FALSE
