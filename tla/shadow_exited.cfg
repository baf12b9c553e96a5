\* Shells exit while a refresh runs.
SPECIFICATION Spec
CONSTANTS
  None = None
  r1 = r1
  r2 = r2
  StackCap = 1
  EntryTTL = 0
  BurstWindow = 1
  BurstStale = 1
  CaptureExited = TRUE
  Home <- ThreePanes
  AtStart <- TwoAtStart
  Refreshers <- TwoRefreshers
  Eager <- NoneIsEager
  StaleAfter = 1
  Gestures <- OnlyExits
  MaxNow = 2
  MaxChanges = 2
  MaxFailures = 0
  MaxDeaths = 0
SYMMETRY EitherRefresher
INVARIANTS
  HookFreezesIt
\* the user may stop and every refresh have ended
CHECK_DEADLOCK FALSE
