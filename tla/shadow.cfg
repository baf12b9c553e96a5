\* Two overlapping refreshes while panes come and go; a list call may fail, a refresh die.
SPECIFICATION Spec
CONSTANTS
  None = None
  r1 = r1
  r2 = r2
  StackCap = 1
  EntryTTL = 0
  BurstWindow = 1
  BurstStale = 1
  CaptureExited = TRUE
  Home <- TwoPanes
  AtStart <- OneAtStart
  Refreshers <- TwoRefreshers
  Eager <- NoneIsEager
  StaleAfter = 1
  Gestures <- AllGestures
  MaxNow = 2
  MaxChanges = 2
  MaxFailures = 1
  MaxDeaths = 1
SYMMETRY EitherRefresher
INVARIANTS
  TypeOK
  ClosedIsRemembered
  FreshIsExact
\* the user may stop and every refresh have ended
CHECK_DEADLOCK FALSE
