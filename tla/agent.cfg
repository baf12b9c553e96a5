\* One pane, sampled, closed and restored: every answer herdr can give, at every
\* moment of the pane.
SPECIFICATION OccupantFairSpec
CONSTANTS
  Refreshes = {r1, r2}
  Commands = {vim, tail}
  Shell = zsh
  None = None
  TTL = 2
  Patterns <- TypedPatterns
  MaxPids = 2
  MaxNow = 2
  Ladder = 4
  SettleBudget = 3
  Interval = 1
  Settle = 4
  Budget = 10
  ExitStreak = 2
  SlowCall = 2
  RejectMax = 3
  MaxMissed = 1
INVARIANTS
  TypeOK
  OneAgent
  RejectedIsNoticed
  BringsBackWhatRan
  RunsOnlyAllowed
PROPERTIES
  NeverTypesIntoAgent
  RunningIsRemembered
  RestoreEnds
\* a restore that is over stops, and so does a pane nobody closes
CHECK_DEADLOCK FALSE
