\* One reopen that is disturbed once: a lost answer is taken for a failure.
SPECIFICATION Spec
CONSTANTS
  None = None
  Session <- Desk
  AutoLabels <- Numbers
  FirstNew = 100
  FocusOnReopen = TRUE
  Labels <- StrangerLabels
  Cwds <- StrangerCwds
  MaxDisturbances = 1
INVARIANT
  GivenBackOnlyIfNothingMade
\* a reopen ends
CHECK_DEADLOCK FALSE
