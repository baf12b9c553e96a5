\* One reopen of every kind of entry, disturbed twice: by faults, by the user, or by both.
SPECIFICATION Spec
CONSTANTS
  None = None
  Session <- Desk
  AutoLabels <- Numbers
  FirstNew = 100
  FocusOnReopen = TRUE
  Labels <- StrangerLabels
  Cwds <- StrangerCwds
  MaxDisturbances = 2
INVARIANTS
  TypeOK
  RoundTrip
  FocusComesBack
  NothingSilentlyMissing
  GivenBackIfNothingMade
  OwnClosesAreRecorded
PROPERTY
  OnlyAdds
\* a reopen ends
CHECK_DEADLOCK FALSE
