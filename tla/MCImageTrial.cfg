SPECIFICATION Spec
CONSTANTS
  Selections <- MCSelections
  Contrib <- MCContrib
  Apt <- MCApt
  NeedsPreload <- MCNeedsPreload
  MaxPolls = 3
  DaemonMayFail = TRUE
INVARIANTS TypeOK VerdictIsRight NothingLeftBehind
CHECK_DEADLOCK FALSE
