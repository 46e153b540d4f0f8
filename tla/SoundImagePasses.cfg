SPECIFICATION Spec
CONSTANTS
  Selections <- MCSelections
  Contrib <- MCContrib
  Apt <- MCApt
  NeedsPreload <- MCNeedsPreload
  MaxPolls = 3
  DaemonMayFail = FALSE
INVARIANT SoundImagePasses
CHECK_DEADLOCK FALSE
