SPECIFICATION Spec
CONSTANTS
  submit = submit
  list = list
  Callers <- MCCallers
  Savers <- MCSavers
  MaxAge = 1
  MaxClock = 2
  MaxCrashes = 2
  MaxRemovals = 2
INVARIANTS TypeOK LockoutNeedsCrash SealedIsReadable
PROPERTIES SessionSurvives
