SPECIFICATION Spec
CONSTANTS
  Machines <- MCMachines
  Volumes = {0, 20, 160}
  Concurrency = {16, 40}
  MaxDrags = 1
INVARIANTS
  TypeOK PresetsStayQuiet SuggestionIsRunnable WorkersAreGranted SegmentsFit
  SmokeTestIsFair
