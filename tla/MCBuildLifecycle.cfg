SPECIFICATION SafetySpec
CONSTANTS
  s1 = s1
  p1 = p1
  p2 = p2
  i1 = i1
  i2 = i2
  None = None
  Builds <- MCBuilds
  Requests = {r1, r2}
  Series <- MCSeries
  Prefixes <- MCPrefixes
  Images <- MCImages
  SeriesOf <- MCSeriesOf
  PrefixOf <- MCPrefixOf
  ImageOf <- MCImageOf
  Composed = {}
  Monitored = {}
  PoolSize = 2
  MaxCrashes = 1
  DiskMayFail = TRUE
INVARIANTS TypeOK WorkerOwnsBuild DeletesAreUnowned CredentialIsHonest TagNamesOwnImage IInv
PROPERTIES SeriesTagEarned KeptBuildKeepsTag TerminalIsFinal RemovalIsFinal ImplementsRecordSafety
CONSTRAINT MCOneRemoval
SYMMETRY MCSymmetry
CHECK_DEADLOCK FALSE
