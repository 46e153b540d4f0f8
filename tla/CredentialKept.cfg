SPECIFICATION SafetySpec
CONSTANTS
  s1 = s1
  p1 = p1
  p2 = p2
  i1 = i1
  i2 = i2
  None = None
  Builds <- MCBuilds
  Requests = {r1}
  Series <- MCSeries
  Prefixes <- MCPrefixes
  Images <- MCImages
  SeriesOf <- MCSeriesOf
  PrefixOf <- MCPrefixOf
  ImageOf <- MCImageOf
  Composed = {}
  Monitored = {}
  PoolSize = 2
  MaxCrashes = 1
  DiskMayFail = FALSE
INVARIANT CredentialKept
CHECK_DEADLOCK FALSE
