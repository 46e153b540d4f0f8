SPECIFICATION SafetySpec
CONSTANTS
  s1 = s1
  p1 = p1
  p2 = p2
  i1 = i1
  i2 = i2
  None = None
  Builds <- MCBuilds
  Requests = {r1}
  Series <- MCSeries
  Prefixes <- MCPrefixes
  Images <- MCImages
  SeriesOf <- MCSeriesOf
  PrefixOf <- MCPrefixOf
  ImageOf <- MCImageOf
  Composed = {}
  Monitored = {}
  PoolSize = 2
  MaxCrashes = 0
  DiskMayFail = FALSE
PROPERTY SeriesFollowsNewest
CHECK_DEADLOCK FALSE
