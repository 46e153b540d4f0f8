SPECIFICATION Spec
CONSTANTS
  s1 = s1
  p1 = p1
  p2 = p2
  i1 = i1
  i2 = i2
  None = None
  Builds <- MCBuilds
  Requests = {r1}
  Series <- MCSeries
  Prefixes <- MCPrefixes
  Images <- MCImages
  SeriesOf <- MCSeriesOf
  PrefixOf <- MCPrefixOf
  ImageOf <- MCImageOf
  Composed <- MCSidecars
  Monitored <- MCSidecars
  PoolSize = 1
  MaxCrashes = 1
  DiskMayFail = FALSE
INVARIANTS SucceededIsComplete RunningIsWatched
PROPERTIES EveryBuildConcludes DeletesEnd ImplementsRecord
CHECK_DEADLOCK FALSE
