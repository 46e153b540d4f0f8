SPECIFICATION PageSpec
CONSTANTS
  s1 = s1
  p1 = p1
  i1 = i1
  None = None
  Builds <- MCBuilds
  Requests = {r1}
  Series <- MCSeries
  Prefixes <- MCPrefixes
  Images <- MCImages
  SeriesOf <- MCSeriesOf
  PrefixOf <- MCPrefixOf
  ImageOf <- MCImageOf
  Composed <- MCComposed
  Monitored = {}
  PoolSize = 1
  MaxCrashes = 1
  DiskMayFail = FALSE
  MaxDrops = 1
INVARIANTS PageTypeOK EndedPageIsComplete SpinnerIsOfDeleted
PROPERTIES WatchSettles ErrorHasCause
CHECK_DEADLOCK FALSE
