SPECIFICATION FairSpec
CONSTANTS
  Reports = {"summary"}
  Summary = "summary"
  Kinds = {"journal"}
  PageSize = 1
  MaxPages = 1
  MaxFaults = 1
  MaxChanges = 2
  MaxRefreshes = 1
INVARIANTS
  CacheFollowsNotice
PROPERTIES
  EveryChangeShown
