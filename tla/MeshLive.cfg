SPECIFICATION FairSpec
CONSTANTS
  MaxRuns = 1
  MaxChanges = 1
  MaxMoves = 1
  MaxFails = 1
  MaxLoads = 2
  CacheLife = 1
  FetchTicks = 1
  Failed = Failed
  None = None
INVARIANT TypeOK
PROPERTIES ServedFresh PageCatchesUp
