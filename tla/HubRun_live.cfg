SPECIFICATION FairSpec
CONSTANTS
  Visitors = {v1}
  MaxRuns = 1
  LastSeq = 3
  MaxReports = 4
  HistCap = 12
  Disconnects = FALSE
INVARIANT EveryHopAccountedFor
PROPERTIES RunEnds HopsShown
