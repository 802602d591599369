SPECIFICATION Spec
CONSTANTS
  Visitors = {v1}
  MaxRuns = 1
  LastSeq = 2
  MaxReports = 2
  HistCap = 10
  Disconnects = TRUE
INVARIANT EveryHopAccountedFor
