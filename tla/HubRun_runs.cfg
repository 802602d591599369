SPECIFICATION Spec
CONSTANTS
  Visitors = {v1, v2}
  MaxRuns = 2
  LastSeq = 2
  MaxReports = 1
  HistCap = 8
  Disconnects = TRUE
SYMMETRY VisitorSymmetry
INVARIANTS TypeOK OneRunAtATime LastRunComplete
PROPERTIES StreamOrder ReportsOnlyWhileActive ImplementsHubFeed
