SPECIFICATION FairPageSpec
CONSTANTS
  MaxRuns = 2
  Event <- MCEvent
  HistCap = 7
  MaxBreaks = 1
INVARIANTS TypeOK LogComplete
PROPERTY ButtonComesBack
CHECK_DEADLOCK FALSE
