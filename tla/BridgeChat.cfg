SPECIFICATION FairChatSpec
CONSTANTS
  MaxRounds = 2
  MaxLines = 1
  Logged = {2}
  Pages = {p1}
  MaxClicks = 2
  Capacity = 2
  TextMayFail = FALSE
INVARIANTS TypeOK DisabledIsGuarded LegibleStream OneOutcome
PROPERTIES ButtonComesBack RoundsMakeWay
