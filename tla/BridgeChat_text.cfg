SPECIFICATION FairChatSpec
CONSTANTS
  MaxRounds = 1
  MaxLines = 0
  Logged = {}
  Pages = {p1}
  MaxClicks = 1
  Capacity = 2
  TextMayFail = TRUE
PROPERTY ButtonComesBack
