SPECIFICATION DashboardSpec
CONSTANTS
  Peers = {bob1}
  Posts = {a, b}
  StaleAfter = 4
  Requests = {f, g}
INVARIANTS DashboardTypeOK StoredIsOnline StreamCatchesUp
PROPERTIES DroppedIsTold PageTellsPresence
