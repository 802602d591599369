SPECIFICATION BriefingSpec
CONSTANTS
  Runs = {r1}
  Handlers = {h1, h2}
  Faults = TRUE
INVARIANTS BriefingTypeOK HonestBriefing
PROPERTIES LeftOutOnlyIfAway BriefingEnds PollsEnd
