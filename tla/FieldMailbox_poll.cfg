SPECIFICATION Spec
CONSTANTS
  Runs = {r1}
  Handlers = {h1, h2}
  Faults = FALSE
INVARIANT PollNeverFails
