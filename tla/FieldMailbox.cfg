SPECIFICATION Spec
CONSTANTS
  Runs = {r1, r2}
  Handlers = {h1, h2}
  Faults = TRUE
SYMMETRY MailboxSymmetry
INVARIANTS TypeOK HandedOutOnce
PROPERTIES HandsOutOldest ImplementsFieldJob
