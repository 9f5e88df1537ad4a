CONSTANTS
  r1 = r1
  r2 = r2
  o1 = o1
  o2 = o2
  c1 = c1
  c2 = c2
  Requests = {r1, r2}
  Operators = {o1, o2}
  Clis = {c1, c2}
  OnceTTL = 1
  SessionTTL = 1
  Wait = 0
  SignedDecisions = TRUE
  MaxClock = 1
  MaxFaults = 1
  MaxCrashes = 1
  MaxCliOps = 3
CHECK_DEADLOCK FALSE
SPECIFICATION MCSpec
INVARIANTS GrantsSound RevokedStays AppliedKept
PROPERTIES ImplementsLifecycle NobodyWaits
