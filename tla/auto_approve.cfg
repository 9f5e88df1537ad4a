CONSTANTS
  Procs = {p1, p2}
  TTLs = {1, 5, 6}
  IdleWindows = {0}
  MaxTTL = 5
  DefaultIdle = 3
  NoProc = nobody
  MaxClock = 3
  MaxRequests = 2
  MaxOps = 2
  MaxFaults = 1
CHECK_DEADLOCK FALSE
SPECIFICATION Spec
SYMMETRY ProcSymmetry
INVARIANTS LeaseSound IdleGapsExpire NeverShortened
