CONSTANTS
  Procs = {p1, p2}
  Nobody = Nobody
  NoMutex = NoMutex
  MaxCalls = 3
  MaxFaults = 2
CHECK_DEADLOCK FALSE
SPECIFICATION Spec
INVARIANT TypeOK
PROPERTIES ImplementsAtomicFile WholeUnlessOverlapped LoneSaveTakesEffect CallReturns
