CONSTANTS
  a1 = a1
  x = x
  y = y
  z = z
  Nothing = Nothing
  Posts = {p1, p2}
  Agents = {a1}
  Reasons = {x, y, z}
  Limit = 2
  Window = 3
  DedupWindow = 2
  Skew = 1
  Second = 2
  MaxClock = 3
  MaxCrashes = 1
  MaxStored = 3
  MaxFaults = 1
CHECK_DEADLOCK FALSE
SYMMETRY IntakeSymmetry
SPECIFICATION MCSpec
INVARIANTS LimitsSound RetryHonest IntakeSound
PROPERTIES DuplicatesApart
