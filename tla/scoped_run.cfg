CONSTANTS
  token = token
  password = password
  kubeconfig = kubeconfig
  stdout = stdout
  stderr = stderr
  Env = {token, password}
  Files = {kubeconfig}
  Length <- MCLength
  MultiLine = {kubeconfig}
  MinRedacted = 4
  Streams = {stdout, stderr}
  Contents <- AllOrNothing
  PipeSize = 1
  LineSize = 2
  MaxPieces = 3
  MaxFaults = 2
  Kills = TRUE
CHECK_DEADLOCK FALSE
SPECIFICATION MCSpec
INVARIANTS RunSound ShownRedacted OutputUpToLongLine
PROPERTIES RunReturns
