CONSTANTS
  token = token
  password = password
  kubeconfig = kubeconfig
  stdout = stdout
  stderr = stderr
  Env = {token, password}
  Files = {kubeconfig}
  Length <- MCLength
  MultiLine = {kubeconfig}
  MinRedacted = 4
  Streams = {stdout, stderr}
  Contents <- Nothing
  PipeSize = 1
  LineSize = 1
  MaxPieces = 2
  MaxFaults = 0
  Kills = FALSE
CHECK_DEADLOCK FALSE
SPECIFICATION Spec
INVARIANT AgentSeesOutput
