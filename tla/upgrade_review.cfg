CONSTANTS
  r2 = r2
  t1 = t1
  t2 = t2
  t3 = t3
  c1 = c1
  s1 = s1
  k1 = k1
  k2 = k2
  b1 = b1
  b3 = b3
  ann = ann
  ANN = ANN
  bob = bob
  proxy = proxy
  Requests = {r1, r2}
  Tabs = {t3}
  BrowserOf <- MCBrowserOf
  Clis = {c1}
  Watching = {c1}
  Scripts = {}
  Signers = {k1}
  Modes = {once}
  Address <- MCAddress
  Access <- MCAccess
  Forwarded <- MCForwarded
  Folded <- MCFolded
  None = None
  NoName = NoName
  Anonymous = Anonymous
  Loopback = Loopback
  Configs <- ExchangedConfigs
  MaxRestarts = 1
  MaxFailures = 1
CHECK_DEADLOCK FALSE
SPECIFICATION MCSpec
INVARIANTS LoneTabAccepted
PROPERTIES Reviewed Offered
