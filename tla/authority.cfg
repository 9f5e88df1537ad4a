CONSTANTS
  r1 = r1
  r2 = r2
  c1 = c1
  command = command
  open = open
  vault = vault
  upgrade = upgrade
  Requests = {r1, r2}
  Scopes = {command, open, vault, upgrade}
  Profile <- MCProfiles
  RequestedTTLs = {0, 3}
  MaxSession = 3
  DefaultMaxSession = 3
  DefaultSession = 1
  LocalApprove = TRUE
  ApproverKeys = TRUE
  AllowUnsigned = FALSE
  Clis = {c1}
  MaxLease = 1
  MaxClock = 2
  MaxFaults = 1
  MaxCrashes = 1
  MaxCliOps = 2
CHECK_DEADLOCK FALSE
SPECIFICATION MCSpec
INVARIANTS AuthoritySound SessionConsent SessionCapped
PROPERTIES ImplementsLifecycle PendingDecided
