CONSTANTS
  r1 = r1
  r2 = r2
  a1 = a1
  command = command
  open = open
  foreign = foreign
  vault = vault
  Requests = {r1, r2}
  Approvers = {a1}
  Known = {}
  AllowUnsigned = TRUE
  LocalApprove = TRUE
  Scopes = {command, open, foreign, vault}
  Profile <- MCProfiles
  DefaultMaxSession = 2
  DefaultSession = 1
  SessionTTL = 1
  LeaseTTL = 0
  Wait = 0
  MaxClock = 1
  MaxFaults = 1
  MaxCrashes = 1
CHECK_DEADLOCK FALSE
SPECIFICATION MCSpec
INVARIANTS ClientsSound ApprovedWithConsent
PROPERTIES ImplementsLifecycle Progress
