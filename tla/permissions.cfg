CONSTANTS
  tool = tool
  meta = meta
  literal = literal
  glob = glob
  Profiles = {tool, meta}
  Texts = {literal, glob}
  MatchedBy <- MCMatchedBy
  Globs = {glob}
  Configs <- MCConfigs
  OnceTTL = 2
  SessionTTL = 1
  MaxGrants = 2
  MaxEdits = 3
  MaxClock = 3
CHECK_DEADLOCK FALSE
SPECIFICATION PermissionsSpec
INVARIANTS OnlyGranted GrantHonoured ListingAgrees
