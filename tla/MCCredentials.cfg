SPECIFICATION AllSpec
CONSTANTS
  Accounts = {a1, a2}
  MaxDraws = 9
  MaxTime = 2
  MaxIssued = 3
  None = None
  Q = 7
  Draws <- MCDraws
  Challenges = {2, 5}
  ProfileKeys <- MCProfileKeys
INVARIANTS
  NothingElseIsAccepted
  ClientsKeepWorking
  DirectoryOpensDiscovery
  ProvedIsAccepted
  DecryptsToCredential
CHECK_DEADLOCK FALSE
