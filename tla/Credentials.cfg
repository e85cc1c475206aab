SPECIFICATION FairSpec
CONSTANTS
  Nonces = {n}
  Children = {a, b}
  MaxTokens = 3
  Scopes <- AllScopes
  Wanted <- Chain
  n = n
  a = a
  b = b
  MaxFaults = 1
  MaxParked = 1
  MaxRaised = 1
  None = None
CHECK_DEADLOCK FALSE
INVARIANTS
  CredentialsAreSound
  RevokedStaysDead
PROPERTIES
  RetriesEndNothing
  SessionRecovered
