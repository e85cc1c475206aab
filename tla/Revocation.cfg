SPECIFICATION FairSpec
CONSTANTS
  r = r
  a = a
  b = b
  e1 = e1
  e2 = e2
  v1 = v1
  v2 = v2
  o1 = o1
  o2 = o2
  Delegations = {r, a, b}
  Amounts <- OneDollar
  Events = {e1}
  Outcomes = {o1, o2}
  Revokes = {v1, v2}
  Outcome <- TwoReasons
  None = None
  Unknown = Unknown
  Internal = Internal
  MaxCrashes = 1
INVARIANTS
  RevokedIsDead
PROPERTIES
  RevocationCompletes
CHECK_DEADLOCK FALSE
