SPECIFICATION Spec
CONSTANTS
  r = r
  a = a
  b = b
  e1 = e1
  e2 = e2
  v1 = v1
  v2 = v2
  o1 = o1
  o2 = o2
  Delegations = {r, a}
  Amounts <- SmallAmounts
  Events = {e1, e2}
  Outcomes = {o1}
  Revokes = {v1}
  Outcome <- TwoReasons
  None = None
  Unknown = Unknown
  Internal = Internal
  MaxCrashes = 0
INVARIANTS
  DuplicateReserveIsSafe
