SPECIFICATION FairSpec
CONSTANTS
  w1 = w1
  k1 = k1
  k2 = k2
  q1 = q1
  q2 = q2
  b1 = b1
  s1 = s1
  t1 = t1
  t2 = t2
  op = op
  w2 = w2
  Workspaces = {w1}
  MaxWorkspaces = 1
  Works = {}
  Free = 1
  PackRuns = 1
  Price = 2
  MaxOwed = 4
  Requests = {q1, q2}
  Buys = {b1}
  Sessions = {}
  Refunds = {t1, t2}
  RefundCents = 1
  Loop = Loop
  Operators = {op}
  None = None
  MaxMonth = 0
  MaxCrashes = 1
  MaxUnread = 0
  Internal = {}
  InternalPayments = {}
INVARIANTS
  ChargesAreSeen
PROPERTIES
  ChargeIsDecided
CHECK_DEADLOCK FALSE
