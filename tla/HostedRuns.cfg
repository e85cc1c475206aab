SPECIFICATION Spec
CONSTANTS
  w1 = w1
  k1 = k1
  k2 = k2
  q1 = q1
  q2 = q2
  b1 = b1
  s1 = s1
  t1 = t1
  t2 = t2
  op = op
  w2 = w2
  Workspaces = {w1, w2}
  MaxWorkspaces = 1
  Works = {k1, k2}
  Free = 1
  PackRuns = 1
  Price = 2
  MaxOwed = 2
  Requests = {q1, q2}
  Buys = {}
  Sessions = {s1}
  Refunds = {}
  RefundCents = 1
  Loop = Loop
  Operators = {}
  None = None
  MaxMonth = 1
  MaxCrashes = 1
  MaxUnread = 1
  Internal = {w2}
  InternalPayments = {}
INVARIANTS
  RunsAreSound
  CreditsAreSound
  ReportAddsUp
PROPERTIES
  BilledForGood
CHECK_DEADLOCK FALSE
SYMMETRY Interchangeable
