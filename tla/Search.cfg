SPECIFICATION Spec
CONSTANTS
  r1 = r1
  r2 = r2
  p1 = p1
  p2 = p2
  c1 = c1
  c2 = c2
  j1 = j1
  q1 = q1
  Requests = {r1, r2}
  JobOf <- OneJob
  QueryOf <- OneQuery
  Payments = {p1, p2}
  Calls = {c1}
  Loop = Loop
  Jobs = {j1}
  Budget <- BudgetOfTwo
  Price = 1
  SupplierBound = 1
  FeeBound = 0
  RiskCeiling = 6
  Costs = {0, 2}
  RealizedFee = 0
  None = None
  MaxCrashes = 1
INVARIANTS
  JobsAreSound
  SupplierPaidOnce
  SettledIsAccounted
  BooksMatchTheChain
SYMMETRY Interchangeable
CHECK_DEADLOCK FALSE
