SPECIFICATION Spec
CONSTANTS
  None = None
  r1 = r1  r2 = r2  r3 = r3
  p1 = p1  p2 = p2
  Requests = {r1, r2, r3}
  Processes = {p1, p2}
  Worker <- TwoWorkers
  Project <- MixedProject
  WorkId <- MixedRun
  Streams = {}
  Estimate <- MixedEstimate
  Charges <- MixedCharges
  Declared <- MixedLimits
  PerWorkDefault = None
  PerWorkMax = 4
  AllowDeclared = TRUE
  MaxRetries = 1
  BudgetIds <- CalendarIds
  InitialRows <- CalendarRows
  OperatorBudgets <- OperatorIds
  OperatorRows <- OperatorChoices
  LastDay = 1
  MonthStart <- OneMonth
INVARIANTS
  TypeOK
  AdmittedSpendWithinLimit
  RunBudgetsAgree
PROPERTIES
  ImplementsLedger
