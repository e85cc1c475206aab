SPECIFICATION FairSpec
CONSTANTS
  None = None
  r1 = r1  r2 = r2  r3 = r3
  p1 = p1  p2 = p2
  Requests = {r1, r2}
  Processes = {p1, p2}
  Worker <- TwoWorkers
  Project <- Nowhere
  WorkId <- InRun
  Streams = {r2}
  Estimate <- AllOne
  Charges <- UpToEstimate
  Declared <- NoDeclaration
  PerWorkDefault = 3
  PerWorkMax = None
  AllowDeclared = TRUE
  MaxRetries = 1
  BudgetIds <- RunOnly
  InitialRows <- RetryRows
  OperatorBudgets = {}
  OperatorRows = {}
  LastDay = 0
  MonthStart <- OneMonth
INVARIANTS
  MoneyAlwaysAccounted
  ReceiptTellsAll
PROPERTIES
  RequestsSettle
