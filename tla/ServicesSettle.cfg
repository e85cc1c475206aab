SPECIFICATION ServicesFairSpec
CONSTANTS
  Services = {"trial", "pages", "cases", "search"}
  Trials = {"t1"}
  Providers = {"openai"}
  Handlers = {"h1", "h2"}
  DemoTTL = 3
  KeyTTL = 1
  Grace = 1
  MaxLive = 1
  MaxTime = 5
  MaxTrialRestarts = 0
  Payments = {"p1", "p2"}
  PayerOf <- SalePayers
  RailOf <- SaleRails
  Requested = {"k1"}
  Readers = {"r1", "r2"}
  RecoveryWindow = 1
  Ages = 0
  MaxPageCrashes = 1
  WorkIds = {"w1"}
  Runs = {"r1", "r2"}
  MaxRows = 1
  MaxTroubles = 2
  Purchases = {"a"}
  Signed = {"p1", "p2"}
  Invocations = {"i1", "i2"}
  Inputs <- SomeInputs
  MaxSaleCrashes = 1
  Calls = {"c1", "c2"}
  OnceEver = {"first_receipt"}
  SeedEnabled = TRUE
  Nothing = Nothing
  MaxPings = 2
  MaxPingCrashes = 1
  Does <- PingsOrSwitches
  Asks <- SomeAsks
  Backends <- SomeBackends
  Overrides <- SomeOverrides
  Catalog <- SomeCatalog
  Million = 2
  Carries <- SomeCarries
  Scripts <- SomeScripts
  Endings = {"LF", "CRLF"}
  MaxCallRetries = 1
  AttemptRows <- SomeAttemptRows
  ReviewRows <- SomeReviewRows
  RetryFloor = 4
  ReviewThreshold = 8
  MaxRetryCost = 2
  MaxExportRows = 4
  Fresh = {"a", "b"}
  Exported <- SomeFile
  Facts <- SomeFacts
  PageSize = 1
  MaxNow = 3
  MaxOutcomes = 1
  Ways = {"none", "tried", "checked", "rebuilt"}
  NewColumns <- TwoColumns
  Openers = {"o1", "o2"}
  MaxKills = 1
  MaxBusy = 1
  Made <- SomeMade
  Retried <- SomeRetried
  Delegated <- SomeDelegated
  Invoices <- SomeInvoices
  Usages <- SomeUsages
  MaxCompletion = 2
  CharsPerToken = 4
  RetryCostLimit = 6
  ReviewCosts <- SomeReviewCosts
  MaxReviews = 2
  MaxReports = 1
PROPERTIES
  ServicesSettle
CHECK_DEADLOCK FALSE
