\* Every fault, a second run of the server, values that wrap.
CONSTANTS
  ValueRange = 3
  Amounts = {2}
  MaxCards = 2
  MaxServers = 2
  NULL = NULL
  MONTH_SECONDS = 1
  MaxTime = 2
  ClientFaults = {"memory", "storage", "power"}
  BLANK = BLANK
  StrayDates = {0}
  ManyPerRun = TRUE
  MaxJobs = 3
SPECIFICATION Spec
INVARIANT TypeOK
INVARIANT DifferencesExplained
PROPERTY PurchaseKeepsCards
PROPERTY OnlyJobCardChanges
CHECK_DEADLOCK FALSE
