\* Late, lost and garbled packets, a lost proof, and applications that go on.
CONSTANTS
  SeqRange = 6
  CheckRange = 5
  MAX_IV_SYNC_ATTEMPTS = 2
  Authenticated = TRUE
  Faults = {"timeout", "loss", "garble"}
  Retries = TRUE
  MaxRequests = 5
  NULL = NULL
SPECIFICATION SessionSpec
INVARIANT TypeOK
INVARIANT AgreeOnSuccess
PROPERTY ImplementsExchange
PROPERTY CatchesUp
PROPERTY AnsweredOnceCalm
CHECK_DEADLOCK FALSE
