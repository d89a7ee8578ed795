\* Every fault and any cipher, and applications that stop at the first error.
CONSTANTS
  SeqRange = 16
  CheckRange = 5
  MAX_IV_SYNC_ATTEMPTS = 2
  Authenticated = FALSE
  Faults = {"timeout", "loss", "garble", "alloc"}
  Retries = FALSE
  MaxRequests = 3
  NULL = NULL
SPECIFICATION Spec
PROPERTY IvUsedOnce
CHECK_DEADLOCK FALSE
