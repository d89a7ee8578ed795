\* Two starts with everything that may go wrong.
CONSTANTS
  Spis = {s1, s2}
  AuthFlags = {TRUE, FALSE}
  Faults = {"loss", "garble", "timeout", "alloc"}
  Closes = TRUE
  MaxStarts = 2
  NULL = NULL
  NOISE = NOISE
SPECIFICATION FairSpec
INVARIANT TypeOK
INVARIANT KeysAgree
INVARIANT ProofsExplained
PROPERTY StartCompletes
CHECK_DEADLOCK FALSE
