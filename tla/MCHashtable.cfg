\* All three operations, allocation may fail, and a prime table so short that
\* growing reaches its end; the overrun is where the model stops, hence no
\* deadlock check.
CONSTANTS
  k1 = k1
  k2 = k2
  k3 = k3
  k4 = k4
  v1 = v1
  v2 = v2
  Keys = {k1, k2, k3, k4}
  Values = {v1, v2}
  Hash <- MCHash4
  Primes <- MCPrimes
  NULL = NULL
  DELETED = DELETED
  InitSize = 3
  Calls = {"get", "insert", "delete"}
  AllocFails = TRUE
SPECIFICATION BeforeSpec
INVARIANT TypeOK
INVARIANT StoredKeysFindable
INVARIANT CountIsLive
INVARIANT RoomToStore
INVARIANT NullSlotRemains
INVARIANT OverrunNeedsManyKeys
PROPERTY ImplementsDict
PROPERTY CallsReturnUnlessExhausted
PROPERTY StepsMatchCalls
CHECK_DEADLOCK FALSE
