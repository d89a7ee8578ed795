\* Deletes leave tombstones; no allocation failure is needed.
CONSTANTS
  k1 = k1
  k2 = k2
  k3 = k3
  k4 = k4
  v1 = v1
  v2 = v2
  Keys = {k1, k2, k3}
  Values = {v1, v2}
  Hash <- MCHash3
  Primes <- MCPrimes
  NULL = NULL
  DELETED = DELETED
  InitSize = 2
  Calls = {"get", "insert", "delete"}
  AllocFails = FALSE
SPECIFICATION BeforeSpec
PROPERTY DeletingAgainFails
