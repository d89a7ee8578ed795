\* Two clients, two values; saves are refused or cut short.
CONSTANTS
  a = a
  b = b
  c = c
  zeros = zeros
  empty = empty
  Keys = {a, b, c, zeros, empty}
  Values = {v1, v2, zeros, blank}
  Hash <- MCHash
  Primes <- MCPrimes
  NULL = NULL
  DELETED = DELETED
  Clients = {p, q}
  ClientKeys = {a}
  ClientFields = {a, b}
  ClientValues = {v1, v2}
  Zeros = zeros
  Empty = empty
  Blank = blank
  LENGTH = LENGTH
  INITIAL_SIZE = 3
  Commands = {"insert", "get", "contains_key"}
  Faults = {"power", "storage"}
  MaxStarts = 2
SPECIFICATION HSpec
INVARIANT TypeOK
INVARIANT TablesSound
INVARIANT ObjectGood
PROPERTY ImplementsRecordStore
CHECK_DEADLOCK FALSE
