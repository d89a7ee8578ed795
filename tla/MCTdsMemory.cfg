\* Every command that does not end the store, allocations that fail.
CONSTANTS
  a = a
  b = b
  c = c
  zeros = zeros
  empty = empty
  Keys = {a, b, c, zeros, empty}
  Values = {v1, v2, zeros, blank}
  Hash <- MCHash
  Primes <- MCPrimes
  NULL = NULL
  DELETED = DELETED
  Clients = {p}
  ClientKeys = {a}
  ClientFields = {a, b}
  ClientValues = {v1}
  Zeros = zeros
  Empty = empty
  Blank = blank
  LENGTH = LENGTH
  INITIAL_SIZE = 3
  Commands = {"insert", "delete_field", "get", "contains_key", "contains_field"}
  Faults = {"alloc"}
  MaxStarts = 2
SPECIFICATION HSpec
INVARIANT TablesSound
PROPERTY ImplementsRecordStore
CHECK_DEADLOCK FALSE
