\* Three keys, inserts and deletes, saves cut short.
CONSTANTS
  a = a
  b = b
  c = c
  zeros = zeros
  empty = empty
  Keys = {a, b, c, zeros, empty}
  Values = {v1, v2, zeros, blank}
  Hash <- MCHash
  Primes <- MCPrimes
  NULL = NULL
  DELETED = DELETED
  Clients = {p}
  ClientKeys = {a, b, c}
  ClientFields = {a}
  ClientValues = {v1}
  Zeros = zeros
  Empty = empty
  Blank = blank
  LENGTH = LENGTH
  INITIAL_SIZE = 3
  Commands = {"insert", "delete_field", "delete_key", "contains_key"}
  Faults = {"power"}
  MaxStarts = 2
SPECIFICATION HSpec
INVARIANT KeysHaveFields
INVARIANT HungExplained
PROPERTY SavesExact
PROPERTY ImplementsRecordStore
CHECK_DEADLOCK FALSE
