\* delete_field with nothing failing.
CONSTANTS
  a = a
  b = b
  c = c
  zeros = zeros
  empty = empty
  Keys = {a, b, c, zeros, empty}
  Values = {v1, v2, zeros, blank}
  Hash <- MCHash
  Primes <- MCPrimes
  NULL = NULL
  DELETED = DELETED
  Clients = {p}
  ClientKeys = {a}
  ClientFields = {a}
  ClientValues = {v1}
  Zeros = zeros
  Empty = empty
  Blank = blank
  LENGTH = LENGTH
  INITIAL_SIZE = 3
  Commands = {"insert", "delete_field"}
  Faults = {}
  MaxStarts = 1
SPECIFICATION HSpec
PROPERTY DeletesFields
CHECK_DEADLOCK FALSE
