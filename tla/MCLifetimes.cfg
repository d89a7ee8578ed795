\* The programs share one device: every fault, killed at any point.
SPECIFICATION Spec
CONSTANTS
  p1 = p1
  p2 = p2
  n = n
  t = t
  NULL = NULL
  Programs <- MCPrograms
  Kind <- MCKind
  Faults = {"open", "storage", "kill"}
CHECK_DEADLOCK FALSE
INVARIANT TypeOK
INVARIANT ContextUndisturbed
INVARIANT CardsKept
PROPERTY EndsSaved
