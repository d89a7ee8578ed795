\* Three cards of each kind, so that a response can be two requests late and
\* still find a card to evaluate; cards that expire at the clock's one tick.
CONSTANTS
  ValueRange = 2
  Amounts = {1}
  CARD_VALUE = 1
  MaxCards = 3
  MaxServers = 1
  NULL = NULL
  MONTH_SECONDS = 0
  MaxTime = 1
  UhceFaults = {"timeout", "loss", "storage", "kill"}
SPECIFICATION Spec
VIEW MCView
INVARIANT TypeOK
INVARIANT DifferencesCounted
PROPERTY EvaluationEnds
CHECK_DEADLOCK FALSE
