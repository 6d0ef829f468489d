SPECIFICATION Spec
CONSTANTS
  Setups <- MCSetups
  MaxRuns = 2
  MaxTurns = 2
INVARIANTS EndsKept PairsUntruncated
PROPERTIES PastGrows
CHECK_DEADLOCK FALSE
