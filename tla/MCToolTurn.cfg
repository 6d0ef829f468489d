CONSTANTS
  read = read
  write = write
  a = a
  b = b
  Names <- MCNames
  Args <- MCArgs
  Setups <- MCSetups
  MaxTurns = 2
  MaxBatch = 2
  Sizes = {2}
SPECIFICATION FairSpec
INVARIANTS ApprovedAsRun GuardsHold StreakTold
PROPERTIES TurnEnds ImplementsExchange
CHECK_DEADLOCK FALSE
