SPECIFICATION Spec
CONSTANT Setups <- MCSetups
INVARIANTS InBudget ContentStops PriorFirst
CHECK_DEADLOCK FALSE
