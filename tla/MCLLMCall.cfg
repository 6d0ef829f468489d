SPECIFICATION CallSpec
CONSTANTS
  Setups <- MCSetups
  Symbols <- MCSymbols
INVARIANTS NothingLost CallsWhole ShownIsAnswered
PROPERTIES StreamAsBatch
CHECK_DEADLOCK FALSE
