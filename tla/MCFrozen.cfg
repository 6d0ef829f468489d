SPECIFICATION FrozenSpec
CONSTANTS
  Workflows <- MCWorkflows
  MaxDepth = 4
  MaxFrames = 14
INVARIANTS DepthIsNesting WaysExhausted
PROPERTIES ImplementsTaskGraph
CHECK_DEADLOCK FALSE
