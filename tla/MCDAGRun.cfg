SPECIFICATION Spec
CONSTANTS
  a = a
  b = b
  c = c
  Names = {a, b, c}
  Ids <- MCIds
  Workflows <- MCWorkflows
  Default = a
  Configs <- MCConfigs
  Graphs <- MCGraphs
  Hosts = {"api", "planner"}
  NodeQueue = 1
  OuterQueue = 2
  MaxEvents <- MCMaxEvents
INVARIANTS FollowsSource EventsBracketed ApiStreamToTheEnd
PROPERTIES ImplementsTaskGraph
CHECK_DEADLOCK FALSE
