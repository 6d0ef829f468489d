CONSTANTS
  Slots = {s1, s2}
  Collections = {c}
  Questions = {q}
  Texts = {small, large}
  Large = {large}
  Summary = summary
  Notes = {n1, n2}
  Ranks = {0, 1}
  Scores = {0, 1}
  RecallCap = 1
  TopK = 1
  SubTurns = 2
  MaxCalls = 4
  MaxTurn = 1
  Modes = {"progressive", "eager", "auto"}
SPECIFICATION Spec
INVARIANTS RecallWhole
PROPERTIES KeepsImportant
CHECK_DEADLOCK FALSE
