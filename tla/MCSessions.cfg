SPECIFICATION Spec
CONSTANTS
  None = None
  Torn = Torn
  Sids = {"a", "unsafe"}
  FileOf <- MCFileOf
  Slots = {1, 2}
  Users = {"u1", "u2"}
  Facts <- MCFacts
  ScopeOf <- MCScopeOf
  Items = {"i", "j"}
  Complexities = {"simple", "moderate", "complex"}
  Setups <- MCSetups
  Start <- MCStart
INVARIANTS TurnsWhole Durable RecallOwn LessonsLatest
CHECK_DEADLOCK FALSE
