CONSTANTS
  search = search
  submit = submit
  Tools <- MCTools
  Configs <- MCConfigs
SPECIFICATION FairSpec
INVARIANTS RetryBound
PROPERTIES RunEnds ImplementsLifecycle ImplementsExchange
CHECK_DEADLOCK FALSE
