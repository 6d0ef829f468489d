SPECIFICATION ForgeSpec
CONSTANTS
  Unset = Unset
  ScalarSpecs <- MCScalarSpecs
  GuardNames = {"content", "pii"}
  CriterionNames <- MCCriterionNames
  Impls = {"threshold"}
  Proposals <- MCProposals
  Lines = {"cite sources"}
  RunEndings <- MCRunEndings
  DevScores = {1, 2, 3}
  SecScores = {1, 2}
  Setups <- MCSetups
  MaxSteps = 3
INVARIANTS HeldoutNeverFalls LogReplays
CHECK_DEADLOCK FALSE
