SPECIFICATION MCFairSpec
CONSTANTS
  a = a
  b = b
  c = c
  Module <- MCModule
  None = None
  MaxImports = 3
CHECK_DEADLOCK FALSE
INVARIANTS AssertsHold RunsInOrder OutcomesTruthful LinkedTogether
PROPERTIES SettlesUnlessStale
