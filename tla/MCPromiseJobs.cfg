SPECIFICATION Spec
CONSTANTS
  Made = 2
  MaxOps = 3
  MaxItems = 2
  Bound = 20
CHECK_DEADLOCK FALSE
INVARIANTS SettlesExact NothingForgotten ResumesOnce CombinatorsExact
PROPERTIES ImplementsPromise
