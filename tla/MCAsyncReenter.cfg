SPECIFICATION GeneratorSpec
CONSTANTS
  MaxRequests = 4
  MaxAwaits = 3
CHECK_DEADLOCK FALSE
INVARIANTS AwaitedExecuting
