SPECIFICATION LoadSpec
CONSTANTS
  Name = {a, b, c}
  Unresolved = Unresolved
  MaxLoads = 3
  MaxChanges = 2
SYMMETRY Symmetry
CHECK_DEADLOCK FALSE
INVARIANTS ListExact RequestsAliveWithoutCycles
