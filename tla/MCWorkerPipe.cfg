SPECIFICATION Spec
CONSTANTS
  Parent = Parent
  Worker = {w1}
  Sab = {s1, s2}
  None = None
  MaxQueue = 2
  MaxRefs = 2
CHECK_DEADLOCK FALSE
INVARIANTS WakesExact PipesExact SabExact
