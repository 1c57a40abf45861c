CONSTANTS
  o1 = o1
  o2 = o2
  v1 = v1
  f1 = f1
  f2 = f2
  f3 = f3
  g1 = g1
  Objects = {o1, o2}
  Passive = {v1}
  Locals = {l1, l2}
  None = None
  Fields <- MCFields
  Owner <- MCOwner
SPECIFICATION FairSpec
INVARIANTS HeapExact AssertsHold
PROPERTIES GcCollectsAll Returns ImplementsHeap
