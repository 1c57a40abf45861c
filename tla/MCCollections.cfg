SPECIFICATION MCSpec
CONSTANTS
  Key = {a, b}
  Iter = {i, j}
  MaxRecords = 3
  MaxDepth = 1
  o1 = o1
  o2 = o2
  m1 = m1
  m2 = m2
  f1 = f1
  l1 = l1
  l2 = l2
  None = None
  Objects <- MCObjects
  Passive = {}
  Fields <- MCFields
  Locals <- MCLocals
  MaxEntries = 2
  Maps <- MCMaps
  Owner <- MCOwner
SYMMETRY Symmetry
CHECK_DEADLOCK FALSE
INVARIANTS TableExact StaleOnlyByFinalizer WeakRefsExact
PROPERTIES ImplementsMap EntriesKept
