SPECIFICATION MCFairSpec
CONSTANTS
  w1 = w1
  w2 = w2
  Parent = Parent
  Worker = {w1, w2}
  Sab = {}
  None = None
  MaxQueue = 1
  MaxRefs = 1
CHECK_DEADLOCK FALSE
PROPERTIES Delivered
