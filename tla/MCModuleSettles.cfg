SPECIFICATION MCFairSpec
CONSTANTS
  a = a
  b = b
  c = c
  Module <- MCModule
  None = None
  MaxImports = 2
CHECK_DEADLOCK FALSE
PROPERTIES Settles
