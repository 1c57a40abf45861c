SPECIFICATION FairSpec
CONSTANTS
  Func = {f, g}
  Timer = {t, u}
  Fd = {d}
  Signal = {s}
  None = None
  Resolve = Resolve
  MaxDelay = 1
  MaxJobs = 1
  MaxPending = 2
CHECK_DEADLOCK FALSE
INVARIANTS HandlersAlive TimersExact SignalsKept
PROPERTIES TimersServed
