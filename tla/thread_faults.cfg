SPECIFICATION Spec
CONSTANTS
  m = m
  a = a
  k = k
  Task = {m, a}
  MainTask = m
  Key = {k}
  None = None
  MaxNow = 1
  TicksPerMs = 1
  MaxAtExits = 2
  SelfKill = TRUE
  BlockInHandler = TRUE
  RaiseInHandler = TRUE
  ShareKey = TRUE
INVARIANTS ScheduledOnce
