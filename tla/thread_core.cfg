SPECIFICATION Spec
CONSTANTS
  m = m
  a = a
  b = b
  k = k
  Task = {m, a, b}
  MainTask = m
  Key = {k}
  None = None
  MaxNow = 1
  TicksPerMs = 2
  MaxAtExits = 1
  SelfKill = FALSE
  BlockInHandler = FALSE
  RaiseInHandler = FALSE
  ShareKey = FALSE
SYMMETRY TaskSymmetry
INVARIANTS TypeOK ScheduledOnce KilledStaysDown ExitsComplete ReturnsWhenStuck
PROPERTIES WakesInOrder
