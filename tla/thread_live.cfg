SPECIFICATION FairSpec
CONSTANTS
  m = m
  a = a
  b = b
  k = k
  Task = {m, a}
  MainTask = m
  Key = {k}
  None = None
  MaxNow = 3
  TicksPerMs = 2
  MaxAtExits = 0
  SelfKill = FALSE
  BlockInHandler = FALSE
  RaiseInHandler = FALSE
  ShareKey = FALSE
PROPERTIES ReadyRuns SleeperWakes JoinerReleased
