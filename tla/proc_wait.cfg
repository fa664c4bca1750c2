SPECIFICATION FairSpec
CONSTANTS
  p1 = p1
  p2 = p2
  p3 = p3
  q1 = q1
  q2 = q2
  None = None
  Proc = {p1, p2, p3}
  Pid = {1, 2}
  Queue = {q1}
  SomeExit = 1
  SomeSignal = 15
  Outcome <- Outcomes
  Warm = TRUE
INVARIANTS TypeOK EndIsNoticed OwnPid
PROPERTIES WaiterWoken
