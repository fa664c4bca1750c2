SPECIFICATION Spec
CONSTANTS
  BLOCK = 4
  COUNT = 2
  W = 4
  BYTE = 2
  Longest = 9
INVARIANTS StringImmutable
CHECK_DEADLOCK FALSE
