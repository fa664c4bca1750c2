SPECIFICATION RuntimeSpec
CONSTANTS
  A = A
  B = B
  Coroutines = {A, B}
  MainThread = "main"
  Functions <- AllFunctions
  LUAI_MAXCCALLS = 4
  ErrorCCalls = 2
  MaxFrames = 5
  ResumesNormal = FALSE
  Ints <- SomeInts
  Strs = {"p", "q"}
  Hash <- SomeHash
  Values <- SomeValues
  Sizes = {0, 2}
SYMMETRY Symm
INVARIANTS StateRestored
PROPERTIES ImplementsMap ImplementsCoroutines
