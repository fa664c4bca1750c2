SPECIFICATION BuildsSpec
CONSTANTS
  app = app
  left = left
  right = right
  gen = gen
  pure = pure
  Nil = Nil
  Builder = {app, left, right, gen}
  Targets <- GenAndApp
  Deps <- DiamondDeps
  Call = {app, left, right, gen}
  CallOf <- DiamondCalls
  Untracked = {}
  Listed = {gen}
  Returns <- NoReturns
  MaxRuns = 4
  MaxEdits = 3
  CanFail = FALSE
  CanCrash = FALSE
  Reverts = TRUE
  Dir = {"top", "lib", "tool"}
  Root = "top"
  Task = {"main", "one", "two"}
  Main = "main"
  None = None
  MaxDepth = 2
  RaiseNested = FALSE
INVARIANTS ValidMeansBuilt SuccessIsComplete NothingRecomputed OutputExclusive
  ChainKept DirectoriesKept
PROPERTIES RunsEnd
