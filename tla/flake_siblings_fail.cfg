SPECIFICATION OneBuildSpec
CONSTANTS
  app = app
  left = left
  right = right
  gen = gen
  pure = pure
  Nil = Nil
  Builder = {left, right}
  Targets <- Siblings
  Deps <- SiblingDeps
  Call = {left, right}
  CallOf <- SiblingCalls
  Untracked = {}
  Listed = {}
  Returns <- NoReturns
  MaxRuns = 2
  MaxEdits = 0
  CanFail = TRUE
  CanCrash = FALSE
  Reverts = FALSE
  Dir = {"top", "lib", "tool"}
  Root = "top"
  Task = {"main", "one", "two"}
  Main = "main"
  None = None
  MaxDepth = 2
  RaiseNested = FALSE
INVARIANTS ValidMeansBuilt
