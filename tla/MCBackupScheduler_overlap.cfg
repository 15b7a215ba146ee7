\* Two overlapping runs on two repositories, of one schedule or of two that back up the
\* same paths; every write may fail.
CONSTANTS
  s1 = s1
  s2 = s2
  x1 = x1
  x2 = x2
  home = home
  etc = etc
  Schedules = {s1, s2}
  NumRepos = 2
  MaxRetries = 1
  Runs = {x1, x2}
  Paths <- SamePaths
  Retention <- MCRetention
  StoreLoadsRepositories = TRUE
  AdminActions = {}
  Faults = {"create_error", "update_error"}
SPECIFICATION Spec
INVARIANTS FailoverInOrder CompletedIsRestorable SyncedTargetHoldsSnapshot
SYMMETRY Symmetry
