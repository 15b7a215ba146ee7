\* The scheduler over the server's own store, nothing changed and nothing failing.
CONSTANTS
  s1 = s1
  s2 = s2
  x1 = x1
  x2 = x2
  home = home
  etc = etc
  Schedules = {s1}
  NumRepos = 1
  MaxRetries = 3
  Runs = {x1, x2}
  Paths <- SamePaths
  Retention <- MCRetention
  StoreLoadsRepositories = FALSE
  AdminActions = {}
  Faults = {}
SPECIFICATION Spec
INVARIANT ConfiguredRepositoriesAreUsed
