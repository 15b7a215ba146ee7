\* Two schedules that back up the same paths to one repository, nothing failing: one
\* forgets by its own policy what the other has stored.
CONSTANTS
  s1 = s1
  s2 = s2
  x1 = x1
  x2 = x2
  home = home
  etc = etc
  Schedules = {s1, s2}
  NumRepos = 1
  MaxRetries = 1
  Runs = {x1, x2}
  Paths <- SamePaths
  Retention <- MCRetention
  StoreLoadsRepositories = TRUE
  AdminActions = {}
  Faults = {}
SPECIFICATION Spec
INVARIANT OwnSnapshotIsKept
SYMMETRY Symmetry
