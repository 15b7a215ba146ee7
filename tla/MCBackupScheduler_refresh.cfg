\* One run at a time while its schedule is edited, toggled and deleted and
\* everything may fail; a retention policy that keeps nothing.
CONSTANTS
  s1 = s1
  s2 = s2
  x1 = x1
  x2 = x2
  home = home
  etc = etc
  Schedules = {s1}
  NumRepos = 1
  MaxRetries = 3
  Runs = {x1}
  Paths <- SamePaths
  Retention <- MCRetentionEmpty
  StoreLoadsRepositories = TRUE
  AdminActions = {"toggle", "edit", "delete"}
  Faults = {"create_error", "update_error", "crash"}
SPECIFICATION FairSpec
INVARIANTS TypeOK RecordedAsItEnded RunningIsProcessed FailureIsReported
PROPERTIES RunsEnd EntriesFollowSchedules
