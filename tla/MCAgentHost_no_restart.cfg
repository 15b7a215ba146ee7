\* Counterexample on Linux: the restart after an update finds no executable and
\* the daemon goes on with the old version.
CONSTANTS
  c1 = c1
  c2 = c2
  Commands = {c1}
  Restarting = {}
  NoCommand = NoCommand
  UserCancels = FALSE
  TimeoutWorkerRuns = TRUE
  Faults = {}
  Updates = {c1}
  MaxBak = 2
  ExecutableIsFollowed = TRUE
  HostFaults = {}
SPECIFICATION FairHostSpec
PROPERTY UpdateTakesEffect
CHECK_DEADLOCK FALSE
