\* The daemon updates itself while an administrator does, and everything may fail.
CONSTANTS
  c1 = c1
  c2 = c2
  Commands = {c1}
  Restarting = {}
  NoCommand = NoCommand
  UserCancels = TRUE
  TimeoutWorkerRuns = TRUE
  Faults = {"lost", "write_error", "crash"}
  Updates = {c1}
  MaxBak = 2
  ExecutableIsFollowed = TRUE
  HostFaults = {"rename_error", "kill"}
SPECIFICATION HostSpec
INVARIANTS ExecutableInPlace CompletedUpdateIsInstalled
CHECK_DEADLOCK FALSE
