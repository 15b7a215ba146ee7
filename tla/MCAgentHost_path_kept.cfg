\* Where os.Executable keeps the path the process was started with (macOS).
CONSTANTS
  c1 = c1
  c2 = c2
  Commands = {c1}
  Restarting = {}
  NoCommand = NoCommand
  UserCancels = TRUE
  TimeoutWorkerRuns = TRUE
  Faults = {"lost", "write_error", "crash"}
  Updates = {c1}
  MaxBak = 2
  ExecutableIsFollowed = FALSE
  HostFaults = {"rename_error", "kill"}
SPECIFICATION HostSpec
INVARIANTS HostTypeOK ExecutableInPlace CompletedUpdateIsInstalled
CHECK_DEADLOCK FALSE
