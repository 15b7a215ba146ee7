\* Counterexample: an update of the other process has moved the backup.
CONSTANTS
  c1 = c1
  c2 = c2
  Commands = {c1}
  Restarting = {}
  NoCommand = NoCommand
  UserCancels = FALSE
  TimeoutWorkerRuns = TRUE
  Faults = {}
  Updates = {c1}
  MaxBak = 2
  ExecutableIsFollowed = TRUE
  HostFaults = {"rename_error"}
SPECIFICATION HostSpec
INVARIANT UndoFindsBackup
CHECK_DEADLOCK FALSE
