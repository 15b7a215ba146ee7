\* An ordinary command next to the update, and the daemon as AgentCommands
\* describes it.
CONSTANTS
  c1 = c1
  c2 = c2
  Commands = {c1, c2}
  Restarting = {}
  NoCommand = NoCommand
  UserCancels = FALSE
  TimeoutWorkerRuns = TRUE
  Faults = {"crash"}
  Updates = {c1}
  MaxBak = 2
  ExecutableIsFollowed = TRUE
  HostFaults = {}
SPECIFICATION HostSpec
INVARIANTS HostTypeOK ExecutableInPlace CompletedUpdateIsInstalled
PROPERTY ImplementsCommands
CHECK_DEADLOCK FALSE
