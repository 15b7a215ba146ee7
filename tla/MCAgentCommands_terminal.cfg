\* A cancel races a result report.
CONSTANTS
  c1 = c1
  c2 = c2
  Commands = {c1}
  Restarting = {}
  NoCommand = NoCommand
  UserCancels = TRUE
  TimeoutWorkerRuns = FALSE
  Faults = {}
SPECIFICATION Spec
PROPERTY TerminalIsFinal
CHECK_DEADLOCK FALSE
