\* Progress of one command without a timeout worker.
CONSTANTS
  c1 = c1
  c2 = c2
  Commands = {c1}
  Restarting = {}
  NoCommand = NoCommand
  UserCancels = FALSE
  TimeoutWorkerRuns = FALSE
  Faults = {"lost"}
SPECIFICATION FairSpec
PROPERTY CommandsSettle
CHECK_DEADLOCK FALSE
