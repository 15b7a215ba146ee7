\* Everything that can go wrong, at once, and progress with a timeout worker.
CONSTANTS
  c1 = c1
  c2 = c2
  Commands = {c1, c2}
  Restarting = {c2}
  NoCommand = NoCommand
  UserCancels = TRUE
  TimeoutWorkerRuns = TRUE
  Faults = {"lost", "write_error", "crash"}
SPECIFICATION FairSpec
INVARIANTS TypeOK ExecutedAtMostOnce ResultsFollowAck CompletedWasExecuted
PROPERTY CommandsSettle
CHECK_DEADLOCK FALSE
