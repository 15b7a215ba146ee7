\* Every fault but a server that skips backups; the ticker's sync, one started on
\* reconnection and a result being recorded work on the same entry.
CONSTANTS
  Backups = {b1}
  Loop = loop
  Reconnects = {s1}
  Recorders = {r1}
  MaxQueueSize = 1
  MaxRetries = 3
  Faults = {"down", "lost", "store_error", "crash"}
SPECIFICATION FairSpec
INVARIANTS TypeOK RetryBudget SyncedIsRecorded SyncingIsInFlight
PROPERTY QueuedSettle
CHECK_DEADLOCK FALSE
