\* The same faults over batches of two entries and a queue that can be full, with
\* no result recorded.
CONSTANTS
  Backups = {b1, b2}
  Loop = loop
  Reconnects = {s1}
  Recorders = {}
  MaxQueueSize = 1
  MaxRetries = 2
  Faults = {"down", "lost", "store_error", "crash"}
SPECIFICATION FairSpec
INVARIANTS TypeOK RetryBudget SyncedIsRecorded SyncingIsInFlight
PROPERTIES QueuedSettle ImplementsChannel
CHECK_DEADLOCK FALSE
