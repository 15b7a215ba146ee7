\* The server skips a backup and still answers OK.
CONSTANTS
  Backups = {b1, b2}
  Loop = loop
  Reconnects = {s1}
  Recorders = {}
  MaxQueueSize = 2
  MaxRetries = 2
  Faults = {"reject"}
SPECIFICATION Spec
INVARIANT SyncedIsRecorded
CHECK_DEADLOCK FALSE
