\* An agent goes silent, comes back, falls ill and recovers; requests overlap and
\* everything may fail.
CONSTANTS
  a1 = a1
  a2 = a2
  Agents = {a1}
  MaxRequests = 2
  Faults = {"update_error", "alert_error", "crash"}
SPECIFICATION FairSpec
INVARIANTS TypeOK OneOfflineAlert RecoveredIsNotOffline
PROPERTY OverdueIsAlerted
