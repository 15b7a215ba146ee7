\* The key is removed while the answer to a validation is under way; nothing fails.
CONSTANTS
  Admins = {a1}
  Boot = boot
  Heart = heart
  Loops = {l1, l2}
  HeartbeatInterval = 1
  ValidationInterval = 1
  TokenValidity = 2
  GracePeriod = 1
  MaxLatency = 0
  MaxMissed = 0
  Requests = {"set", "deactivate"}
  Faults = {}
SPECIFICATION Spec
INVARIANT RemovedIsFree
