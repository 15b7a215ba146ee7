\* The license server goes away and the key expires.
CONSTANTS
  Admins = {}
  Boot = boot
  Heart = heart
  Loops = {l1, l2}
  HeartbeatInterval = 1
  ValidationInterval = 1
  TokenValidity = 2
  GracePeriod = 4
  MaxLatency = 0
  MaxMissed = 9
  Requests = {}
  Faults = {"unreachable"}
SPECIFICATION Spec
INVARIANT FeaturesContinueInGrace
