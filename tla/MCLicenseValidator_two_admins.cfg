\* Two administrators deactivate and enter a key at the same time; nothing fails.
CONSTANTS
  Admins = {a1, a2}
  Boot = boot
  Heart = heart
  Loops = {l1, l2, l3}
  HeartbeatInterval = 1
  ValidationInterval = 1
  TokenValidity = 2
  GracePeriod = 1
  MaxLatency = 0
  MaxMissed = 0
  Requests = {"set", "deactivate"}
  Faults = {}
SPECIFICATION Spec
INVARIANT SomeoneValidates
