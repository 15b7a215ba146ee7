\* One heartbeat of the loop brings no token.
CONSTANTS
  Admins = {a1}
  Boot = boot
  Heart = heart
  Loops = {l1, l2}
  HeartbeatInterval = 1
  ValidationInterval = 1
  TokenValidity = 2
  GracePeriod = 1
  MaxLatency = 0
  MaxMissed = 1
  Requests = {}
  Faults = {"unreachable"}
SPECIFICATION Spec
INVARIANT OneMissedIsAllowed
