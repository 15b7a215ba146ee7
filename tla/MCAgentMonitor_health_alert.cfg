\* An agent falls ill: the lookup that finds no alert ends in an error, and no alert
\* is created.
CONSTANTS
  a1 = a1
  a2 = a2
  Agents = {a1}
  MaxRequests = 1
  Faults = {}
SPECIFICATION Spec
INVARIANT UnhealthyIsAlerted
