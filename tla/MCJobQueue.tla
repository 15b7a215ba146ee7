----------------------------- MODULE MCJobQueue -----------------------------
(* Small instances of JobQueue: j1 outranks the others, j3 has no handler.  *)
EXTENDS JobQueue, TLC

CONSTANTS j1, j2, j3

MCPriority == [j \in Jobs |-> IF j = j1 THEN 1 ELSE 0]

MCHandled == Jobs \ {j3}

Symmetry ==
  Permutations(Workers) \cup Permutations(RetryProcs) \cup Permutations(Requests)
=============================================================================
