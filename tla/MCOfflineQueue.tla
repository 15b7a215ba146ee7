--------------------------- MODULE MCOfflineQueue ---------------------------
(* Instances of OfflineQueue. *)
EXTENDS OfflineQueue, TLC

Symmetry == Permutations(Backups) \cup Permutations(Reconnects)
=============================================================================
