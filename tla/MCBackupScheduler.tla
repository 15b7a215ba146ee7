-------------------------- MODULE MCBackupScheduler --------------------------
(* Small instances of BackupScheduler.                                       *)
EXTENDS BackupScheduler, TLC

CONSTANTS s1, s2, x1, x2, home, etc

\* The second schedule keeps nothing by its policy and backs up the same paths.
MCRetention == [s \in Schedules |-> IF s = s1 THEN "keep" ELSE "empty"]

MCRetentionEmpty == [s \in Schedules |-> "empty"]

SamePaths == [s \in Schedules |-> home]

OwnPaths == [s \in Schedules |-> IF s = s1 THEN home ELSE etc]

Symmetry == Permutations(Runs)
=============================================================================
