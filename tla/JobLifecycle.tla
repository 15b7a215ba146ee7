---------------------------- MODULE JobLifecycle ----------------------------
(***************************************************************************)
(* What the job queue promises about a job, whoever holds copies of its    *)
(* row: it waits, one worker works on it, and the outcome is a success, a  *)
(* counted failure, or a loss that leaves it where it is.  JobQueue        *)
(* implements this for one retry processor and no administrative requests. *)
(***************************************************************************)
EXTENDS Naturals

CONSTANTS Jobs, MaxRetries

VARIABLES
  phase,     \* where a job is in its life
  failures   \* its recorded failures

vars == <<phase, failures>>

Init ==
  /\ phase = [j \in Jobs |-> "none"]
  /\ failures = [j \in Jobs |-> 0]

Submit(j) ==
  /\ phase[j] = "none"
  /\ phase' = [phase EXCEPT ![j] = "queued"]
  /\ UNCHANGED failures

\* Waiting for the back-off to elapse is waiting, too.
Begin(j) ==
  /\ phase[j] = "queued"
  /\ failures[j] < MaxRetries
  /\ phase' = [phase EXCEPT ![j] = "working"]
  /\ UNCHANGED failures

Succeed(j) ==
  /\ phase[j] = "working"
  /\ phase' = [phase EXCEPT ![j] = "done"]
  /\ UNCHANGED failures

Fail(j) ==
  /\ phase[j] = "working"
  /\ failures' = [failures EXCEPT ![j] = @ + 1]
  /\ phase' = [phase EXCEPT ![j] =
                 IF failures[j] + 1 = MaxRetries THEN "dead" ELSE "queued"]

\* A crash loses what every worker was doing, a failed write what one did.
Lose ==
  \E lost \in SUBSET {j \in Jobs : phase[j] = "working"} :
    /\ phase' = [j \in Jobs |-> IF j \in lost THEN "lost" ELSE phase[j]]
    /\ UNCHANGED failures

CleanUp ==
  \E old \in SUBSET {j \in Jobs : phase[j] \in {"done", "dead"}} :
    /\ phase' = [j \in Jobs |-> IF j \in old THEN "gone" ELSE phase[j]]
    /\ UNCHANGED failures

Next ==
  \/ \E j \in Jobs : Submit(j) \/ Begin(j) \/ Succeed(j) \/ Fail(j)
  \/ Lose
  \/ CleanUp

Spec == Init /\ [][Next]_vars
=============================================================================
