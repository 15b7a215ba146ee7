------------------------ MODULE BackupSchedulerProofs ------------------------
(***************************************************************************)
(* Theorems about BackupScheduler, for any number of schedules,            *)
(* repositories, attempts and overlapping runs and any faults.             *)
(***************************************************************************)
EXTENDS BackupScheduler, WellFoundedInduction, TLAPS

\* A set of repositories has a first one: the natural numbers are well ordered.
LEMMA FirstIsLeast ==
  ASSUME NEW R \in SUBSET Nat, R # {}
  PROVE  First(R) \in R /\ \A q \in R : First(R) <= q
<1>1. PICK x \in R : \A y \in R : ~ (<<y, x>> \in OpToRel(<, Nat))
  BY NatLessThanWellFounded, WFMin
<1>2. \A y \in R : <<y, x>> \in OpToRel(<, Nat) <=> y < x
  BY DEF OpToRel
<1>3. ASSUME NEW y \in R PROVE x <= y
  <2>1. ~ (y < x)
    BY <1>1, <1>2
  <2>2. x \in Nat /\ y \in Nat
    OBVIOUS
  <2> QED
    BY <2>1, <2>2
<1> QED
  BY <1>3 DEF First

AllStages == {"unborn"} \cup Stages \cup Ended

Statuses == {"none", "running", "completed", "failed"}

LEMMA FirstRepo ==
  ASSUME NEW R \in SUBSET Repos, R # {}
  PROVE  /\ First(R) \in R /\ First(R) \in Repos /\ First(R) \in 0 .. NumRepos
         /\ \A q \in R : First(R) <= q
<1>1. Repos \subseteq Nat /\ Repos \subseteq 0 .. NumRepos
  BY SchedulerAssumption DEF Repos
<1> QED
  BY <1>1, FirstIsLeast

LEMMA RunFields ==
  ASSUME NEW run \in Run
  PROVE  /\ run.schedule \in Schedules /\ run.repos \subseteq Repos /\ run.stage \in AllStages
         /\ run.repo \in 0 .. NumRepos /\ run.attempt \in 1 .. MaxRetries
         /\ run.has_last \in BOOLEAN /\ run.targets \subseteq Repos
         /\ run.status \in ReplicationStatus /\ run.reported \in BOOLEAN
BY DEF Run, AllStages

\* A run that goes on to a stage keeps everything else.
LEMMA StageSet ==
  ASSUME NEW run \in Run, NEW stage \in AllStages
  PROVE  LET new == [run EXCEPT !.stage = stage]
         IN  /\ new \in Run /\ new.stage = stage
             /\ new.schedule = run.schedule /\ new.repos = run.repos
             /\ new.repo = run.repo /\ new.attempt = run.attempt
             /\ new.targets = run.targets /\ new.status = run.status
BY DEF Run, AllStages

\* The attempt after one of run: on the same repository, or after the last attempt
\* there the first on the next repository, or none.
Follows(new, run) ==
  \/ /\ new.stage = "creating" /\ new.repo = run.repo /\ run.attempt < MaxRetries
     /\ new.attempt = run.attempt + 1
  \/ /\ new.stage = "creating" /\ run.attempt = MaxRetries /\ new.attempt = 1
     /\ new.repo > run.repo /\ \A r \in run.repos : r > run.repo => new.repo <= r
  \/ /\ new.stage = "exhausted" /\ run.attempt = MaxRetries /\ new.attempt = run.attempt
     /\ new.repo = run.repo /\ \A r \in run.repos : r <= run.repo

\* After a failed attempt a run has another one to make or is exhausted.
LEMMA Continued ==
  ASSUME NEW run \in Run, NEW has_last \in BOOLEAN
  PROVE  LET new == AfterFailure(run, has_last)
         IN  /\ new \in Run
             /\ new.schedule = run.schedule /\ new.repos = run.repos
             /\ new.targets = run.targets /\ new.status = run.status
             /\ new.stage \in {"creating", "exhausted"}
             /\ new.repo = run.repo \/ new.repo \in run.repos
             /\ new.has_last = has_last /\ Follows(new, run)
<1> DEFINE failed == [run EXCEPT !.stage = "creating", !.has_last = has_last]
           rest   == {r \in run.repos : r > run.repo}
           again  == [failed EXCEPT !.attempt = @ + 1]
           other  == [failed EXCEPT !.repo = First(rest), !.attempt = 1]
           none   == [failed EXCEPT !.stage = "exhausted"]
<1>a. MaxRetries \in Nat \ {0}
  BY SchedulerAssumption
<1>b. run.attempt \in 1 .. MaxRetries /\ run.repos \subseteq Repos /\ run.repo \in 0 .. NumRepos
  BY RunFields
<1>c. run.repo \in Nat /\ run.repos \subseteq Nat
  BY <1>b, SchedulerAssumption DEF Repos
<1>1. /\ failed \in Run
      /\ failed.schedule = run.schedule /\ failed.repos = run.repos
      /\ failed.targets = run.targets /\ failed.status = run.status
      /\ failed.stage = "creating" /\ failed.repo = run.repo /\ failed.attempt = run.attempt
      /\ failed.has_last = has_last
  BY DEF Run, Stages
<1>2. CASE run.attempt < MaxRetries
  <2>1. AfterFailure(run, has_last) = again
    BY <1>2, <1>a, <1>b DEF AfterFailure, Continue
  <2>2. failed.attempt + 1 \in 1 .. MaxRetries
    BY <1>1, <1>2, <1>a, <1>b
  <2> HIDE DEF failed
  <2>3. /\ again \in Run
        /\ again.schedule = failed.schedule /\ again.repos = failed.repos
        /\ again.targets = failed.targets /\ again.status = failed.status
        /\ again.stage = failed.stage /\ again.repo = failed.repo
        /\ again.attempt = failed.attempt + 1 /\ again.has_last = failed.has_last
    BY <2>2, <1>1 DEF Run
  <2> HIDE DEF again
  <2> QED
    BY <2>1, <2>3, <1>1, <1>2 DEF Follows
<1>3. CASE ~ (run.attempt < MaxRetries) /\ rest # {}
  <2>1. AfterFailure(run, has_last) = other
    BY <1>3, <1>a, <1>b DEF AfterFailure, Continue
  <2>2. First(rest) \in run.repos /\ First(rest) \in 0 .. NumRepos
    BY <1>3, <1>b, FirstRepo
  <2>3. 1 \in 1 .. MaxRetries
    BY <1>a
  <2>4. PICK f : f = First(rest)
    OBVIOUS
  <2>5. other = [failed EXCEPT !.repo = f, !.attempt = 1]
    BY <2>4
  <2>7. f > run.repo /\ \A r \in rest : f <= r
    <3>1. rest # {} /\ rest \subseteq Repos
      BY <1>3, <1>b
    <3>2. f \in rest /\ \A r \in rest : f <= r
      BY <3>1, <2>4, FirstRepo
    <3> QED
      BY <3>2
  <2>8. run.attempt = MaxRetries
    BY <1>3, <1>a, <1>b
  <2>9. \A r \in run.repos : r > run.repo => f <= r
    BY <2>7
  <2> HIDE DEF failed, rest, other
  <2>6. /\ other \in Run
        /\ other.schedule = failed.schedule /\ other.repos = failed.repos
        /\ other.targets = failed.targets /\ other.status = failed.status
        /\ other.stage = failed.stage /\ other.repo = f
        /\ other.attempt = 1 /\ other.has_last = failed.has_last
    BY <2>2, <2>3, <2>4, <2>5, <1>1 DEF Run
  <2> QED
    BY <2>1, <2>2, <2>4, <2>6, <2>7, <2>8, <2>9, <1>1 DEF Follows
<1>4. CASE ~ (run.attempt < MaxRetries) /\ rest = {}
  <2>1. AfterFailure(run, has_last) = none
    BY <1>4, <1>a, <1>b DEF AfterFailure, Continue
  <2> HIDE DEF failed
  <2>2. /\ none \in Run
        /\ none.schedule = failed.schedule /\ none.repos = failed.repos
        /\ none.targets = failed.targets /\ none.status = failed.status
        /\ none.stage = "exhausted" /\ none.repo = failed.repo
        /\ none.attempt = failed.attempt /\ none.has_last = failed.has_last
    BY <1>1 DEF Run, Stages
  <2>3. run.attempt = MaxRetries /\ \A r \in run.repos : r <= run.repo
    BY <1>4, <1>a, <1>b, <1>c
  <2> HIDE DEF none
  <2> QED
    BY <2>1, <2>2, <2>3, <1>1 DEF Follows
<1> QED
  BY <1>2, <1>3, <1>4

LEMMA CurrentBackup ==
  ASSUME TypeOK, NEW x \in Runs
  PROVE  /\ Current(x) \in Backups
         /\ Current(x)[1] = x /\ Current(x)[2] = runs[x].repo /\ Current(x)[3] = runs[x].attempt
<1>1. runs[x].repo \in 0 .. NumRepos /\ runs[x].attempt \in 1 .. MaxRetries
  BY RunFields DEF TypeOK
<1> QED
  BY <1>1 DEF Current, Backups

LEMMA BackupParts ==
  ASSUME NEW b \in Backups
  PROVE  b[1] \in Runs /\ b[2] \in 0 .. NumRepos /\ b[3] \in 1 .. MaxRetries
         /\ b = <<b[1], b[2], b[3]>>
BY DEF Backups

-----------------------------------------------------------------------------
(* What one step of a run changes.                                         *)

\* Only this run changes; it stays a run of the same schedule.
RunChange(x) ==
  /\ runs' \in [Runs -> Run]
  /\ \A y \in Runs : y # x => runs'[y] = runs[y]
  /\ runs'[x].schedule = runs[x].schedule
  /\ runs'[x].repos = runs[x].repos

Keeps(x) == runs'[x].repo = runs[x].repo /\ runs'[x].attempt = runs[x].attempt

Stays(x) == runs'[x].targets = runs[x].targets /\ runs'[x].status = runs[x].status

LEMMA GoesOn ==
  ASSUME TypeOK, NEW x \in Runs, NEW stage \in AllStages, Goes(x, stage)
  PROVE  RunChange(x) /\ Keeps(x) /\ Stays(x) /\ runs'[x].stage = stage
<1>1. runs[x] \in Run
  BY DEF TypeOK
<1>2. runs' = [runs EXCEPT ![x] = [runs[x] EXCEPT !.stage = stage]]
  BY DEF Goes
<1>3. PICK new : new = [runs[x] EXCEPT !.stage = stage]
  OBVIOUS
<1>4. /\ new \in Run /\ new.stage = stage
      /\ new.schedule = runs[x].schedule /\ new.repos = runs[x].repos
      /\ new.repo = runs[x].repo /\ new.attempt = runs[x].attempt
      /\ new.targets = runs[x].targets /\ new.status = runs[x].status
  BY <1>1, <1>3, StageSet
<1>5. runs' = [runs EXCEPT ![x] = new]
  BY <1>2, <1>3
<1> QED
  BY <1>4, <1>5 DEF RunChange, Keeps, Stays, TypeOK

\* Where a run stands: the repository it works on is one of its own.
OnRepository == {"creating", "backing_up", "exhausted", "saving", "pruning", "retained",
                 "replicating", "copied", "not_copied", "updating", "failed", "done"}

Placed(run) ==
  /\ run.stage \in OnRepository => run.repo \in run.repos
  /\ run.stage = "failing" => run.repo = 0 \/ run.repo \in run.repos
  /\ run.stage \in {"unborn", "starting"} => run.repo = 0
  /\ run.stage \in {"copied", "not_copied", "updating"} => run.targets # {}

PlacedInv == \A x \in Runs : Placed(runs[x])

\* After the backup has been made.
Made == {"saving", "pruning", "retained", "replicating", "copied", "not_copied", "updating", "done"}

\* What a step does to the records, with the stages it leads from and to.
RecordStep(x) ==
  LET from == runs[x].stage
      to   == runs'[x].stage
  IN  \/ /\ <<from, to>> \in {<<"starting", "failing">>, <<"creating", "backing_up">>}
         /\ Keeps(x) /\ UNCHANGED <<succeeded, lost>>
         /\ backups' = [backups EXCEPT ![Current(x)] = "running"]
      \/ /\ from = "starting" /\ to = "aborted" /\ UNCHANGED <<succeeded, lost>>
         /\ backups' = [backups EXCEPT ![Current(x)] = "failed"]
      \/ /\ from \in {"starting", "creating"} /\ UNCHANGED <<backups, succeeded, lost>>
         /\ to \in {"creating", "exhausted", "skipped", "no_repositories", "aborted"}
      \/ /\ from = "backing_up" /\ to = "saving" /\ Keeps(x) /\ UNCHANGED <<backups, lost>>
         /\ succeeded' = succeeded \cup {Current(x)}
      \/ /\ from = "backing_up" /\ to = "failing" /\ Keeps(x)
         /\ UNCHANGED <<backups, succeeded, lost>>
      \/ /\ from = "failing" /\ to \in {"aborted", "creating", "exhausted"}
         /\ Writes(x, "failed") /\ UNCHANGED succeeded
      \/ /\ from \in {"saving", "retained"} /\ to \in {"pruning", "replicating"} /\ Keeps(x)
         /\ Writes(x, "completed") /\ UNCHANGED succeeded
      \/ /\ Keeps(x) /\ UNCHANGED <<backups, succeeded, lost>>
         /\ \/ from = "exhausted" /\ to = "failed"
            \/ /\ from \in Made \ {"saving", "retained", "done"}
               /\ to \in Made \ {"saving", "pruning"}

LEMMA TargetDone ==
  ASSUME TypeOK, NEW x \in Runs, NextTarget(x), runs[x].targets # {}
  PROVE  RunChange(x) /\ Keeps(x) /\ runs'[x].stage = "replicating"
         /\ runs'[x].status = NoStatus
<1>1. runs[x] \in Run
  BY DEF TypeOK
<1>2. NoStatus \in ReplicationStatus
  BY DEF NoStatus, ReplicationStatus
<1> DEFINE left == runs[x].targets \ {First(runs[x].targets)}
<1>3. PICK new : new = [runs[x] EXCEPT !.stage = "replicating", !.targets = left, !.status = NoStatus]
  OBVIOUS
<1>4. left \subseteq Repos
  BY <1>1, RunFields
<1>5. runs' = [runs EXCEPT ![x] = new]
  BY <1>3, <1>1 DEF NextTarget, Run
<1> HIDE DEF left
<1>6. /\ new \in Run /\ new.stage = "replicating" /\ new.status = NoStatus
      /\ new.schedule = runs[x].schedule /\ new.repos = runs[x].repos
      /\ new.repo = runs[x].repo /\ new.attempt = runs[x].attempt
  BY <1>1, <1>2, <1>3, <1>4 DEF Run, Stages
<1> QED
  BY <1>5, <1>6 DEF RunChange, Keeps, TypeOK

LEMMA StepShape ==
  ASSUME TypeOK, PlacedInv, NEW x \in Runs, Step(x)
  PROVE  RunChange(x) /\ RecordStep(x) /\ Placed(runs'[x]) /\ UNCHANGED tables
<1>t. runs[x] \in Run /\ Placed(runs[x]) /\ runs \in [Runs -> Run]
  BY DEF TypeOK, PlacedInv
<1> USE <1>t
<1>g. ASSUME NEW stage \in AllStages, Goes(x, stage)
      PROVE  RunChange(x) /\ Keeps(x) /\ Stays(x) /\ runs'[x].stage = stage
  BY <1>g, GoesOn
<1>d. Stages \cup Ended \subseteq AllStages
  BY DEF AllStages
<1>1. CASE Skip(x)
  BY <1>1, <1>g, <1>d DEF Skip, Ended, RecordStep, Placed, OnRepository
<1>2. CASE MountUnavailable(x)
  <2>1. CASE Goes(x, "failing") /\ backups' = [backups EXCEPT ![Current(x)] = "running"]
    BY <2>1, <1>2, <1>g, <1>d DEF MountUnavailable, Stages, RecordStep, Placed, OnRepository, Keeps
  <2>2. CASE Goes(x, "aborted") /\ UNCHANGED backups
    BY <2>2, <1>2, <1>g, <1>d DEF MountUnavailable, Ended, RecordStep, Placed, OnRepository
  <2> QED
    BY <2>1, <2>2, <1>2 DEF MountUnavailable
<1>3. CASE NoRepositories(x)
  BY <1>3, <1>g, <1>d DEF NoRepositories, Ended, RecordStep, Placed, OnRepository
<1>4. CASE PreScriptFails(x)
  <2>1. PICK new : new = [runs[x] EXCEPT !.stage = "aborted", !.reported = TRUE]
    OBVIOUS
  <2>2. runs' = [runs EXCEPT ![x] = new]
    BY <2>1, <1>4 DEF PreScriptFails
  <2>3. new \in Run /\ new.stage = "aborted" /\ new.schedule = runs[x].schedule
        /\ new.repos = runs[x].repos
    BY <2>1 DEF Run, Ended
  <2>4. RunChange(x) /\ runs'[x].stage = "aborted"
    BY <2>2, <2>3 DEF RunChange
  <2> QED
    BY <2>4, <1>4 DEF PreScriptFails, RecordStep, Placed, OnRepository
<1>5. CASE StartAttempts(x)
  <2>1. PICK f : f = First(runs[x].repos)
    OBVIOUS
  <2>2. f \in runs[x].repos /\ f \in 0 .. NumRepos
    BY <2>1, <1>5, RunFields, FirstRepo DEF StartAttempts
  <2>3. PICK new : new = [runs[x] EXCEPT !.stage = "creating", !.repo = f]
    OBVIOUS
  <2>4. runs' = [runs EXCEPT ![x] = new]
    BY <2>1, <2>3, <1>5 DEF StartAttempts
  <2>5. new \in Run /\ new.stage = "creating" /\ new.schedule = runs[x].schedule
        /\ new.repos = runs[x].repos /\ new.repo = f
    BY <2>2, <2>3 DEF Run, Stages
  <2>6. RunChange(x) /\ runs'[x].stage = "creating" /\ runs'[x].repo = f
    BY <2>4, <2>5 DEF RunChange
  <2> QED
    BY <2>6, <2>2, <1>5 DEF StartAttempts, RecordStep, Placed, OnRepository, RunChange
<1>6. CASE CreateBackup(x)
  <2>1. CASE Goes(x, "backing_up") /\ backups' = [backups EXCEPT ![Current(x)] = "running"]
    BY <2>1, <1>6, <1>g, <1>d DEF CreateBackup, Stages, RecordStep, Placed, OnRepository, Keeps, RunChange
  <2>2. CASE runs' = [runs EXCEPT ![x] = AfterFailure(@, FALSE)] /\ UNCHANGED backups
    <3>1. PICK new : new = AfterFailure(runs[x], FALSE)
      OBVIOUS
    <3>2. /\ new \in Run /\ new.schedule = runs[x].schedule /\ new.repos = runs[x].repos
          /\ new.stage \in {"creating", "exhausted"}
          /\ new.repo = runs[x].repo \/ new.repo \in runs[x].repos
      BY <3>1, Continued
    <3>3. RunChange(x) /\ runs'[x] = new
      BY <2>2, <3>1, <3>2 DEF RunChange
    <3> QED
      BY <2>2, <3>2, <3>3, <1>6 DEF CreateBackup, RecordStep, Placed, OnRepository
  <2> QED
    BY <2>1, <2>2, <1>6 DEF CreateBackup
<1>7. CASE BackupFails(x)
  BY <1>7, <1>g, <1>d DEF BackupFails, Stages, RecordStep, Placed, OnRepository, Keeps, RunChange
<1>8. CASE BackupSucceeds(x)
  BY <1>8, <1>g, <1>d DEF BackupSucceeds, Stages, RecordStep, Placed, OnRepository, Keeps, RunChange
<1>9. CASE FailBackup(x)
  <2>1. CASE Goes(x, "aborted")
    BY <2>1, <1>9, <1>g, <1>d DEF FailBackup, Ended, RecordStep, Placed, OnRepository
  <2>2. CASE runs[x].repo # 0 /\ runs' = [runs EXCEPT ![x] = AfterFailure(@, TRUE)]
    <3>1. PICK new : new = AfterFailure(runs[x], TRUE)
      OBVIOUS
    <3>2. /\ new \in Run /\ new.schedule = runs[x].schedule /\ new.repos = runs[x].repos
          /\ new.stage \in {"creating", "exhausted"}
          /\ new.repo = runs[x].repo \/ new.repo \in runs[x].repos
      BY <3>1, Continued
    <3>3. RunChange(x) /\ runs'[x] = new
      BY <2>2, <3>1, <3>2 DEF RunChange
    <3> QED
      BY <2>2, <3>2, <3>3, <1>9 DEF FailBackup, RecordStep, Placed, OnRepository
  <2> QED
    BY <2>1, <2>2, <1>9 DEF FailBackup
<1>10. CASE ReportFailure(x)
  <2>1. PICK new : new = [runs[x] EXCEPT !.stage = "failed", !.reported = runs[x].has_last]
    OBVIOUS
  <2>2. runs' = [runs EXCEPT ![x] = new]
    BY <2>1, <1>10 DEF ReportFailure
  <2>3. new \in Run /\ new.stage = "failed" /\ new.schedule = runs[x].schedule
        /\ new.repos = runs[x].repos /\ new.repo = runs[x].repo /\ new.attempt = runs[x].attempt
    BY <2>1 DEF Run, Ended
  <2>4. RunChange(x) /\ Keeps(x) /\ runs'[x] = new
    BY <2>2, <2>3 DEF RunChange, Keeps
  <2> QED
    BY <2>3, <2>4, <1>10 DEF ReportFailure, RecordStep, Placed, OnRepository
<1>11. CASE CompleteBackup(x)
  BY <1>11, <1>g, <1>d DEF CompleteBackup, Stages, RecordStep, Placed, OnRepository, Keeps, RunChange
<1>12. CASE Prune(x)
  <2>1. PICK stage \in {"replicating", "retained"} :
          stage = IF Retention[runs[x].schedule] = "nil" THEN "replicating" ELSE "retained"
    OBVIOUS
  <2>2. PICK targets : targets = runs[x].repos \ {runs[x].repo}
    OBVIOUS
  <2>3. PICK new : new = [runs[x] EXCEPT !.stage = stage, !.reported = TRUE, !.targets = targets]
    OBVIOUS
  <2>4. runs' = [runs EXCEPT ![x] = new]
    BY <2>1, <2>2, <2>3, <1>12 DEF Prune
  <2>5. new \in Run /\ new.stage = stage /\ new.schedule = runs[x].schedule
        /\ new.repos = runs[x].repos /\ new.repo = runs[x].repo /\ new.attempt = runs[x].attempt
    BY <2>1, <2>2, <2>3 DEF Run, Stages
  <2>6. RunChange(x) /\ Keeps(x) /\ runs'[x] = new
    BY <2>4, <2>5 DEF RunChange, Keeps
  <2> QED
    BY <2>1, <2>5, <2>6, <1>12 DEF Prune, RecordStep, Placed, OnRepository, Made
<1>13. CASE RecordRetention(x)
  BY <1>13, <1>g, <1>d DEF RecordRetention, Stages, RecordStep, Placed, OnRepository, Keeps, RunChange
<1>14. CASE EndReplication(x)
  BY <1>14, <1>g, <1>d DEF EndReplication, Ended, RecordStep, Placed, OnRepository, Keeps, RunChange, Made
<1>15. CASE TargetUnusable(x)
  BY <1>15, TargetDone DEF TargetUnusable, RecordStep, Placed, OnRepository, Keeps, RunChange, Made
<1>16. CASE Copy(x)
  <2>1. PICK stage \in {"copied", "not_copied"} : Goes(x, stage)
    BY <1>16 DEF Copy
  <2> QED
    BY <2>1, <1>16, <1>g, <1>d DEF Copy, Stages, RecordStep, Placed, OnRepository, Keeps, Stays, RunChange, Made
<1>17. CASE ReadReplicationStatus(x)
  <2>1. CASE NextTarget(x)
    BY <2>1, <1>17, TargetDone
       DEF ReadReplicationStatus, RecordStep, Placed, OnRepository, Keeps, RunChange, Made
  <2>2. CASE ~ NextTarget(x)
    <3> DEFINE p   == Pair(x, First(runs[x].targets))
               row == IF replication[p].status = "none"
                      THEN [NoStatus EXCEPT !.status = "pending"] ELSE replication[p]
    <3>1. PICK marked : marked = Marked(x, row)
      OBVIOUS
    <3>2. marked \in ReplicationStatus
      <4>1. p \in Schedules \X Repos \X Repos
        BY <1>17, FirstRepo, RunFields DEF ReadReplicationStatus, Placed, OnRepository, Pair
      <4>2. row \in ReplicationStatus
        BY <4>1 DEF TypeOK, NoStatus, ReplicationStatus
      <4>3. Current(x) \in Backups
        BY CurrentBackup
      <4> HIDE DEF row
      <4> QED
        BY <3>1, <4>2, <4>3 DEF Marked, ReplicationStatus
    <3>3. PICK new : new = [runs[x] EXCEPT !.stage = "updating", !.status = marked]
      OBVIOUS
    <3>4. runs' = [runs EXCEPT ![x] = new]
      BY <2>2, <3>1, <3>3, <1>17 DEF ReadReplicationStatus
    <3> HIDE DEF p, row
    <3>5. /\ new \in Run /\ new.stage = "updating" /\ new.schedule = runs[x].schedule
          /\ new.repos = runs[x].repos /\ new.repo = runs[x].repo
          /\ new.attempt = runs[x].attempt /\ new.targets = runs[x].targets
      BY <3>2, <3>3 DEF Run, Stages
    <3>6. RunChange(x) /\ Keeps(x) /\ runs'[x] = new
      BY <3>4, <3>5 DEF RunChange, Keeps
    <3> QED
      BY <3>5, <3>6, <1>17 DEF ReadReplicationStatus, RecordStep, Placed, OnRepository, Made
  <2> QED
    BY <2>1, <2>2
<1>18. CASE UpdateReplicationStatus(x)
  BY <1>18, TargetDone
     DEF UpdateReplicationStatus, RecordStep, Placed, OnRepository, Keeps, RunChange, Made
<1> QED
  BY <1>1, <1>2, <1>3, <1>4, <1>5, <1>6, <1>7, <1>8, <1>9, <1>10, <1>11, <1>12, <1>13, <1>14,
     <1>15, <1>16, <1>17, <1>18 DEF Step

\* What a step does to the repositories.
StoredStep(x) ==
  LET r == runs[x].repo
  IN  \/ UNCHANGED stored
      \/ /\ runs[x].stage = "backing_up"
         /\ stored' = [stored EXCEPT ![r] = @ \cup {Current(x)}]
      \/ /\ runs[x].stage = "pruning"
         /\ \E gone \in SUBSET stored[r] :
              /\ gone \in Forgettable(r) \/ gone = {}
              /\ stored' = [stored EXCEPT ![r] = @ \ gone]
      \/ /\ runs[x].stage = "replicating" /\ runs[x].targets # {} /\ runs'[x].stage = "copied"
         /\ stored' = [stored EXCEPT ![First(runs[x].targets)] = @ \cup {Current(x)}]

LEMMA StoredShape ==
  ASSUME TypeOK, PlacedInv, NEW x \in Runs, Step(x)
  PROVE  StoredStep(x)
<1>t. runs[x] \in Run /\ runs \in [Runs -> Run] /\ stored \in [Repos -> SUBSET Backups]
  BY DEF TypeOK
<1>1. CASE \/ Skip(x) \/ MountUnavailable(x) \/ NoRepositories(x) \/ PreScriptFails(x)
           \/ StartAttempts(x) \/ CreateBackup(x) \/ FailBackup(x) \/ ReportFailure(x)
           \/ CompleteBackup(x) \/ RecordRetention(x) \/ EndReplication(x) \/ TargetUnusable(x)
           \/ ReadReplicationStatus(x) \/ UpdateReplicationStatus(x)
  BY <1>1 DEF Skip, MountUnavailable, NoRepositories, PreScriptFails, StartAttempts, CreateBackup,
              FailBackup, ReportFailure, CompleteBackup, RecordRetention, EndReplication,
              TargetUnusable, ReadReplicationStatus, UpdateReplicationStatus, StoredStep
<1>2. CASE BackupFails(x)
  <2>1. PICK made \in {{}, {Current(x)}} :
          stored' = [stored EXCEPT ![runs[x].repo] = @ \cup made]
    BY <1>2 DEF BackupFails
  <2>2. CASE made = {}
    <3>1. stored' = stored
      BY <2>1, <2>2, <1>t
    <3> QED
      BY <3>1 DEF StoredStep
  <2>3. CASE made = {Current(x)}
    BY <2>1, <2>3, <1>2 DEF BackupFails, StoredStep
  <2> QED
    BY <2>1, <2>2, <2>3
<1>3. CASE BackupSucceeds(x)
  BY <1>3 DEF BackupSucceeds, StoredStep
<1>4. CASE Prune(x)
  <2>1. PICK gone \in Removable(runs[x].schedule, runs[x].repo) \cup {{}} :
          stored' = [stored EXCEPT ![runs[x].repo] = @ \ gone]
    BY <1>4 DEF Prune
  <2>2. gone \in SUBSET stored[runs[x].repo] /\ (gone \in Forgettable(runs[x].repo) \/ gone = {})
    BY DEF Removable, Forgettable
  <2> QED
    BY <2>1, <2>2, <1>4 DEF Prune, StoredStep
<1>5. CASE Copy(x)
  <2>1. CASE UNCHANGED stored
    BY <2>1 DEF StoredStep
  <2>2. CASE /\ Goes(x, "copied")
             /\ stored' = [stored EXCEPT ![First(runs[x].targets)] = @ \cup {Current(x)}]
    <3>1. runs'[x].stage = "copied"
      BY <2>2, GoesOn DEF AllStages, Stages
    <3> QED
      BY <3>1, <2>2, <1>5 DEF Copy, StoredStep
  <2> QED
    BY <2>1, <2>2, <1>5 DEF Copy
<1> QED
  BY <1>1, <1>2, <1>3, <1>4, <1>5 DEF Step

LEMMA WrittenRecords ==
  ASSUME TypeOK, NEW x \in Runs, NEW status \in {"completed", "failed"}, Writes(x, status)
  PROVE  /\ backups' \in [Backups -> Statuses] /\ lost' \subseteq Backups
         /\ \A b \in Backups : b # Current(x) => backups'[b] = backups[b] /\ (b \in lost <=> b \in lost')
         /\ \/ Current(x) \in lost' /\ backups'[Current(x)] = backups[Current(x)]
            \/ backups'[Current(x)] \in {"none", status}
<1>1. Current(x) \in Backups /\ backups \in [Backups -> Statuses] /\ lost \subseteq Backups
  BY CurrentBackup DEF TypeOK, Statuses
<1>2. CASE backups' = Updated(Current(x), status) /\ lost' = lost \ {Current(x)}
  BY <1>1, <1>2 DEF Updated, Statuses
<1>3. CASE UNCHANGED backups /\ lost' = lost \cup {Current(x)}
  BY <1>1, <1>3
<1> QED
  BY <1>2, <1>3 DEF Writes

LEMMA StepType ==
  ASSUME TypeOK, PlacedInv, NEW x \in Runs, Step(x)
  PROVE  TypeOK' /\ PlacedInv'
<1>s. RunChange(x) /\ RecordStep(x) /\ Placed(runs'[x]) /\ UNCHANGED tables /\ StoredStep(x)
  BY StepShape, StoredShape
<1>c. Current(x) \in Backups
  BY CurrentBackup
<1>1. backups' \in [Backups -> Statuses] /\ succeeded' \subseteq Backups /\ lost' \subseteq Backups
  <2>1. backups \in [Backups -> Statuses] /\ succeeded \subseteq Backups /\ lost \subseteq Backups
    BY DEF TypeOK, Statuses
  <2>2. CASE Writes(x, "failed") /\ UNCHANGED succeeded
    BY <2>1, <2>2, WrittenRecords
  <2>3. CASE Writes(x, "completed") /\ UNCHANGED succeeded
    BY <2>1, <2>3, WrittenRecords
  <2>4. CASE /\ \/ UNCHANGED backups
                \/ \E status \in {"running", "failed"} :
                     backups' = [backups EXCEPT ![Current(x)] = status]
             /\ succeeded' \in {succeeded, succeeded \cup {Current(x)}}
             /\ UNCHANGED lost
    BY <2>1, <2>4, <1>c DEF Statuses
  <2> QED
    BY <2>2, <2>3, <2>4, <1>s DEF RecordStep
<1>2. stored' \in [Repos -> SUBSET Backups]
  BY <1>s, <1>c DEF StoredStep, TypeOK
<1>3. tried' \subseteq Backups
  <2>1. tried' \in {tried, tried \cup {Current(x)}}
    BY DEF Step, Skip, MountUnavailable, NoRepositories, PreScriptFails, StartAttempts,
           CreateBackup, BackupFails, BackupSucceeds, FailBackup, ReportFailure, CompleteBackup,
           Prune, RecordRetention, EndReplication, TargetUnusable, Copy, ReadReplicationStatus,
           UpdateReplicationStatus
  <2> QED
    BY <2>1, <1>c DEF TypeOK
<1>4. replication' \in [Schedules \X Repos \X Repos -> ReplicationStatus]
  <2>1. replication \in [Schedules \X Repos \X Repos -> ReplicationStatus]
    BY DEF TypeOK
  <2>2. CASE UNCHANGED replication
    BY <2>1, <2>2
  <2>3. CASE ReadReplicationStatus(x) \/ UpdateReplicationStatus(x)
    <3> DEFINE p == Pair(x, First(runs[x].targets))
    <3>1. p \in Schedules \X Repos \X Repos
      <4>1. runs[x] \in Run /\ Placed(runs[x])
        BY DEF TypeOK, PlacedInv
      <4> QED
        BY <4>1, <2>3, FirstRepo, RunFields
           DEF ReadReplicationStatus, UpdateReplicationStatus, Placed, OnRepository, Pair
    <3>2. PICK row \in ReplicationStatus : replication' \in {replication, [replication EXCEPT ![p] = row]}
      <4>1. CASE ReadReplicationStatus(x)
        <5>1. [NoStatus EXCEPT !.status = "pending"] \in ReplicationStatus
          BY DEF NoStatus, ReplicationStatus
        <5> QED
          BY <4>1, <5>1, <3>1, <2>1 DEF ReadReplicationStatus
      <4>2. CASE UpdateReplicationStatus(x)
        <5>1. runs[x].status \in ReplicationStatus
          BY RunFields DEF TypeOK
        <5> QED
          BY <4>2, <5>1, <3>1, <2>1 DEF UpdateReplicationStatus
      <4> QED
        BY <4>1, <4>2, <2>3
    <3> HIDE DEF p
    <3> QED
      BY <3>1, <3>2, <2>1
  <2> QED
    BY <2>2, <2>3
       DEF Step, Skip, MountUnavailable, NoRepositories, PreScriptFails, StartAttempts,
           CreateBackup, BackupFails, BackupSucceeds, FailBackup, ReportFailure, CompleteBackup,
           Prune, RecordRetention, EndReplication, TargetUnusable, Copy
<1>5. TypeOK'
  BY <1>s, <1>1, <1>2, <1>3, <1>4 DEF TypeOK, RunChange, tables, Statuses
<1>6. PlacedInv'
  BY <1>s DEF PlacedInv, RunChange, Placed
<1> QED
  BY <1>5, <1>6

LEMMA NewRunPlaced ==
  ASSUME NEW s \in Schedules, NEW repos \in SUBSET Repos
  PROVE  /\ NewRun(s, repos) \in Run /\ Placed(NewRun(s, repos))
         /\ NewRun(s, repos).schedule = s /\ NewRun(s, repos).stage = "starting"
<1>1. 0 \in 0 .. NumRepos /\ 1 \in 1 .. MaxRetries
  BY SchedulerAssumption
<1>2. NoStatus \in ReplicationStatus
  BY DEF NoStatus, ReplicationStatus
<1> QED
  BY <1>1, <1>2 DEF NewRun, Run, Stages, Placed, OnRepository

\* A started run is a new one of the schedule its slot is for.
LEMMA Started ==
  ASSUME TypeOK, NEW x \in Runs, NEW s \in Schedules, NEW repos \in SUBSET Repos,
         StartRun(x, s, repos)
  PROVE  /\ RunChange(x) \/ runs'[x].repos = repos
         /\ runs' \in [Runs -> Run] /\ \A y \in Runs : y # x => runs'[y] = runs[y]
         /\ runs'[x].schedule = runs[x].schedule /\ runs[x].stage = "unborn"
         /\ runs'[x].stage = "starting" /\ Placed(runs'[x])
         /\ UNCHANGED <<tables, backups, replication, stored, tried, succeeded, lost>>
<1>1. PICK new : new = NewRun(s, repos)
  OBVIOUS
<1>2. new \in Run /\ Placed(new) /\ new.schedule = s /\ new.stage = "starting" /\ new.repos = repos
  BY <1>1, NewRunPlaced DEF NewRun
<1>3. runs' = [runs EXCEPT ![x] = new]
  BY <1>1 DEF StartRun
<1> QED
  BY <1>2, <1>3 DEF StartRun, TypeOK

\* Every step that starts a run starts it on a set of repositories.
LEMMA Starts ==
  ASSUME TypeOK, NEW x \in Runs, NEW s \in Schedules, EntryFires(x, s) \/ TriggerBackup(x, s)
  PROVE  \E repos \in SUBSET Repos : StartRun(x, s, repos)
<1>1. CASE EntryFires(x, s)
  BY <1>1 DEF EntryFires, TypeOK
<1>2. CASE TriggerBackup(x, s)
  <2>1. PICK repos : repos = EnabledSchedules[s]
    OBVIOUS
  <2>2. repos \in SUBSET Repos
    BY <2>1, <1>2 DEF TriggerBackup, EnabledSchedules, TypeOK
  <2> QED
    BY <2>1, <2>2, <1>2 DEF TriggerBackup
<1> QED
  BY <1>1, <1>2

LEMMA Died ==
  ASSUME TypeOK, Crash
  PROVE  /\ runs' \in [Runs -> Run]
         /\ \A x \in Runs : /\ runs'[x].schedule = runs[x].schedule /\ Keeps(x)
                            /\ InProgress(x) => runs'[x].stage = "dead" /\ Current(x) \in lost'
                            /\ ~ InProgress(x) => runs'[x] = runs[x]
         /\ lost \subseteq lost' /\ lost' \subseteq Backups
         /\ backups' \in [Backups -> Statuses]
         /\ \A b \in Backups : \/ backups'[b] = backups[b]
                               \/ backups[b] = "running" /\ backups'[b] = "failed"
<1>1. ASSUME NEW x \in Runs, NEW new, new = [runs[x] EXCEPT !.stage = "dead"]
      PROVE  /\ new \in Run /\ new.stage = "dead" /\ new.schedule = runs[x].schedule
             /\ new.repo = runs[x].repo /\ new.attempt = runs[x].attempt
  <2>1. runs[x] \in Run
    BY DEF TypeOK
  <2> QED
    BY <2>1, <1>1 DEF Run, Ended
<1>2. ASSUME NEW x \in Runs, InProgress(x)
      PROVE  /\ runs'[x] \in Run /\ runs'[x].stage = "dead" /\ Keeps(x)
             /\ runs'[x].schedule = runs[x].schedule /\ Current(x) \in lost'
  <2>1. runs'[x] = [runs[x] EXCEPT !.stage = "dead"] /\ Current(x) \in lost'
    BY <1>2 DEF Crash
  <2> QED
    BY <2>1, <1>1 DEF Keeps
<1>3. ASSUME NEW x \in Runs, ~ InProgress(x)
      PROVE  runs'[x] = runs[x] /\ runs'[x] \in Run
  BY <1>3 DEF Crash, TypeOK
<1>4. runs' = [x \in Runs |-> runs'[x]]
  BY DEF Crash
<1>5. lost \subseteq lost' /\ lost' \subseteq Backups
  BY CurrentBackup DEF Crash, TypeOK
<1>6. /\ backups' \in [Backups -> Statuses]
      /\ \A b \in Backups : \/ backups'[b] = backups[b]
                            \/ backups[b] = "running" /\ backups'[b] = "failed"
  <2>1. PICK stale \in SUBSET {b \in Backups : backups[b] = "running"} : FailStaleBackups(stale)
    BY DEF Crash
  <2>2. backups \in [Backups -> Statuses] /\ "failed" \in Statuses
    BY DEF TypeOK, Statuses
  <2>3. backups' = [b \in Backups |-> IF b \in stale THEN "failed" ELSE backups[b]]
    BY <2>1 DEF FailStaleBackups
  <2>4. \A b \in stale : backups[b] = "running"
    BY <2>1
  <2>5. ASSUME NEW b \in Backups
        PROVE  /\ backups'[b] \in Statuses
               /\ backups'[b] = backups[b] \/ (backups[b] = "running" /\ backups'[b] = "failed")
    <3>1. CASE b \in stale
      BY <3>1, <2>2, <2>3, <2>4
    <3>2. CASE b \notin stale
      BY <3>2, <2>2, <2>3
    <3> QED
      BY <3>1, <3>2
  <2>6. backups' = [b \in Backups |-> backups'[b]]
    BY <2>3
  <2>7. backups' \in [Backups -> Statuses]
    BY <2>5, <2>6
  <2> QED
    BY <2>5, <2>7
<1>7. runs' \in [Runs -> Run]
  BY <1>2, <1>3, <1>4
<1>8. ASSUME NEW x \in Runs
      PROVE  /\ runs'[x].schedule = runs[x].schedule /\ Keeps(x)
             /\ InProgress(x) => runs'[x].stage = "dead" /\ Current(x) \in lost'
             /\ ~ InProgress(x) => runs'[x] = runs[x]
  BY <1>2, <1>3 DEF Keeps
<1> QED
  BY <1>5, <1>6, <1>7, <1>8

-----------------------------------------------------------------------------
(* Type correctness.                                                       *)

LEMMA InitType ==
  ASSUME Init
  PROVE  TypeOK /\ PlacedInv
<1>1. NoStatus \in ReplicationStatus
  BY DEF NoStatus, ReplicationStatus
<1>2. ASSUME NEW x \in Runs PROVE runs[x] \in Run /\ Placed(runs[x])
  <2>1. PICK s \in Schedules : runs[x] = [NewRun(s, {}) EXCEPT !.stage = "unborn"]
    BY DEF Init
  <2>2. PICK new : new = NewRun(s, {})
    OBVIOUS
  <2>3. new \in Run /\ new.repo = 0
    BY <2>2, NewRunPlaced DEF NewRun
  <2>4. runs[x] = [new EXCEPT !.stage = "unborn"]
    BY <2>1, <2>2
  <2>5. runs[x] \in Run /\ runs[x].repo = 0 /\ runs[x].stage = "unborn"
    BY <2>3, <2>4 DEF Run
  <2> QED
    BY <2>5 DEF Placed, OnRepository
<1>3. runs \in [Runs -> Run]
  BY <1>2 DEF Init
<1>4. TypeOK
  BY <1>1, <1>3 DEF Init, TypeOK
<1> QED
  BY <1>2, <1>4 DEF PlacedInv

\* The schedules, the entries and the lists; nothing about the runs.
Configures ==
  \/ \E s \in Schedules : ToggleSchedule(s) \/ \E repos \in SUBSET Repos : EditSchedule(s, repos)
  \/ ListSchedules \/ ApplyReload

LEMMA NextCases ==
  ASSUME TypeOK, Next
  PROVE  \/ Configures
         \/ \E s \in Schedules : DeleteSchedule(s)
         \/ \E x \in Runs, s \in Schedules, repos \in SUBSET Repos : StartRun(x, s, repos)
         \/ \E x \in Runs : Step(x)
         \/ Crash
<1>1. ASSUME NEW s \in Schedules, NEW x \in Runs, EntryFires(x, s) \/ TriggerBackup(x, s)
      PROVE  \E repos \in SUBSET Repos : StartRun(x, s, repos)
  BY <1>1, Starts
<1> QED
  BY <1>1 DEF Next, Configures

LEMMA ConfiguredType ==
  ASSUME TypeOK, Configures
  PROVE  TypeOK' /\ UNCHANGED <<runs, backups, replication, stored, tried, succeeded, lost>>
<1> DEFINE States == {"enabled", "disabled", "deleted"}
           Row    == [state : States, repos : SUBSET Repos]
           ListOK(list) == /\ DOMAIN list \subseteq Schedules
                           /\ \A s \in DOMAIN list : list[s] \subseteq Repos
<1>r. schedules \in [Schedules -> Row] /\ ListOK(entries) /\ \A list \in reload : ListOK(list)
  BY DEF TypeOK
<1>1. CASE \E s \in Schedules : ToggleSchedule(s)
  <2>1. PICK s \in Schedules : ToggleSchedule(s)
    BY <1>1
  <2>2. PICK state \in States : schedules' = [schedules EXCEPT ![s].state = state]
    <3>1. schedules[s] \in Row
      BY <1>r
    <3> QED
      BY <2>1, <3>1, <1>r DEF ToggleSchedule
  <2>3. schedules' \in [Schedules -> Row]
    BY <2>2, <1>r
  <2> QED
    BY <2>1, <2>3 DEF ToggleSchedule, TypeOK
<1>2. CASE \E s \in Schedules, repos \in SUBSET Repos : EditSchedule(s, repos)
  <2>1. PICK s \in Schedules, repos \in SUBSET Repos : EditSchedule(s, repos)
    BY <1>2
  <2>2. schedules' \in [Schedules -> Row]
    BY <2>1, <1>r DEF EditSchedule
  <2> QED
    BY <2>1, <2>2 DEF EditSchedule, TypeOK
<1>3. CASE ListSchedules
  <2>1. ListOK(EnabledSchedules)
    BY <1>r DEF EnabledSchedules
  <2> QED
    BY <2>1, <1>3 DEF ListSchedules, TypeOK
<1>4. CASE ApplyReload
  <2>1. PICK list \in reload : entries' = Reloaded(list)
    BY <1>4 DEF ApplyReload
  <2>2. ListOK(Reloaded(list))
    BY <1>r DEF Reloaded
  <2> QED
    BY <2>1, <2>2, <1>4 DEF ApplyReload, TypeOK
<1> QED
  BY <1>1, <1>2, <1>3, <1>4 DEF Configures

LEMMA DeletedType ==
  ASSUME TypeOK, NEW s \in Schedules, DeleteSchedule(s)
  PROVE  TypeOK' /\ UNCHANGED <<runs, stored, tried, succeeded, lost>>
<1>1. schedules' \in [Schedules -> [state : {"enabled", "disabled", "deleted"}, repos : SUBSET Repos]]
  BY DEF TypeOK, DeleteSchedule
<1>2. backups' \in [Backups -> {"none", "running", "completed", "failed"}]
  BY DEF TypeOK, DeleteSchedule
<1>3. NoStatus \in ReplicationStatus
  BY DEF NoStatus, ReplicationStatus
<1>4. replication' \in [Schedules \X Repos \X Repos -> ReplicationStatus]
  BY <1>3 DEF TypeOK, DeleteSchedule
<1> QED
  BY <1>1, <1>2, <1>4 DEF TypeOK, DeleteSchedule

LEMMA NextType ==
  ASSUME TypeOK, PlacedInv, [Next]_vars
  PROVE  TypeOK' /\ PlacedInv'
<1>1. CASE Configures
  BY <1>1, ConfiguredType DEF PlacedInv
<1>2. CASE \E s \in Schedules : DeleteSchedule(s)
  BY <1>2, DeletedType DEF PlacedInv
<1>3. CASE \E x \in Runs, s \in Schedules, repos \in SUBSET Repos : StartRun(x, s, repos)
  <2>1. PICK x \in Runs, s \in Schedules, repos \in SUBSET Repos : StartRun(x, s, repos)
    BY <1>3
  <2>2. /\ runs' \in [Runs -> Run] /\ \A y \in Runs : y # x => runs'[y] = runs[y]
        /\ Placed(runs'[x])
        /\ UNCHANGED <<tables, backups, replication, stored, tried, succeeded, lost>>
    BY <2>1, Started
  <2> QED
    BY <2>2 DEF TypeOK, PlacedInv, tables
<1>4. CASE \E x \in Runs : Step(x)
  BY <1>4, StepType
<1>5. CASE Crash
  <2>1. /\ runs' \in [Runs -> Run] /\ lost' \subseteq Backups /\ backups' \in [Backups -> Statuses]
        /\ \A x \in Runs : /\ InProgress(x) => runs'[x].stage = "dead"
                           /\ ~ InProgress(x) => runs'[x] = runs[x]
    BY <1>5, Died
  <2>2. TypeOK'
    BY <2>1, <1>5 DEF Crash, TypeOK, Statuses
  <2> QED
    BY <2>1, <2>2 DEF PlacedInv, Placed, OnRepository
<1>6. CASE UNCHANGED vars
  BY <1>6 DEF vars, TypeOK, PlacedInv
<1> QED
  BY <1>1, <1>2, <1>3, <1>4, <1>5, <1>6, NextCases

\* The tables, the entries, the runs and the histories keep their types (TypeOK).
THEOREM TypeCorrect == Spec => []TypeOK
<1>1. Init => TypeOK /\ PlacedInv
  BY InitType
<1>2. TypeOK /\ PlacedInv /\ [Next]_vars => TypeOK' /\ PlacedInv'
  BY NextType
<1> QED
  BY <1>1, <1>2, PTL DEF Spec

-----------------------------------------------------------------------------
(* The backup records.                                                     *)

\* The record of a backup agrees with what became of it and with where its run is.
RecordOK(b) ==
  LET stage   == runs[b[1]].stage
      current == Current(b[1]) = b
  IN  /\ b \in succeeded => stage \in Made \cup {"dead"} /\ current
      /\ stage \in Made /\ current => b \in succeeded
      /\ backups[b] = "completed" => b \in succeeded
      /\ backups[b] = "failed" => b \notin succeeded \/ b \in lost
      /\ stage = "backing_up" /\ current => backups[b] # "failed"
      /\ backups[b] = "running" =>
           b \in lost \/ (stage \in {"backing_up", "failing", "saving"} /\ current)

RecordsInv == \A b \in Backups : RecordOK(b)

LEMMA InitRecords ==
  ASSUME Init
  PROVE  RecordsInv
<1>1. ASSUME NEW x \in Runs PROVE runs[x].stage = "unborn"
  <2>1. PICK s \in Schedules : runs[x] = [NewRun(s, {}) EXCEPT !.stage = "unborn"]
    BY DEF Init
  <2> QED
    BY <2>1 DEF NewRun
<1> QED
  BY <1>1, BackupParts DEF Init, RecordsInv, RecordOK, Made

\* A step of a run leaves the records of the other runs as they are.
LEMMA OtherRecords ==
  ASSUME TypeOK, PlacedInv, NEW x \in Runs, Step(x), NEW b \in Backups, b[1] # x, RecordOK(b)
  PROVE  RecordOK(b)'
<1>1. RunChange(x) /\ RecordStep(x)
  BY StepShape
<1>2. Current(x) \in Backups /\ Current(x) # b /\ b[1] \in Runs
  BY CurrentBackup, BackupParts
<1>3. runs'[b[1]] = runs[b[1]] /\ Current(b[1])' = Current(b[1])
  BY <1>1, <1>2 DEF RunChange, Current
<1>4. /\ backups'[b] = backups[b]
      /\ b \in succeeded' <=> b \in succeeded
      /\ b \in lost' <=> b \in lost
  <2>1. CASE Writes(x, "failed") /\ UNCHANGED succeeded
    BY <2>1, <1>2, WrittenRecords
  <2>2. CASE Writes(x, "completed") /\ UNCHANGED succeeded
    BY <2>2, <1>2, WrittenRecords
  <2>3. CASE /\ \/ UNCHANGED backups
                \/ \E status \in {"running", "failed"} :
                     backups' = [backups EXCEPT ![Current(x)] = status]
             /\ succeeded' \in {succeeded, succeeded \cup {Current(x)}}
             /\ UNCHANGED lost
    BY <2>3, <1>2 DEF TypeOK
  <2> QED
    BY <2>1, <2>2, <2>3, <1>1 DEF RecordStep
<1> QED
  BY <1>3, <1>4 DEF RecordOK

LEMMA OwnRecords ==
  ASSUME TypeOK, PlacedInv, NEW x \in Runs, Step(x), RecordsInv,
         NEW b \in Backups, b[1] = x
  PROVE  RecordOK(b)'
<1> DEFINE from == runs[x].stage
           to   == runs'[x].stage
           c    == Current(x)
<1>1. RecordStep(x)
  BY StepShape
<1>2. c \in Backups /\ c[1] = x
  BY CurrentBackup
<1>b. backups \in [Backups -> Statuses]
  BY DEF TypeOK, Statuses
<1>3. RecordOK(b) /\ RecordOK(c)
  BY <1>2 DEF RecordsInv
<1>k. Keeps(x) => Current(x)' = c
  BY DEF Keeps, Current
<1>4. CASE /\ <<from, to>> \in {<<"starting", "failing">>, <<"creating", "backing_up">>}
           /\ Keeps(x) /\ UNCHANGED <<succeeded, lost>>
           /\ backups' = [backups EXCEPT ![c] = "running"]
  <2>1. from \in {"starting", "creating"} /\ to \in {"failing", "backing_up"} /\ c \notin succeeded
    BY <1>4, <1>2, <1>3 DEF RecordOK, Made
  <2>2. CASE b = c
    BY <2>1, <2>2, <1>4, <1>2, <1>k, <1>b DEF RecordOK, Made
  <2>3. CASE b # c
    <3>1. backups'[b] = backups[b] /\ Current(x)' # b
      BY <2>3, <1>4, <1>b, <1>k
    <3> QED
      BY <2>1, <2>3, <3>1, <1>4, <1>3 DEF RecordOK, Made
  <2> QED
    BY <2>2, <2>3
<1>5. CASE /\ from = "starting" /\ to = "aborted" /\ UNCHANGED <<succeeded, lost>>
           /\ backups' = [backups EXCEPT ![c] = "failed"]
  BY <1>5, <1>2, <1>3, <1>b DEF RecordOK, Made
<1>6. CASE /\ from \in {"starting", "creating"} /\ UNCHANGED <<backups, succeeded, lost>>
           /\ to \in {"creating", "exhausted", "skipped", "no_repositories", "aborted"}
  BY <1>6, <1>3 DEF RecordOK, Made
<1>7. CASE /\ from = "backing_up" /\ to = "saving" /\ Keeps(x) /\ UNCHANGED <<backups, lost>>
           /\ succeeded' = succeeded \cup {c}
  BY <1>7, <1>2, <1>3, <1>k DEF RecordOK, Made
<1>8. CASE /\ from = "backing_up" /\ to = "failing" /\ Keeps(x)
           /\ UNCHANGED <<backups, succeeded, lost>>
  BY <1>8, <1>3, <1>k DEF RecordOK, Made
<1>9. CASE /\ from = "failing" /\ to \in {"aborted", "creating", "exhausted"}
           /\ Writes(x, "failed") /\ UNCHANGED succeeded
  <2>1. /\ b # c => backups'[b] = backups[b] /\ (b \in lost <=> b \in lost')
        /\ \/ c \in lost' /\ backups'[c] = backups[c]
           \/ backups'[c] \in {"none", "failed"}
    BY <1>9, WrittenRecords
  <2> QED
    BY <2>1, <1>9, <1>3 DEF RecordOK, Made
<1>10. CASE /\ from \in {"saving", "retained"} /\ to \in {"pruning", "replicating"} /\ Keeps(x)
            /\ Writes(x, "completed") /\ UNCHANGED succeeded
  <2>1. /\ b # c => backups'[b] = backups[b] /\ (b \in lost <=> b \in lost')
        /\ \/ c \in lost' /\ backups'[c] = backups[c]
           \/ backups'[c] \in {"none", "completed"}
    BY <1>10, WrittenRecords
  <2>2. Current(x)' = c /\ c \in succeeded /\ from \in Made /\ to \in Made \ {"saving"}
    BY <1>10, <1>2, <1>3, <1>k DEF RecordOK, Made
  <2>3. CASE b = c
    BY <2>1, <2>2, <2>3, <1>10, <1>3 DEF RecordOK, Made
  <2>4. CASE b # c
    BY <2>1, <2>2, <2>4, <1>10, <1>3 DEF RecordOK, Made
  <2> QED
    BY <2>3, <2>4
<1>11. CASE /\ Keeps(x) /\ UNCHANGED <<backups, succeeded, lost>>
            /\ \/ from = "exhausted" /\ to = "failed"
               \/ /\ from \in Made \ {"saving", "retained", "done"}
                  /\ to \in Made \ {"saving", "pruning"}
  BY <1>11, <1>3, <1>k DEF RecordOK, Made
<1> QED
  BY <1>1, <1>4, <1>5, <1>6, <1>7, <1>8, <1>9, <1>10, <1>11 DEF RecordStep

LEMMA NextRecords ==
  ASSUME TypeOK, PlacedInv, RecordsInv, [Next]_vars
  PROVE  RecordsInv'
<1> SUFFICES ASSUME NEW b \in Backups
             PROVE  RecordOK(b)'
  BY DEF RecordsInv
<1>b. RecordOK(b) /\ b[1] \in Runs
  BY BackupParts DEF RecordsInv
<1>1. CASE Configures \/ UNCHANGED vars
  <2>1. UNCHANGED <<runs, backups, succeeded, lost>>
    BY <1>1, ConfiguredType DEF vars
  <2> QED
    BY <2>1, <1>b DEF RecordOK, Current
<1>2. CASE \E s \in Schedules : DeleteSchedule(s)
  <2>1. UNCHANGED <<runs, succeeded, lost>> /\ backups'[b] \in {"none", backups[b]}
    BY <1>2 DEF DeleteSchedule
  <2> QED
    BY <2>1, <1>b DEF RecordOK, Current
<1>3. CASE \E x \in Runs, s \in Schedules, repos \in SUBSET Repos : StartRun(x, s, repos)
  <2>1. PICK x \in Runs, s \in Schedules, repos \in SUBSET Repos : StartRun(x, s, repos)
    BY <1>3
  <2>2. /\ \A y \in Runs : y # x => runs'[y] = runs[y]
        /\ runs[x].stage = "unborn" /\ runs'[x].stage = "starting"
        /\ UNCHANGED <<backups, succeeded, lost>>
    BY <2>1, Started
  <2>3. CASE b[1] = x
    BY <2>2, <2>3, <1>b DEF RecordOK, Made
  <2>4. CASE b[1] # x
    BY <2>2, <2>4, <1>b DEF RecordOK, Current
  <2> QED
    BY <2>3, <2>4
<1>4. CASE \E x \in Runs : Step(x)
  BY <1>4, <1>b, OtherRecords, OwnRecords
<1>5. CASE Crash
  <2> DEFINE x == b[1]
  <2>1. /\ InProgress(x) => runs'[x].stage = "dead" /\ Current(x) \in lost'
        /\ ~ InProgress(x) => runs'[x] = runs[x]
        /\ Keeps(x) /\ lost \subseteq lost'
    BY <1>5, <1>b, Died
  <2>2. /\ UNCHANGED succeeded /\ Current(x)' = Current(x)
        /\ backups'[b] = backups[b] \/ (backups[b] = "running" /\ backups'[b] = "failed")
    BY <1>5, <2>1, Died DEF Crash, Keeps, Current
  <2>3. CASE InProgress(x)
    BY <2>1, <2>2, <2>3, <1>b DEF RecordOK, Made
  <2>4. CASE ~ InProgress(x)
    BY <2>1, <2>2, <2>4, <1>b DEF RecordOK, InProgress, Stages
  <2> QED
    BY <2>3, <2>4
<1> QED
  BY <1>1, <1>2, <1>3, <1>4, <1>5, NextCases

\* No record says completed of a backup that was not made, or failed of one that was
\* and whose outcome could be written, whichever writes fail or are repeated and
\* whenever the server restarts (RecordedAsItEnded).
THEOREM RecordsCorrect == Spec => []RecordedAsItEnded
<1>1. Init => TypeOK /\ PlacedInv /\ RecordsInv
  BY InitType, InitRecords
<1>2. TypeOK /\ PlacedInv /\ RecordsInv /\ [Next]_vars => TypeOK' /\ PlacedInv' /\ RecordsInv'
  BY NextType, NextRecords
<1>3. RecordsInv => RecordedAsItEnded
  BY DEF RecordsInv, RecordOK, RecordedAsItEnded
<1> QED
  BY <1>1, <1>2, <1>3, PTL DEF Spec

\* A record that says running has a run working on it, unless its outcome could not
\* be written or the process died (RunningIsProcessed).
THEOREM RunningCorrect == Spec => []RunningIsProcessed
<1>1. Init => TypeOK /\ PlacedInv /\ RecordsInv
  BY InitType, InitRecords
<1>2. TypeOK /\ PlacedInv /\ RecordsInv /\ [Next]_vars => TypeOK' /\ PlacedInv' /\ RecordsInv'
  BY NextType, NextRecords
<1>3. RecordsInv => RunningIsProcessed
  BY DEF RecordsInv, RecordOK, RunningIsProcessed, InProgress, Stages
<1> QED
  BY <1>1, <1>2, <1>3, PTL DEF Spec

-----------------------------------------------------------------------------
(* The snapshots.                                                          *)

HasSnapshot(s, r) == SnapshotsLike(s, r) # {}

LEMMA ScheduleFixed ==
  ASSUME TypeOK, PlacedInv, [Next]_vars, NEW y \in Runs
  PROVE  runs'[y].schedule = runs[y].schedule
<1>1. CASE Configures \/ UNCHANGED vars
  BY <1>1, ConfiguredType DEF vars
<1>2. CASE \E s \in Schedules : DeleteSchedule(s)
  BY <1>2 DEF DeleteSchedule
<1>3. CASE \E x \in Runs, s \in Schedules, repos \in SUBSET Repos : StartRun(x, s, repos)
  BY <1>3, Started
<1>4. CASE \E x \in Runs : Step(x)
  BY <1>4, StepShape DEF RunChange
<1>5. CASE Crash
  BY <1>5, Died
<1> QED
  BY <1>1, <1>2, <1>3, <1>4, <1>5, NextCases

\* A repository that has a snapshot of a schedule's paths never loses the last one.
LEMMA SnapshotStays ==
  ASSUME TypeOK, PlacedInv, [Next]_vars, NEW s \in Schedules, NEW r \in Repos, HasSnapshot(s, r)
  PROVE  HasSnapshot(s, r)'
<1>1. \A y \in Runs : runs'[y].schedule = runs[y].schedule
  BY ScheduleFixed
<1>2. stored \in [Repos -> SUBSET Backups]
  BY DEF TypeOK
<1>3. ASSUME NEW b \in SnapshotsLike(s, r), b \in stored'[r]
      PROVE  HasSnapshot(s, r)'
  <2>1. b[1] \in Runs
    BY <1>2, BackupParts DEF SnapshotsLike
  <2>2. Paths[runs'[b[1]].schedule] = Paths[s]
    BY <2>1, <1>1 DEF SnapshotsLike
  <2> QED
    BY <2>2, <1>3 DEF HasSnapshot, SnapshotsLike
<1>4. \E b \in SnapshotsLike(s, r) : b \in stored'[r]
  <2>1. CASE UNCHANGED stored
    BY <2>1 DEF HasSnapshot, SnapshotsLike
  <2>2. CASE \E x \in Runs : Step(x)
    <3>1. PICK x \in Runs : Step(x) /\ StoredStep(x)
      BY <2>2, StoredShape
    <3>2. CASE UNCHANGED stored
      BY <3>2, <2>1
    <3>3. CASE \E q \in Repos, c \in Backups : stored' = [stored EXCEPT ![q] = @ \cup {c}]
      BY <3>3, <1>2 DEF HasSnapshot, SnapshotsLike
    <3>4. CASE \E gone \in SUBSET stored[runs[x].repo] :
                 /\ gone \in Forgettable(runs[x].repo) \/ gone = {}
                 /\ stored' = [stored EXCEPT ![runs[x].repo] = @ \ gone]
      <4>1. PICK gone \in SUBSET stored[runs[x].repo] :
              /\ gone \in Forgettable(runs[x].repo) \/ gone = {}
              /\ stored' = [stored EXCEPT ![runs[x].repo] = @ \ gone]
        BY <3>4
      <4>2. CASE runs[x].repo = r /\ gone \in Forgettable(r)
        <5>1. PICK b : b \in SnapshotsLike(s, r)
          BY DEF HasSnapshot
        <5>2. b \in stored[r] /\ SnapshotsLike(runs[b[1]].schedule, r) = SnapshotsLike(s, r)
          BY <5>1 DEF SnapshotsLike
        <5>3. PICK c \in SnapshotsLike(s, r) : c \notin gone
          BY <4>2, <5>2 DEF Forgettable
        <5>4. c \in stored[r]
          BY DEF SnapshotsLike
        <5> QED
          BY <5>3, <5>4, <4>1, <4>2, <1>2
      <4>3. CASE runs[x].repo = r /\ gone = {}
        BY <4>1, <4>3, <1>2 DEF HasSnapshot, SnapshotsLike
      <4>4. CASE runs[x].repo # r
        BY <4>1, <4>4, <1>2 DEF HasSnapshot, SnapshotsLike
      <4> QED
        BY <4>1, <4>2, <4>3, <4>4
    <3>5. runs[x].stage = "backing_up" => runs[x].repo \in Repos
      BY RunFields DEF PlacedInv, Placed, OnRepository, TypeOK
    <3>6. runs[x].targets # {} => First(runs[x].targets) \in Repos
      BY RunFields, FirstRepo DEF TypeOK
    <3>7. Current(x) \in Backups
      BY CurrentBackup
    <3> QED
      BY <3>1, <3>2, <3>3, <3>4, <3>5, <3>6, <3>7 DEF StoredStep
  <2>3. CASE Crash
    BY <2>3, <2>1 DEF Crash
  <2>4. CASE \E x \in Runs, q \in Schedules, repos \in SUBSET Repos : StartRun(x, q, repos)
    BY <2>4, <2>1 DEF StartRun
  <2>5. CASE \E q \in Schedules : DeleteSchedule(q)
    BY <2>5, <2>1 DEF DeleteSchedule
  <2>6. CASE Configures \/ UNCHANGED vars
    BY <2>6, <2>1, ConfiguredType DEF vars
  <2> QED
    BY <2>2, <2>3, <2>4, <2>5, <2>6, NextCases
<1> QED
  BY <1>3, <1>4

\* Where a backup has been made there is a snapshot of its paths.
SnapshotInv ==
  \A b \in succeeded : b[2] \in Repos /\ HasSnapshot(runs[b[1]].schedule, b[2])

LEMMA MadeSnapshot ==
  ASSUME TypeOK, PlacedInv, NEW x \in Runs, Step(x)
  PROVE  \/ UNCHANGED succeeded
         \/ /\ succeeded' = succeeded \cup {Current(x)}
            /\ runs[x].repo \in Repos /\ Current(x) \in stored'[runs[x].repo]
<1>1. CASE BackupSucceeds(x)
  <2>1. runs[x].repo \in Repos
    BY <1>1, RunFields DEF BackupSucceeds, PlacedInv, Placed, OnRepository, TypeOK
  <2> QED
    BY <2>1, <1>1 DEF BackupSucceeds, TypeOK
<1>2. CASE ~ BackupSucceeds(x)
  BY <1>2 DEF Step, Skip, MountUnavailable, NoRepositories, PreScriptFails, StartAttempts,
          CreateBackup, BackupFails, FailBackup, ReportFailure, CompleteBackup,
          Prune, RecordRetention, EndReplication, TargetUnusable, Copy, ReadReplicationStatus,
          UpdateReplicationStatus
<1> QED
  BY <1>1, <1>2

LEMMA NextSnapshot ==
  ASSUME TypeOK, PlacedInv, SnapshotInv, [Next]_vars
  PROVE  SnapshotInv'
<1> SUFFICES ASSUME NEW b \in succeeded'
             PROVE  b[2] \in Repos /\ HasSnapshot(runs[b[1]].schedule, b[2])'
  BY DEF SnapshotInv
<1>1. CASE b \in succeeded
  <2>1. b[1] \in Runs /\ runs[b[1]].schedule \in Schedules
    BY <1>1, BackupParts, RunFields DEF TypeOK
  <2>2. b[2] \in Repos /\ HasSnapshot(runs[b[1]].schedule, b[2])
    BY <1>1 DEF SnapshotInv
  <2>3. runs'[b[1]].schedule = runs[b[1]].schedule
    BY <2>1, ScheduleFixed
  <2>4. PICK s \in Schedules : s = runs[b[1]].schedule
    BY <2>1
  <2>5. HasSnapshot(s, b[2])'
    BY <2>2, <2>4, SnapshotStays
  <2> QED
    BY <2>2, <2>3, <2>4, <2>5
<1>2. CASE b \notin succeeded
  <2>1. \E x \in Runs : Step(x)
    <3>1. ~ (Configures \/ UNCHANGED vars)
      BY <1>2, ConfiguredType DEF vars
    <3>2. ~ \E s \in Schedules : DeleteSchedule(s)
      BY <1>2 DEF DeleteSchedule
    <3>3. ~ \E x \in Runs, s \in Schedules, repos \in SUBSET Repos : StartRun(x, s, repos)
      BY <1>2 DEF StartRun
    <3>4. ~ Crash
      BY <1>2 DEF Crash
    <3> QED
      BY <3>1, <3>2, <3>3, <3>4, NextCases
  <2>2. PICK x \in Runs : Step(x)
    BY <2>1
  <2>3. b = Current(x) /\ runs[x].repo \in Repos /\ b \in stored'[runs[x].repo]
    BY <2>2, <1>2, MadeSnapshot
  <2>4. b[1] = x /\ b[2] = runs[x].repo
    BY <2>3, CurrentBackup
  <2> QED
    BY <2>3, <2>4 DEF HasSnapshot, SnapshotsLike
<1> QED
  BY <1>1, <1>2

\* Whatever runs of any schedules prune, there is a snapshot of the same paths in a
\* repository that has a completed backup (CompletedIsRestorable).
THEOREM CompletedRestorable == Spec => []CompletedIsRestorable
<1> DEFINE Inv == TypeOK /\ PlacedInv /\ RecordsInv /\ SnapshotInv
<1>1. Init => Inv
  BY InitType, InitRecords DEF Init, SnapshotInv
<1>2. Inv /\ [Next]_vars => Inv'
  BY NextType, NextRecords, NextSnapshot
<1>3. Inv => CompletedIsRestorable
  <2>1. 0 \notin Repos
    BY SchedulerAssumption DEF Repos
  <2> QED
    BY <2>1 DEF RecordsInv, RecordOK, SnapshotInv, HasSnapshot, CompletedIsRestorable
<1> QED
  BY <1>1, <1>2, <1>3, PTL DEF Spec

-----------------------------------------------------------------------------
(* Replication.                                                            *)

\* What a step decides about the target that a run replicates to.
TargetStep(x) ==
  LET to == runs'[x].stage
      t  == First(runs[x].targets)
  IN  \/ to \notin {"copied", "updating"}
      \/ /\ to = "copied" /\ runs[x].targets # {} /\ runs'[x].targets = runs[x].targets
         /\ Current(x) \in stored'[t]
      \/ /\ to = "updating" /\ runs'[x].targets = runs[x].targets /\ Keeps(x)
         /\ runs'[x].status.status = "synced" =>
              runs[x].stage = "copied" /\ runs'[x].status.last_snapshot = Current(x)

LEMMA MarkedRow ==
  ASSUME TypeOK, NEW x \in Runs, NEW row \in ReplicationStatus
  PROVE  /\ Marked(x, row) \in ReplicationStatus
         /\ Marked(x, row).status = "synced" =>
              runs[x].stage = "copied" /\ Marked(x, row).last_snapshot = Current(x)
<1>1. Current(x) \in Backups
  BY CurrentBackup
<1> QED
  BY <1>1 DEF Marked, ReplicationStatus

LEMMA TargetShape ==
  ASSUME TypeOK, PlacedInv, NEW x \in Runs, Step(x)
  PROVE  TargetStep(x)
<1>t. runs[x] \in Run /\ Placed(runs[x]) /\ runs \in [Runs -> Run]
  BY DEF TypeOK, PlacedInv
<1>g. ASSUME NEW stage \in AllStages, Goes(x, stage)
      PROVE  Keeps(x) /\ Stays(x) /\ runs'[x].stage = stage
  BY <1>g, GoesOn
<1>d. Stages \cup Ended \subseteq AllStages
  BY DEF AllStages
<1>1. CASE runs[x].stage \notin {"pruning", "replicating", "copied", "not_copied", "updating"}
  BY <1>1, StepShape DEF RecordStep, TargetStep, Made
<1>2. CASE Prune(x)
  <2>1. runs'[x].stage \in {"replicating", "retained"}
    <3>1. PICK stage \in {"replicating", "retained"} :
            stage = IF Retention[runs[x].schedule] = "nil" THEN "replicating" ELSE "retained"
      OBVIOUS
    <3>2. PICK targets : targets = runs[x].repos \ {runs[x].repo}
      OBVIOUS
    <3>3. PICK new : new = [runs[x] EXCEPT !.stage = stage, !.reported = TRUE, !.targets = targets]
      OBVIOUS
    <3>4. runs' = [runs EXCEPT ![x] = new]
      BY <3>1, <3>2, <3>3, <1>2 DEF Prune
    <3>5. new.stage = stage
      BY <3>3, <1>t DEF Run
    <3> QED
      BY <3>1, <3>4, <3>5, <1>t
  <2> QED
    BY <2>1 DEF TargetStep
<1>3. CASE EndReplication(x)
  BY <1>3, <1>g, <1>d DEF EndReplication, Ended, TargetStep
<1>4. CASE TargetUnusable(x) \/ UpdateReplicationStatus(x)
  <2>1. NextTarget(x) /\ runs[x].targets # {}
    BY <1>4, <1>t DEF TargetUnusable, UpdateReplicationStatus, Placed
  <2> QED
    BY <2>1, TargetDone DEF TargetStep
<1>5. CASE Copy(x)
  <2>1. CASE Goes(x, "not_copied")
    BY <2>1, <1>g, <1>d DEF Stages, TargetStep
  <2>2. CASE /\ Goes(x, "copied")
             /\ stored' = [stored EXCEPT ![First(runs[x].targets)] = @ \cup {Current(x)}]
    <3>1. First(runs[x].targets) \in Repos /\ runs[x].targets # {}
      BY <1>5, <1>t, RunFields, FirstRepo DEF Copy
    <3>2. Current(x) \in stored'[First(runs[x].targets)]
      BY <2>2, <3>1 DEF TypeOK
    <3> QED
      BY <2>2, <3>1, <3>2, <1>g, <1>d DEF Stages, Stays, TargetStep
  <2> QED
    BY <2>1, <2>2, <1>5 DEF Copy
<1>6. CASE ReadReplicationStatus(x)
  <2> DEFINE p   == Pair(x, First(runs[x].targets))
             row == IF replication[p].status = "none"
                    THEN [NoStatus EXCEPT !.status = "pending"] ELSE replication[p]
  <2>1. CASE NextTarget(x)
    BY <2>1, <1>6, <1>t, TargetDone DEF ReadReplicationStatus, Placed, TargetStep
  <2>2. CASE ~ NextTarget(x)
    <3>1. row \in ReplicationStatus
      <4>1. p \in Schedules \X Repos \X Repos
        BY <1>6, <1>t, FirstRepo, RunFields DEF ReadReplicationStatus, Placed, OnRepository, Pair
      <4> QED
        BY <4>1 DEF TypeOK, NoStatus, ReplicationStatus
    <3>2. PICK marked : marked = Marked(x, row)
      OBVIOUS
    <3>3. marked.status = "synced" => runs[x].stage = "copied" /\ marked.last_snapshot = Current(x)
      BY <3>1, <3>2, MarkedRow
    <3>4. runs' = [runs EXCEPT ![x].stage = "updating", ![x].status = marked]
      BY <2>2, <3>2, <1>6 DEF ReadReplicationStatus
    <3> HIDE DEF p, row
    <3>5. PICK new : new = [runs[x] EXCEPT !.stage = "updating", !.status = marked]
      OBVIOUS
    <3>6. runs' = [runs EXCEPT ![x] = new]
      BY <3>4, <3>5
    <3>7. /\ new.stage = "updating" /\ new.status = marked /\ new.targets = runs[x].targets
          /\ new.repo = runs[x].repo /\ new.attempt = runs[x].attempt
      BY <3>5, <1>t DEF Run
    <3> QED
      BY <3>3, <3>6, <3>7, <1>t DEF TargetStep, Keeps
  <2> QED
    BY <2>1, <2>2
<1>7. CASE ~ \/ Prune(x) \/ EndReplication(x) \/ TargetUnusable(x) \/ UpdateReplicationStatus(x)
             \/ Copy(x) \/ ReadReplicationStatus(x)
  <2>1. runs[x].stage \in {"starting", "creating", "backing_up", "failing", "exhausted", "saving",
                           "retained"}
    BY <1>7 DEF Step, Skip, MountUnavailable, NoRepositories, PreScriptFails, StartAttempts,
            CreateBackup, BackupFails, BackupSucceeds, FailBackup, ReportFailure, CompleteBackup,
            RecordRetention
  <2> QED
    BY <2>1, <1>1
<1> QED
  BY <1>1, <1>2, <1>3, <1>4, <1>5, <1>6, <1>7

\* A run that has copied to a target, or goes on to mark it as synced, has a snapshot
\* there to show for it.
CopyOK(x) ==
  LET run == runs[x]
      s   == runs[x].schedule
      t   == First(runs[x].targets)
  IN  /\ run.stage = "copied" => HasSnapshot(s, t)
      /\ run.stage = "updating" /\ run.status.status = "synced" =>
           /\ HasSnapshot(s, t)
           /\ run.status.last_snapshot \in succeeded
           /\ run.status.last_snapshot[2] = run.repo

RowOK(p) ==
  replication[p].status = "synced" =>
    /\ HasSnapshot(p[1], p[3])
    /\ replication[p].last_snapshot \in succeeded
    /\ replication[p].last_snapshot[2] = p[2]

Pairs == Schedules \X Repos \X Repos

SyncedInv == (\A x \in Runs : CopyOK(x)) /\ (\A p \in Pairs : RowOK(p))

LEMMA SucceededStays ==
  ASSUME TypeOK, PlacedInv, [Next]_vars
  PROVE  succeeded \subseteq succeeded'
<1>1. CASE Configures \/ UNCHANGED vars
  BY <1>1, ConfiguredType DEF vars
<1>2. CASE \E s \in Schedules : DeleteSchedule(s)
  BY <1>2 DEF DeleteSchedule
<1>3. CASE \E x \in Runs, s \in Schedules, repos \in SUBSET Repos : StartRun(x, s, repos)
  BY <1>3 DEF StartRun
<1>4. CASE \E x \in Runs : Step(x)
  BY <1>4, MadeSnapshot
<1>5. CASE Crash
  BY <1>5 DEF Crash
<1> QED
  BY <1>1, <1>2, <1>3, <1>4, <1>5, NextCases

\* A run that a step leaves alone keeps what it has.
LEMMA CopyStays ==
  ASSUME TypeOK, PlacedInv, [Next]_vars, NEW x \in Runs, CopyOK(x), runs'[x] = runs[x]
  PROVE  CopyOK(x)'
<1>1. runs[x] \in Run /\ Placed(runs[x])
  BY DEF TypeOK, PlacedInv
<1>2. CASE runs[x].stage \in {"copied", "updating"}
  <2>1. PICK s \in Schedules, t \in Repos : s = runs[x].schedule /\ t = First(runs[x].targets)
    BY <1>1, <1>2, FirstRepo, RunFields DEF Placed
  <2>2. HasSnapshot(s, t) => HasSnapshot(s, t)'
    BY SnapshotStays
  <2> QED
    BY <2>1, <2>2, SucceededStays DEF CopyOK
<1>3. CASE runs[x].stage \notin {"copied", "updating"}
  BY <1>3 DEF CopyOK
<1> QED
  BY <1>2, <1>3

LEMMA CopyStep ==
  ASSUME TypeOK, PlacedInv, RecordsInv, NEW x \in Runs, Step(x), CopyOK(x)
  PROVE  CopyOK(x)'
<1>1. /\ RunChange(x) /\ TargetStep(x)
      /\ runs[x] \in Run /\ Placed(runs[x]) /\ runs'[x] \in Run /\ Placed(runs'[x])
  BY StepShape, TargetShape DEF TypeOK, PlacedInv, RunChange
<1>2. CASE runs'[x].stage = "copied"
  <2>1. /\ runs'[x].targets = runs[x].targets /\ runs'[x].schedule = runs[x].schedule
        /\ Current(x) \in stored'[First(runs[x].targets)]
    BY <1>1, <1>2 DEF TargetStep, RunChange
  <2>2. Current(x)[1] = x
    BY CurrentBackup
  <2>3. HasSnapshot(runs[x].schedule, First(runs[x].targets))'
    BY <2>1, <2>2 DEF HasSnapshot, SnapshotsLike
  <2> QED
    BY <2>3, <1>2 DEF CopyOK
<1>3. CASE runs'[x].stage = "updating" /\ runs'[x].status.status = "synced"
  <2>1. /\ runs[x].stage = "copied" /\ runs'[x].targets = runs[x].targets
        /\ runs'[x].schedule = runs[x].schedule /\ Keeps(x)
        /\ runs'[x].status.last_snapshot = Current(x)
    BY <1>1, <1>3 DEF TargetStep, RunChange
  <2>2. PICK s \in Schedules, t \in Repos : s = runs[x].schedule /\ t = First(runs[x].targets)
    BY <2>1, <1>1, FirstRepo, RunFields DEF Placed
  <2>3. HasSnapshot(s, t)
    BY <2>1, <2>2 DEF CopyOK
  <2>4. [Next]_vars
    BY DEF Next
  <2>5. HasSnapshot(s, t)'
    BY <2>3, <2>4, SnapshotStays
  <2>6. Current(x) \in Backups /\ Current(x)[1] = x /\ Current(x)[2] = runs[x].repo
    BY CurrentBackup
  <2>7. Current(x) \in succeeded
    BY <2>1, <2>6 DEF RecordsInv, RecordOK, Made
  <2>8. Current(x) \in succeeded'
    BY <2>4, <2>7, SucceededStays
  <2> QED
    BY <1>3, <2>1, <2>2, <2>5, <2>6, <2>8 DEF CopyOK, Keeps
<1>4. CASE ~ (runs'[x].stage = "copied")
           /\ ~ (runs'[x].stage = "updating" /\ runs'[x].status.status = "synced")
  BY <1>4 DEF CopyOK
<1> QED
  BY <1>2, <1>3, <1>4

\* A row that says synced said so before or is what a run that copied writes.
LEMMA RowChange ==
  ASSUME TypeOK, PlacedInv, NEW x \in Runs, Step(x), NEW p \in Pairs
  PROVE  \/ replication'[p] = replication[p]
         \/ replication'[p].status # "synced"
         \/ /\ p = Pair(x, First(runs[x].targets))
            /\ runs[x].stage = "updating" /\ replication'[p] = runs[x].status
<1>t. replication \in [Pairs -> ReplicationStatus] /\ runs[x] \in Run /\ Placed(runs[x])
  BY DEF TypeOK, Pairs, PlacedInv
<1>1. CASE UNCHANGED replication
  BY <1>1
<1>2. CASE ReadReplicationStatus(x)
  <2> DEFINE q == Pair(x, First(runs[x].targets))
  <2>1. q \in Pairs
    BY <1>2, <1>t, FirstRepo, RunFields
       DEF ReadReplicationStatus, Placed, OnRepository, Pair, Pairs
  <2>2. \/ UNCHANGED replication
        \/ replication' = [replication EXCEPT ![q] =
             IF replication[q].status = "none" THEN [NoStatus EXCEPT !.status = "pending"]
                                               ELSE replication[q]]
    BY <1>2 DEF ReadReplicationStatus
  <2>3. [NoStatus EXCEPT !.status = "pending"].status = "pending"
    BY DEF NoStatus
  <2> HIDE DEF q
  <2> QED
    BY <2>1, <2>2, <2>3, <1>t
<1>3. CASE UpdateReplicationStatus(x)
  <2> DEFINE q == Pair(x, First(runs[x].targets))
  <2>1. q \in Pairs
    BY <1>3, <1>t, FirstRepo, RunFields
       DEF UpdateReplicationStatus, Placed, OnRepository, Pair, Pairs
  <2>2. \/ UNCHANGED replication
        \/ replication' = [replication EXCEPT ![q] =
             IF replication[q].status = "none" THEN replication[q] ELSE runs[x].status]
    BY <1>3 DEF UpdateReplicationStatus
  <2>3. runs[x].stage = "updating"
    BY <1>3 DEF UpdateReplicationStatus
  <2>4. PICK c : c = q
    OBVIOUS
  <2> HIDE DEF q
  <2>5. \/ replication'[p] = replication[p]
        \/ p = q /\ replication'[p] = runs[x].status
    BY <2>1, <2>2, <1>t
  <2> QED
    BY <2>3, <2>5 DEF q
<1> QED
  BY <1>1, <1>2, <1>3
     DEF Step, Skip, MountUnavailable, NoRepositories, PreScriptFails, StartAttempts,
         CreateBackup, BackupFails, BackupSucceeds, FailBackup, ReportFailure, CompleteBackup,
         Prune, RecordRetention, EndReplication, TargetUnusable, Copy

LEMMA RowStays ==
  ASSUME TypeOK, PlacedInv, [Next]_vars, NEW p \in Pairs, RowOK(p),
         replication'[p] = replication[p]
  PROVE  RowOK(p)'
<1>1. p[1] \in Schedules /\ p[3] \in Repos
  BY DEF Pairs
<1>2. HasSnapshot(p[1], p[3]) => HasSnapshot(p[1], p[3])'
  BY <1>1, SnapshotStays
<1> QED
  BY <1>2, SucceededStays DEF RowOK

LEMMA NextSynced ==
  ASSUME TypeOK, PlacedInv, RecordsInv, SyncedInv, [Next]_vars
  PROVE  SyncedInv'
<1>r. replication \in [Pairs -> ReplicationStatus]
  BY DEF TypeOK, Pairs
<1>1. CASE Configures \/ UNCHANGED vars
  <2>1. UNCHANGED <<runs, replication>>
    BY <1>1, ConfiguredType DEF vars
  <2> QED
    BY <2>1, CopyStays, RowStays DEF SyncedInv
<1>2. CASE \E s \in Schedules : DeleteSchedule(s)
  <2>1. UNCHANGED runs
    BY <1>2 DEF DeleteSchedule
  <2>2. \A x \in Runs : CopyOK(x)'
    BY <2>1, CopyStays DEF SyncedInv
  <2>3. ASSUME NEW p \in Pairs PROVE RowOK(p)'
    <3>1. replication'[p] = replication[p] \/ replication'[p] = NoStatus
      BY <1>2, <1>r DEF DeleteSchedule
    <3>2. NoStatus.status # "synced"
      BY DEF NoStatus
    <3>3. CASE replication'[p] = replication[p]
      BY <3>3, RowStays DEF SyncedInv
    <3>4. CASE replication'[p] = NoStatus
      BY <3>2, <3>4 DEF RowOK
    <3> QED
      BY <3>1, <3>3, <3>4
  <2> QED
    BY <2>2, <2>3 DEF SyncedInv
<1>3. CASE \E x \in Runs, s \in Schedules, repos \in SUBSET Repos : StartRun(x, s, repos)
  <2>1. PICK x \in Runs, s \in Schedules, repos \in SUBSET Repos : StartRun(x, s, repos)
    BY <1>3
  <2>2. /\ \A y \in Runs : y # x => runs'[y] = runs[y]
        /\ runs'[x].stage = "starting" /\ UNCHANGED replication
    BY <2>1, Started
  <2>3. CopyOK(x)'
    BY <2>2 DEF CopyOK
  <2>4. \A y \in Runs : y # x => CopyOK(y)'
    BY <2>2, CopyStays DEF SyncedInv
  <2>5. \A p \in Pairs : RowOK(p)'
    BY <2>2, RowStays DEF SyncedInv
  <2> QED
    BY <2>3, <2>4, <2>5 DEF SyncedInv
<1>4. CASE \E x \in Runs : Step(x)
  <2>1. PICK x \in Runs : Step(x)
    BY <1>4
  <2>2. CopyOK(x)'
    BY <2>1, CopyStep DEF SyncedInv
  <2>3. \A y \in Runs : y # x => CopyOK(y)'
    BY <2>1, StepShape, CopyStays DEF SyncedInv, RunChange
  <2>4. ASSUME NEW p \in Pairs PROVE RowOK(p)'
    <3>1. CASE replication'[p] = replication[p]
      BY <3>1, RowStays DEF SyncedInv
    <3>2. CASE replication'[p].status # "synced"
      BY <3>2 DEF RowOK
    <3>3. CASE /\ p = Pair(x, First(runs[x].targets)) /\ replication'[p].status = "synced"
               /\ runs[x].stage = "updating" /\ replication'[p] = runs[x].status
      <4>1. /\ p[1] = runs[x].schedule /\ p[2] = runs[x].repo
            /\ p[3] = First(runs[x].targets) /\ p[1] \in Schedules /\ p[3] \in Repos
        BY <3>3 DEF Pair, Pairs
      <4>2. /\ HasSnapshot(p[1], p[3]) /\ replication'[p].last_snapshot \in succeeded
            /\ replication'[p].last_snapshot[2] = p[2]
        BY <3>3, <4>1 DEF SyncedInv, CopyOK
      <4>3. HasSnapshot(p[1], p[3])'
        BY <4>1, <4>2, SnapshotStays
      <4> QED
        BY <4>2, <4>3, SucceededStays DEF RowOK
    <3> QED
      BY <2>1, <3>1, <3>2, <3>3, RowChange
  <2> QED
    BY <2>2, <2>3, <2>4 DEF SyncedInv
<1>5. CASE Crash
  <2>1. UNCHANGED replication
    BY <1>5 DEF Crash
  <2>2. ASSUME NEW x \in Runs PROVE CopyOK(x)'
    <3>1. /\ InProgress(x) => runs'[x].stage = "dead"
          /\ ~ InProgress(x) => runs'[x] = runs[x]
      BY <1>5, Died
    <3>2. CASE InProgress(x)
      BY <3>1, <3>2 DEF CopyOK
    <3>3. CASE ~ InProgress(x)
      BY <3>1, <3>3, CopyStays DEF SyncedInv
    <3> QED
      BY <3>2, <3>3
  <2> QED
    BY <2>1, <2>2, RowStays DEF SyncedInv
<1> QED
  BY <1>1, <1>2, <1>3, <1>4, <1>5, NextCases

\* Whatever overlapping runs write over each other, a target marked as synced holds a
\* snapshot of the schedule's paths (SyncedTargetHoldsSnapshot).
THEOREM SyncedHolds == Spec => []SyncedTargetHoldsSnapshot
<1> DEFINE Inv == TypeOK /\ PlacedInv /\ RecordsInv /\ SyncedInv
<1>1. Init => Inv
  <2>1. ASSUME Init, NEW x \in Runs PROVE runs[x].stage = "unborn"
    <3>1. PICK s \in Schedules : runs[x] = [NewRun(s, {}) EXCEPT !.stage = "unborn"]
      BY <2>1 DEF Init
    <3> QED
      BY <3>1 DEF NewRun
  <2>2. Init => SyncedInv
    BY <2>1 DEF Init, SyncedInv, CopyOK, RowOK, Pairs, NoStatus
  <2> QED
    BY <2>2, InitType, InitRecords
<1>2. Inv /\ [Next]_vars => Inv'
  BY NextType, NextRecords, NextSynced
<1>3. Inv => SyncedTargetHoldsSnapshot
  <2>1. TypeOK => DOMAIN replication = Pairs
    BY DEF TypeOK, Pairs
  <2> QED
    BY <2>1 DEF SyncedInv, RowOK, HasSnapshot, SyncedTargetHoldsSnapshot
<1> QED
  BY <1>1, <1>2, <1>3, PTL DEF Spec
-----------------------------------------------------------------------------
(* The order of the attempts.                                              *)

\* c comes before b among the attempts of a run.
Precedes(c, b) == c[2] < b[2] \/ (c[2] = b[2] /\ c[3] < b[3])

Attempts(x) == {x} \X runs[x].repos \X (1 .. MaxRetries)

\* What was tried comes before what the run is at, and everything that does was
\* tried; all of it has been where the run has given up.
OrderOK(x) ==
  LET stage == runs[x].stage
      c     == Current(x)
  IN  /\ stage \in {"unborn", "starting"} =>
           runs[x].attempt = 1 /\ \A b \in tried : b[1] # x
      /\ \A b \in tried :
           b[1] = x => Precedes(b, c) \/ (b = c /\ stage # "creating")
      /\ \A d \in Attempts(x) : Precedes(d, c) => d \in tried
      /\ stage \in {"backing_up", "failing"} /\ runs[x].repo # 0 => c \in tried
      /\ stage \in {"exhausted", "failed"} => Attempts(x) \subseteq tried

OrderInv == \A x \in Runs : OrderOK(x)

\* The parts of an attempt are numbers.
LEMMA AttemptParts ==
  ASSUME TypeOK, NEW x \in Runs, NEW d \in Attempts(x)
  PROVE  /\ d \in Backups /\ d[1] = x /\ d[2] \in runs[x].repos /\ d[2] \in Nat /\ d[2] > 0
         /\ d[3] \in Nat /\ d[3] >= 1 /\ d[3] <= MaxRetries /\ d = <<x, d[2], d[3]>>
<1>1. runs[x].repos \subseteq Repos /\ Repos \subseteq Nat \ {0} /\ Repos \subseteq 0 .. NumRepos
  BY RunFields, SchedulerAssumption DEF TypeOK, Repos
<1>2. 1 .. MaxRetries \subseteq Nat
  BY SchedulerAssumption
<1>3. d[1] = x /\ d[2] \in runs[x].repos /\ d[3] \in 1 .. MaxRetries /\ d = <<x, d[2], d[3]>>
  BY DEF Attempts
<1>4. d \in Backups
  BY <1>1, <1>3 DEF Backups
<1>5. d[2] \in Nat /\ d[2] > 0
  <2>1. d[2] \in Repos
    BY <1>1, <1>3
  <2> QED
    BY <2>1, SchedulerAssumption DEF Repos
<1>6. d[3] \in Nat /\ d[3] >= 1 /\ d[3] <= MaxRetries
  BY <1>3, SchedulerAssumption
<1> QED
  BY <1>3, <1>4, <1>5, <1>6

LEMMA CurrentParts ==
  ASSUME TypeOK, NEW x \in Runs
  PROVE  /\ runs[x].repo \in Nat /\ runs[x].attempt \in Nat
         /\ runs[x].attempt >= 1 /\ runs[x].attempt <= MaxRetries /\ MaxRetries \in Nat
<1>1. runs[x].repo \in 0 .. NumRepos /\ runs[x].attempt \in 1 .. MaxRetries
  BY RunFields DEF TypeOK
<1> QED
  BY <1>1, SchedulerAssumption

\* What a step tries and where the run goes on.
AttemptStep(x) ==
  LET from == runs[x].stage
      to   == runs'[x].stage
  IN  \/ /\ from = "starting" /\ to = "creating" /\ UNCHANGED tried
         /\ runs'[x].attempt = runs[x].attempt
         /\ \A r \in runs[x].repos : runs'[x].repo <= r
      \/ /\ from = "creating" /\ to = "backing_up" /\ Keeps(x)
         /\ tried' = tried \cup {Current(x)}
      \/ /\ from = "creating" /\ Follows(runs'[x], runs[x])
         /\ tried' = tried \cup {Current(x)}
      \/ /\ from = "failing" /\ runs[x].repo # 0 /\ Follows(runs'[x], runs[x])
         /\ UNCHANGED tried
      \/ /\ from # "creating" /\ Keeps(x) /\ UNCHANGED tried
         /\ to \notin {"unborn", "starting", "creating", "backing_up", "exhausted"}
         /\ to = "failing" => from = "backing_up" \/ runs[x].repo = 0
         /\ to = "failed" => from = "exhausted"

LEMMA AttemptShape ==
  ASSUME TypeOK, PlacedInv, NEW x \in Runs, Step(x)
  PROVE  AttemptStep(x)
<1>t. runs[x] \in Run /\ Placed(runs[x]) /\ runs \in [Runs -> Run]
  BY DEF TypeOK, PlacedInv
<1> USE <1>t
<1>g. ASSUME NEW stage \in Stages \cup Ended, Goes(x, stage)
      PROVE  Keeps(x) /\ runs'[x].stage = stage
  BY <1>g, GoesOn DEF AllStages
<1>1. CASE Skip(x)
  BY <1>1, <1>g DEF Skip, Ended, AttemptStep
<1>2. CASE MountUnavailable(x)
  <2>1. runs[x].repo = 0
    BY <1>2 DEF MountUnavailable, Placed
  <2> QED
    BY <1>2, <2>1, <1>g DEF MountUnavailable, Stages, Ended, AttemptStep
<1>3. CASE NoRepositories(x)
  BY <1>3, <1>g DEF NoRepositories, Ended, AttemptStep
<1>4. CASE PreScriptFails(x)
  <2>1. PICK new : new = [runs[x] EXCEPT !.stage = "aborted", !.reported = TRUE]
    OBVIOUS
  <2>2. runs'[x] = new
    BY <2>1, <1>4 DEF PreScriptFails
  <2>3. new.stage = "aborted" /\ new.repo = runs[x].repo /\ new.attempt = runs[x].attempt
    BY <2>1 DEF Run
  <2> QED
    BY <2>2, <2>3, <1>4 DEF PreScriptFails, AttemptStep, Keeps
<1>5. CASE StartAttempts(x)
  <2>1. PICK f : f = First(runs[x].repos)
    OBVIOUS
  <2>2. \A r \in runs[x].repos : f <= r
    BY <2>1, <1>5, RunFields, FirstRepo DEF StartAttempts
  <2>3. PICK new : new = [runs[x] EXCEPT !.stage = "creating", !.repo = f]
    OBVIOUS
  <2>4. runs'[x] = new
    BY <2>1, <2>3, <1>5 DEF StartAttempts
  <2>5. new.stage = "creating" /\ new.attempt = runs[x].attempt /\ new.repo = f
    BY <2>3 DEF Run
  <2> QED
    BY <2>2, <2>4, <2>5, <1>5 DEF StartAttempts, AttemptStep
<1>6. CASE CreateBackup(x)
  <2>1. CASE Goes(x, "backing_up")
    BY <2>1, <1>6, <1>g DEF CreateBackup, Stages, AttemptStep
  <2>2. CASE runs' = [runs EXCEPT ![x] = AfterFailure(@, FALSE)]
    <3>1. runs'[x] = AfterFailure(runs[x], FALSE)
      BY <2>2
    <3>2. Follows(runs'[x], runs[x])
      BY <3>1, Continued
    <3> QED
      BY <3>2, <1>6 DEF CreateBackup, AttemptStep
  <2> QED
    BY <2>1, <2>2, <1>6 DEF CreateBackup
<1>7. CASE BackupFails(x)
  BY <1>7, <1>g DEF BackupFails, Stages, AttemptStep
<1>8. CASE BackupSucceeds(x)
  BY <1>8, <1>g DEF BackupSucceeds, Stages, AttemptStep
<1>9. CASE FailBackup(x)
  <2>1. CASE Goes(x, "aborted")
    BY <2>1, <1>9, <1>g DEF FailBackup, Ended, AttemptStep
  <2>2. CASE runs[x].repo # 0 /\ runs' = [runs EXCEPT ![x] = AfterFailure(@, TRUE)]
    <3>1. runs'[x] = AfterFailure(runs[x], TRUE)
      BY <2>2
    <3>2. Follows(runs'[x], runs[x])
      BY <3>1, Continued
    <3> QED
      BY <2>2, <3>2, <1>9 DEF FailBackup, AttemptStep
  <2> QED
    BY <2>1, <2>2, <1>9 DEF FailBackup
<1>10. CASE ReportFailure(x)
  <2>1. PICK new : new = [runs[x] EXCEPT !.stage = "failed", !.reported = runs[x].has_last]
    OBVIOUS
  <2>2. runs'[x] = new
    BY <2>1, <1>10 DEF ReportFailure
  <2>3. new.stage = "failed" /\ new.repo = runs[x].repo /\ new.attempt = runs[x].attempt
    BY <2>1 DEF Run
  <2> QED
    BY <2>2, <2>3, <1>10 DEF ReportFailure, AttemptStep, Keeps
<1>11. CASE \/ CompleteBackup(x) \/ Prune(x) \/ RecordRetention(x) \/ EndReplication(x)
            \/ TargetUnusable(x) \/ Copy(x) \/ ReadReplicationStatus(x) \/ UpdateReplicationStatus(x)
  <2>1. UNCHANGED tried /\ runs[x].stage \in Made \ {"done"}
    BY <1>11 DEF CompleteBackup, Prune, RecordRetention, EndReplication, TargetUnusable, Copy,
                 ReadReplicationStatus, UpdateReplicationStatus, Made
  <2>2. RecordStep(x)
    BY StepShape
  <2>3. Keeps(x) /\ runs'[x].stage \in Made
    BY <2>1, <2>2 DEF RecordStep, Made
  <2> QED
    BY <2>1, <2>3 DEF AttemptStep, Made
<1> QED
  BY <1>1, <1>2, <1>3, <1>4, <1>5, <1>6, <1>7, <1>8, <1>9, <1>10, <1>11 DEF Step

\* An attempt on a repository up to the current one, and up to the current attempt
\* there, is the current one or comes before it.
LEMMA UpToCurrent ==
  ASSUME TypeOK, NEW x \in Runs, NEW d \in Attempts(x),
         d[2] < runs[x].repo \/ (d[2] = runs[x].repo /\ d[3] <= runs[x].attempt)
  PROVE  d = Current(x) \/ Precedes(d, Current(x))
<1>1. /\ d[2] \in Nat /\ d[3] \in Nat /\ d = <<x, d[2], d[3]>>
      /\ runs[x].repo \in Nat /\ runs[x].attempt \in Nat
  BY AttemptParts, CurrentParts
<1>2. Current(x)[2] = runs[x].repo /\ Current(x)[3] = runs[x].attempt
  BY DEF Current
<1>3. CASE d[2] = runs[x].repo /\ d[3] = runs[x].attempt
  BY <1>1, <1>3 DEF Current
<1>4. CASE d[2] < runs[x].repo \/ (d[2] = runs[x].repo /\ d[3] < runs[x].attempt)
  BY <1>2, <1>4 DEF Precedes
<1> QED
  BY <1>1, <1>3, <1>4

\* When the current attempt has been made too, the next one is in order.
LEMMA FollowsInOrder ==
  ASSUME TypeOK, TypeOK', NEW x \in Runs, runs'[x].repos = runs[x].repos,
         Follows(runs'[x], runs[x]), Current(x) \in tried', tried \subseteq tried',
         \A b \in tried' : b[1] = x => b = Current(x) \/ (b \in tried /\ Precedes(b, Current(x))),
         \A d \in Attempts(x) : Precedes(d, Current(x)) => d \in tried
  PROVE  OrderOK(x)'
<1> DEFINE c == Current(x)
           e == Current(x)'
<1>1. /\ runs[x].repo \in Nat /\ runs[x].attempt \in Nat /\ runs[x].attempt <= MaxRetries
      /\ runs'[x].repo \in Nat /\ runs'[x].attempt \in Nat /\ MaxRetries \in Nat
  <2>1. runs'[x].repo \in 0 .. NumRepos /\ runs'[x].attempt \in 1 .. MaxRetries
    BY RunFields DEF TypeOK
  <2> QED
    BY <2>1, CurrentParts, SchedulerAssumption
<1>2. /\ c[2] = runs[x].repo /\ c[3] = runs[x].attempt
      /\ e[2] = runs'[x].repo /\ e[3] = runs'[x].attempt
  BY DEF Current
<1>3. Attempts(x)' = Attempts(x)
  BY DEF Attempts
<1>4. ASSUME NEW d \in Attempts(x),
             d[2] < runs[x].repo \/ (d[2] = runs[x].repo /\ d[3] <= runs[x].attempt)
      PROVE  d \in tried'
  BY <1>4, UpToCurrent
<1>5. \A b \in tried' : b[1] = x => b \in Backups /\ b[2] \in Nat /\ b[3] \in Nat
  BY BackupParts, SchedulerAssumption DEF TypeOK
<1>6. ASSUME NEW b \in tried', b[1] = x
      PROVE  b = c \/ Precedes(b, c)
  BY <1>6
<1> HIDE DEF c, e
<1>7. CASE /\ runs'[x].stage = "creating" /\ runs'[x].repo = runs[x].repo
           /\ runs'[x].attempt = runs[x].attempt + 1
  <2>1. ASSUME NEW b \in tried', b[1] = x
        PROVE  Precedes(b, e)
    BY <2>1, <1>1, <1>2, <1>5, <1>6, <1>7 DEF Precedes
  <2>2. ASSUME NEW d \in Attempts(x), Precedes(d, e)
        PROVE  d \in tried'
    BY <2>2, <1>1, <1>2, <1>4, <1>7, AttemptParts DEF Precedes
  <2> QED
    BY <2>1, <2>2, <1>3, <1>7 DEF OrderOK, e
<1>8. CASE /\ runs'[x].stage = "creating" /\ runs[x].attempt = MaxRetries /\ runs'[x].attempt = 1
           /\ runs'[x].repo > runs[x].repo
           /\ \A r \in runs[x].repos : r > runs[x].repo => runs'[x].repo <= r
  <2>1. ASSUME NEW b \in tried', b[1] = x
        PROVE  Precedes(b, e)
    BY <2>1, <1>1, <1>2, <1>5, <1>6, <1>8 DEF Precedes
  <2>2. ASSUME NEW d \in Attempts(x), Precedes(d, e)
        PROVE  d \in tried'
    <3>1. d[2] \in Nat /\ d[3] \in Nat /\ d[3] >= 1 /\ d[3] <= MaxRetries /\ d[2] \in runs[x].repos
      BY AttemptParts
    <3>2. d[2] < runs'[x].repo
      BY <2>2, <3>1, <1>2, <1>8 DEF Precedes
    <3>3. d[2] <= runs[x].repo
      BY <3>1, <3>2, <1>1, <1>8
    <3> QED
      BY <3>1, <3>3, <1>1, <1>4, <1>8
  <2> QED
    BY <2>1, <2>2, <1>3, <1>8 DEF OrderOK, e
<1>9. CASE /\ runs'[x].stage = "exhausted" /\ runs[x].attempt = MaxRetries
           /\ runs'[x].attempt = runs[x].attempt /\ runs'[x].repo = runs[x].repo
           /\ \A r \in runs[x].repos : r <= runs[x].repo
  <2>1. e = c
    BY <1>9 DEF c, e, Current
  <2>2. ASSUME NEW d \in Attempts(x)
        PROVE  d \in tried'
    <3>1. d[2] \in Nat /\ d[3] \in Nat /\ d[3] <= MaxRetries /\ d[2] \in runs[x].repos
      BY AttemptParts
    <3> QED
      BY <3>1, <1>1, <1>4, <1>9
  <2> QED
    BY <2>1, <2>2, <1>3, <1>6, <1>9 DEF OrderOK, e
<1> QED
  BY <1>7, <1>8, <1>9 DEF Follows

LEMMA OrderStep ==
  ASSUME TypeOK, PlacedInv, NEW x \in Runs, Step(x), OrderOK(x)
  PROVE  OrderOK(x)'
<1> DEFINE c == Current(x)
<1>1. TypeOK' /\ RunChange(x) /\ AttemptStep(x)
  BY StepType, StepShape, AttemptShape
<1>2. Attempts(x)' = Attempts(x) /\ runs'[x].repos = runs[x].repos
  BY <1>1 DEF Attempts, RunChange
<1>3. c[1] = x /\ c[2] = runs[x].repo /\ c[3] = runs[x].attempt
  BY DEF Current
<1>k. Keeps(x) => Current(x)' = c
  BY DEF Keeps, Current
<1>4. CASE /\ runs[x].stage = "starting" /\ runs'[x].stage = "creating" /\ UNCHANGED tried
           /\ runs'[x].attempt = runs[x].attempt
           /\ \A r \in runs[x].repos : runs'[x].repo <= r
  <2>1. runs[x].attempt = 1 /\ \A b \in tried : b[1] # x
    BY <1>4 DEF OrderOK
  <2>2. ASSUME NEW d \in Attempts(x) PROVE ~ Precedes(d, Current(x)')
    <3>1. d[2] \in runs[x].repos /\ d[2] \in Nat /\ d[3] \in Nat /\ d[3] >= 1
      BY AttemptParts
    <3>2. Current(x)'[2] = runs'[x].repo /\ Current(x)'[3] = 1
      BY <2>1, <1>4 DEF Current
    <3>3. runs'[x].repo \in Nat
      <4>1. runs'[x].repo \in 0 .. NumRepos
        BY <1>1, RunFields DEF TypeOK
      <4> QED
        BY <4>1, SchedulerAssumption
    <3> QED
      BY <3>1, <3>2, <3>3, <1>4 DEF Precedes
  <2> QED
    BY <2>1, <2>2, <1>2, <1>4 DEF OrderOK
<1>5. CASE /\ runs[x].stage = "creating" /\ runs'[x].stage = "backing_up" /\ Keeps(x)
           /\ tried' = tried \cup {c}
  BY <1>2, <1>5, <1>k DEF OrderOK
<1>6. CASE /\ runs[x].stage = "creating" /\ Follows(runs'[x], runs[x])
           /\ tried' = tried \cup {c}
  <2>1. /\ \A b \in tried' : b[1] = x => b = c \/ (b \in tried /\ Precedes(b, c))
        /\ \A d \in Attempts(x) : Precedes(d, c) => d \in tried
        /\ c \in tried' /\ tried \subseteq tried'
    BY <1>6 DEF OrderOK
  <2> QED
    BY <2>1, <1>1, <1>2, <1>6, FollowsInOrder
<1>7. CASE /\ runs[x].stage = "failing" /\ runs[x].repo # 0 /\ Follows(runs'[x], runs[x])
           /\ UNCHANGED tried
  <2>1. /\ \A b \in tried' : b[1] = x => b = c \/ (b \in tried /\ Precedes(b, c))
        /\ \A d \in Attempts(x) : Precedes(d, c) => d \in tried
        /\ c \in tried' /\ tried \subseteq tried'
    BY <1>7 DEF OrderOK
  <2> QED
    BY <2>1, <1>1, <1>2, <1>7, FollowsInOrder
<1>8. CASE /\ runs[x].stage # "creating" /\ Keeps(x) /\ UNCHANGED tried
           /\ runs'[x].stage \notin {"unborn", "starting", "creating", "backing_up", "exhausted"}
           /\ runs'[x].stage = "failing" => runs[x].stage = "backing_up" \/ runs[x].repo = 0
           /\ runs'[x].stage = "failed" => runs[x].stage = "exhausted"
  <2>1. runs'[x].repo = runs[x].repo
    BY <1>8 DEF Keeps
  <2> QED
    BY <2>1, <1>2, <1>8, <1>k DEF OrderOK
<1> QED
  BY <1>1, <1>4, <1>5, <1>6, <1>7, <1>8 DEF AttemptStep

\* What another run does, or a step that tries nothing, keeps the order of x.
LEMMA OrderStays ==
  ASSUME NEW x \in Runs, OrderOK(x), runs'[x] = runs[x],
         tried \subseteq tried', \A b \in tried' : b[1] = x => b \in tried
  PROVE  OrderOK(x)'
<1>1. Attempts(x)' = Attempts(x) /\ Current(x)' = Current(x)
  BY DEF Attempts, Current
<1>2. \A b \in tried' : b[1] = x => Precedes(b, Current(x)) \/ (b = Current(x) /\ runs[x].stage # "creating")
  BY DEF OrderOK
<1> QED
  BY <1>1, <1>2 DEF OrderOK

LEMMA InitOrder ==
  ASSUME Init
  PROVE  OrderInv
<1> SUFFICES ASSUME NEW x \in Runs
             PROVE  OrderOK(x)
  BY DEF OrderInv
<1>1. runs[x].stage = "unborn" /\ runs[x].repo = 0 /\ runs[x].attempt = 1
  <2>1. PICK s \in Schedules : runs[x] = [NewRun(s, {}) EXCEPT !.stage = "unborn"]
    BY DEF Init
  <2> QED
    BY <2>1 DEF NewRun
<1>2. TypeOK
  BY InitType
<1>3. ASSUME NEW d \in Attempts(x) PROVE ~ Precedes(d, Current(x))
  <2>1. d[2] \in Nat /\ d[2] > 0
    BY <1>2, AttemptParts
  <2>2. Current(x)[2] = 0
    BY <1>1 DEF Current
  <2> QED
    BY <2>1, <2>2 DEF Precedes
<1> QED
  BY <1>1, <1>3 DEF Init, OrderOK

LEMMA NextOrder ==
  ASSUME TypeOK, PlacedInv, OrderInv, [Next]_vars
  PROVE  OrderInv'
<1> SUFFICES ASSUME NEW x \in Runs
             PROVE  OrderOK(x)'
  BY DEF OrderInv
<1>x. OrderOK(x)
  BY DEF OrderInv
<1>1. CASE Configures \/ UNCHANGED vars \/ \E s \in Schedules : DeleteSchedule(s)
  <2>1. UNCHANGED <<runs, tried>>
    BY <1>1, ConfiguredType, DeletedType DEF vars
  <2> QED
    BY <2>1, <1>x, OrderStays
<1>2. CASE \E y \in Runs, s \in Schedules, repos \in SUBSET Repos : StartRun(y, s, repos)
  <2>1. PICK y \in Runs, s \in Schedules, repos \in SUBSET Repos : StartRun(y, s, repos)
    BY <1>2
  <2>2. /\ \A z \in Runs : z # y => runs'[z] = runs[z]
        /\ runs[y].stage = "unborn" /\ UNCHANGED tried
    BY <2>1, Started
  <2>3. CASE x # y
    BY <2>2, <2>3, <1>x, OrderStays
  <2>4. CASE x = y
    <3>1. runs'[x].stage = "starting" /\ runs'[x].repo = 0 /\ runs'[x].attempt = 1
      <4>1. runs'[x] = NewRun(s, repos)
        BY <2>1, <2>4 DEF StartRun, TypeOK
      <4> QED
        BY <4>1 DEF NewRun
    <3>2. \A b \in tried' : b[1] # x
      BY <2>2, <2>4, <1>x DEF OrderOK
    <3>3. ASSUME NEW d \in Attempts(x)' PROVE ~ Precedes(d, Current(x)')
      <4>1. d[2] \in runs'[x].repos /\ TypeOK'
        BY NextType DEF Attempts
      <4>2. d[2] \in Repos
        BY <4>1, RunFields DEF TypeOK
      <4>3. Current(x)'[2] = 0
        BY <3>1 DEF Current
      <4>4. d[2] \in Nat /\ d[2] > 0
        BY <4>2, SchedulerAssumption DEF Repos
      <4> QED
        BY <4>3, <4>4 DEF Precedes
    <3> QED
      BY <3>1, <3>2, <3>3 DEF OrderOK
  <2> QED
    BY <2>3, <2>4
<1>3. CASE \E y \in Runs : Step(y)
  <2>1. PICK y \in Runs : Step(y)
    BY <1>3
  <2>2. CASE x = y
    BY <2>1, <2>2, <1>x, OrderStep
  <2>3. CASE x # y
    <3>1. runs'[x] = runs[x]
      BY <2>1, <2>3, StepShape DEF RunChange
    <3>2. tried' \in {tried, tried \cup {Current(y)}}
      BY <2>1, AttemptShape DEF AttemptStep
    <3>3. Current(y)[1] = y
      BY DEF Current
    <3> QED
      BY <2>3, <3>1, <3>2, <3>3, <1>x, OrderStays
  <2> QED
    BY <2>2, <2>3
<1>4. CASE Crash
  <2>1. /\ InProgress(x) => runs'[x].stage = "dead" /\ runs[x].stage # "unborn"
        /\ ~ InProgress(x) => runs'[x] = runs[x]
        /\ UNCHANGED tried
    BY <1>4, Died DEF Crash, InProgress, Stages
  <2>2. CASE InProgress(x)
    <3>1. Keeps(x) /\ runs'[x].repos = runs[x].repos
      <4>1. runs'[x] = [runs[x] EXCEPT !.stage = "dead"] /\ runs[x] \in Run
        BY <1>4, <2>2 DEF Crash, TypeOK
      <4> QED
        BY <4>1 DEF Keeps, Run
    <3>2. Attempts(x)' = Attempts(x) /\ Current(x)' = Current(x)
      BY <3>1 DEF Attempts, Current, Keeps
    <3> QED
      BY <2>1, <2>2, <3>2, <1>x DEF OrderOK
  <2>3. CASE ~ InProgress(x)
    BY <2>1, <2>3, <1>x, OrderStays
  <2> QED
    BY <2>2, <2>3
<1> QED
  BY <1>1, <1>2, <1>3, <1>4, NextCases

\* What precedes a tried attempt precedes the run's current one.
LEMMA OrderedFailover ==
  ASSUME TypeOK, RecordsInv, OrderInv
  PROVE  FailoverInOrder
<1>1. ASSUME NEW x \in Runs, NEW d \in Attempts(x), Precedes(d, Current(x))
      PROVE  d \in tried \ succeeded
  <2>1. d \in tried /\ d \in Backups /\ d[1] = x
    BY <1>1, AttemptParts DEF OrderInv, OrderOK
  <2>2. d # Current(x)
    <3>1. Current(x)[2] \in Nat /\ Current(x)[3] \in Nat
      BY CurrentParts DEF Current
    <3> QED
      BY <1>1, <3>1 DEF Precedes
  <2> QED
    BY <2>1, <2>2 DEF RecordsInv, RecordOK
<1>2. ASSUME NEW b \in tried, NEW d \in Attempts(b[1]), Precedes(d, b)
      PROVE  d \in tried \ succeeded
  <2>1. b \in Backups /\ b[1] \in Runs /\ b[2] \in Nat /\ b[3] \in Nat
    <3>1. b \in Backups
      BY DEF TypeOK
    <3>2. b[1] \in Runs /\ b[2] \in 0 .. NumRepos /\ b[3] \in 1 .. MaxRetries
      BY <3>1, BackupParts
    <3> QED
      BY <3>1, <3>2, SchedulerAssumption
  <2> DEFINE c == Current(b[1])
  <2>2. Precedes(b, c) \/ b = c
    BY <2>1 DEF OrderInv, OrderOK
  <2>3. d[2] \in Nat /\ d[3] \in Nat
    BY <2>1, AttemptParts
  <2>4. c[2] \in Nat /\ c[3] \in Nat
    BY <2>1, CurrentParts DEF Current
  <2>5. Precedes(d, c)
    <3> HIDE DEF c
    <3> QED
      BY <1>2, <2>1, <2>2, <2>3, <2>4 DEF Precedes
  <2> QED
    BY <1>1, <2>1, <2>5
<1>3. ASSUME NEW x \in Runs, runs[x].stage \in {"exhausted", "failed"}, NEW d \in Attempts(x)
      PROVE  d \in tried \ succeeded
  <2>1. d \in tried /\ d \in Backups /\ d[1] = x
    BY <1>3, AttemptParts DEF OrderInv, OrderOK
  <2> QED
    BY <2>1, <1>3 DEF RecordsInv, RecordOK, Made
<1> QED
  BY <1>2, <1>3 DEF FailoverInOrder, Attempts, Precedes

\* A repository is tried only when every attempt on each one before it has failed,
\* and a run gives up only when all have, whatever overlaps or fails
\* (FailoverInOrder; the two loops of executeBackup).
THEOREM FailoverCorrect == Spec => []FailoverInOrder
<1>1. Init => TypeOK /\ PlacedInv /\ RecordsInv /\ OrderInv
  BY InitType, InitRecords, InitOrder
<1>2. TypeOK /\ PlacedInv /\ RecordsInv /\ OrderInv /\ [Next]_vars
        => TypeOK' /\ PlacedInv' /\ RecordsInv' /\ OrderInv'
  BY NextType, NextRecords, NextOrder
<1>3. TypeOK /\ RecordsInv /\ OrderInv => FailoverInOrder
  BY OrderedFailover
<1> QED
  BY <1>1, <1>2, <1>3, PTL DEF Spec

-----------------------------------------------------------------------------
(* Who is told of a failure.                                               *)

\* A run without a last backup has no record to tell of.
ReportOK(x) ==
  /\ runs[x].stage = "exhausted" /\ ~ runs[x].has_last => backups[Current(x)] = "none"
  /\ runs[x].stage = "failed" /\ ~ runs[x].reported => backups[Current(x)] = "none"

RecordedWhenTried == \A b \in Backups : b[2] # 0 /\ b \notin tried => backups[b] = "none"

ReportInv == RecordedWhenTried /\ \A x \in Runs : ReportOK(x)

\* A step of a run touches the record of its current backup only.
LEMMA OtherBackups ==
  ASSUME TypeOK, PlacedInv, NEW x \in Runs, Step(x), NEW b \in Backups, b # Current(x)
  PROVE  backups'[b] = backups[b]
<1>1. RecordStep(x)
  BY StepShape
<1>2. CASE Writes(x, "failed")
  BY <1>2, WrittenRecords
<1>3. CASE Writes(x, "completed")
  BY <1>3, WrittenRecords
<1>4. CASE \/ UNCHANGED backups
           \/ \E status \in {"running", "failed"} :
                backups' = [backups EXCEPT ![Current(x)] = status]
  BY <1>4 DEF TypeOK
<1> QED
  BY <1>1, <1>2, <1>3, <1>4 DEF RecordStep

\* How a run gives up and reports.
LEMMA ReportShape ==
  ASSUME TypeOK, PlacedInv, NEW x \in Runs, Step(x), runs'[x].stage \in {"exhausted", "failed"}
  PROVE  \/ /\ runs[x].stage = "exhausted" /\ runs'[x].stage = "failed"
            /\ Keeps(x) /\ runs'[x].reported = runs[x].has_last /\ UNCHANGED backups
         \/ /\ runs[x].stage = "creating" /\ runs'[x].stage = "exhausted"
            /\ Keeps(x) /\ UNCHANGED backups
         \/ runs'[x].stage = "exhausted" /\ runs'[x].has_last
<1>t. runs[x] \in Run /\ runs \in [Runs -> Run]
  BY DEF TypeOK
<1>1. AttemptStep(x)
  BY AttemptShape
<1>2. runs[x].stage \in {"creating", "failing", "exhausted"}
  BY <1>1 DEF AttemptStep, Follows
<1>3. CreateBackup(x) \/ FailBackup(x) \/ ReportFailure(x)
  BY <1>2 DEF Step, Skip, MountUnavailable, NoRepositories, PreScriptFails, StartAttempts,
              BackupFails, BackupSucceeds, CompleteBackup, Prune, RecordRetention, EndReplication,
              TargetUnusable, Copy, ReadReplicationStatus, UpdateReplicationStatus
<1>4. CASE CreateBackup(x)
  <2>1. runs[x].stage = "creating"
    BY <1>4 DEF CreateBackup
  <2>2. Follows(runs'[x], runs[x]) /\ runs'[x].stage = "exhausted" /\ Keeps(x)
    BY <1>1, <2>1 DEF AttemptStep, Follows, Keeps
  <2>3. UNCHANGED backups
    <3>1. CASE Goes(x, "backing_up")
      BY <3>1, <2>2, GoesOn DEF AllStages, Stages
    <3> QED
      BY <3>1, <1>4 DEF CreateBackup
  <2> QED
    BY <2>1, <2>2, <2>3
<1>5. CASE FailBackup(x)
  <2>1. runs[x].stage = "failing"
    BY <1>5 DEF FailBackup
  <2>2. runs'[x].stage = "exhausted" /\ runs[x].repo # 0
    BY <1>1, <2>1 DEF AttemptStep, Follows
  <2>3. runs'[x] = AfterFailure(runs[x], TRUE)
    BY <1>5, <1>t, <2>2 DEF FailBackup
  <2> QED
    BY <1>t, <2>2, <2>3, Continued
<1>6. CASE ReportFailure(x)
  <2>1. PICK new : new = [runs[x] EXCEPT !.stage = "failed", !.reported = runs[x].has_last]
    OBVIOUS
  <2>2. runs'[x] = new
    BY <2>1, <1>6, <1>t DEF ReportFailure
  <2>3. /\ new.stage = "failed" /\ new.reported = runs[x].has_last
        /\ new.repo = runs[x].repo /\ new.attempt = runs[x].attempt
    BY <2>1, <1>t DEF Run
  <2> QED
    BY <2>2, <2>3, <1>6 DEF ReportFailure, Keeps
<1> QED
  BY <1>3, <1>4, <1>5, <1>6

\* A record exists only from its attempt on.
LEMMA RecordedStep ==
  ASSUME TypeOK, PlacedInv, RecordedWhenTried, NEW x \in Runs, Step(x)
  PROVE  RecordedWhenTried'
<1> SUFFICES ASSUME NEW b \in Backups, b[2] # 0, b \notin tried'
             PROVE  backups'[b] = "none"
  BY DEF RecordedWhenTried
<1>1. AttemptStep(x) /\ RecordStep(x) /\ Placed(runs[x])
  BY AttemptShape, StepShape DEF PlacedInv
<1>2. b \notin tried /\ backups[b] = "none"
  BY <1>1 DEF AttemptStep, RecordedWhenTried
<1>3. CASE b # Current(x)
  BY <1>2, <1>3, OtherBackups
<1>4. CASE b = Current(x)
  <2>1. runs[x].repo # 0 /\ runs[x].stage # "starting"
    BY <1>1, <1>4, CurrentBackup DEF Placed
  <2>2. runs[x].stage # "creating"
    BY <1>1, <1>4 DEF AttemptStep, Follows
  <2>3. ASSUME NEW status, Writes(x, status) PROVE backups'[b] = "none"
    BY <1>2, <1>4, <2>3 DEF Writes, Updated, TypeOK
  <2> QED
    BY <1>1, <1>2, <2>1, <2>2, <2>3 DEF RecordStep
<1> QED
  BY <1>3, <1>4

LEMMA ReportStep ==
  ASSUME TypeOK, PlacedInv, OrderInv, ReportInv, NEW y \in Runs, Step(y), NEW x \in Runs
  PROVE  ReportOK(x)'
<1>x. ReportOK(x)
  BY DEF ReportInv
<1>1. CASE x # y
  <2>1. runs'[x] = runs[x] /\ Current(x)' = Current(x)
    BY <1>1, StepShape DEF RunChange, Current
  <2>2. backups'[Current(x)] = backups[Current(x)]
    BY <1>1, CurrentBackup, OtherBackups
  <2> QED
    BY <1>x, <2>1, <2>2 DEF ReportOK
<1>2. CASE x = y /\ runs'[x].stage \notin {"exhausted", "failed"}
  BY <1>2 DEF ReportOK
<1>3. CASE x = y /\ runs'[x].stage \in {"exhausted", "failed"}
  <2>k. Keeps(x) => Current(x)' = Current(x)
    BY DEF Keeps, Current
  <2>1. CASE /\ runs[x].stage = "exhausted" /\ runs'[x].stage = "failed"
             /\ Keeps(x) /\ runs'[x].reported = runs[x].has_last /\ UNCHANGED backups
    BY <1>x, <2>1, <2>k DEF ReportOK
  <2>2. CASE /\ runs[x].stage = "creating" /\ runs'[x].stage = "exhausted"
             /\ Keeps(x) /\ UNCHANGED backups
    <3>1. Current(x) \notin tried
      <4>1. Current(x)[2] \in Nat /\ Current(x)[3] \in Nat /\ Current(x)[1] = x
        BY CurrentParts DEF Current
      <4>2. ~ Precedes(Current(x), Current(x))
        BY <4>1 DEF Precedes
      <4> QED
        BY <2>2, <4>1, <4>2 DEF OrderInv, OrderOK
    <3>2. runs[x].repo # 0
      <4>1. runs[x].repo \in Repos
        BY <2>2, RunFields DEF PlacedInv, Placed, OnRepository, TypeOK
      <4> QED
        BY <4>1, SchedulerAssumption DEF Repos
    <3>3. backups[Current(x)] = "none"
      BY <3>1, <3>2, CurrentBackup DEF ReportInv, RecordedWhenTried
    <3> QED
      BY <2>2, <2>k, <3>3 DEF ReportOK
  <2>3. CASE runs'[x].stage = "exhausted" /\ runs'[x].has_last
    BY <2>3 DEF ReportOK
  <2> QED
    BY <1>3, <2>1, <2>2, <2>3, ReportShape
<1> QED
  BY <1>1, <1>2, <1>3

LEMMA NextReport ==
  ASSUME TypeOK, PlacedInv, OrderInv, ReportInv, [Next]_vars
  PROVE  ReportInv'
<1>1. CASE \E y \in Runs : Step(y)
  BY <1>1, RecordedStep, ReportStep DEF ReportInv
<1>2. CASE Configures \/ UNCHANGED vars
  <2>1. UNCHANGED <<runs, tried, backups>>
    BY <1>2, ConfiguredType DEF vars
  <2> QED
    BY <2>1 DEF ReportInv, RecordedWhenTried, ReportOK, Current
<1>3. CASE \E s \in Schedules : DeleteSchedule(s)
  <2>1. UNCHANGED <<runs, tried>> /\ \A b \in Backups : backups'[b] \in {"none", backups[b]}
    BY <1>3 DEF DeleteSchedule
  <2>2. \A x \in Runs : ReportOK(x)'
    BY <2>1, CurrentBackup DEF ReportInv, ReportOK, Current
  <2> QED
    BY <2>1, <2>2 DEF ReportInv, RecordedWhenTried
<1>4. CASE \E y \in Runs, s \in Schedules, repos \in SUBSET Repos : StartRun(y, s, repos)
  <2>1. PICK y \in Runs, s \in Schedules, repos \in SUBSET Repos : StartRun(y, s, repos)
    BY <1>4
  <2>2. /\ \A z \in Runs : z # y => runs'[z] = runs[z]
        /\ runs'[y].stage = "starting" /\ UNCHANGED <<backups, tried>>
    BY <2>1, Started
  <2>3. ASSUME NEW x \in Runs PROVE ReportOK(x)'
    BY <2>2 DEF ReportInv, ReportOK, Current
  <2> QED
    BY <2>2, <2>3 DEF ReportInv, RecordedWhenTried
<1>5. CASE Crash
  <2>1. UNCHANGED tried /\ \A b \in Backups : backups[b] = "none" => backups'[b] = "none"
    BY <1>5, Died DEF Crash
  <2>2. ASSUME NEW x \in Runs PROVE ReportOK(x)'
    <3>1. /\ InProgress(x) => runs'[x].stage = "dead"
          /\ ~ InProgress(x) => runs'[x] = runs[x]
      BY <1>5, Died
    <3> QED
      BY <2>1, <3>1, CurrentBackup DEF ReportInv, ReportOK, Current
  <2> QED
    BY <2>1, <2>2 DEF ReportInv, RecordedWhenTried
<1> QED
  BY <1>1, <1>2, <1>3, <1>4, <1>5, NextCases

\* A run whose last attempt is recorded as failed is reported, although a run whose
\* last record could not be created forgets the earlier failures
\* (FailureIsReported; lastBackup in executeBackup).
THEOREM FailureReported == Spec => []FailureIsReported
<1> DEFINE Inv == TypeOK /\ PlacedInv /\ OrderInv /\ ReportInv
<1>1. Init => Inv
  <2>1. ASSUME Init, NEW x \in Runs PROVE runs[x].stage = "unborn"
    <3>1. PICK s \in Schedules : runs[x] = [NewRun(s, {}) EXCEPT !.stage = "unborn"]
      BY <2>1 DEF Init
    <3> QED
      BY <3>1 DEF NewRun
  <2>2. Init => ReportInv
    BY <2>1 DEF Init, ReportInv, RecordedWhenTried, ReportOK
  <2> QED
    BY <2>2, InitType, InitOrder
<1>2. Inv /\ [Next]_vars => Inv'
  BY NextType, NextOrder, NextReport
<1>3. Inv => FailureIsReported
  BY DEF ReportInv, ReportOK, FailureIsReported
<1> QED
  BY <1>1, <1>2, <1>3, PTL DEF Spec
==============================================================================
