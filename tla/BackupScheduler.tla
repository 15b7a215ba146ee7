--------------------------- MODULE BackupScheduler ---------------------------
(***************************************************************************)
(* The server's backup scheduler: internal/backup/scheduler.go over the    *)
(* tables schedules, backups and replication_status, and the restic        *)
(* repositories.                                                           *)
(*                                                                         *)
(* A refresh loop copies the enabled schedules into cron entries.  An entry *)
(* that fires, and TriggerBackup, start a run of executeBackup: up to      *)
(* MaxRetries attempts on each repository in priority order until one      *)
(* succeeds, then scripts, notification, retention and replication to the  *)
(* other repositories.  Nothing keeps two runs of a schedule apart.        *)
(*                                                                         *)
(* Pi-hole and Proxmox schedules are left out, and so are the maintenance,  *)
(* concurrency and validation services, which the server does not set.     *)
(***************************************************************************)
EXTENDS Integers, FiniteSets

CONSTANTS
  Schedules,    \* identities of schedules
  NumRepos,     \* repositories, numbered in the order GetEnabledRepositories gives
  MaxRetries,   \* attempts on a repository: 3
  Runs,         \* bound: the calls of executeBackup
  Paths,        \* what each schedule backs up
  Retention,    \* each schedule's policy: "nil", "empty" (keeps nothing) or "keep"
  StoreLoadsRepositories,  \* GetEnabledSchedules fills in Schedule.Repositories;
                           \* DB.GetEnabledSchedules does not
  AdminActions, \* a subset of {"toggle", "edit", "delete"}
  Faults        \* a subset of {"create_error", "update_error", "crash"}

ASSUME SchedulerAssumption ==
  /\ NumRepos \in Nat
  /\ MaxRetries \in Nat \ {0}
  /\ DOMAIN Paths = Schedules
  /\ Retention \in [Schedules -> {"nil", "empty", "keep"}]
  /\ StoreLoadsRepositories \in BOOLEAN
  /\ AdminActions \subseteq {"toggle", "edit", "delete"}
  /\ Faults \subseteq {"create_error", "update_error", "crash"}

VARIABLES
  schedules,    \* the schedules table with the enabled repositories of each
  entries,      \* Scheduler.entries: the repositories in the closure's copy
  reload,       \* at most one: what Reload has listed and not yet applied
  runs,         \* the calls of executeBackup
  backups,      \* the status of each row of the backups table
  replication,  \* the replication_status table
  stored,       \* each repository's snapshots, by the backup that made them
  tried,        \* history: attempts begun
  succeeded,    \* history: attempts whose backup restic reported as made
  lost          \* history: backups whose outcome could not be written

vars == <<schedules, entries, reload, runs, backups, replication, stored, tried, succeeded, lost>>

tables == <<schedules, entries, reload>>

-----------------------------------------------------------------------------
Repos == 1 .. NumRepos

\* A backup is identified by its run, repository and attempt; repository 0 is for
\* the record of a run that fails before it tries any.
Backups == Runs \X (0 .. NumRepos) \X (1 .. MaxRetries)

NoSnapshot == <<>>

ReplicationStatus ==
  [status : {"none", "pending", "synced", "failed"}, last_snapshot : Backups \cup {NoSnapshot}]

Stages == {"starting", "creating", "backing_up", "failing", "exhausted", "saving", "pruning",
           "retained", "replicating", "copied", "not_copied", "updating"}

Ended == {"skipped", "no_repositories", "aborted", "failed", "done", "dead"}

Run == [schedule : Schedules, repos : SUBSET Repos, stage : {"unborn"} \cup Stages \cup Ended,
        repo : 0 .. NumRepos, attempt : 1 .. MaxRetries,
        has_last : BOOLEAN,                  \* lastBackup # nil
        targets : SUBSET Repos,              \* repositories still to replicate to
        status : ReplicationStatus,          \* the copy of the replication_status row
        reported : BOOLEAN]                  \* post-backup scripts and notification

\* Mutant: the lowest priority first.
First_Reversed(R) == CHOOSE r \in R : \A q \in R : r >= q

First(R) == CHOOSE r \in R : \A q \in R : r <= q

InProgress(x) == runs[x].stage \in Stages

\* The backup a run works on.
Current(x) == <<x, runs[x].repo, runs[x].attempt>>

\* The snapshots of a repository that restic's forget groups with those of a schedule:
\* the ones made on the same host, the server's, of the same paths.
SnapshotsLike(s, r) == {b \in stored[r] : Paths[runs[b[1]].schedule] = Paths[s]}

Pair(x, r) == <<runs[x].schedule, runs[x].repo, r>>

Goes(x, stage) == runs' = [runs EXCEPT ![x].stage = stage]

-----------------------------------------------------------------------------
NoStatus == [status |-> "none", last_snapshot |-> NoSnapshot]

NewRun(s, repos) ==
  [schedule |-> s, repos |-> repos, stage |-> "starting", repo |-> 0, attempt |-> 1,
   has_last |-> FALSE, targets |-> {}, status |-> NoStatus, reported |-> FALSE]

Init ==
  /\ schedules = [s \in Schedules |-> [state |-> "enabled", repos |-> Repos]]
  /\ entries = [s \in {} |-> {}]
  /\ reload = {}
  /\ runs \in [Runs -> {[NewRun(s, {}) EXCEPT !.stage = "unborn"] : s \in Schedules}]
  /\ backups = [b \in Backups |-> "none"]
  /\ replication = [p \in Schedules \X Repos \X Repos |-> NoStatus]
  /\ stored = [r \in Repos |-> {}]
  /\ tried = {}
  /\ succeeded = {}
  /\ lost = {}

-----------------------------------------------------------------------------
(* Schedules and cron entries.                                             *)

Enabled(s) == schedules[s].state = "enabled"

\* What GetEnabledSchedules returns.
EnabledSchedules ==
  [s \in {s \in Schedules : Enabled(s)} |->
     IF StoreLoadsRepositories THEN schedules[s].repos ELSE {}]

\* Handlers Update and Delete of a schedule.
ToggleSchedule(s) ==
  /\ "toggle" \in AdminActions
  /\ schedules[s].state # "deleted"
  /\ schedules' = [schedules EXCEPT ![s].state = IF @ = "enabled" THEN "disabled" ELSE "enabled"]
  /\ UNCHANGED <<entries, reload, runs, backups, replication, stored, tried, succeeded, lost>>

EditSchedule(s, repos) ==
  /\ "edit" \in AdminActions
  /\ schedules[s].state # "deleted"
  /\ repos # schedules[s].repos
  /\ schedules' = [schedules EXCEPT ![s].repos = repos]
  /\ UNCHANGED <<entries, reload, runs, backups, replication, stored, tried, succeeded, lost>>

\* Its backups and replication rows go with it (ON DELETE CASCADE).
DeleteSchedule(s) ==
  /\ "delete" \in AdminActions
  /\ schedules[s].state # "deleted"
  /\ schedules' = [schedules EXCEPT ![s].state = "deleted"]
  /\ backups' = [b \in Backups |-> IF runs[b[1]].schedule = s THEN "none" ELSE backups[b]]
  /\ replication' = [p \in DOMAIN replication |-> IF p[1] = s THEN NoStatus ELSE replication[p]]
  /\ UNCHANGED <<entries, reload, runs, stored, tried, succeeded, lost>>

\* Reload, in Start or the refresh loop: the list is read before the lock is taken.
ListSchedules ==
  /\ reload = {}
  /\ reload' = {EnabledSchedules}
  /\ UNCHANGED <<schedules, entries, runs, backups, replication, stored, tried, succeeded, lost>>

\* Mutant: entries of schedules that are no longer enabled stay.
Reloaded_KeepsAll(list) ==
  [s \in DOMAIN list \cup DOMAIN entries |-> IF s \in DOMAIN entries THEN entries[s] ELSE list[s]]

\* A schedule that has an entry keeps it as it is.
Reloaded(list) ==
  [s \in DOMAIN list |-> IF s \in DOMAIN entries THEN entries[s] ELSE list[s]]

ApplyReload ==
  \E list \in reload :
    /\ entries' = Reloaded(list)
    /\ reload' = {}
    /\ UNCHANGED <<schedules, runs, backups, replication, stored, tried, succeeded, lost>>

StartRun(x, s, repos) ==
  /\ runs[x].stage = "unborn"
  /\ runs[x].schedule = s
  /\ runs' = [runs EXCEPT ![x] = NewRun(s, repos)]
  /\ UNCHANGED <<tables, backups, replication, stored, tried, succeeded, lost>>

EntryFires(x, s) == s \in DOMAIN entries /\ StartRun(x, s, entries[s])

TriggerBackup(x, s) == s \in DOMAIN EnabledSchedules /\ StartRun(x, s, EnabledSchedules[s])

-----------------------------------------------------------------------------
(* executeBackup: the checks before the first attempt.                     *)

\* INSERT INTO backups; its foreign key needs the schedule.
CreateSucceeds(x) == schedules[runs[x].schedule].state # "deleted"

CreateFails(x) == ~ CreateSucceeds(x) \/ "create_error" \in Faults

\* UPDATE backups ... WHERE id: no row, no effect.
Updated(b, status) == [backups EXCEPT ![b] = IF @ = "none" THEN @ ELSE status]

\* Outside the backup window, or a mount is away and the schedule says skip.
Skip(x) ==
  /\ runs[x].stage = "starting"
  /\ Goes(x, "skipped")
  /\ UNCHANGED <<tables, backups, replication, stored, tried, succeeded, lost>>

\* A mount is away and the schedule says fail: a record, which is then failed.
MountUnavailable(x) ==
  /\ runs[x].stage = "starting"
  /\ \/ /\ CreateSucceeds(x)
        /\ backups' = [backups EXCEPT ![Current(x)] = "running"]
        /\ Goes(x, "failing")
     \/ /\ CreateFails(x)
        /\ Goes(x, "aborted")
        /\ UNCHANGED backups
  /\ UNCHANGED <<tables, replication, stored, tried, succeeded, lost>>

NoRepositories(x) ==
  /\ runs[x].stage = "starting"
  /\ runs[x].repos = {}
  /\ Goes(x, "no_repositories")
  /\ UNCHANGED <<tables, backups, replication, stored, tried, succeeded, lost>>

\* A record that is failed from the start, if it can be created; the update that
\* adds the output of the post-backup scripts does not change its status.
PreScriptFails(x) ==
  /\ runs[x].stage = "starting"
  /\ runs[x].repos # {}
  /\ \/ CreateSucceeds(x) /\ backups' = [backups EXCEPT ![Current(x)] = "failed"]
     \/ CreateFails(x) /\ UNCHANGED backups
  /\ runs' = [runs EXCEPT ![x].stage = "aborted", ![x].reported = TRUE]
  /\ UNCHANGED <<tables, replication, stored, tried, succeeded, lost>>

StartAttempts(x) ==
  /\ runs[x].stage = "starting"
  /\ runs[x].repos # {}
  /\ runs' = [runs EXCEPT ![x].stage = "creating", ![x].repo = First(runs[x].repos)]
  /\ UNCHANGED <<tables, backups, replication, stored, tried, succeeded, lost>>

-----------------------------------------------------------------------------
(* The attempts: runBackupToRepo and the loops around it.                  *)

\* Another attempt up to a limit, else the next repository, or none is left.
Continue(run, limit, has_last) ==
  LET rest   == {r \in run.repos : r > run.repo}
      failed == [run EXCEPT !.stage = "creating", !.has_last = has_last]
  IN  CASE run.attempt < limit -> [failed EXCEPT !.attempt = @ + 1]
        [] run.attempt >= limit /\ rest # {} -> [failed EXCEPT !.repo = First(rest), !.attempt = 1]
        [] OTHER -> [failed EXCEPT !.stage = "exhausted"]

\* Mutants: one attempt too many, the same attempt for ever; the last backup is
\* not kept.
AfterFailure_OneMore(run, has_last) == Continue(run, MaxRetries + 1, has_last)

AfterFailure_Uncounted(run, has_last) == [run EXCEPT !.stage = "creating"]

AfterFailure_Forgets(run, has_last) == Continue(run, MaxRetries, FALSE)

AfterFailure(run, has_last) == Continue(run, MaxRetries, has_last)

\* An attempt whose record cannot be created returns no backup.
CreateBackup(x) ==
  /\ runs[x].stage = "creating"
  /\ tried' = tried \cup {Current(x)}
  /\ \/ /\ CreateSucceeds(x)
        /\ backups' = [backups EXCEPT ![Current(x)] = "running"]
        /\ Goes(x, "backing_up")
     \/ /\ CreateFails(x)
        /\ runs' = [runs EXCEPT ![x] = AfterFailure(@, FALSE)]
        /\ UNCHANGED backups
  /\ UNCHANGED <<tables, replication, stored, succeeded, lost>>

\* The configuration cannot be used or restic fails; a restic run whose exit code
\* or output is not understood may have made a snapshot.
BackupFails(x) ==
  /\ runs[x].stage = "backing_up"
  /\ \E made \in {{}, {Current(x)}} :
       stored' = [stored EXCEPT ![runs[x].repo] = @ \cup made]
  /\ Goes(x, "failing")
  /\ UNCHANGED <<tables, backups, replication, tried, succeeded, lost>>

BackupSucceeds(x) ==
  /\ runs[x].stage = "backing_up"
  /\ stored' = [stored EXCEPT ![runs[x].repo] = @ \cup {Current(x)}]
  /\ succeeded' = succeeded \cup {Current(x)}
  /\ Goes(x, "saving")
  /\ UNCHANGED <<tables, backups, replication, tried, lost>>

\* Mutants: the status is not set before the write; failures are stored as completed.
Writes_StatusUnset(x, status) ==
  backups' = Updated(Current(x), "running") /\ lost' = lost \ {Current(x)}

Writes_Completed(x, status) ==
  backups' = Updated(Current(x), "completed") /\ lost' = lost \ {Current(x)}

\* UpdateBackup with a final status; an error is logged only.
Writes(x, status) ==
  \/ backups' = Updated(Current(x), status) /\ lost' = lost \ {Current(x)}
  \/ /\ "update_error" \in Faults
     /\ lost' = lost \cup {Current(x)}
     /\ UNCHANGED backups

FailBackup(x) ==
  /\ runs[x].stage = "failing"
  /\ Writes(x, "failed")
  /\ IF runs[x].repo = 0
     THEN Goes(x, "aborted")
     ELSE runs' = [runs EXCEPT ![x] = AfterFailure(@, TRUE)]
  /\ UNCHANGED <<tables, replication, stored, tried, succeeded>>

\* Every repository has failed: without a last backup nobody is told.
ReportFailure(x) ==
  /\ runs[x].stage = "exhausted"
  /\ runs' = [runs EXCEPT ![x].stage = "failed", ![x].reported = runs[x].has_last]
  /\ UNCHANGED <<tables, backups, replication, stored, tried, succeeded, lost>>

CompleteBackup(x) ==
  /\ runs[x].stage = "saving"
  /\ Writes(x, "completed")
  /\ Goes(x, "pruning")
  /\ UNCHANGED <<tables, replication, stored, tried, succeeded>>

-----------------------------------------------------------------------------
(* After a success: scripts, notification, retention, replication.         *)

\* What forget may remove, given no tag: anything but the last snapshot of a group,
\* whichever schedule made it.
Forgettable(r) ==
  {gone \in SUBSET stored[r] :
     \A b \in stored[r] : ~ (SnapshotsLike(runs[b[1]].schedule, r) \subseteq gone)}

\* What a prune may remove: nothing unless the policy keeps something.  Mutant: a
\* policy that keeps nothing is carried out.
Removable_Unguarded(s, r) ==
  CASE Retention[s] = "keep"  -> Forgettable(r)
    [] Retention[s] = "empty" -> SUBSET stored[r]
    [] Retention[s] = "nil"   -> {{}}

Removable(s, r) == IF Retention[s] = "keep" THEN Forgettable(r) ELSE {{}}

\* Post-backup scripts and notification, then Prune if there is a policy; a failed
\* prune removes nothing and is recorded the same way.
Prune(x) ==
  LET s == runs[x].schedule
      r == runs[x].repo
  IN  /\ runs[x].stage = "pruning"
      /\ \E gone \in Removable(s, r) \cup {{}} :
           stored' = [stored EXCEPT ![r] = @ \ gone]
      /\ runs' = [runs EXCEPT ![x].stage = IF Retention[s] = "nil" THEN "replicating" ELSE "retained",
                              ![x].reported = TRUE, ![x].targets = runs[x].repos \ {r}]
      /\ UNCHANGED <<tables, backups, replication, tried, succeeded, lost>>

\* The whole record is written again.
RecordRetention(x) ==
  /\ runs[x].stage = "retained"
  /\ Writes(x, "completed")
  /\ Goes(x, "replicating")
  /\ UNCHANGED <<tables, replication, stored, tried, succeeded>>

\* The licence does not cover replication, or no repository is left.
EndReplication(x) ==
  /\ runs[x].stage = "replicating"
  /\ Goes(x, "done")
  /\ UNCHANGED <<tables, backups, replication, stored, tried, succeeded, lost>>

\* The next repository to replicate to is done with, whatever came of it.
NextTarget(x) ==
  runs' = [runs EXCEPT ![x].stage = "replicating", ![x].targets = @ \ {First(@)},
                       ![x].status = NoStatus]

\* Its configuration cannot be used.
TargetUnusable(x) ==
  /\ runs[x].stage = "replicating"
  /\ runs[x].targets # {}
  /\ NextTarget(x)
  /\ UNCHANGED <<tables, backups, replication, stored, tried, succeeded, lost>>

\* restic copy; a snapshot that has been pruned meanwhile cannot be copied.
Copy(x) ==
  /\ runs[x].stage = "replicating"
  /\ runs[x].targets # {}
  /\ \/ /\ Current(x) \in stored[runs[x].repo]
        /\ stored' = [stored EXCEPT ![First(runs[x].targets)] = @ \cup {Current(x)}]
        /\ Goes(x, "copied")
     \/ Goes(x, "not_copied") /\ UNCHANGED stored
  /\ UNCHANGED <<tables, backups, replication, tried, succeeded, lost>>

\* Mutant: MarkSynced whatever the result.
Marked_Always(x, row) == [status |-> "synced", last_snapshot |-> Current(x)]

\* MarkSynced and MarkFailed.
Marked(x, row) ==
  IF runs[x].stage = "copied" THEN [status |-> "synced", last_snapshot |-> Current(x)]
                              ELSE [row EXCEPT !.status = "failed"]

\* GetOrCreateReplicationStatus; the copy it returns is marked.
ReadReplicationStatus(x) ==
  LET p   == Pair(x, First(runs[x].targets))
      new == [NoStatus EXCEPT !.status = "pending"]
      row == IF replication[p].status = "none" THEN new ELSE replication[p]
  IN  /\ runs[x].stage \in {"copied", "not_copied"}
      /\ \/ /\ CreateSucceeds(x)
            /\ replication' = [replication EXCEPT ![p] = row]
            /\ runs' = [runs EXCEPT ![x].stage = "updating", ![x].status = Marked(x, row)]
         \/ CreateFails(x) /\ NextTarget(x) /\ UNCHANGED replication
      /\ UNCHANGED <<tables, backups, stored, tried, succeeded, lost>>

\* UpdateReplicationStatus: the whole row by id; its error is ignored.
UpdateReplicationStatus(x) ==
  LET p == Pair(x, First(runs[x].targets))
  IN  /\ runs[x].stage = "updating"
      /\ \/ replication' = [replication EXCEPT ![p] =
                               IF @.status = "none" THEN @ ELSE runs[x].status]
         \/ "update_error" \in Faults /\ UNCHANGED replication
      /\ NextTarget(x)
      /\ UNCHANGED <<tables, backups, stored, tried, succeeded, lost>>

\* FailStaleBackups: stale are the running rows that are more than a day old.
FailStaleBackups(stale) ==
  backups' = [b \in Backups |-> IF b \in stale THEN "failed" ELSE backups[b]]

\* The server process dies and starts again, how much later is open: no entries yet,
\* and rows left running are failed unless they are too young or the update fails.
\* Bound: restarts that find no run under way and fail no row are left out.
Crash ==
  LET dying == {x \in Runs : InProgress(x)}
  IN  \E stale \in SUBSET {b \in Backups : backups[b] = "running"} :
        /\ "crash" \in Faults
        /\ dying # {} \/ stale # {}
        /\ FailStaleBackups(stale)
        /\ entries' = [s \in {} |-> {}]
        /\ reload' = {}
        /\ runs' = [x \in Runs |->
                       IF x \in dying THEN [runs[x] EXCEPT !.stage = "dead"] ELSE runs[x]]
        /\ lost' = lost \cup {Current(x) : x \in dying}
        /\ UNCHANGED <<schedules, replication, stored, tried, succeeded>>

Step(x) ==
  \/ Skip(x) \/ MountUnavailable(x) \/ NoRepositories(x) \/ PreScriptFails(x) \/ StartAttempts(x)
  \/ CreateBackup(x) \/ BackupFails(x) \/ BackupSucceeds(x) \/ FailBackup(x) \/ ReportFailure(x)
  \/ CompleteBackup(x) \/ Prune(x) \/ RecordRetention(x) \/ EndReplication(x) \/ TargetUnusable(x)
  \/ Copy(x) \/ ReadReplicationStatus(x) \/ UpdateReplicationStatus(x)

Next ==
  \/ \E s \in Schedules : \/ ToggleSchedule(s) \/ DeleteSchedule(s)
                          \/ \E repos \in SUBSET Repos : EditSchedule(s, repos)
                          \/ \E x \in Runs : EntryFires(x, s) \/ TriggerBackup(x, s)
  \/ ListSchedules \/ ApplyReload
  \/ \E x \in Runs : Step(x)
  \/ Crash

Spec == Init /\ [][Next]_vars

\* The refresh ticker keeps firing, and a goroutine keeps running.
Fairness == WF_vars(ListSchedules) /\ WF_vars(ApplyReload) /\ \A x \in Runs : WF_vars(Step(x))

FairSpec == Spec /\ Fairness

-----------------------------------------------------------------------------
(* Properties.                                                             *)

\* Type invariant of the tables, the entries, the runs and the histories.
TypeOK ==
  /\ schedules \in [Schedules -> [state : {"enabled", "disabled", "deleted"}, repos : SUBSET Repos]]
  /\ DOMAIN entries \subseteq Schedules /\ \A s \in DOMAIN entries : entries[s] \subseteq Repos
  /\ \A list \in reload :
       DOMAIN list \subseteq Schedules /\ \A s \in DOMAIN list : list[s] \subseteq Repos
  /\ runs \in [Runs -> Run]
  /\ backups \in [Backups -> {"none", "running", "completed", "failed"}]
  /\ replication \in [Schedules \X Repos \X Repos -> ReplicationStatus]
  /\ stored \in [Repos -> SUBSET Backups]
  /\ tried \subseteq Backups /\ succeeded \subseteq Backups /\ lost \subseteq Backups

\* A repository is tried only when every attempt on each one before it has failed,
\* attempts are made in order, and a run gives up only when all of them have failed
\* (the two loops of executeBackup).
FailoverInOrder ==
  LET Earlier(b, c) == c[2] < b[2] \/ (c[2] = b[2] /\ c[3] < b[3])
      Before(b) == {c \in {b[1]} \X runs[b[1]].repos \X (1 .. MaxRetries) : Earlier(b, c)}
  IN  /\ \A b \in tried : Before(b) \subseteq tried \ succeeded
      /\ \A x \in Runs : runs[x].stage \in {"exhausted", "failed"} =>
           ({x} \X runs[x].repos \X (1 .. MaxRetries)) \subseteq tried \ succeeded

\* Whatever writes fail and whatever is written twice, a record says completed only
\* of a backup restic reported as made.  It says failed only of another, or of one
\* whose outcome never reached its row: that one may have been made, and a later start
\* of the server takes it for one that timed out (UpdateBackup, FailStaleBackups).
RecordedAsItEnded ==
  \A b \in Backups : /\ backups[b] = "completed" => b \in succeeded
                     /\ backups[b] = "failed" => b \notin succeeded \/ b \in lost

\* A record that says running is of a run that is working on it, unless its outcome
\* could not be written or the process died.
RunningIsProcessed ==
  \A b \in Backups :
    backups[b] = "running" => b \in lost \/ (InProgress(b[1]) /\ Current(b[1]) = b)

\* Runs prune each other's snapshots, those of other schedules included, but paths with
\* a completed backup in a repository can always be restored from there, if only from a
\* snapshot that another schedule made of them (Prune, retentionEmpty).
CompletedIsRestorable ==
  \A b \in Backups :
    backups[b] = "completed" => b[2] # 0 /\ SnapshotsLike(runs[b[1]].schedule, b[2]) # {}

\* Although runs of one schedule overwrite each other's replication_status rows and any
\* run prunes, a target that is marked as synced holds a snapshot of the schedule's
\* paths, and the one named was made in the source repository (replicateToOtherRepos).
SyncedTargetHoldsSnapshot ==
  \A p \in DOMAIN replication :
    replication[p].status = "synced" =>
      /\ SnapshotsLike(p[1], p[3]) # {}
      /\ replication[p].last_snapshot \in succeeded
      /\ replication[p].last_snapshot[2] = p[2]

\* Schedules that share a repository do not lose each other's snapshots: one with a
\* completed backup in a repository has a snapshot of its own there (buildRetentionArgs).
OwnSnapshotIsKept ==
  \A b \in Backups :
    backups[b] = "completed" =>
      \E c \in stored[b[2]] : runs[c[1]].schedule = runs[b[1]].schedule

\* A run whose last attempt is recorded as failed runs the post-backup scripts and
\* notifies (lastBackup in executeBackup).
FailureIsReported ==
  \A x \in Runs : runs[x].stage = "failed" /\ backups[Current(x)] = "failed" => runs[x].reported

\* A run that finds no repository to back up to belongs to a schedule without
\* repositories (GetEnabledSchedules).
ConfiguredRepositoriesAreUsed ==
  \A x \in Runs :
    runs[x].stage = "no_repositories" => schedules[runs[x].schedule].repos = {}

\* Every run comes to an end, whatever fails on the way.
RunsEnd == \A x \in Runs : InProgress(x) ~> ~ InProgress(x)

\* A schedule that stays enabled gets an entry and one that is disabled or deleted
\* loses it, although a list may be stale when it is applied (Reload).
EntriesFollowSchedules ==
  \A s \in Schedules : /\ <>[]Enabled(s) => <>[](s \in DOMAIN entries)
                       /\ <>[](~ Enabled(s)) => <>[](s \notin DOMAIN entries)
=============================================================================
