------------------------------ MODULE JobQueue ------------------------------
(***************************************************************************)
(* The persistent job queue: internal/jobs/queue.go over the job_queue     *)
(* table, with the two administrative handlers that write the same rows.   *)
(*                                                                         *)
(* The table is shared; everything else is a copy.  A worker claims a row  *)
(* and keeps a copy of it while the handler runs, the retry processor      *)
(* keeps copies of the failed rows it listed, and a cancel or retry        *)
(* request keeps the copy it read.  Each of them later writes its whole    *)
(* copy back with UpdateJob, whose WHERE clause names only the id.         *)
(***************************************************************************)
EXTENDS Naturals, FiniteSets

CONSTANTS
  Jobs,        \* identities a job may be created under
  Workers,     \* worker goroutines of the queue
  RetryProcs,  \* retry processors: one per running Queue, all listing all rows
  Requests,    \* administrative HTTP requests in flight at once
  Priority,    \* the priority each job is created with
  Handled,     \* jobs whose type has a registered handler
  MaxRetries,  \* models.DefaultMaxRetries
  AdminOps,    \* which requests are made: a subset of {"cancel", "retry"}
  Faults       \* a subset of {"crash", "write_error"}

ASSUME JobQueueAssumption ==
  /\ Priority \in [Jobs -> Nat]
  /\ Handled \subseteq Jobs
  /\ MaxRetries \in Nat \ {0}
  /\ AdminOps \subseteq {"cancel", "retry"}
  /\ Faults \subseteq {"crash", "write_error"}
  /\ Workers \cap RetryProcs = {}
  /\ Workers \cap Requests = {}
  /\ RetryProcs \cap Requests = {}

VARIABLES
  rows,      \* the job_queue table, a row per identity
  clock,     \* NOW() as created_at sees it: it orders the insertions
  held,      \* the copies goroutines keep and will write back
  attempts   \* history: handler runs since creation or the last RetryJob,
             \* counted up to MaxRetries + 1

vars == <<rows, clock, held, attempts>>

-----------------------------------------------------------------------------
(* Rows.  "unborn" and "deleted" stand for no row under that identity.     *)

LiveStatus == {"pending", "running", "completed", "failed", "dead_letter"}

Row == [status      : LiveStatus \cup {"unborn", "deleted"},
        retry_count : 0 .. MaxRetries,
        next_retry  : {"nil", "waiting", "due"},
        created_at  : Nat]

Owners == Workers \cup RetryProcs \cup Requests

Copy == [owner : Owners, stage : {"handling", "saving"}, job : Jobs, row : Row]

NoRow == [status |-> "unborn", retry_count |-> 0, next_retry |-> "nil",
          created_at |-> 0]

NewJob(now) == [status |-> "pending", retry_count |-> 0, next_retry |-> "nil",
                created_at |-> now]

WithStatus(s) == {j \in Jobs : rows[j].status = s}

Idle(p) == \A t \in held : t.owner # p

\* Mutant: the result is stored but the status is not set.
Complete_KeepsStatus(row) == row

Complete(row) == [row EXCEPT !.status = "completed"]

\* Mutants: > for >= when the budget is compared; the failure is not counted.
Fail_OffByOne(row) ==
  LET n == row.retry_count + 1
  IN  IF n > MaxRetries
      THEN [row EXCEPT !.status = "dead_letter", !.retry_count = n]
      ELSE [row EXCEPT !.status = "failed", !.retry_count = n,
                       !.next_retry = "waiting"]

Fail_Uncounted(row) == [row EXCEPT !.status = "failed", !.next_retry = "waiting"]

\* The last permitted failure goes to the dead letter queue, the others back off.
Fail(row) ==
  LET n == row.retry_count + 1
  IN  IF n >= MaxRetries
      THEN [row EXCEPT !.status = "dead_letter", !.retry_count = n]
      ELSE [row EXCEPT !.status = "failed", !.retry_count = n,
                       !.next_retry = "waiting"]

Cancel(row) == [row EXCEPT !.status = "dead_letter"]

Retry(row) == [row EXCEPT !.status = "pending", !.retry_count = 0,
                          !.next_retry = "nil"]

\* UpdateJob writes every mutable column of the copy; a deleted row stays so.
UpdateJob(t) ==
  rows' = IF rows[t.job].status \in LiveStatus
          THEN [rows EXCEPT ![t.job] = t.row]
          ELSE rows

-----------------------------------------------------------------------------
Init ==
  /\ rows = [j \in Jobs |-> NoRow]
  /\ clock = 0
  /\ held = {}
  /\ attempts = [j \in Jobs |-> 0]

Enqueue(j) ==
  /\ rows[j].status = "unborn"
  /\ rows' = [rows EXCEPT ![j] = NewJob(clock)]
  /\ clock' = clock + 1
  /\ UNCHANGED <<held, attempts>>

\* ORDER BY priority DESC, created_at ASC LIMIT 1 over the pending rows.
IsNext(j) ==
  /\ rows[j].status = "pending"
  /\ \A k \in WithStatus("pending") \ {j} :
       \/ Priority[j] > Priority[k]
       \/ Priority[j] = Priority[k] /\ rows[j].created_at < rows[k].created_at

\* GetNextPendingJob is one statement; the handler lookup follows at once.  A
\* job without a handler is failed without having run.
ClaimNext(w, j) ==
  LET row == [rows[j] EXCEPT !.status = "running"]
  IN  /\ Idle(w)
      /\ IsNext(j)
      /\ rows' = [rows EXCEPT ![j] = row]
      /\ \/ /\ j \in Handled
            /\ held' = held \cup {[owner |-> w, stage |-> "handling",
                                   job |-> j, row |-> row]}
            /\ attempts' = [attempts EXCEPT ![j] = IF @ > MaxRetries THEN @ ELSE @ + 1]
         \/ /\ j \notin Handled
            /\ held' = held \cup {[owner |-> w, stage |-> "saving",
                                   job |-> j, row |-> Fail(row)]}
            /\ UNCHANGED attempts
      /\ UNCHANGED clock

Finish(t, row) ==
  /\ t.stage = "handling"
  /\ held' = (held \ {t}) \cup {[t EXCEPT !.stage = "saving", !.row = row]}
  /\ UNCHANGED <<rows, clock, attempts>>

HandlerSucceeds(t) == Finish(t, Complete(t.row))

\* An error of the handler, its timeout included.
HandlerFails(t) == Finish(t, Fail(t.row))

\* The write of a result, of a requeue, or of a cancel or retry request.
Save(t) ==
  /\ t.stage = "saving"
  /\ UpdateJob(t)
  /\ held' = held \ {t}
  /\ attempts' = IF t.owner \in Requests /\ t.row.status = "pending"
                 THEN [attempts EXCEPT ![t.job] = 0]
                 ELSE attempts
  /\ UNCHANGED clock

\* Every caller of UpdateJob logs the error and goes on without the write.
SaveFails(t) ==
  /\ "write_error" \in Faults
  /\ t.stage = "saving"
  /\ held' = held \ {t}
  /\ UNCHANGED <<rows, clock, attempts>>

BackoffElapses(j) ==
  /\ rows[j].next_retry = "waiting"
  /\ rows' = [rows EXCEPT ![j].next_retry = "due"]
  /\ UNCHANGED <<clock, held, attempts>>

\* The rows GetJobsReadyForRetry returns, without its LIMIT of 100: more are listed by the
\* next pass.  Mutants: rows left running are listed too; only rows never delayed are.
ReadyForRetry_Running ==
  {j \in WithStatus("failed") \cup WithStatus("running") : rows[j].next_retry # "waiting"}

ReadyForRetry_NilOnly == {j \in WithStatus("failed") : rows[j].next_retry = "nil"}

ReadyForRetry == {j \in WithStatus("failed") : rows[j].next_retry # "waiting"}

\* One pass of processRetries: list, then requeue each listed row.
ListRetries(p) ==
  /\ Idle(p)
  /\ ReadyForRetry # {}
  /\ held' = held \cup {[owner |-> p, stage |-> "saving", job |-> j,
                         row |-> [rows[j] EXCEPT !.status = "pending"]] :
                        j \in ReadyForRetry}
  /\ UNCHANGED <<rows, clock, attempts>>

\* The handlers read the row, check it, change the copy and answer after Save.
RequestCancel(r, j) ==
  /\ "cancel" \in AdminOps
  /\ Idle(r)
  /\ rows[j].status = "pending"
  /\ held' = held \cup {[owner |-> r, stage |-> "saving", job |-> j,
                         row |-> Cancel(rows[j])]}
  /\ UNCHANGED <<rows, clock, attempts>>

RequestRetry(r, j) ==
  /\ "retry" \in AdminOps
  /\ Idle(r)
  /\ rows[j].status \in {"failed", "dead_letter"}
  /\ held' = held \cup {[owner |-> r, stage |-> "saving", job |-> j,
                         row |-> Retry(rows[j])]}
  /\ UNCHANGED <<rows, clock, attempts>>

\* One DELETE over the terminal rows that have become old enough.
CleanupOldJobs ==
  \E old \in SUBSET (WithStatus("completed") \cup WithStatus("dead_letter")) :
    /\ old # {}
    /\ rows' = [j \in Jobs |-> IF j \in old
                               THEN [rows[j] EXCEPT !.status = "deleted"]
                               ELSE rows[j]]
    /\ UNCHANGED <<clock, held, attempts>>

\* The server process dies: the copies are gone, the table is not.
Crash ==
  /\ "crash" \in Faults
  /\ held # {}
  /\ held' = {}
  /\ UNCHANGED <<rows, clock, attempts>>

HandlerReturns == \E t \in held : HandlerSucceeds(t) \/ HandlerFails(t)

Next ==
  \/ \E j \in Jobs : Enqueue(j) \/ BackoffElapses(j)
  \/ \E w \in Workers, j \in Jobs : ClaimNext(w, j)
  \/ HandlerReturns
  \/ \E t \in held : Save(t) \/ SaveFails(t)
  \/ \E p \in RetryProcs : ListRetries(p)
  \/ \E r \in Requests, j \in Jobs : RequestCancel(r, j) \/ RequestRetry(r, j)
  \/ CleanupOldJobs
  \/ Crash

Spec == Init /\ [][Next]_vars

\* Tickers of the workers and of the retry processor keep firing, handlers
\* return within MaxJobDuration, a write that was started ends, time passes.
Fairness ==
  /\ \A w \in Workers : WF_vars(\E j \in Jobs : ClaimNext(w, j))
  /\ \A p \in RetryProcs : WF_vars(ListRetries(p))
  /\ WF_vars(HandlerReturns)
  /\ \A j \in Jobs : WF_vars(\E t \in held : t.job = j /\ Save(t))
  /\ \A j \in Jobs : WF_vars(BackoffElapses(j))

FairSpec == Spec /\ Fairness

-----------------------------------------------------------------------------
(* Properties.                                                             *)

\* Type invariant of the table, the copies and the history.
TypeOK ==
  /\ rows \in [Jobs -> Row]
  /\ clock \in Nat
  /\ held \subseteq Copy
  /\ attempts \in [Jobs -> Nat]

\* Whatever stale copies are written back, a row that may still run has retry
\* budget left, and so has every copy that would make it run: no failure count
\* passes MaxRetries and no exhausted job comes back by itself (Job.Fail).
HasBudget(row) ==
  row.status \in {"pending", "running", "failed"} => row.retry_count < MaxRetries

RetryBudget ==
  /\ \A j \in Jobs : HasBudget(rows[j])
  /\ \A t \in held : HasBudget(t.row)

\* A claimed job is handled by one worker only (GetNextPendingJob claims
\* atomically; processRetries must not hand it out again meanwhile).
ExclusiveExecution ==
  \A t, u \in held :
    t.stage = "handling" /\ u.stage = "handling" /\ t.job = u.job => t = u

\* A job's handler runs at most MaxRetries times before somebody retries the
\* job by hand (models.DefaultMaxRetries).
AttemptsWithinBudget == \A j \in Jobs : attempts[j] <= MaxRetries

\* A row says "running" only while some goroutine is processing the job
\* (models.JobStatusRunning); otherwise nobody will ever finish it.
RunningIsProcessed ==
  \A j \in WithStatus("running") : \E t \in held : t.owner \in Workers /\ t.job = j

\* A recorded success is never taken back by a later write (UpdateJob
\* overwrites by id): a completed row changes only by being cleaned up.
CompletedIsFinal ==
  [][\A j \in Jobs : rows[j].status = "completed" =>
       rows'[j].status \in {"completed", "deleted"}]_vars

\* The life of a job as its row and the copies of it tell it.
Phase(j) ==
  LET s == rows[j].status
  IN  CASE s = "unborn"              -> "none"
        [] s \in {"pending", "failed"} -> "queued"
        [] s = "running"             ->
             IF \E t \in held : t.job = j THEN "working" ELSE "lost"
        [] s = "completed"           -> "done"
        [] s = "dead_letter"         -> "dead"
        [] s = "deleted"             -> "gone"

Lifecycle ==
  INSTANCE JobLifecycle WITH phase    <- [j \in Jobs |-> Phase(j)],
                             failures <- [j \in Jobs |-> rows[j].retry_count]

\* Through all copies and late writes a job lives the life JobLifecycle gives
\* it: each claim ends in one success, one counted failure or a loss, waiting
\* jobs only leave by being claimed and ended ones only by being cleaned up.
ImplementsLifecycle == Lifecycle!Spec

\* Once nobody retries jobs by hand any more, every job that is created is
\* eventually completed or dead lettered, however its priority ranks and
\* whatever stale copies are written back (worker, retryProcessor).
JobsSettle ==
  <>[][~ \E r \in Requests, j \in Jobs : RequestRetry(r, j)]_vars =>
    \A j \in Jobs :
      rows[j].status = "pending" ~>
        rows[j].status \in {"completed", "dead_letter", "deleted"}
=============================================================================
