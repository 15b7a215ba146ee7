--------------------------- MODULE JobQueueProofs ---------------------------
(***************************************************************************)
(* Theorems about JobQueue, for any number of jobs, workers, retry         *)
(* processors and requests.                                                *)
(***************************************************************************)
EXTENDS JobQueue, TLAPS

\* The functions of models.Job map rows to rows and never produce a row that
\* may run without budget; Fail needs a row that has budget, which is what the
\* copy of a running row has.
LEMMA RowFunctions ==
  ASSUME NEW row \in Row
  PROVE  /\ Complete(row) \in Row /\ HasBudget(Complete(row))
         /\ Cancel(row) \in Row /\ HasBudget(Cancel(row))
         /\ Retry(row) \in Row /\ HasBudget(Retry(row))
         /\ row.retry_count < MaxRetries => Fail(row) \in Row /\ HasBudget(Fail(row))
<1> USE JobQueueAssumption DEF Row, LiveStatus, HasBudget
<1>1. Complete(row) \in Row /\ HasBudget(Complete(row))
  <2>1. Complete(row) \in Row
    BY DEF Complete
  <2>2. Complete(row).status = "completed"
    BY DEF Complete
  <2> QED
    BY <2>1, <2>2
<1>2. Cancel(row) \in Row /\ HasBudget(Cancel(row))
  <2>1. Cancel(row) \in Row
    BY DEF Cancel
  <2>2. Cancel(row).status = "dead_letter"
    BY DEF Cancel
  <2> QED
    BY <2>1, <2>2
<1>3. Retry(row) \in Row /\ HasBudget(Retry(row))
  <2> PICK n \in 0 .. MaxRetries : n = 0
    OBVIOUS
  <2> DEFINE waits == [row EXCEPT !.status = "pending", !.retry_count = n]
  <2>0. waits \in Row
    OBVIOUS
  <2>1. Retry(row) \in Row
    <3>1. Retry(row) = [waits EXCEPT !.next_retry = "nil"]
      BY DEF Retry
    <3> HIDE DEF waits
    <3> QED
      BY <3>1, <2>0
  <2>2. Retry(row).retry_count = 0
    BY DEF Retry
  <2> QED
    BY <2>1, <2>2
<1>4. ASSUME row.retry_count < MaxRetries
      PROVE  Fail(row) \in Row /\ HasBudget(Fail(row))
  <2> DEFINE n == row.retry_count + 1
  <2>0. n \in 0 .. MaxRetries
    BY <1>4
  <2>1. CASE n >= MaxRetries
    <3>1. Fail(row) = [row EXCEPT !.status = "dead_letter", !.retry_count = n]
      BY <2>1 DEF Fail
    <3> HIDE DEF n
    <3>2. Fail(row) \in Row
      BY <3>1, <2>0
    <3>3. Fail(row).status = "dead_letter"
      BY <3>1
    <3> QED
      BY <3>2, <3>3
  <2>2. CASE n < MaxRetries
    <3>1. Fail(row) = [row EXCEPT !.status = "failed", !.retry_count = n,
                                  !.next_retry = "waiting"]
      BY <2>2, <2>0 DEF Fail
    <3> HIDE DEF n
    <3>2. Fail(row) \in Row
      BY <3>1, <2>0
    <3>3. Fail(row).retry_count < MaxRetries
      BY <3>1, <2>0, <2>2
    <3> QED
      BY <3>2, <3>3
  <2> QED
    BY <2>0, <2>1, <2>2
<1> QED
  BY <1>1, <1>2, <1>3, <1>4

-----------------------------------------------------------------------------
(* Type correctness and the retry budget go together: Fail stays within     *)
(* 0 .. MaxRetries only because a handled copy has budget left.             *)

\* A copy being handled is a copy of a running row.
HandledRuns == \A t \in held : t.stage = "handling" => t.row.status = "running"

BudgetInv == TypeOK /\ RetryBudget /\ HandledRuns

LEMMA BudgetInit == Init => BudgetInv
<1> SUFFICES ASSUME Init PROVE BudgetInv
  OBVIOUS
<1>1. NoRow \in Row /\ HasBudget(NoRow)
  BY JobQueueAssumption DEF NoRow, Row, LiveStatus, HasBudget
<1> QED
  BY <1>1 DEF Init, BudgetInv, TypeOK, RetryBudget, HandledRuns, Copy

LEMMA BudgetStep == BudgetInv /\ [Next]_vars => BudgetInv'
<1> SUFFICES ASSUME BudgetInv, [Next]_vars
             PROVE  BudgetInv'
  OBVIOUS
<1> USE JobQueueAssumption
<1>a. /\ rows \in [Jobs -> Row] /\ clock \in Nat /\ held \subseteq Copy
      /\ attempts \in [Jobs -> Nat]
      /\ \A j \in Jobs : HasBudget(rows[j])
      /\ \A t \in held : HasBudget(t.row)
      /\ \A t \in held : t.stage = "handling" => t.row.status = "running"
  BY DEF BudgetInv, TypeOK, RetryBudget, HandledRuns
<1>b. \A t \in held : t.owner \in Owners /\ t.job \in Jobs /\ t.row \in Row
  BY <1>a DEF Copy
<1>1. ASSUME NEW j \in Jobs, Enqueue(j) PROVE BudgetInv'
  <2>1. NewJob(clock) \in Row /\ HasBudget(NewJob(clock))
    BY <1>a DEF NewJob, Row, LiveStatus, HasBudget
  <2> QED
    BY <2>1, <1>1, <1>a DEF Enqueue, BudgetInv, TypeOK, RetryBudget, HandledRuns, HasBudget
<1>2. ASSUME NEW j \in Jobs, BackoffElapses(j) PROVE BudgetInv'
  <2> DEFINE row == [rows[j] EXCEPT !.next_retry = "due"]
  <2>1. rows[j] \in Row /\ HasBudget(rows[j])
    BY <1>a
  <2>2. row \in Row /\ HasBudget(row)
    BY <2>1 DEF Row, HasBudget
  <2>3. rows' = [rows EXCEPT ![j] = row]
    BY <1>2 DEF BackoffElapses
  <2> HIDE DEF row
  <2> QED
    BY <2>2, <2>3, <1>2, <1>a
       DEF BackoffElapses, BudgetInv, TypeOK, RetryBudget, HandledRuns, HasBudget
<1>3. ASSUME NEW w \in Workers, NEW j \in Jobs, ClaimNext(w, j) PROVE BudgetInv'
  <2> DEFINE row == [rows[j] EXCEPT !.status = "running"]
  <2>1. rows[j] \in Row /\ HasBudget(rows[j]) /\ rows[j].status = "pending"
    BY <1>3, <1>a DEF ClaimNext, IsNext
  <2>2. row \in Row /\ HasBudget(row) /\ row.retry_count < MaxRetries
        /\ row.status = "running"
    BY <2>1 DEF Row, LiveStatus, HasBudget
  <2>3. Fail(row) \in Row /\ HasBudget(Fail(row))
    BY <2>2, RowFunctions
  <2>4. rows' = [rows EXCEPT ![j] = row] /\ clock' = clock
    BY <1>3 DEF ClaimNext
  <2>5. CASE j \in Handled
    <3> DEFINE t == [owner |-> w, stage |-> "handling", job |-> j, row |-> row]
    <3>1. held' = held \cup {t} /\ attempts' \in [Jobs -> Nat]
      BY <2>5, <1>3, <1>a DEF ClaimNext
    <3>2. t \in Copy /\ t.row = row
      BY <2>2 DEF Copy, Owners
    <3> HIDE DEF row, t
    <3> QED
      BY <3>1, <3>2, <2>2, <2>4, <1>a
         DEF BudgetInv, TypeOK, RetryBudget, HandledRuns, HasBudget
  <2>6. CASE j \notin Handled
    <3> DEFINE t == [owner |-> w, stage |-> "saving", job |-> j, row |-> Fail(row)]
    <3>1. held' = held \cup {t} /\ attempts' = attempts
      BY <2>6, <1>3 DEF ClaimNext
    <3>2. t \in Copy /\ t.row = Fail(row) /\ t.stage = "saving"
      BY <2>3 DEF Copy, Owners
    <3> HIDE DEF row, t
    <3> QED
      BY <3>1, <3>2, <2>2, <2>3, <2>4, <1>a
         DEF BudgetInv, TypeOK, RetryBudget, HandledRuns, HasBudget
  <2> QED
    BY <2>5, <2>6
<1>4. ASSUME NEW t \in held, HandlerSucceeds(t) \/ HandlerFails(t) PROVE BudgetInv'
  <2>1. t \in Copy /\ t.row \in Row /\ t.row.retry_count < MaxRetries
    BY <1>4, <1>a, <1>b DEF HandlerSucceeds, HandlerFails, Finish, HasBudget
  <2>2. PICK row \in {Complete(t.row), Fail(t.row)} : Finish(t, row)
    BY <1>4 DEF HandlerSucceeds, HandlerFails
  <2>3. row \in Row /\ HasBudget(row)
    BY <2>1, <2>2, RowFunctions
  <2>4. [t EXCEPT !.stage = "saving", !.row = row] \in Copy
    BY <2>1, <2>3 DEF Copy
  <2>5. [t EXCEPT !.stage = "saving", !.row = row].row = row
        /\ [t EXCEPT !.stage = "saving", !.row = row].stage = "saving"
    BY <2>1 DEF Copy
  <2> QED
    BY <2>2, <2>3, <2>4, <2>5, <1>a
       DEF Finish, BudgetInv, TypeOK, RetryBudget, HandledRuns, HasBudget
<1>5. ASSUME NEW t \in held, Save(t) PROVE BudgetInv'
  <2>1. rows' \in [Jobs -> Row] /\ \A j \in Jobs : HasBudget(rows'[j])
    BY <1>5, <1>a, <1>b DEF Save, UpdateJob
  <2>2. attempts' \in [Jobs -> Nat]
    BY <1>5, <1>a DEF Save
  <2> QED
    BY <2>1, <2>2, <1>5, <1>a
       DEF Save, BudgetInv, TypeOK, RetryBudget, HandledRuns, HasBudget
<1>6. ASSUME NEW t \in held, SaveFails(t) PROVE BudgetInv'
  BY <1>6, <1>a DEF SaveFails, BudgetInv, TypeOK, RetryBudget, HandledRuns, HasBudget
<1>7. ASSUME NEW p \in RetryProcs, ListRetries(p) PROVE BudgetInv'
  <2> DEFINE copy(j) == [owner |-> p, stage |-> "saving", job |-> j,
                         row |-> [rows[j] EXCEPT !.status = "pending"]]
  <2>1. ASSUME NEW j \in ReadyForRetry
        PROVE  copy(j) \in Copy /\ HasBudget(copy(j).row) /\ copy(j).stage = "saving"
    <3>1. j \in Jobs /\ rows[j] \in Row /\ HasBudget(rows[j]) /\ rows[j].status = "failed"
      BY <2>1, <1>a DEF ReadyForRetry, WithStatus
    <3>2. /\ [rows[j] EXCEPT !.status = "pending"] \in Row
          /\ HasBudget([rows[j] EXCEPT !.status = "pending"])
      BY <3>1 DEF Row, LiveStatus, HasBudget
    <3> QED
      BY <3>1, <3>2 DEF Copy, Owners
  <2>2. held' = held \cup {copy(j) : j \in ReadyForRetry}
    BY <1>7 DEF ListRetries
  <2> HIDE DEF copy
  <2> QED
    BY <2>1, <2>2, <1>7, <1>a
       DEF ListRetries, BudgetInv, TypeOK, RetryBudget, HandledRuns, HasBudget
<1>8. ASSUME NEW r \in Requests, NEW j \in Jobs,
             RequestCancel(r, j) \/ RequestRetry(r, j)
      PROVE  BudgetInv'
  <2>1. PICK row \in {Cancel(rows[j]), Retry(rows[j])} :
             held' = held \cup {[owner |-> r, stage |-> "saving", job |-> j, row |-> row]}
    BY <1>8 DEF RequestCancel, RequestRetry
  <2>2. row \in Row /\ HasBudget(row)
    BY <2>1, <1>a, RowFunctions
  <2>3. [owner |-> r, stage |-> "saving", job |-> j, row |-> row] \in Copy
    BY <2>2 DEF Copy, Owners
  <2> QED
    BY <2>1, <2>2, <2>3, <1>8, <1>a
       DEF RequestCancel, RequestRetry, BudgetInv, TypeOK, RetryBudget, HandledRuns, HasBudget
<1>9. ASSUME CleanupOldJobs PROVE BudgetInv'
  <2>1. ASSUME NEW j \in Jobs
        PROVE  /\ [rows[j] EXCEPT !.status = "deleted"] \in Row
               /\ HasBudget([rows[j] EXCEPT !.status = "deleted"])
    <3>1. rows[j] \in Row
      BY <1>a
    <3> QED
      BY <3>1 DEF Row, HasBudget
  <2>2. PICK old : rows' = [j \in Jobs |-> IF j \in old
                                           THEN [rows[j] EXCEPT !.status = "deleted"]
                                           ELSE rows[j]]
    BY <1>9 DEF CleanupOldJobs
  <2> QED
    BY <2>1, <2>2, <1>9, <1>a
       DEF CleanupOldJobs, BudgetInv, TypeOK, RetryBudget, HandledRuns, HasBudget
<1>10. ASSUME Crash PROVE BudgetInv'
  BY <1>10, <1>a DEF Crash, BudgetInv, TypeOK, RetryBudget, HandledRuns, HasBudget
<1>11. CASE UNCHANGED vars
  BY <1>11, <1>a DEF vars, BudgetInv, TypeOK, RetryBudget, HandledRuns, HasBudget
<1> QED
  BY <1>1, <1>2, <1>3, <1>4, <1>5, <1>6, <1>7, <1>8, <1>9, <1>10, <1>11
     DEF Next, HandlerReturns

\* The table, the copies and the history keep their types in every behaviour.
THEOREM TypeCorrect == Spec => []TypeOK
<1>1. BudgetInv => TypeOK
  BY DEF BudgetInv
<1> QED
  BY <1>1, BudgetInit, BudgetStep, PTL DEF Spec

\* No interleaving of workers, retry processors and requests, stale writes
\* included, leaves a runnable row or copy without retry budget (Job.Fail).
THEOREM RetryBudgetHolds == Spec => []RetryBudget
<1>1. BudgetInv => RetryBudget
  BY DEF BudgetInv
<1> QED
  BY <1>1, BudgetInit, BudgetStep, PTL DEF Spec

-----------------------------------------------------------------------------
(* Exclusive execution, for the deployment the code does not enforce: one   *)
(* retry processor over the table and no administrative requests.           *)

SoleRequeuer ==
  /\ \A p, q \in RetryProcs : p = q
  /\ AdminOps = {}

\* Every row has at most one copy, and the row's status tells whose it is: so
\* nobody lists or claims a row that somebody else will write back.
SoleHolder ==
  /\ \A t, u \in held : t.job = u.job => t = u
  /\ \A t \in held :
       \/ /\ t.owner \in Workers
          /\ rows[t.job].status = "running" /\ t.row.status # "unborn"
       \/ /\ t.owner \in RetryProcs /\ t.stage = "saving"
          /\ rows[t.job].status = "failed" /\ t.row.status = "pending"
          /\ t.row.retry_count = rows[t.job].retry_count

\* The failures counted in the row, or in its copy, cover the runs there were.
RunsAreCounted ==
  /\ \A j \in Jobs :
       /\ attempts[j] <= MaxRetries
       /\ rows[j].status = "unborn" => attempts[j] = 0
       /\ rows[j].status \in {"pending", "failed"} =>
            attempts[j] <= rows[j].retry_count
  /\ \A t \in held :
       \/ t.row.status = "completed"
       \/ t.stage = "saving" /\ attempts[t.job] <= t.row.retry_count
       \/ t.stage = "handling" /\ attempts[t.job] <= t.row.retry_count + 1

ExclusionInv == SoleHolder /\ RunsAreCounted

LEMMA ExclusionInit == Init => ExclusionInv
<1> SUFFICES ASSUME Init PROVE ExclusionInv
  OBVIOUS
<1> QED
  BY JobQueueAssumption
     DEF Init, NoRow, ExclusionInv, SoleHolder, RunsAreCounted

LEMMA ExclusionStep ==
  ASSUME SoleRequeuer, BudgetInv, ExclusionInv, [Next]_vars
  PROVE  ExclusionInv'
<1> USE JobQueueAssumption
<1>a. /\ rows \in [Jobs -> Row] /\ held \subseteq Copy /\ attempts \in [Jobs -> Nat]
      /\ \A j \in Jobs : HasBudget(rows[j])
      /\ \A t \in held : HasBudget(t.row)
      /\ \A t \in held : t.stage = "handling" => t.row.status = "running"
  BY DEF BudgetInv, TypeOK, RetryBudget, HandledRuns
<1>b. /\ \A t \in held : t.owner \in Owners /\ t.job \in Jobs /\ t.row \in Row
      /\ \A j \in Jobs : rows[j].retry_count \in 0 .. MaxRetries /\ attempts[j] \in Nat
      /\ \A t \in held : t.row.retry_count \in 0 .. MaxRetries
  BY <1>a DEF Copy, Row
<1>h. SoleHolder
  BY DEF ExclusionInv
<1>r. RunsAreCounted
  BY DEF ExclusionInv
<1>1. ASSUME NEW j \in Jobs, Enqueue(j) PROVE ExclusionInv'
  <2>1. rows[j].status = "unborn" /\ \A t \in held : t.job # j
    BY <1>1, <1>h DEF Enqueue, SoleHolder
  <2>2. attempts[j] = 0
    BY <1>r, <2>1 DEF RunsAreCounted
  <2> QED
    BY <2>1, <2>2, <1>1, <1>a, <1>b, <1>h, <1>r
       DEF Enqueue, NewJob, ExclusionInv, SoleHolder, RunsAreCounted
<1>2. ASSUME NEW j \in Jobs, BackoffElapses(j) PROVE ExclusionInv'
  <2>1. rows' = [rows EXCEPT ![j] = [rows[j] EXCEPT !.next_retry = "due"]]
    BY <1>2 DEF BackoffElapses
  <2>2. \A k \in Jobs : /\ rows'[k].status = rows[k].status
                         /\ rows'[k].retry_count = rows[k].retry_count
    <3>1. rows[j] \in Row
      BY <1>a
    <3> QED
      BY <2>1, <3>1, <1>a DEF Row
  <2> QED
    BY <2>2, <1>2, <1>b, <1>h, <1>r
       DEF BackoffElapses, ExclusionInv, SoleHolder, RunsAreCounted
<1>3. ASSUME NEW w \in Workers, NEW j \in Jobs, ClaimNext(w, j) PROVE ExclusionInv'
  <2> DEFINE row == [rows[j] EXCEPT !.status = "running"]
  <2>1. /\ rows[j].status = "pending" /\ \A t \in held : t.job # j
        /\ attempts[j] <= rows[j].retry_count
    BY <1>3, <1>h, <1>r DEF ClaimNext, IsNext, SoleHolder, RunsAreCounted
  <2>2. /\ row \in Row /\ row.status = "running"
        /\ row.retry_count = rows[j].retry_count /\ row.retry_count < MaxRetries
    <3>1. rows[j] \in Row /\ HasBudget(rows[j])
      BY <1>a
    <3> QED
      BY <3>1, <2>1 DEF Row, LiveStatus, HasBudget
  <2>3. rows' = [rows EXCEPT ![j] = row]
    BY <1>3 DEF ClaimNext
  <2>4. \A k \in Jobs : rows'[k] = IF k = j THEN row ELSE rows[k]
    BY <2>3, <1>a
  <2>5. CASE j \in Handled
    <3> DEFINE t == [owner |-> w, stage |-> "handling", job |-> j, row |-> row]
    <3>1. held' = held \cup {t} /\ attempts' = [attempts EXCEPT ![j] = attempts[j] + 1]
      BY <2>5, <2>1, <2>2, <1>3, <1>b DEF ClaimNext
    <3>2. t.owner = w /\ t.job = j /\ t.stage = "handling" /\ t.row = row
      OBVIOUS
    <3> HIDE DEF row, t
    <3>3. SoleHolder'
      BY <3>1, <3>2, <2>1, <2>2, <2>4, <1>b, <1>h DEF SoleHolder
    <3>4. RunsAreCounted'
      BY <3>1, <3>2, <2>1, <2>2, <2>4, <1>a, <1>b, <1>r DEF RunsAreCounted
    <3> QED
      BY <3>3, <3>4 DEF ExclusionInv
  <2>6. CASE j \notin Handled
    <3> DEFINE t == [owner |-> w, stage |-> "saving", job |-> j, row |-> Fail(row)]
    <3>1. held' = held \cup {t} /\ attempts' = attempts
      BY <2>6, <1>3 DEF ClaimNext
    <3>2. t.owner = w /\ t.job = j /\ t.stage = "saving" /\ t.row.status # "unborn"
          /\ t.row.retry_count = row.retry_count + 1
      BY <2>2 DEF Fail, Row
    <3> HIDE DEF row, t
    <3>3. SoleHolder'
      BY <3>1, <3>2, <2>1, <2>2, <2>4, <1>b, <1>h DEF SoleHolder
    <3>4. RunsAreCounted'
      BY <3>1, <3>2, <2>1, <2>2, <2>4, <1>a, <1>b, <1>r DEF RunsAreCounted
    <3> QED
      BY <3>3, <3>4 DEF ExclusionInv
  <2> QED
    BY <2>5, <2>6
<1>4. ASSUME NEW t \in held, HandlerSucceeds(t) \/ HandlerFails(t)
      PROVE  ExclusionInv'
  <2>1. t \in Copy /\ t.stage = "handling" /\ t.row \in Row
    BY <1>4, <1>a, <1>b DEF HandlerSucceeds, HandlerFails, Finish
  <2>2. PICK row \in {Complete(t.row), Fail(t.row)} : Finish(t, row)
    BY <1>4 DEF HandlerSucceeds, HandlerFails
  <2>3. /\ row.status # "unborn"
        /\ row.status = "completed" \/ row.retry_count = t.row.retry_count + 1
    BY <2>1, <2>2 DEF Complete, Fail, Row
  <2> DEFINE u == [t EXCEPT !.stage = "saving", !.row = row]
  <2>4. u.owner = t.owner /\ u.job = t.job /\ u.stage = "saving" /\ u.row = row
    BY <2>1 DEF Copy
  <2>5. held' = (held \ {t}) \cup {u} /\ UNCHANGED <<rows, attempts>>
    BY <2>2 DEF Finish
  <2>6. t.owner \in Workers /\ rows[t.job].status = "running"
    BY <2>1, <1>h DEF SoleHolder
  <2>7. attempts[t.job] <= t.row.retry_count + 1
    BY <2>1, <1>a, <1>r DEF RunsAreCounted
  <2> HIDE DEF u
  <2>8. SoleHolder'
    BY <2>3, <2>4, <2>5, <2>6, <1>h DEF SoleHolder
  <2>9. RunsAreCounted'
    BY <2>3, <2>4, <2>5, <2>7, <1>b, <1>r DEF RunsAreCounted
  <2> QED
    BY <2>8, <2>9 DEF ExclusionInv
<1>5. ASSUME NEW t \in held, Save(t) PROVE ExclusionInv'
  <2>1. /\ t.owner \notin Requests /\ t.stage = "saving" /\ t.job \in Jobs
        /\ rows[t.job].status \in LiveStatus
    BY <1>5, <1>b, <1>h DEF Save, SoleHolder, LiveStatus
  <2>2. rows' = [rows EXCEPT ![t.job] = t.row] /\ held' = held \ {t} /\ attempts' = attempts
    BY <1>5, <2>1 DEF Save, UpdateJob
  <2>3. \A u \in held' : u.job # t.job /\ rows'[u.job] = rows[u.job]
    BY <2>2, <1>a, <1>b, <1>h DEF SoleHolder
  <2>4. t.row.status \in {"pending", "failed"} => attempts[t.job] <= t.row.retry_count
    BY <2>1, <1>r DEF RunsAreCounted
  <2>5. t.row.status # "unborn"
    BY <1>h DEF SoleHolder
  <2>6. SoleHolder'
    BY <2>2, <2>3, <1>h DEF SoleHolder
  <2>7. RunsAreCounted'
    BY <2>1, <2>2, <2>3, <2>4, <2>5, <1>a, <1>b, <1>r DEF RunsAreCounted
  <2> QED
    BY <2>6, <2>7 DEF ExclusionInv
<1>6. ASSUME NEW t \in held, SaveFails(t) PROVE ExclusionInv'
  BY <1>6, <1>h, <1>r DEF SaveFails, ExclusionInv, SoleHolder, RunsAreCounted
<1>7. ASSUME NEW p \in RetryProcs, ListRetries(p) PROVE ExclusionInv'
  <2> DEFINE copy(j) == [owner |-> p, stage |-> "saving", job |-> j,
                         row |-> [rows[j] EXCEPT !.status = "pending"]]
  <2>1. ASSUME NEW j \in ReadyForRetry
        PROVE  /\ j \in Jobs /\ rows[j].status = "failed"
               /\ copy(j).owner = p /\ copy(j).job = j /\ copy(j).stage = "saving"
               /\ copy(j).row.status = "pending"
               /\ copy(j).row.retry_count = rows[j].retry_count
    <3>1. j \in Jobs /\ rows[j] \in Row /\ rows[j].status = "failed"
      BY <2>1, <1>a DEF ReadyForRetry, WithStatus
    <3> QED
      BY <3>1 DEF Row
  <2>2. /\ held' = held \cup {copy(j) : j \in ReadyForRetry}
        /\ UNCHANGED <<rows, attempts>>
    BY <1>7 DEF ListRetries
  <2> HIDE DEF copy
  <2>3. \A t \in held : t.job \notin ReadyForRetry
    <3>1. \A t \in held : t.owner \notin RetryProcs
      BY <1>7 DEF ListRetries, Idle, SoleRequeuer
    <3> QED
      BY <3>1, <2>1, <1>h DEF SoleHolder
  <2>4. SoleHolder'
    BY <2>1, <2>2, <2>3, <1>h DEF SoleHolder
  <2>5. RunsAreCounted'
    BY <2>1, <2>2, <1>r DEF RunsAreCounted
  <2> QED
    BY <2>4, <2>5 DEF ExclusionInv
<1>8. ASSUME NEW r \in Requests, NEW j \in Jobs,
             RequestCancel(r, j) \/ RequestRetry(r, j)
      PROVE  ExclusionInv'
  BY <1>8 DEF RequestCancel, RequestRetry, SoleRequeuer
<1>9. ASSUME CleanupOldJobs PROVE ExclusionInv'
  <2>1. PICK old \in SUBSET (WithStatus("completed") \cup WithStatus("dead_letter")) :
             rows' = [j \in Jobs |-> IF j \in old
                                    THEN [rows[j] EXCEPT !.status = "deleted"]
                                    ELSE rows[j]]
    BY <1>9 DEF CleanupOldJobs
  <2>2. \A j \in Jobs : j \in old => /\ rows[j].status \in {"completed", "dead_letter"}
                                     /\ rows'[j].status = "deleted"
    BY <2>1, <1>a DEF WithStatus, Row
  <2>3. \A j \in Jobs : j \notin old => rows'[j] = rows[j]
    BY <2>1
  <2>4. UNCHANGED <<held, attempts>>
    BY <1>9 DEF CleanupOldJobs
  <2>5. \A t \in held : t.job \notin old
    BY <2>2, <1>b, <1>h DEF SoleHolder
  <2>6. SoleHolder'
    BY <2>3, <2>4, <2>5, <1>b, <1>h DEF SoleHolder
  <2>7. RunsAreCounted'
    BY <2>2, <2>3, <2>4, <1>r DEF RunsAreCounted
  <2> QED
    BY <2>6, <2>7 DEF ExclusionInv
<1>10. ASSUME Crash PROVE ExclusionInv'
  BY <1>10, <1>h, <1>r DEF Crash, ExclusionInv, SoleHolder, RunsAreCounted
<1>11. CASE UNCHANGED vars
  BY <1>11, <1>h, <1>r DEF vars, ExclusionInv, SoleHolder, RunsAreCounted
<1> QED
  BY <1>1, <1>2, <1>3, <1>4, <1>5, <1>6, <1>7, <1>8, <1>9, <1>10, <1>11
     DEF Next, HandlerReturns

\* With one retry processor over the table and no administrative requests, a
\* claimed job is handled by one worker only, crashes and failed writes included.
THEOREM ExclusiveExecutionHolds ==
  ASSUME SoleRequeuer PROVE Spec => []ExclusiveExecution
<1>1. Init => BudgetInv /\ ExclusionInv
  BY BudgetInit, ExclusionInit
<1>2. BudgetInv /\ ExclusionInv /\ [Next]_vars => (BudgetInv /\ ExclusionInv)'
  BY BudgetStep, ExclusionStep
<1>3. ExclusionInv => ExclusiveExecution
  BY DEF ExclusionInv, SoleHolder, ExclusiveExecution
<1> QED
  BY <1>1, <1>2, <1>3, PTL DEF Spec

\* In the same deployment a job's handler runs at most MaxRetries times.
THEOREM AttemptsBounded ==
  ASSUME SoleRequeuer PROVE Spec => []AttemptsWithinBudget
<1>1. Init => BudgetInv /\ ExclusionInv
  BY BudgetInit, ExclusionInit
<1>2. BudgetInv /\ ExclusionInv /\ [Next]_vars => (BudgetInv /\ ExclusionInv)'
  BY BudgetStep, ExclusionStep
<1>3. ExclusionInv => AttemptsWithinBudget
  BY DEF ExclusionInv, RunsAreCounted, AttemptsWithinBudget
<1> QED
  BY <1>1, <1>2, <1>3, PTL DEF Spec

\* In the same deployment a recorded success is never overwritten.
THEOREM CompletedStays ==
  ASSUME SoleRequeuer PROVE Spec => CompletedIsFinal
<1> DEFINE Stays == \A j \in Jobs : rows[j].status = "completed" =>
                      rows'[j].status \in {"completed", "deleted"}
<1>1. Init => BudgetInv /\ ExclusionInv
  BY BudgetInit, ExclusionInit
<1>2. BudgetInv /\ ExclusionInv /\ [Next]_vars => (BudgetInv /\ ExclusionInv)'
  BY BudgetStep, ExclusionStep
<1>3. ASSUME BudgetInv, ExclusionInv, Next PROVE Stays
  <2>a. /\ rows \in [Jobs -> Row] /\ held \subseteq Copy
    BY <1>3 DEF BudgetInv, TypeOK
  <2>h. SoleHolder
    BY <1>3 DEF ExclusionInv
  <2> SUFFICES ASSUME NEW j \in Jobs, rows[j].status = "completed"
               PROVE  rows'[j].status \in {"completed", "deleted"}
    OBVIOUS
  <2>1. ASSUME NEW k \in Jobs, Enqueue(k) PROVE rows'[j] = rows[j]
    BY <2>1, <2>a DEF Enqueue
  <2>2. ASSUME NEW k \in Jobs, BackoffElapses(k)
        PROVE  rows'[j].status = "completed"
    <3>1. rows' = [rows EXCEPT ![k] = [rows[k] EXCEPT !.next_retry = "due"]]
      BY <2>2 DEF BackoffElapses
    <3>2. rows[k] \in Row
      BY <2>a
    <3> QED
      BY <3>1, <3>2, <2>a DEF Row
  <2>3. ASSUME NEW w \in Workers, NEW k \in Jobs, ClaimNext(w, k)
        PROVE  rows'[j] = rows[j]
    BY <2>3, <2>a DEF ClaimNext, IsNext
  <2>4. ASSUME NEW t \in held, HandlerSucceeds(t) \/ HandlerFails(t) \/ SaveFails(t)
        PROVE  rows' = rows
    BY <2>4 DEF HandlerSucceeds, HandlerFails, Finish, SaveFails
  <2>5. ASSUME NEW t \in held, Save(t) PROVE rows'[j] = rows[j]
    <3>1. t.job # j
      BY <2>h DEF SoleHolder
    <3> QED
      BY <3>1, <2>5, <2>a DEF Save, UpdateJob
  <2>6. ASSUME NEW p \in RetryProcs, ListRetries(p) PROVE rows' = rows
    BY <2>6 DEF ListRetries
  <2>7. ASSUME NEW r \in Requests, NEW k \in Jobs,
               RequestCancel(r, k) \/ RequestRetry(r, k)
        PROVE  rows' = rows
    BY <2>7 DEF RequestCancel, RequestRetry
  <2>8. ASSUME CleanupOldJobs PROVE rows'[j].status \in {"completed", "deleted"}
    <3>1. rows[j] \in Row
      BY <2>a
    <3> QED
      BY <3>1, <2>8 DEF CleanupOldJobs, Row
  <2>9. ASSUME Crash PROVE rows' = rows
    BY <2>9 DEF Crash
  <2> QED
    BY <1>3, <2>1, <2>2, <2>3, <2>4, <2>5, <2>6, <2>7, <2>8, <2>9
       DEF Next, HandlerReturns
<1>4. BudgetInv /\ ExclusionInv /\ [Next]_vars => [Stays]_vars
  BY <1>3
<1> QED
  BY <1>1, <1>2, <1>4, PTL DEF Spec, CompletedIsFinal

-----------------------------------------------------------------------------
(* A running row has its worker, in every deployment without faults: stale  *)
(* writes move a row out of "running", never into it.                       *)

NoSavedRunning == \A t \in held : t.stage = "saving" => t.row.status # "running"

\* Without crashes and failed writes a row that says "running" has a worker
\* processing it, however many retry processors and requests interfere.
THEOREM RunningIsProcessedHolds ==
  ASSUME Faults = {} PROVE Spec => []RunningIsProcessed
<1> DEFINE Inv == RunningIsProcessed /\ NoSavedRunning
<1>1. Init => Inv
  BY DEF Init, NoRow, RunningIsProcessed, NoSavedRunning, WithStatus
<1>2. ASSUME BudgetInv, Inv, [Next]_vars PROVE Inv'
  <2>a. rows \in [Jobs -> Row] /\ held \subseteq Copy
    BY <1>2 DEF BudgetInv, TypeOK
  <2>b. \A t \in held : t.owner \in Owners /\ t.job \in Jobs /\ t.row \in Row
    BY <2>a DEF Copy
  <2>i. RunningIsProcessed /\ NoSavedRunning
    BY <1>2
  <2> USE DEF RunningIsProcessed, NoSavedRunning, WithStatus
  <2>1. ASSUME NEW j \in Jobs, Enqueue(j) PROVE Inv'
    BY <2>1, <2>a, <2>i DEF Enqueue, NewJob
  <2>2. ASSUME NEW j \in Jobs, BackoffElapses(j) PROVE Inv'
    <3>1. rows' = [rows EXCEPT ![j] = [rows[j] EXCEPT !.next_retry = "due"]]
          /\ held' = held
      BY <2>2 DEF BackoffElapses
    <3>2. \A k \in Jobs : rows'[k].status = rows[k].status
      <4>1. rows[j] \in Row
        BY <2>a
      <4> QED
        BY <3>1, <4>1, <2>a DEF Row
    <3> QED
      BY <3>1, <3>2, <2>i
  <2>3. ASSUME NEW w \in Workers, NEW j \in Jobs, ClaimNext(w, j) PROVE Inv'
    <3> DEFINE row == [rows[j] EXCEPT !.status = "running"]
    <3>1. /\ rows' = [rows EXCEPT ![j] = row]
          /\ \/ held' = held \cup {[owner |-> w, stage |-> "handling", job |-> j,
                                   row |-> row]}
             \/ held' = held \cup {[owner |-> w, stage |-> "saving", job |-> j,
                                   row |-> Fail(row)]}
      BY <2>3 DEF ClaimNext
    <3>2. Fail(row).status # "running"
      <4>1. rows[j] \in Row
        BY <2>a
      <4> QED
        BY <4>1 DEF Fail, Row
    <3>3. \A k \in Jobs : k # j => rows'[k] = rows[k]
      BY <3>1, <2>a
    <3> HIDE DEF row
    <3>4. RunningIsProcessed'
      <4>1. held \subseteq held' /\ \E t \in held' : t.owner = w /\ t.job = j
        <5> DEFINE h == [owner |-> w, stage |-> "handling", job |-> j, row |-> row]
                   s == [owner |-> w, stage |-> "saving", job |-> j, row |-> Fail(row)]
        <5>1. held' = held \cup {h} \/ held' = held \cup {s}
          BY <3>1
        <5>2. h.owner = w /\ h.job = j /\ s.owner = w /\ s.job = j
          OBVIOUS
        <5> HIDE DEF h, s
        <5> QED
          BY <5>1, <5>2
      <4> QED
        BY <4>1, <3>3, <2>i
    <3>5. NoSavedRunning'
      BY <3>1, <3>2, <2>i
    <3> QED
      BY <3>4, <3>5
  <2>4. ASSUME NEW t \in held, HandlerSucceeds(t) \/ HandlerFails(t) PROVE Inv'
    <3>1. PICK row \in {Complete(t.row), Fail(t.row)} : Finish(t, row)
      BY <2>4 DEF HandlerSucceeds, HandlerFails
    <3>2. row.status # "running"
      BY <3>1, <2>b DEF Complete, Fail, Row
    <3> DEFINE u == [t EXCEPT !.stage = "saving", !.row = row]
    <3>3. t \in Copy
      BY <2>a
    <3>4. u.owner = t.owner /\ u.job = t.job /\ u.row = row
      BY <3>3 DEF Copy
    <3>5. rows' = rows /\ held' = (held \ {t}) \cup {u}
      BY <3>1 DEF Finish
    <3> HIDE DEF u
    <3> QED
      BY <3>2, <3>4, <3>5, <2>i
  <2>5. ASSUME NEW t \in held, Save(t) PROVE Inv'
    <3>1. t.row.status # "running" /\ held' = held \ {t}
      BY <2>5, <2>i DEF Save
    <3>2. \A k \in Jobs : k # t.job => rows'[k] = rows[k]
      BY <2>5, <2>a DEF Save, UpdateJob
    <3>3. rows'[t.job].status # "running"
      BY <2>5, <3>1, <2>a, <2>b DEF Save, UpdateJob, LiveStatus
    <3> QED
      BY <3>1, <3>2, <3>3, <2>i
  <2>6. ASSUME NEW t \in held, SaveFails(t) PROVE Inv'
    BY <2>6 DEF SaveFails
  <2>7. ASSUME NEW p \in RetryProcs, ListRetries(p) PROVE Inv'
    <3> DEFINE copy(j) == [owner |-> p, stage |-> "saving", job |-> j,
                           row |-> [rows[j] EXCEPT !.status = "pending"]]
    <3>1. rows' = rows /\ held' = held \cup {copy(j) : j \in ReadyForRetry}
      BY <2>7 DEF ListRetries
    <3>2. ASSUME NEW j \in ReadyForRetry PROVE copy(j).row.status = "pending"
      <4>1. rows[j] \in Row
        BY <3>2, <2>a DEF ReadyForRetry
      <4> QED
        BY <4>1 DEF Row
    <3> HIDE DEF copy
    <3> QED
      BY <3>1, <3>2, <2>i
  <2>8. ASSUME NEW r \in Requests, NEW j \in Jobs,
               RequestCancel(r, j) \/ RequestRetry(r, j)
        PROVE  Inv'
    <3>1. PICK row \in {Cancel(rows[j]), Retry(rows[j])} :
               held' = held \cup {[owner |-> r, stage |-> "saving", job |-> j,
                                  row |-> row]}
      BY <2>8 DEF RequestCancel, RequestRetry
    <3>2. rows[j] \in Row /\ rows' = rows
      BY <2>8, <2>a DEF RequestCancel, RequestRetry
    <3>3. row.status # "running"
      BY <3>1, <3>2 DEF Cancel, Retry, Row
    <3> QED
      BY <3>1, <3>2, <3>3, <2>i
  <2>9. ASSUME CleanupOldJobs PROVE Inv'
    <3>1. PICK old : rows' = [j \in Jobs |-> IF j \in old
                                            THEN [rows[j] EXCEPT !.status = "deleted"]
                                            ELSE rows[j]]
      BY <2>9 DEF CleanupOldJobs
    <3>2. \A j \in Jobs : rows'[j] = rows[j] \/ rows'[j].status = "deleted"
      BY <3>1, <2>a DEF Row
    <3> QED
      BY <3>2, <2>9, <2>i DEF CleanupOldJobs
  <2>10. ASSUME Crash PROVE Inv'
    BY <2>10 DEF Crash
  <2>11. CASE UNCHANGED vars
    BY <2>11, <2>i DEF vars
  <2> QED
    BY <1>2, <2>1, <2>2, <2>3, <2>4, <2>5, <2>6, <2>7, <2>8, <2>9, <2>10, <2>11
       DEF Next, HandlerReturns
<1>3. BudgetInv /\ Inv /\ [Next]_vars => (BudgetInv /\ Inv)'
  BY <1>2, BudgetStep
<1> QED
  BY <1>1, <1>3, BudgetInit, PTL DEF Spec
-----------------------------------------------------------------------------
(* The queue implements JobLifecycle in that deployment.  SoleHolder says   *)
(* whose a copy is; what its write will do to the row is still missing.     *)

\* A worker's result is its row's success or its row's next failure, and a row
\* that was never created carries no failures.
ResultFits ==
  /\ \A j \in Jobs : rows[j].status = "unborn" => rows[j].retry_count = 0
  /\ \A t \in held : t.owner \in Workers =>
       \/ t.stage = "handling" /\ t.row.retry_count = rows[t.job].retry_count
       \/ /\ t.stage = "saving" /\ t.row.status = "completed"
          /\ t.row.retry_count = rows[t.job].retry_count
       \/ /\ t.stage = "saving"
          /\ t.row.retry_count = rows[t.job].retry_count + 1
          /\ t.row.status = IF t.row.retry_count >= MaxRetries
                            THEN "dead_letter" ELSE "failed"

LEMMA FailFits ==
  ASSUME NEW row \in Row
  PROVE  /\ Fail(row).retry_count = row.retry_count + 1
         /\ Fail(row).status = IF Fail(row).retry_count >= MaxRetries
                               THEN "dead_letter" ELSE "failed"
<1>1. row.retry_count + 1 \in Nat /\ MaxRetries \in Nat
  BY JobQueueAssumption DEF Row
<1>2. CASE row.retry_count + 1 >= MaxRetries
  BY <1>1, <1>2 DEF Fail, Row
<1>3. CASE ~ (row.retry_count + 1 >= MaxRetries)
  BY <1>1, <1>3 DEF Fail, Row
<1> QED
  BY <1>2, <1>3

LEMMA ResultFitsStep ==
  ASSUME SoleRequeuer, BudgetInv, ExclusionInv, ResultFits, [Next]_vars
  PROVE  ResultFits'
<1> USE JobQueueAssumption
<1>a. rows \in [Jobs -> Row] /\ held \subseteq Copy
  BY DEF BudgetInv, TypeOK
<1>b. \A t \in held : t.owner \in Owners /\ t.job \in Jobs /\ t.row \in Row
  BY <1>a DEF Copy
<1>h. SoleHolder
  BY DEF ExclusionInv
<1>1. ASSUME NEW j \in Jobs, Enqueue(j) PROVE ResultFits'
  <2>1. \A t \in held : t.job # j
    BY <1>1, <1>h DEF Enqueue, SoleHolder
  <2> QED
    BY <2>1, <1>1, <1>a, <1>b DEF Enqueue, NewJob, ResultFits
<1>2. ASSUME NEW j \in Jobs, BackoffElapses(j) PROVE ResultFits'
  <2>1. rows' = [rows EXCEPT ![j] = [rows[j] EXCEPT !.next_retry = "due"]] /\ held' = held
    BY <1>2 DEF BackoffElapses
  <2>2. \A k \in Jobs : /\ rows'[k].status = rows[k].status
                        /\ rows'[k].retry_count = rows[k].retry_count
    <3>1. rows[j] \in Row
      BY <1>a
    <3> QED
      BY <2>1, <3>1, <1>a DEF Row
  <2> QED
    BY <2>1, <2>2, <1>b DEF ResultFits
<1>3. ASSUME NEW w \in Workers, NEW j \in Jobs, ClaimNext(w, j) PROVE ResultFits'
  <2> DEFINE row == [rows[j] EXCEPT !.status = "running"]
  <2>1. \A t \in held : t.job # j
    BY <1>3, <1>h DEF ClaimNext, IsNext, SoleHolder
  <2>2. /\ row \in Row /\ row.status = "running" /\ row.retry_count = rows[j].retry_count
    <3>1. rows[j] \in Row
      BY <1>a
    <3> QED
      BY <3>1 DEF Row, LiveStatus
  <2>3. PICK t : /\ held' = held \cup {t} /\ t.owner = w /\ t.job = j
                 /\ \/ t.stage = "handling" /\ t.row = row
                    \/ t.stage = "saving" /\ t.row = Fail(row)
    <3> DEFINE h == [owner |-> w, stage |-> "handling", job |-> j, row |-> row]
               s == [owner |-> w, stage |-> "saving", job |-> j, row |-> Fail(row)]
    <3>1. held' = held \cup {h} \/ held' = held \cup {s}
      BY <1>3 DEF ClaimNext
    <3>2. /\ h.owner = w /\ h.job = j /\ h.stage = "handling" /\ h.row = row
          /\ s.owner = w /\ s.job = j /\ s.stage = "saving" /\ s.row = Fail(row)
      OBVIOUS
    <3> HIDE DEF row, h, s
    <3> QED
      BY <3>1, <3>2
  <2>4. \A k \in Jobs : rows'[k] = IF k = j THEN row ELSE rows[k]
    BY <1>3, <1>a DEF ClaimNext
  <2>5. /\ Fail(row).retry_count = row.retry_count + 1
        /\ Fail(row).status = IF Fail(row).retry_count >= MaxRetries
                              THEN "dead_letter" ELSE "failed"
    BY <2>2, FailFits
  <2> HIDE DEF row
  <2> QED
    BY <2>1, <2>2, <2>3, <2>4, <2>5, <1>b DEF ResultFits
<1>4. ASSUME NEW t \in held, HandlerSucceeds(t) \/ HandlerFails(t) PROVE ResultFits'
  <2>1. t \in Copy /\ t.stage = "handling" /\ t.row \in Row
    BY <1>4, <1>a, <1>b DEF HandlerSucceeds, HandlerFails, Finish
  <2>2. t.owner \in Workers
    BY <2>1, <1>h DEF SoleHolder
  <2>3. t.row.retry_count = rows[t.job].retry_count
    BY <2>1, <2>2 DEF ResultFits
  <2>4. PICK row \in {Complete(t.row), Fail(t.row)} : Finish(t, row)
    BY <1>4 DEF HandlerSucceeds, HandlerFails
  <2>5. \/ row.status = "completed" /\ row.retry_count = t.row.retry_count
        \/ /\ row.retry_count = t.row.retry_count + 1
           /\ row.status = IF row.retry_count >= MaxRetries THEN "dead_letter" ELSE "failed"
    <3>1. Complete(t.row).status = "completed"
          /\ Complete(t.row).retry_count = t.row.retry_count
      BY <2>1 DEF Complete, Row
    <3> QED
      BY <3>1, <2>1, <2>4, FailFits
  <2> DEFINE u == [t EXCEPT !.stage = "saving", !.row = row]
  <2>6. u.owner = t.owner /\ u.job = t.job /\ u.stage = "saving" /\ u.row = row
    BY <2>1 DEF Copy
  <2>7. held' = (held \ {t}) \cup {u} /\ rows' = rows
    BY <2>4 DEF Finish
  <2> HIDE DEF u
  <2> QED
    BY <2>3, <2>5, <2>6, <2>7 DEF ResultFits
<1>5. ASSUME NEW t \in held, Save(t) PROVE ResultFits'
  <2>1. \A u \in held' : u \in held /\ u.job # t.job
    BY <1>5, <1>h DEF Save, SoleHolder
  <2>2. t.row.status # "unborn"
    BY <1>h DEF SoleHolder
  <2>3. \A k \in Jobs : rows'[k] = rows[k] \/ (k = t.job /\ rows'[k] = t.row)
    BY <1>5, <1>a, <1>b DEF Save, UpdateJob
  <2> QED
    BY <2>1, <2>2, <2>3, <1>b DEF ResultFits
<1>6. ASSUME NEW t \in held, SaveFails(t) PROVE ResultFits'
  BY <1>6 DEF SaveFails, ResultFits
<1>7. ASSUME NEW p \in RetryProcs, ListRetries(p) PROVE ResultFits'
  <2>1. rows' = rows /\ \A t \in held' : t \in held \/ t.owner = p
    BY <1>7 DEF ListRetries
  <2>2. p \notin Workers
    OBVIOUS
  <2> QED
    BY <2>1, <2>2 DEF ResultFits
<1>8. ASSUME NEW r \in Requests, NEW j \in Jobs,
             RequestCancel(r, j) \/ RequestRetry(r, j)
      PROVE  ResultFits'
  BY <1>8 DEF RequestCancel, RequestRetry, SoleRequeuer
<1>9. ASSUME CleanupOldJobs PROVE ResultFits'
  <2>1. PICK old : rows' = [j \in Jobs |-> IF j \in old
                                          THEN [rows[j] EXCEPT !.status = "deleted"]
                                          ELSE rows[j]]
    BY <1>9 DEF CleanupOldJobs
  <2>2. \A j \in Jobs : /\ rows'[j].retry_count = rows[j].retry_count
                        /\ rows'[j].status \in {rows[j].status, "deleted"}
    BY <2>1, <1>a DEF Row
  <2>3. held' = held
    BY <1>9 DEF CleanupOldJobs
  <2> QED
    BY <2>2, <2>3, <1>b DEF ResultFits
<1>10. ASSUME Crash PROVE ResultFits'
  BY <1>10 DEF Crash, ResultFits
<1>11. CASE UNCHANGED vars
  BY <1>11 DEF vars, ResultFits
<1> QED
  BY <1>1, <1>2, <1>3, <1>4, <1>5, <1>6, <1>7, <1>8, <1>9, <1>10, <1>11
     DEF Next, HandlerReturns

\* A job's phase depends on its status and on whether somebody holds a copy.
LEMMA PhaseKept ==
  ASSUME NEW j \in Jobs,
         \/ /\ rows'[j].status = rows[j].status
            /\ (\E t \in held' : t.job = j) <=> (\E t \in held : t.job = j)
         \/ /\ rows'[j].status = rows[j].status
            /\ rows[j].status # "running"
         \/ /\ rows[j].status \in {"pending", "failed"}
            /\ rows'[j].status \in {"pending", "failed"}
  PROVE  Phase(j)' = Phase(j)
<1>1. CASE rows'[j].status = rows[j].status /\ rows[j].status # "running"
  BY <1>1 DEF Phase
<1>2. CASE rows'[j].status = "running" /\ rows[j].status = "running"
  BY <1>2, Zenon DEF Phase
<1>3. CASE /\ rows[j].status \in {"pending", "failed"}
           /\ rows'[j].status \in {"pending", "failed"}
  BY <1>3 DEF Phase
<1> QED
  BY <1>1, <1>2, <1>3

LEMMA LifeKept ==
  ASSUME \A k \in Jobs : Phase(k)' = Phase(k) /\ rows'[k].retry_count = rows[k].retry_count
  PROVE  UNCHANGED Lifecycle!vars
BY DEF Lifecycle!vars

\* One job moves, every other keeps its phase and its count.
Moves(j, from, to) ==
  /\ Phase(j) = from /\ Phase(j)' = to
  /\ \A k \in Jobs : k # j =>
       Phase(k)' = Phase(k) /\ rows'[k].retry_count = rows[k].retry_count

\* Every step of the queue is a step of the life of its jobs, or none.
LEMMA LifecycleStep ==
  ASSUME SoleRequeuer, BudgetInv, ExclusionInv, ResultFits, [Next]_vars
  PROVE  [Lifecycle!Next]_(Lifecycle!vars)
<1> USE JobQueueAssumption
<1>a. /\ rows \in [Jobs -> Row] /\ held \subseteq Copy
      /\ \A j \in Jobs : HasBudget(rows[j])
  BY DEF BudgetInv, TypeOK, RetryBudget
<1>b. /\ \A t \in held : t.owner \in Owners /\ t.job \in Jobs /\ t.row \in Row
      /\ \A j \in Jobs : rows[j].retry_count \in 0 .. MaxRetries
  BY <1>a DEF Copy, Row
<1>h. SoleHolder
  BY DEF ExclusionInv
<1>w. \A t \in held : t.owner \in Workers => rows[t.job].status = "running"
  BY <1>h DEF SoleHolder
<1>1. ASSUME NEW j \in Jobs, Enqueue(j) PROVE Lifecycle!Submit(j)
  <2>1. rows[j].status = "unborn" /\ rows[j].retry_count = 0 /\ held' = held
    BY <1>1 DEF Enqueue, ResultFits
  <2>2. rows' = [rows EXCEPT ![j] = NewJob(clock)]
    BY <1>1 DEF Enqueue
  <2>3. rows'[j].status = "pending" /\ rows'[j].retry_count = 0
    BY <2>2, <1>a DEF NewJob
  <2>4. \A k \in Jobs : k # j => rows'[k] = rows[k]
    BY <2>2, <1>a
  <2>5. Moves(j, "none", "queued")
    <3>1. Phase(j) = "none" /\ Phase(j)' = "queued"
      BY <2>1, <2>3 DEF Phase
    <3>2. ASSUME NEW k \in Jobs, k # j PROVE Phase(k)' = Phase(k)
      BY <2>1, <2>4, <3>2, PhaseKept
    <3> QED
      BY <3>1, <3>2, <2>4 DEF Moves
  <2> QED
    BY <2>1, <2>3, <2>5 DEF Moves, Lifecycle!Submit
<1>2. ASSUME NEW j \in Jobs, BackoffElapses(j) PROVE UNCHANGED Lifecycle!vars
  <2>1. rows' = [rows EXCEPT ![j] = [rows[j] EXCEPT !.next_retry = "due"]] /\ held' = held
    BY <1>2 DEF BackoffElapses
  <2>2. \A k \in Jobs : /\ rows'[k].status = rows[k].status
                        /\ rows'[k].retry_count = rows[k].retry_count
    <3>1. rows[j] \in Row
      BY <1>a
    <3> QED
      BY <2>1, <3>1, <1>a DEF Row
  <2>3. ASSUME NEW k \in Jobs PROVE Phase(k)' = Phase(k)
    BY <2>1, <2>2, PhaseKept
  <2> QED
    BY <2>2, <2>3, LifeKept
<1>3. ASSUME NEW w \in Workers, NEW j \in Jobs, ClaimNext(w, j) PROVE Lifecycle!Begin(j)
  <2>1. rows[j].status = "pending" /\ rows[j] \in Row /\ HasBudget(rows[j])
    BY <1>3, <1>a DEF ClaimNext, IsNext
  <2>2. rows[j].retry_count < MaxRetries
    BY <2>1 DEF HasBudget
  <2>3. rows' = [rows EXCEPT ![j] = [rows[j] EXCEPT !.status = "running"]]
    BY <1>3 DEF ClaimNext
  <2>4. rows'[j].status = "running" /\ rows'[j].retry_count = rows[j].retry_count
    BY <2>1, <2>3, <1>a DEF Row
  <2>5. \A k \in Jobs : k # j => rows'[k] = rows[k]
    BY <2>3, <1>a
  <2>6. PICK t : held' = held \cup {t} /\ t.job = j
    <3> DEFINE row == [rows[j] EXCEPT !.status = "running"]
               h == [owner |-> w, stage |-> "handling", job |-> j, row |-> row]
               s == [owner |-> w, stage |-> "saving", job |-> j, row |-> Fail(row)]
    <3>1. held' = held \cup {h} \/ held' = held \cup {s}
      BY <1>3 DEF ClaimNext
    <3>2. h.job = j /\ s.job = j
      OBVIOUS
    <3> HIDE DEF row, h, s
    <3> QED
      BY <3>1, <3>2
  <2>7. Moves(j, "queued", "working")
    <3>1. Phase(j) = "queued"
      BY <2>1 DEF Phase
    <3>2. Phase(j)' = "working"
      BY <2>4, <2>6 DEF Phase
    <3>3. ASSUME NEW k \in Jobs, k # j PROVE Phase(k)' = Phase(k)
      <4>1. (\E u \in held' : u.job = k) <=> (\E u \in held : u.job = k)
        BY <2>6, <3>3
      <4> QED
        BY <4>1, <2>5, <3>3, PhaseKept
    <3> QED
      BY <3>1, <3>2, <3>3, <2>5 DEF Moves
  <2> QED
    BY <2>2, <2>4, <2>7 DEF Moves, Lifecycle!Begin
<1>4. ASSUME NEW t \in held, HandlerSucceeds(t) \/ HandlerFails(t)
      PROVE  UNCHANGED Lifecycle!vars
  <2>1. PICK row : rows' = rows
                   /\ held' = (held \ {t}) \cup {[t EXCEPT !.stage = "saving", !.row = row]}
    BY <1>4 DEF HandlerSucceeds, HandlerFails, Finish
  <2>2. [t EXCEPT !.stage = "saving", !.row = row].job = t.job
    BY <1>a DEF Copy
  <2>3. ASSUME NEW k \in Jobs PROVE Phase(k)' = Phase(k)
    <3>1. (\E u \in held' : u.job = k) <=> (\E u \in held : u.job = k)
      BY <2>1, <2>2
    <3> QED
      BY <3>1, <2>1, PhaseKept
  <2> QED
    BY <2>1, <2>3, LifeKept
<1>5. ASSUME NEW t \in held, Save(t)
      PROVE  \/ Lifecycle!Succeed(t.job) \/ Lifecycle!Fail(t.job)
             \/ UNCHANGED Lifecycle!vars
  <2>1. t.stage = "saving" /\ t.job \in Jobs /\ rows[t.job].status \in LiveStatus
    BY <1>5, <1>b, <1>h DEF Save, SoleHolder, LiveStatus
  <2>2. rows' = [rows EXCEPT ![t.job] = t.row] /\ held' = held \ {t}
    BY <1>5, <2>1 DEF Save, UpdateJob
  <2>3. rows'[t.job] = t.row /\ \A k \in Jobs : k # t.job => rows'[k] = rows[k]
    BY <2>1, <2>2, <1>a
  <2>4. ASSUME NEW k \in Jobs, k # t.job PROVE Phase(k)' = Phase(k)
    <3>1. (\E u \in held' : u.job = k) <=> (\E u \in held : u.job = k)
      BY <2>2, <2>4
    <3> QED
      BY <3>1, <2>3, <2>4, PhaseKept
  <2>5. CASE t.owner \in Workers
    <3>1. Phase(t.job) = "working"
      BY <2>5, <1>w DEF Phase
    <3>2. CASE t.row.status = "completed" /\ t.row.retry_count = rows[t.job].retry_count
      <4>1. Phase(t.job)' = "done"
        BY <3>2, <2>3 DEF Phase
      <4> QED
        BY <3>1, <3>2, <4>1, <2>1, <2>3, <2>4 DEF Lifecycle!Succeed
    <3>3. CASE /\ t.row.retry_count = rows[t.job].retry_count + 1
               /\ t.row.status = IF t.row.retry_count >= MaxRetries
                                 THEN "dead_letter" ELSE "failed"
      <4>1. t.row.retry_count \in 0 .. MaxRetries
        BY <1>b DEF Row
      <4>2. Phase(t.job)' = IF rows[t.job].retry_count + 1 = MaxRetries
                            THEN "dead" ELSE "queued"
        <5>1. CASE t.row.retry_count = MaxRetries
          BY <5>1, <4>1, <3>3, <2>3 DEF Phase
        <5>2. CASE t.row.retry_count # MaxRetries
          BY <5>2, <4>1, <3>3, <2>3 DEF Phase
        <5> QED
          BY <5>1, <5>2
      <4> DEFINE job == t.job
                 n == rows[t.job].retry_count + 1
                 to == IF n = MaxRetries THEN "dead" ELSE "queued"
      <4>3. [k \in Jobs |-> rows[k].retry_count]' =
              [[k \in Jobs |-> rows[k].retry_count] EXCEPT ![job] = n]
        <5>1. rows'[job].retry_count = n /\ job \in Jobs
          BY <3>3, <2>1, <2>3
        <5>2. \A k \in Jobs \ {job} : rows'[k] = rows[k]
          BY <2>3
        <5> HIDE DEF n, job
        <5> QED
          BY <5>1, <5>2
      <4>4. [k \in Jobs |-> Phase(k)]' = [[k \in Jobs |-> Phase(k)] EXCEPT ![job] = to]
        BY <4>2, <2>1, <2>4
      <4> QED
        BY <3>1, <4>3, <4>4, <2>1 DEF Lifecycle!Fail
    <3> QED
      BY <2>1, <2>5, <3>2, <3>3 DEF ResultFits
  <2>6. CASE t.owner \notin Workers
    <3>1. /\ rows[t.job].status = "failed" /\ t.row.status = "pending"
          /\ t.row.retry_count = rows[t.job].retry_count
      BY <2>6, <1>h DEF SoleHolder
    <3>2. Phase(t.job)' = Phase(t.job)
      BY <3>1, <2>1, <2>3, PhaseKept
    <3> QED
      BY <3>1, <3>2, <2>3, <2>4, LifeKept
  <2> QED
    BY <2>5, <2>6
<1>6. ASSUME NEW t \in held, SaveFails(t)
      PROVE  Lifecycle!Lose \/ UNCHANGED Lifecycle!vars
  <2>1. rows' = rows /\ held' = held \ {t} /\ t.job \in Jobs
    BY <1>6, <1>b DEF SaveFails
  <2>2. ASSUME NEW k \in Jobs, k # t.job PROVE Phase(k)' = Phase(k)
    <3>1. (\E u \in held' : u.job = k) <=> (\E u \in held : u.job = k)
      BY <2>1, <2>2
    <3> QED
      BY <3>1, <2>1, PhaseKept
  <2>3. CASE t.owner \in Workers
    <3>1. Phase(t.job) = "working"
      BY <2>3, <1>w DEF Phase
    <3>2. Phase(t.job)' = "lost"
      <4>1. ~ \E u \in held' : u.job = t.job
        BY <2>1, <1>h DEF SoleHolder
      <4> QED
        BY <4>1, <2>1, <2>3, <1>w DEF Phase
    <3>3. {t.job} \in SUBSET {j \in Jobs : Phase(j) = "working"}
      BY <3>1, <2>1
    <3> QED
      BY <3>2, <3>3, <2>1, <2>2 DEF Lifecycle!Lose
  <2>4. CASE t.owner \notin Workers
    <3>1. rows[t.job].status = "failed"
      BY <2>4, <1>h DEF SoleHolder
    <3>2. Phase(t.job)' = Phase(t.job)
      BY <3>1, <2>1, PhaseKept
    <3> QED
      BY <3>2, <2>1, <2>2, LifeKept
  <2> QED
    BY <2>3, <2>4
<1>7. ASSUME NEW p \in RetryProcs, ListRetries(p) PROVE UNCHANGED Lifecycle!vars
  <2>1. rows' = rows /\ held \subseteq held'
        /\ \A t \in held' : t \in held \/ rows[t.job].status = "failed"
    BY <1>7, <1>a DEF ListRetries, ReadyForRetry, WithStatus
  <2>2. ASSUME NEW k \in Jobs PROVE Phase(k)' = Phase(k)
    <3>1. CASE rows[k].status # "running"
      BY <3>1, <2>1, PhaseKept
    <3>2. CASE rows[k].status = "running"
      <4>1. (\E u \in held' : u.job = k) <=> (\E u \in held : u.job = k)
        BY <2>1, <3>2
      <4> QED
        BY <4>1, <2>1, PhaseKept
    <3> QED
      BY <3>1, <3>2
  <2> QED
    BY <2>1, <2>2, LifeKept
<1>8. ASSUME NEW r \in Requests, NEW j \in Jobs,
             RequestCancel(r, j) \/ RequestRetry(r, j)
      PROVE  FALSE
  BY <1>8 DEF RequestCancel, RequestRetry, SoleRequeuer
<1>9. ASSUME CleanupOldJobs PROVE Lifecycle!CleanUp
  <2>1. PICK old \in SUBSET (WithStatus("completed") \cup WithStatus("dead_letter")) :
             rows' = [j \in Jobs |-> IF j \in old
                                    THEN [rows[j] EXCEPT !.status = "deleted"]
                                    ELSE rows[j]]
    BY <1>9 DEF CleanupOldJobs
  <2>2. held' = held
    BY <1>9 DEF CleanupOldJobs
  <2>3. \A j \in Jobs : rows'[j].retry_count = rows[j].retry_count
    BY <2>1, <1>a DEF Row
  <2>4. ASSUME NEW j \in Jobs, j \in old
        PROVE  Phase(j) \in {"done", "dead"} /\ Phase(j)' = "gone"
    <3>1. rows[j].status \in {"completed", "dead_letter"}
      BY <2>1, <2>4 DEF WithStatus
    <3>2. rows'[j].status = "deleted"
      BY <2>1, <2>4, <1>a DEF Row
    <3> QED
      BY <3>1, <3>2 DEF Phase
  <2>5. ASSUME NEW j \in Jobs, j \notin old PROVE Phase(j)' = Phase(j)
    BY <2>1, <2>2, <2>5, PhaseKept
  <2>6. old \in SUBSET {j \in Jobs : Phase(j) \in {"done", "dead"}}
    BY <2>1, <2>4 DEF WithStatus
  <2> QED
    BY <2>3, <2>4, <2>5, <2>6 DEF Lifecycle!CleanUp
<1>10. ASSUME Crash PROVE Lifecycle!Lose
  <2>1. rows' = rows /\ held' = {}
    BY <1>10 DEF Crash
  <2> DEFINE lost == {j \in Jobs : Phase(j) = "working"}
  <2>2. ASSUME NEW j \in lost PROVE Phase(j)' = "lost"
    <3>1. rows[j].status = "running"
      BY <2>2, <1>a DEF Phase, Row, LiveStatus
    <3> QED
      BY <3>1, <2>1 DEF Phase
  <2>3. ASSUME NEW j \in Jobs, j \notin lost PROVE Phase(j)' = Phase(j)
    <3>1. CASE rows[j].status # "running"
      BY <3>1, <2>1, PhaseKept
    <3>2. CASE rows[j].status = "running"
      <4>1. ~ \E t \in held : t.job = j
        BY <2>3, <3>2 DEF Phase
      <4>2. (\E u \in held' : u.job = j) <=> (\E u \in held : u.job = j)
        BY <4>1, <2>1
      <4> QED
        BY <4>2, <2>1, PhaseKept
    <3> QED
      BY <3>1, <3>2
  <2> QED
    BY <2>1, <2>2, <2>3 DEF Lifecycle!Lose
<1>11. CASE UNCHANGED vars
  <2>1. ASSUME NEW k \in Jobs PROVE Phase(k)' = Phase(k)
    BY <1>11, PhaseKept DEF vars
  <2> QED
    BY <1>11, <2>1, LifeKept DEF vars
<1> QED
  BY <1>1, <1>2, <1>3, <1>4, <1>5, <1>6, <1>7, <1>8, <1>9, <1>10, <1>11, <1>b
     DEF Next, HandlerReturns, Lifecycle!Next

\* With one retry processor over the table and no administrative requests the
\* queue implements the life cycle: claims, results and requeues of rows and
\* stale copies, crashes and failed writes are steps of JobLifecycle or none.
THEOREM ImplementsLifecycleHolds ==
  ASSUME SoleRequeuer PROVE Spec => ImplementsLifecycle
<1> DEFINE Inv == BudgetInv /\ ExclusionInv /\ ResultFits
<1>1. Init => Inv
  <2>1. Init => ResultFits
    BY DEF Init, NoRow, ResultFits
  <2> QED
    BY <2>1, BudgetInit, ExclusionInit
<1>2. Inv /\ [Next]_vars => Inv'
  BY BudgetStep, ExclusionStep, ResultFitsStep
<1>3. Init => Lifecycle!Init
  BY DEF Init, NoRow, Lifecycle!Init, Phase
<1>4. Inv /\ [Next]_vars => [Lifecycle!Next]_(Lifecycle!vars)
  BY LifecycleStep
<1> QED
  BY <1>1, <1>2, <1>3, <1>4, PTL DEF Spec, ImplementsLifecycle, Lifecycle!Spec
=============================================================================
