-------------------------- MODULE OfflineQueueProofs --------------------------
(***************************************************************************)
(* Theorems about OfflineQueue, for any number of backups and any          *)
(* overlapping syncs.                                                      *)
(***************************************************************************)
EXTENDS OfflineQueue, TLAPS

\* The stage of a copy says which status it will write.
Stages ==
  /\ \A b \in Backups : entries[b].status = "none" => entries[b].retry_count = 0
  /\ \A t \in held :
       /\ t.row.status \in Live
       /\ t.owner \in Recorders => t.stage = "save"
       /\ t.owner \in Syncs => (t.stage \in {"mark", "send"} <=> t.row.status = "syncing")

IInv == TypeOK /\ RetryBudget /\ Stages

\* Moves a copy to a later stage with the row it will write there.
Moved(t, stage, row) == [t EXCEPT !.stage = stage, !.row = row]

LEMMA CopyFields ==
  ASSUME NEW t \in Copy, NEW row \in Entry
  PROVE  /\ Moved(t, "save", row) \in Copy
         /\ Moved(t, "save", row).owner = t.owner /\ Moved(t, "save", row).id = t.id
         /\ Moved(t, "save", row).stage = "save" /\ Moved(t, "save", row).row = row
         /\ Moved(t, "send", row) \in Copy
         /\ Moved(t, "send", row).owner = t.owner /\ Moved(t, "send", row).id = t.id
         /\ Moved(t, "send", row).stage = "send" /\ Moved(t, "send", row).row = row
         /\ [t EXCEPT !.stage = "send"] = Moved(t, "send", t.row)
BY DEF Copy, Moved

\* A row whose report succeeded or failed is a row, no longer being synced, and
\* keeps the budget.
LEMMA Outcomes ==
  ASSUME NEW row \in Entry, row.status = "syncing", HasBudget(row)
  PROVE  /\ Synced(row) \in Entry /\ Synced(row).status = "synced"
         /\ ReportFailed(row) \in Entry /\ HasBudget(ReportFailed(row))
         /\ ReportFailed(row).status \in {"pending", "failed"}
         /\ Synced(row).status \in Live /\ ReportFailed(row).status \in Live
<1> USE OfflineQueueAssumption DEF Entry, Live
<1>1. Synced(row) \in Entry /\ Synced(row).status = "synced"
  BY DEF Synced
<1> DEFINE n == row.retry_count + 1
<1>2. n \in 0 .. MaxRetries
  BY DEF HasBudget
<1>3. PICK s \in {"pending", "failed"} : s = IF n < MaxRetries THEN "pending" ELSE "failed"
  OBVIOUS
<1>4. ReportFailed(row) = [row EXCEPT !.status = s, !.retry_count = n]
  BY <1>3 DEF ReportFailed
<1>5. s = "pending" => n < MaxRetries
  BY <1>3
<1> HIDE DEF n
<1>6. ReportFailed(row) \in Entry
  BY <1>2, <1>4
<1>7. ReportFailed(row).status = s /\ ReportFailed(row).retry_count = n
  BY <1>4
<1> QED
  BY <1>1, <1>5, <1>6, <1>7 DEF HasBudget

\* Writing a copy changes at most the row it is a copy of.
LEMMA Written ==
  ASSUME TypeOK, NEW t \in held, UpdateQueuedBackup(t)
  PROVE  /\ entries' \in [Backups -> Entry]
         /\ \A b \in Backups : b # t.id => entries'[b] = entries[b]
         /\ \/ entries'[t.id] = t.row
            \/ entries'[t.id] = entries[t.id] /\ entries[t.id].status \notin Live
BY DEF TypeOK, Copy, UpdateQueuedBackup

\* What FinishReport makes of the copies: others' stay, the batch's are moved.
LEMMA Reported ==
  ASSUME IInv, NEW s \in Syncs, CanReport(s), NEW ok \in BOOLEAN, FinishReport(s, ok)
  PROVE  /\ \A u \in held' :
              \/ u \in held /\ u.owner # s
              \/ \E t \in held :
                   /\ t.owner = s /\ u.owner = s /\ u.id = t.id
                   /\ u \in Copy /\ u.stage = "save" /\ HasBudget(u.row)
                   /\ u.row.status \in Live
                   /\ u.row.status # "syncing"
                   /\ u.row.status = "synced" => ok
         /\ \A t \in held : \E u \in held' : u.owner = t.owner /\ u.id = t.id
<1> DEFINE out(t) == IF ok THEN Synced(t.row) ELSE ReportFailed(t.row)
           new(t) == Moved(t, "save", out(t))
<1>1. held' = (held \ Batch(s)) \cup {new(t) : t \in Batch(s)}
  BY DEF FinishReport, Moved
<1>2. ASSUME NEW t \in Batch(s)
      PROVE  /\ t \in held /\ t.owner = s
             /\ new(t) \in Copy /\ new(t).owner = s /\ new(t).id = t.id
             /\ new(t).stage = "save" /\ HasBudget(new(t).row)
             /\ new(t).row.status \in Live
             /\ new(t).row.status # "syncing"
             /\ new(t).row.status = "synced" => ok
  <2>1. /\ t \in held /\ t \in Copy /\ t.row \in Entry /\ t.owner = s
        /\ t.row.status = "syncing" /\ HasBudget(t.row)
    BY DEF Batch, IInv, TypeOK, Copy, Stages, RetryBudget, CanReport
  <2>2. /\ out(t) \in Entry /\ HasBudget(out(t)) /\ out(t).status # "syncing"
        /\ out(t).status \in Live
        /\ out(t).status = "synced" => ok
    BY <2>1, Outcomes DEF HasBudget
  <2>3. PICK o : o = out(t) /\ new(t) = Moved(t, "save", o)
    OBVIOUS
  <2>4. /\ o \in Entry /\ HasBudget(o) /\ o.status \in Live /\ o.status # "syncing"
        /\ o.status = "synced" => ok
    BY <2>2, <2>3
  <2> HIDE DEF new
  <2>5. /\ new(t) \in Copy /\ new(t).owner = t.owner /\ new(t).id = t.id
        /\ new(t).stage = "save" /\ new(t).row = o
    <3>1. /\ Moved(t, "save", o) \in Copy /\ Moved(t, "save", o).owner = t.owner
          /\ Moved(t, "save", o).id = t.id
          /\ Moved(t, "save", o).stage = "save" /\ Moved(t, "save", o).row = o
      BY <2>1, <2>4, CopyFields
    <3> QED
      BY <2>3, <3>1
  <2> QED
    BY <2>1, <2>4, <2>5
<1> HIDE DEF new
<1>3. \A u \in held' :
        \/ u \in held /\ u.owner # s
        \/ \E t \in held :
             /\ t.owner = s /\ u.owner = s /\ u.id = t.id
             /\ u \in Copy /\ u.stage = "save" /\ HasBudget(u.row)
             /\ u.row.status \in Live
             /\ u.row.status # "syncing"
             /\ u.row.status = "synced" => ok
  <2> TAKE u \in held'
  <2>1. CASE u \in held \ Batch(s)
    BY <2>1 DEF Batch
  <2>2. CASE \E t \in Batch(s) : u = new(t)
    BY <2>2, <1>2
  <2> QED
    BY <1>1, <2>1, <2>2
<1>4. \A t \in held : \E u \in held' : u.owner = t.owner /\ u.id = t.id
  <2> TAKE t \in held
  <2>1. CASE t \in Batch(s)
    BY <2>1, <1>1, <1>2
  <2>2. CASE t \notin Batch(s)
    BY <2>2, <1>1
  <2> QED
    BY <2>1, <2>2
<1> QED
  BY <1>3, <1>4

\* Whose copies they are does not change.
LEMMA ReportedIds ==
  ASSUME held \subseteq Copy, NEW s \in Syncs, NEW ok \in BOOLEAN, FinishReport(s, ok)
  PROVE  \A u \in held' : \/ u \in held
                          \/ \E t \in held : t.owner = s /\ u.id = t.id
<1> DEFINE out(t) == IF ok THEN Synced(t.row) ELSE ReportFailed(t.row)
           new(t) == [t EXCEPT !.stage = "save", !.row = out(t)]
<1>1. held' = (held \ Batch(s)) \cup {new(t) : t \in Batch(s)}
  BY DEF FinishReport
<1> HIDE DEF out
<1>2. \A t \in Batch(s) : t \in held /\ t.owner = s /\ new(t).id = t.id
  BY DEF Batch, Copy
<1> HIDE DEF new
<1> QED
  BY <1>1, <1>2

-----------------------------------------------------------------------------
(* Types, retry budget and stages.                                          *)

LEMMA InitIInv == Init => IInv
<1> SUFFICES ASSUME Init PROVE IInv
  OBVIOUS
<1> USE OfflineQueueAssumption DEF Init
<1>1. PICK n \in 0 .. MaxRetries : n = 0
  OBVIOUS
<1>2. [status |-> "none", retry_count |-> n, result |-> FALSE] \in Entry
  BY DEF Entry
<1>3. TypeOK
  BY <1>1, <1>2 DEF TypeOK
<1>4. RetryBudget /\ Stages
  BY DEF RetryBudget, HasBudget, Stages
<1> QED
  BY <1>3, <1>4 DEF IInv

\* The history only ever names backups.
LEMMA StrandedStep ==
  ASSUME IInv, [Next]_vars
  PROVE  stranded' \subseteq Backups
<1>1. /\ stranded \subseteq Backups /\ WithStatus("syncing") \subseteq Backups
      /\ \A t \in held : t.id \in Backups
  BY DEF IInv, TypeOK, Copy, WithStatus
<1>2. ASSUME NEW t \in held, Save(t) \/ SaveFails(t) PROVE stranded' \subseteq Backups
  BY <1>1, <1>2 DEF Save, SaveFails
<1>3. ASSUME Crash PROVE stranded' \subseteq Backups
  BY <1>1, <1>3 DEF Crash
<1>4. ASSUME \/ \E b \in Backups : \/ QueueBackup(b) \/ ForceClear(b)
                                 \/ \E r \in Recorders : RecordBackupResult(r, b)
             \/ CheckHealth \/ Prune \/ UNCHANGED vars
             \/ \E s \in Syncs : Sync(s) \/ ReportFails(s)
             \/ \E t \in held : Mark(t) \/ MarkFails(t)
      PROVE  stranded' = stranded
  BY <1>4 DEF QueueBackup, ForceClear, RecordBackupResult, CheckHealth, Prune, vars, Sync,
              ListPending, NothingToSync, ReportSucceeds, ReportFails, Mark, MarkFails
<1> QED
  BY <1>1, <1>2, <1>3, <1>4 DEF Next

LEMMA NextIInv == IInv /\ [Next]_vars => IInv'
<1> SUFFICES ASSUME IInv, [Next]_vars PROVE IInv'
  OBVIOUS
<1>t. /\ entries \in [Backups -> Entry] /\ reachable \in BOOLEAN
      /\ phase \in [Syncs -> {"idle", "starting", "pruning"}]
      /\ held \subseteq Copy
      /\ \A t \in held : t.id \in Backups /\ t.row \in Entry /\ t.owner \in Syncs \cup Recorders
      /\ recorded \subseteq [id : Backups, result : BOOLEAN]
      /\ MaxRetries \in Nat \ {0}
      /\ Syncs \cap Recorders = {}
  BY OfflineQueueAssumption DEF IInv, TypeOK, Copy, Syncs
<1>x. stranded' \subseteq Backups
  BY StrandedStep
<1>r. \A s : EndSync(s) => phase' \in [Syncs -> {"idle", "starting", "pruning"}]
  BY <1>t DEF EndSync
<1>h. /\ \A b \in Backups : HasBudget(entries[b])
      /\ \A t \in held : HasBudget(t.row)
  BY DEF IInv, RetryBudget
<1>1. ASSUME NEW b \in Backups, QueueBackup(b)
      PROVE  IInv'
  <2>0. /\ entries[b].retry_count = 0 /\ entries[b] \in Entry
        /\ entries' = [entries EXCEPT ![b].status = "pending"]
        /\ UNCHANGED <<reachable, phase, held, recorded>>
    BY <1>1, <1>t DEF QueueBackup, IInv, Stages
  <2>1. /\ entries' \in [Backups -> Entry]
        /\ \A c \in Backups : c # b => entries'[c] = entries[c]
        /\ entries'[b].status = "pending" /\ entries'[b].retry_count = 0
    BY <1>t, <2>0 DEF Entry, Live
  <2>2. TypeOK'
    BY <2>0, <2>1, <1>x DEF IInv, TypeOK
  <2>3. RetryBudget'
    BY <1>t, <1>h, <2>0, <2>1 DEF RetryBudget, HasBudget
  <2>4. Stages'
    BY <2>0, <2>1 DEF IInv, Stages
  <2> QED
    BY <2>2, <2>3, <2>4 DEF IInv
<1>2. ASSUME NEW b \in Backups, ForceClear(b)
      PROVE  IInv'
  <2>0. /\ entries' = [entries EXCEPT ![b].status = "gone"]
        /\ UNCHANGED <<reachable, phase, held, recorded>>
    BY <1>2 DEF ForceClear
  <2>1. /\ entries' \in [Backups -> Entry]
        /\ \A c \in Backups : c # b => entries'[c] = entries[c]
        /\ entries'[b].status = "gone"
    BY <1>t, <2>0 DEF Entry
  <2>2. TypeOK' /\ RetryBudget' /\ Stages'
    BY <2>0, <2>1, <1>h, <1>x DEF IInv, TypeOK, RetryBudget, HasBudget, Stages
  <2> QED
    BY <2>2 DEF IInv
<1>3. ASSUME NEW r \in Recorders, NEW b \in Backups, RecordBackupResult(r, b)
      PROVE  IInv'
  <2> DEFINE row == [entries[b] EXCEPT !.result = TRUE]
             new == [owner |-> r, stage |-> "save", id |-> b, row |-> row]
  <2>0. /\ held' = held \cup {new} /\ entries[b].status \in Live
        /\ UNCHANGED <<entries, reachable, phase, recorded>>
    BY <1>3 DEF RecordBackupResult
  <2>1. /\ row \in Entry /\ HasBudget(row) /\ row.status \in Live
    BY <1>t, <1>h, <2>0 DEF Entry, HasBudget
  <2> HIDE DEF row
  <2>2. /\ new \in Copy /\ new.owner = r /\ new.stage = "save" /\ new.row = row
    BY <2>1 DEF Copy
  <2> HIDE DEF new
  <2>3. TypeOK'
    BY <2>0, <2>2, <1>x DEF IInv, TypeOK
  <2>4. RetryBudget'
    BY <1>h, <2>0, <2>1, <2>2 DEF RetryBudget
  <2>5. Stages'
    BY <1>t, <2>0, <2>1, <2>2 DEF IInv, Stages
  <2> QED
    BY <2>3, <2>4, <2>5 DEF IInv
<1>4. ASSUME CheckHealth
      PROVE  IInv'
  <2>1. /\ phase' \in [Syncs -> {"idle", "starting", "pruning"}] /\ reachable' \in BOOLEAN
        /\ UNCHANGED <<entries, held, recorded>>
    BY <1>4, <1>t DEF CheckHealth
  <2> QED
    BY <2>1, <1>x DEF IInv, TypeOK, RetryBudget, Stages
<1>5. ASSUME NEW s \in Syncs, ListPending(s)
      PROVE  IInv'
  <2> DEFINE row(b) == [entries[b] EXCEPT !.status = "syncing"]
             new(b) == [owner |-> s, stage |-> "mark", id |-> b, row |-> row(b)]
  <2>0. /\ held' = held \cup {new(b) : b \in WithStatus("pending")}
        /\ phase' = [phase EXCEPT ![s] = "idle"]
        /\ UNCHANGED <<entries, reachable, recorded>>
    BY <1>5 DEF ListPending
  <2>1. ASSUME NEW b \in WithStatus("pending")
        PROVE  /\ new(b) \in Copy /\ new(b).owner = s /\ new(b).stage = "mark"
               /\ HasBudget(new(b).row) /\ new(b).row.status = "syncing"
    <3>1. row(b) \in Entry /\ HasBudget(row(b)) /\ row(b).status = "syncing"
      BY <1>t, <1>h DEF WithStatus, HasBudget, Entry, Live
    <3> HIDE DEF row
    <3> QED
      BY <3>1 DEF Copy, WithStatus
  <2> HIDE DEF new
  <2>2. TypeOK'
    BY <1>t, <2>0, <2>1, <1>x DEF IInv, TypeOK
  <2>3. RetryBudget'
    BY <1>h, <2>0, <2>1 DEF RetryBudget
  <2>4. Stages'
    BY <1>t, <2>0, <2>1 DEF IInv, Stages, Live
  <2> QED
    BY <2>2, <2>3, <2>4 DEF IInv
<1>6. ASSUME NEW s \in Syncs, NothingToSync(s)
      PROVE  IInv'
  BY <1>6, <1>r, <1>x DEF NothingToSync, IInv, TypeOK, RetryBudget, Stages
<1>7. ASSUME NEW s \in Syncs, ReportSucceeds(s) \/ ReportFails(s)
      PROVE  IInv'
  <2>1. PICK ok \in BOOLEAN : FinishReport(s, ok)
    BY <1>7 DEF ReportSucceeds, ReportFails
  <2>0. CanReport(s) /\ UNCHANGED <<entries, reachable, phase>>
    BY <1>7 DEF ReportSucceeds, ReportFails
  <2>2. recorded' \subseteq [id : Backups, result : BOOLEAN]
    <3>1. \A batch \in Accepted(Batch(s)) : Records(batch) \subseteq [id : Backups, result : BOOLEAN]
      BY <1>t DEF Accepted, Records, Batch, Entry
    <3> QED
      BY <1>7, <1>t, <3>1 DEF ReportSucceeds, ReportFails
  <2>3. \A u \in held' :
          \/ u \in held
          \/ /\ u \in Copy /\ u.stage = "save" /\ HasBudget(u.row)
             /\ u.row.status \in Live /\ u.row.status # "syncing"
    BY <2>0, <2>1, Reported
  <2>4. TypeOK'
    BY <1>t, <2>0, <2>2, <2>3, <1>x DEF IInv, TypeOK
  <2>5. RetryBudget'
    BY <1>h, <2>0, <2>3 DEF RetryBudget
  <2>6. Stages'
    BY <2>0, <2>3 DEF IInv, Stages
  <2> QED
    BY <2>4, <2>5, <2>6 DEF IInv
<1>8. ASSUME NEW t \in held, Mark(t) \/ MarkFails(t)
      PROVE  IInv'
  <2> DEFINE new == Moved(t, "send", t.row)
  <2>0. /\ t.stage = "mark" /\ t.owner \in Syncs /\ t.row.status = "syncing" /\ t \in Copy
        /\ UNCHANGED <<reachable, phase, recorded>>
    BY <1>8, <1>t DEF Mark, MarkFails, IInv, Stages
  <2>a. t.row \in Entry /\ held' = (held \ {t}) \cup {[t EXCEPT !.stage = "send"]}
    BY <1>8, <1>t DEF Mark, MarkFails, Marked
  <2>1. /\ new \in Copy /\ new.owner = t.owner /\ new.stage = "send" /\ new.row = t.row
        /\ held' = (held \ {t}) \cup {new}
    BY <2>0, <2>a, CopyFields
  <2> HIDE DEF new
  <2>2. /\ entries' \in [Backups -> Entry]
        /\ \A b \in Backups : entries'[b] = entries[b] \/ entries'[b] = t.row
    BY <1>8, <1>t, Written DEF Mark, MarkFails, IInv
  <2>3. TypeOK'
    BY <1>t, <2>0, <2>1, <2>2, <1>x DEF IInv, TypeOK
  <2>4. RetryBudget'
    BY <1>h, <2>1, <2>2 DEF RetryBudget, HasBudget
  <2>5. Stages'
    BY <1>t, <2>0, <2>1, <2>2 DEF IInv, Stages, Live
  <2> QED
    BY <2>3, <2>4, <2>5 DEF IInv
<1>9. ASSUME NEW t \in held, Save(t) \/ SaveFails(t)
      PROVE  IInv'
  <2>0. /\ held' = held \ {t} /\ phase' \in [Syncs -> {"idle", "starting", "pruning"}]
        /\ UNCHANGED <<reachable, recorded>>
    BY <1>9, <1>t, <1>r DEF Save, SaveFails, Saved
  <2>2. /\ entries' \in [Backups -> Entry]
        /\ \A b \in Backups : entries'[b] = entries[b] \/ entries'[b] = t.row
    BY <1>9, <1>t, Written DEF Save, SaveFails, IInv
  <2>3. TypeOK'
    BY <1>t, <2>0, <2>2, <1>x DEF IInv, TypeOK
  <2>4. RetryBudget'
    BY <1>h, <2>0, <2>2 DEF RetryBudget, HasBudget
  <2>5. Stages'
    BY <1>t, <2>0, <2>2 DEF IInv, Stages, Live
  <2> QED
    BY <2>3, <2>4, <2>5 DEF IInv
<1>10. ASSUME Prune
       PROVE  IInv'
  <2>0. /\ phase' \in [Syncs -> {"idle", "starting", "pruning"}]
        /\ UNCHANGED <<reachable, held, recorded>>
    BY <1>10, <1>t DEF Prune
  <2>1. PICK old : entries' = [b \in Backups |-> IF b \in old THEN [entries[b] EXCEPT !.status = "gone"]
                                                ELSE entries[b]]
    BY <1>10 DEF Prune
  <2>2. /\ entries' \in [Backups -> Entry]
        /\ \A b \in Backups : entries'[b] = entries[b] \/ entries'[b].status = "gone"
    BY <1>t, <2>1 DEF Entry
  <2>3. TypeOK' /\ RetryBudget' /\ Stages'
    BY <1>h, <2>0, <2>2, <1>x DEF IInv, TypeOK, RetryBudget, HasBudget, Stages
  <2> QED
    BY <2>3 DEF IInv
<1>11. ASSUME Crash
       PROVE  IInv'
  BY <1>11, <1>t, <1>x DEF Crash, IInv, TypeOK, RetryBudget, Stages
<1>12. CASE UNCHANGED vars
  BY <1>12, <1>x DEF vars, IInv, TypeOK, RetryBudget, HasBudget, Stages, WithStatus
<1> QED
  BY <1>1, <1>2, <1>3, <1>4, <1>5, <1>6, <1>7, <1>8, <1>9, <1>10, <1>11, <1>12 DEF Next, Sync
LEMMA Inductive == Spec => []IInv
BY InitIInv, NextIInv, PTL DEF Spec

-----------------------------------------------------------------------------
(* A server that stores what it acknowledges: nothing is lost.              *)

OnServer(b) == \E r \in recorded : r.id = b

\* The same of the copies that will make an entry synced.
RecordedInv ==
  /\ SyncedIsRecorded
  /\ \A t \in held : t.row.status = "synced" => OnServer(t.id)

LEMMA NextRecorded ==
  ASSUME "reject" \notin Faults, IInv, RecordedInv, [Next]_vars
  PROVE  RecordedInv'
<1>t. /\ held \subseteq Copy
      /\ \A t \in held : t.id \in Backups
  BY DEF IInv, TypeOK, Copy
<1>e. /\ entries \in [Backups -> Entry] /\ \A t \in held : t.row.status \in Live
  BY DEF IInv, TypeOK, Stages
<1>i. /\ \A b \in Backups : entries[b].status = "synced" => OnServer(b)
      /\ \A t \in held : t.row.status = "synced" => OnServer(t.id)
  BY DEF RecordedInv, SyncedIsRecorded, WithStatus, OnServer
<1>s. SUFFICES /\ \A b \in Backups : entries'[b].status = "synced" => OnServer(b)'
               /\ \A t \in held' : t.row.status = "synced" => OnServer(t.id)'
  BY DEF RecordedInv, SyncedIsRecorded, WithStatus, OnServer
<1>m. recorded \subseteq recorded' => \A b : OnServer(b) => OnServer(b)'
  BY DEF OnServer
<1>1. ASSUME NEW b \in Backups, QueueBackup(b) \/ ForceClear(b)
      PROVE  /\ \A c \in Backups : entries'[c].status = "synced" => OnServer(c)'
             /\ \A t \in held' : t.row.status = "synced" => OnServer(t.id)'
  <2>1. /\ UNCHANGED <<held, recorded>>
        /\ \A c \in Backups : entries'[c].status = "synced" => entries[c].status = "synced"
    BY <1>1, <1>e DEF QueueBackup, ForceClear, Entry
  <2> QED
    BY <2>1, <1>i, <1>m
<1>2. ASSUME NEW r \in Recorders, NEW b \in Backups, RecordBackupResult(r, b)
      PROVE  /\ \A c \in Backups : entries'[c].status = "synced" => OnServer(c)'
             /\ \A t \in held' : t.row.status = "synced" => OnServer(t.id)'
  <2> DEFINE row == [entries[b] EXCEPT !.result = TRUE]
             new == [owner |-> r, stage |-> "save", id |-> b, row |-> row]
  <2>1. /\ held' = held \cup {new} /\ UNCHANGED <<entries, recorded>>
    BY <1>2 DEF RecordBackupResult
  <2>2. new.id = b /\ new.row.status = entries[b].status
    BY <1>e DEF Entry
  <2> HIDE DEF new
  <2> QED
    BY <2>1, <2>2, <1>i, <1>m
<1>3. ASSUME CheckHealth \/ (\E s \in Syncs : NothingToSync(s)) \/ Crash \/ UNCHANGED vars
      PROVE  /\ \A c \in Backups : entries'[c].status = "synced" => OnServer(c)'
             /\ \A t \in held' : t.row.status = "synced" => OnServer(t.id)'
  <2>1. held' \subseteq held /\ UNCHANGED <<entries, recorded>>
    BY <1>3 DEF CheckHealth, NothingToSync, Crash, vars
  <2> QED
    BY <2>1, <1>i, <1>m
<1>4. ASSUME NEW s \in Syncs, ListPending(s)
      PROVE  /\ \A c \in Backups : entries'[c].status = "synced" => OnServer(c)'
             /\ \A t \in held' : t.row.status = "synced" => OnServer(t.id)'
  <2>1. UNCHANGED <<entries, recorded>>
    BY <1>4 DEF ListPending
  <2>2. \A t \in held' : t \in held \/ t.row.status = "syncing"
    BY <1>4, <1>e DEF ListPending, WithStatus, Entry
  <2> QED
    BY <2>1, <2>2, <1>i, <1>m
<1>5. ASSUME NEW s \in Syncs, ReportSucceeds(s)
      PROVE  /\ \A c \in Backups : entries'[c].status = "synced" => OnServer(c)'
             /\ \A t \in held' : t.row.status = "synced" => OnServer(t.id)'
  <2>1. /\ recorded' = recorded \cup Records(Batch(s)) /\ UNCHANGED entries
        /\ CanReport(s) /\ FinishReport(s, TRUE)
    BY <1>5 DEF ReportSucceeds, Accepted
  <2>2. ASSUME NEW t \in held, t.owner = s
        PROVE  OnServer(t.id)'
    <3> DEFINE rec == [id |-> t.id, result |-> t.row.result]
    <3>1. t \in Batch(s)
      BY <2>2 DEF Batch
    <3>2. rec \in Records(Batch(s))
      BY <3>1 DEF Records
    <3>3. rec \in recorded' /\ rec.id = t.id
      BY <2>1, <3>2
    <3> QED
      BY <3>3 DEF OnServer
  <2>3. \A u \in held' : \/ u \in held
                         \/ \E t \in held : t.owner = s /\ u.id = t.id
    BY <2>1, <1>t, ReportedIds
  <2>4. \A u \in held' : u \in held \/ OnServer(u.id)'
    BY <2>2, <2>3
  <2>5. /\ UNCHANGED entries
        /\ \A b : OnServer(b) => OnServer(b)'
    BY <2>1, <1>m
  <2> QED
    BY <2>4, <2>5, <1>i
<1>6. ASSUME NEW s \in Syncs, ReportFails(s)
      PROVE  /\ \A c \in Backups : entries'[c].status = "synced" => OnServer(c)'
             /\ \A t \in held' : t.row.status = "synced" => OnServer(t.id)'
  <2>1. /\ recorded \subseteq recorded' /\ UNCHANGED entries
        /\ CanReport(s) /\ FinishReport(s, FALSE)
    BY <1>6 DEF ReportFails
  <2>2. \A u \in held' : u \in held \/ u.row.status # "synced"
    BY <2>1, Reported
  <2> QED
    BY <2>1, <2>2, <1>i, <1>m
<1>7. ASSUME NEW t \in held, Mark(t) \/ MarkFails(t)
      PROVE  /\ \A c \in Backups : entries'[c].status = "synced" => OnServer(c)'
             /\ \A u \in held' : u.row.status = "synced" => OnServer(u.id)'
  <2>1. /\ UNCHANGED recorded
        /\ \A b \in Backups : \/ entries'[b] = entries[b]
                              \/ b = t.id /\ entries'[b] = t.row
    BY <1>7, Written DEF Mark, MarkFails, IInv
  <2>2. \A u \in held' : u \in held \/ (u.id = t.id /\ u.row = t.row)
    <3>1. [t EXCEPT !.stage = "send"].id = t.id /\ [t EXCEPT !.stage = "send"].row = t.row
      BY <1>t DEF Copy
    <3> QED
      BY <1>7, <3>1 DEF Mark, MarkFails, Marked
  <2> QED
    BY <2>1, <2>2, <1>i, <1>m
<1>8. ASSUME NEW t \in held, Save(t) \/ SaveFails(t)
      PROVE  /\ \A c \in Backups : entries'[c].status = "synced" => OnServer(c)'
             /\ \A u \in held' : u.row.status = "synced" => OnServer(u.id)'
  <2>1. /\ UNCHANGED recorded /\ held' \subseteq held
        /\ \A b \in Backups : \/ entries'[b] = entries[b]
                              \/ b = t.id /\ entries'[b] = t.row
    BY <1>8, Written DEF Save, SaveFails, Saved, IInv
  <2> QED
    BY <2>1, <1>i, <1>m
<1>9. ASSUME Prune
      PROVE  /\ \A c \in Backups : entries'[c].status = "synced" => OnServer(c)'
             /\ \A t \in held' : t.row.status = "synced" => OnServer(t.id)'
  <2>1. /\ UNCHANGED <<held, recorded>>
        /\ \A c \in Backups : entries'[c].status = "synced" => entries[c].status = "synced"
    BY <1>9, <1>e DEF Prune, Entry
  <2> QED
    BY <2>1, <1>i, <1>m
<1> QED
  BY <1>1, <1>2, <1>3, <1>4, <1>5, <1>6, <1>7, <1>8, <1>9 DEF Next, Sync

-----------------------------------------------------------------------------
(* Overlapping syncs do not forget an entry.                                *)

\* An entry marked for a sync and not stranded is held by one.
LEMMA NextInFlight ==
  ASSUME IInv, SyncingIsInFlight, [Next]_vars
  PROVE  SyncingIsInFlight'
<1>t. /\ entries \in [Backups -> Entry] /\ held \subseteq Copy
      /\ \A t \in held : t.id \in Backups
  BY DEF IInv, TypeOK, Copy
<1>i. \A b \in Backups : entries[b].status = "syncing" /\ b \notin stranded =>
        \E t \in held : t.owner \in Syncs /\ t.id = b
  BY DEF SyncingIsInFlight, WithStatus
<1> DEFINE Goal == \A b \in Backups : entries'[b].status = "syncing" /\ b \notin stranded' =>
                     \E t \in held' : t.owner \in Syncs /\ t.id = b
<1>s. SUFFICES Goal
  BY DEF SyncingIsInFlight, WithStatus
<1>1. ASSUME held \subseteq held', stranded' = stranded,
             \A c \in Backups : entries'[c].status = "syncing" => entries[c].status = "syncing"
      PROVE  Goal
  BY <1>1, <1>i
<1>2. ASSUME NEW b \in Backups,
             QueueBackup(b) \/ ForceClear(b) \/ \E r \in Recorders : RecordBackupResult(r, b)
      PROVE  Goal
  BY <1>2, <1>1, <1>t DEF QueueBackup, ForceClear, RecordBackupResult, Entry
<1>3. ASSUME CheckHealth \/ (\E s \in Syncs : NothingToSync(s) \/ ListPending(s)) \/ UNCHANGED vars
      PROVE  Goal
  BY <1>3, <1>1 DEF CheckHealth, NothingToSync, ListPending, vars
<1>4. ASSUME Prune
      PROVE  Goal
  BY <1>4, <1>1, <1>t DEF Prune, Entry
<1>5. ASSUME NEW s \in Syncs, ReportSucceeds(s) \/ ReportFails(s)
      PROVE  Goal
  <2>1. PICK ok \in BOOLEAN : FinishReport(s, ok)
    BY <1>5 DEF ReportSucceeds, ReportFails
  <2>2. CanReport(s) /\ UNCHANGED <<entries, stranded>>
    BY <1>5 DEF ReportSucceeds, ReportFails
  <2>3. \A t \in held : \E u \in held' : u.owner = t.owner /\ u.id = t.id
    BY <2>1, <2>2, Reported
  <2> QED
    BY <2>2, <2>3, <1>i
<1>6. ASSUME NEW t \in held, Mark(t) \/ MarkFails(t)
      PROVE  Goal
  <2>1. /\ \A b \in Backups : b # t.id => entries'[b] = entries[b]
        /\ t.stage = "mark" /\ Marked(t) /\ stranded' = stranded
    BY <1>6, Written DEF Mark, MarkFails, IInv
  <2>2. /\ [t EXCEPT !.stage = "send"].owner = t.owner
        /\ [t EXCEPT !.stage = "send"].id = t.id
        /\ t.owner \in Syncs
    BY <1>t, <2>1 DEF Copy, IInv, Stages
  <2>3. \A u \in held : \E v \in held' : v.id = u.id /\ v.owner = u.owner
    BY <2>1, <2>2 DEF Marked
  <2>4. \E v \in held' : v.id = t.id /\ v.owner \in Syncs
    BY <2>2, <2>3
  <2> QED
    BY <2>1, <2>3, <2>4, <1>i
<1>7. ASSUME NEW t \in held, Save(t)
      PROVE  Goal
  <2>1. /\ held' = held \ {t}
        /\ stranded' = IF t.row.status = "syncing" THEN stranded \cup {t.id}
                       ELSE stranded \ {t.id}
        /\ \A b \in Backups : b # t.id => entries'[b] = entries[b]
    BY <1>7, Written DEF Save, Saved, IInv
  <2>2. t.row.status # "syncing" => entries'[t.id].status # "syncing"
    BY <1>7, Written DEF Save, IInv, Live
  <2>3. CASE t.row.status = "syncing"
    BY <2>1, <2>3, <1>i
  <2>4. CASE t.row.status # "syncing"
    BY <2>1, <2>2, <2>4, <1>i
  <2> QED
    BY <2>3, <2>4
<1>8. ASSUME NEW t \in held, SaveFails(t)
      PROVE  Goal
  BY <1>8, <1>t, <1>i DEF SaveFails, Saved, WithStatus
<1>9. ASSUME Crash
      PROVE  Goal
  BY <1>9 DEF Crash, WithStatus
<1> QED
  BY <1>2, <1>3, <1>4, <1>5, <1>6, <1>7, <1>8, <1>9 DEF Next, Sync

-----------------------------------------------------------------------------
(* The queue is a channel that delivers at least once.                      *)

\* A copy is a copy of a row that was there.
HeldExist == \A t \in held : entries[t.id].status # "none"

\* The row of no backup goes back to not being there yet.
LEMMA ExistStays ==
  ASSUME IInv, [Next]_vars, NEW b \in Backups, entries[b].status # "none"
  PROVE  entries'[b].status # "none"
<1>t. /\ entries \in [Backups -> Entry] /\ held \subseteq Copy
      /\ \A t \in held : t.row.status \in Live
  BY DEF IInv, TypeOK, Stages
<1>1. ASSUME NEW t \in held, UpdateQueuedBackup(t) PROVE entries'[b].status # "none"
  BY <1>1, <1>t, Written DEF IInv, Live
<1>2. CASE \E c \in Backups : QueueBackup(c) \/ ForceClear(c)
  BY <1>2, <1>t DEF QueueBackup, ForceClear, Entry
<1>3. CASE Prune
  BY <1>3, <1>t DEF Prune, Entry
<1>4. CASE \E t \in held : Mark(t) \/ Save(t)
  BY <1>4, <1>1 DEF Mark, Save
<1>5. CASE UNCHANGED entries
  BY <1>5
<1> QED
  BY <1>2, <1>3, <1>4, <1>5
  DEF Next, Sync, vars, RecordBackupResult, CheckHealth, ListPending, NothingToSync,
      ReportSucceeds, ReportFails, MarkFails, SaveFails, Crash

LEMMA NextExist == IInv /\ HeldExist /\ [Next]_vars => HeldExist'
<1> SUFFICES ASSUME IInv, HeldExist, [Next]_vars PROVE HeldExist'
  OBVIOUS
<1>t. /\ entries \in [Backups -> Entry] /\ held \subseteq Copy
      /\ \A t \in held : t.id \in Backups
  BY DEF IInv, TypeOK, Copy
<1>k. \A b \in Backups : entries[b].status # "none" => entries'[b].status # "none"
  BY ExistStays
<1>s. SUFFICES \A u \in held' : u.id \in Backups /\ entries[u.id].status # "none"
  BY <1>k DEF HeldExist
<1>1. ASSUME NEW r \in Recorders, NEW b \in Backups, RecordBackupResult(r, b)
      PROVE  \A u \in held' : u.id \in Backups /\ entries[u.id].status # "none"
  BY <1>1, <1>t DEF RecordBackupResult, HeldExist, Live
<1>2. ASSUME NEW s \in Syncs, ListPending(s)
      PROVE  \A u \in held' : u.id \in Backups /\ entries[u.id].status # "none"
  BY <1>2, <1>t DEF ListPending, HeldExist, WithStatus
<1>3. ASSUME NEW s \in Syncs, ReportSucceeds(s) \/ ReportFails(s)
      PROVE  \A u \in held' : u.id \in Backups /\ entries[u.id].status # "none"
  <2>1. PICK ok \in BOOLEAN : CanReport(s) /\ FinishReport(s, ok)
    BY <1>3 DEF ReportSucceeds, ReportFails
  <2>2. \A u \in held' : \E t \in held : u.id = t.id
    BY <2>1, Reported
  <2> QED
    BY <2>2, <1>t DEF HeldExist
<1>4. ASSUME NEW t \in held, Mark(t) \/ MarkFails(t)
      PROVE  \A u \in held' : u.id \in Backups /\ entries[u.id].status # "none"
  <2>1. [t EXCEPT !.stage = "send"].id = t.id
    BY <1>t DEF Copy
  <2> QED
    BY <1>4, <2>1, <1>t DEF Mark, MarkFails, Marked, HeldExist
<1>5. ASSUME held' \subseteq held
      PROVE  \A u \in held' : u.id \in Backups /\ entries[u.id].status # "none"
  BY <1>5, <1>t DEF HeldExist
<1> QED
  BY <1>1, <1>2, <1>3, <1>4, <1>5
  DEF Next, Sync, vars, QueueBackup, ForceClear, CheckHealth, NothingToSync, Save, SaveFails,
      Saved, Prune, Crash

LEMMA Views ==
  ASSUME NEW row \in Entry
  PROVE  /\ View(row.status) \in Channel!Kept <=> row.status \in Live
         /\ View(row.status) = "new" <=> row.status = "none"
         /\ View(row.status) = "confirmed" <=> row.status = "synced"
BY DEF View, Channel!Kept, Entry, Live

\* A write of a copy confirms, gives up or opens its backup again.
LEMMA WriteTurns ==
  ASSUME IInv, RecordedInv, NEW t \in held, UpdateQueuedBackup(t), UNCHANGED recorded
  PROVE  [Channel!Next]_(Channel!vars)
<1>t. /\ entries \in [Backups -> Entry] /\ t.id \in Backups /\ t.row \in Entry
      /\ t.row.status \in Live
  BY DEF IInv, TypeOK, Copy, Stages
<1>1. CASE entries[t.id].status \notin Live
  BY <1>1 DEF UpdateQueuedBackup, Channel!vars
<1>2. CASE entries[t.id].status \in Live
  <2> DEFINE view == [b \in Backups |-> View(entries[b].status)]
             v    == View(t.row.status)
  <2>1. entries' = [entries EXCEPT ![t.id] = t.row]
    BY <1>2 DEF UpdateQueuedBackup
  <2>2. [b \in Backups |-> View(entries'[b].status)] = [view EXCEPT ![t.id] = v]
    BY <2>1, <1>t
  <2>3. view[t.id] \in Channel!Kept /\ v \in Channel!Kept
    BY <1>2, <1>t, Views
  <2>4. Channel!Turns(t.id, v)
    BY <2>2, <2>3 DEF Channel!Turns
  <2>5. v = "confirmed" => t.id \in {r.id : r \in recorded}
    BY <1>t, Views DEF RecordedInv, OnServer
  <2>6. Channel!Confirm(t.id) \/ Channel!Abandon(t.id) \/ Channel!Reopen(t.id)
    BY <2>3, <2>4, <2>5 DEF Channel!Kept, Channel!Confirm, Channel!Abandon, Channel!Reopen
  <2> QED
    BY <2>6, <1>t DEF Channel!Next
<1> QED
  BY <1>1, <1>2

LEMMA ReportArrives ==
  ASSUME IInv, HeldExist, NEW s \in Syncs, ReportSucceeds(s) \/ ReportFails(s)
  PROVE  [Channel!Next]_(Channel!vars)
<1>t. \A t \in held : t.id \in Backups /\ entries[t.id].status # "none" /\ entries[t.id] \in Entry
  BY DEF IInv, TypeOK, Copy, HeldExist
<1>1. CASE UNCHANGED recorded
  BY <1>1 DEF ReportSucceeds, ReportFails, Channel!vars
<1>2. CASE \E batch \in Accepted(Batch(s)) : recorded' = recorded \cup Records(batch)
  <2>1. PICK batch \in Accepted(Batch(s)) : recorded' = recorded \cup Records(batch)
    BY <1>2
  <2>2. batch \subseteq held
    BY DEF Accepted, Batch
  <2> DEFINE ids == {t.id : t \in batch}
  <2>3. {r.id : r \in recorded'} = {r.id : r \in recorded} \cup ids
    <3> DEFINE rec(t) == [id |-> t.id, result |-> t.row.result]
    <3>1. recorded' = recorded \cup {rec(t) : t \in batch}
      BY <2>1 DEF Records
    <3>2. \A t \in batch : rec(t).id = t.id
      OBVIOUS
    <3> HIDE DEF rec
    <3> QED
      BY <3>1, <3>2
  <2>4. ids \subseteq {b \in Backups : View(entries[b].status) # "new"}
    BY <2>2, <1>t, Views
  <2>5. Channel!Arrive
    BY <1>2, <2>3, <2>4 DEF ReportSucceeds, ReportFails, Channel!Arrive
  <2> QED
    BY <2>5 DEF Channel!Next
<1> QED
  BY <1>1, <1>2 DEF ReportSucceeds, ReportFails

LEMMA ChannelStep ==
  ASSUME IInv, RecordedInv, HeldExist, [Next]_vars
  PROVE  [Channel!Next]_(Channel!vars)
<1>t. entries \in [Backups -> Entry]
  BY DEF IInv, TypeOK
<1> DEFINE view == [b \in Backups |-> View(entries[b].status)]
<1>1. ASSUME NEW b \in Backups, QueueBackup(b) PROVE Channel!Next
  <2>1. /\ [c \in Backups |-> View(entries'[c].status)] = [view EXCEPT ![b] = "open"]
        /\ view[b] = "new"
    BY <1>1, <1>t DEF QueueBackup, Entry, View
  <2>2. Channel!Send(b)
    BY <1>1, <2>1 DEF QueueBackup, Channel!Send
  <2> QED
    BY <2>2 DEF Channel!Next
\* Rows that are deleted, for whatever reason.
<1>2. ASSUME NEW old \in SUBSET {b \in Backups : entries[b].status \in Live}, UNCHANGED recorded,
             entries' = [b \in Backups |-> IF b \in old THEN [entries[b] EXCEPT !.status = "gone"]
                                           ELSE entries[b]]
      PROVE  Channel!Next
  <2>1. [b \in Backups |-> View(entries'[b].status)] =
          [b \in Backups |-> IF b \in old THEN "deleted" ELSE view[b]]
    BY <1>2, <1>t DEF Entry, View
  <2>2. old \in SUBSET {b \in Backups : view[b] \in Channel!Kept}
    BY <1>t, Views
  <2>3. Channel!Delete
    BY <1>2, <2>1, <2>2 DEF Channel!Delete
  <2> QED
    BY <2>3 DEF Channel!Next
<1>3. ASSUME NEW b \in Backups, ForceClear(b) PROVE Channel!Next
  <2>1. entries' = [c \in Backups |-> IF c \in {b} THEN [entries[c] EXCEPT !.status = "gone"]
                                      ELSE entries[c]]
    BY <1>3, <1>t DEF ForceClear
  <2> QED
    BY <1>3, <2>1, <1>2 DEF ForceClear
<1>4. CASE Prune
  <2>1. PICK old \in SUBSET (WithStatus("synced") \cup WithStatus("failed")) :
          entries' = [b \in Backups |-> IF b \in old THEN [entries[b] EXCEPT !.status = "gone"]
                                        ELSE entries[b]]
    BY <1>4 DEF Prune
  <2>2. old \in SUBSET {b \in Backups : entries[b].status \in Live}
    BY DEF WithStatus, Live
  <2> QED
    BY <1>4, <2>1, <2>2, <1>2 DEF Prune
<1>5. CASE \E t \in held : Mark(t) \/ Save(t)
  BY <1>5, WriteTurns DEF Mark, Save, Saved
<1>6. CASE \E s \in Syncs : ReportSucceeds(s) \/ ReportFails(s)
  BY <1>6, ReportArrives
<1>7. CASE UNCHANGED <<entries, recorded>>
  BY <1>7 DEF Channel!vars
<1> QED
  BY <1>1, <1>3, <1>4, <1>5, <1>6, <1>7
  DEF Next, Sync, vars, RecordBackupResult, CheckHealth, ListPending, NothingToSync,
      MarkFails, SaveFails, Saved, Crash

-----------------------------------------------------------------------------
(* Results.                                                                 *)

\* The table, the copies and the server's records keep their types
\* (SQLiteStore).
THEOREM TypeCorrect == Spec => []TypeOK
<1>1. IInv => TypeOK
  BY DEF IInv
<1> QED
  BY <1>1, Inductive, PTL

\* Whatever overlaps, fails or crashes, an entry waiting for a sync has retries
\* left (syncPendingBackups).
THEOREM RetryBudgetHolds == Spec => []RetryBudget
<1>1. IInv => RetryBudget
  BY DEF IInv
<1> QED
  BY <1>1, Inductive, PTL

\* At least once: if the server stores every backup of a report it answers OK
\* for, an entry marked synced is on the server (syncPendingBackups).
THEOREM SyncedIsRecordedHolds ==
  ASSUME "reject" \notin Faults
  PROVE  Spec => []SyncedIsRecorded
<1>1. Init => RecordedInv
  BY DEF Init, RecordedInv, SyncedIsRecorded, WithStatus
<1>2. IInv /\ RecordedInv /\ [Next]_vars => RecordedInv'
  BY NextRecorded
<1>3. RecordedInv => SyncedIsRecorded
  BY DEF RecordedInv
<1> QED
  BY <1>1, <1>2, <1>3, Inductive, PTL DEF Spec

\* Overlapping syncs never leave an entry marked and forgotten: only a crash, a
\* failed write or a recorder's stale copy does (syncPendingBackups,
\* handleReconnection, RecordBackupResult).
THEOREM SyncingIsInFlightHolds == Spec => []SyncingIsInFlight
<1>1. Init => SyncingIsInFlight
  BY DEF Init, SyncingIsInFlight, WithStatus
<1>2. IInv /\ SyncingIsInFlight /\ [Next]_vars => SyncingIsInFlight'
  BY NextInFlight
<1> QED
  BY <1>1, <1>2, Inductive, PTL DEF Spec
\* If the server stores every backup of a report it answers OK for, every behaviour
\* of the queue is one of a channel that delivers at least once: nothing arrives that
\* was not queued, nothing is marked synced before it has arrived, nothing deleted
\* comes back (syncPendingBackups, UpdateQueuedBackup, ReportQueuedBackups).
THEOREM ImplementsChannelHolds ==
  ASSUME "reject" \notin Faults
  PROVE  Spec => ImplementsChannel
<1> DEFINE Inv == RecordedInv /\ HeldExist
<1>1. Init => Inv
  BY DEF Init, RecordedInv, SyncedIsRecorded, WithStatus, HeldExist
<1>2. IInv /\ Inv /\ [Next]_vars => Inv'
  BY NextRecorded, NextExist
<1>3. Init => Channel!Init
  BY DEF Init, View, Channel!Init
<1>4. IInv /\ Inv /\ [Next]_vars => [Channel!Next]_(Channel!vars)
  BY ChannelStep
<1> QED
  BY <1>1, <1>2, <1>3, <1>4, Inductive, PTL DEF Spec, ImplementsChannel, Channel!Spec
=============================================================================
