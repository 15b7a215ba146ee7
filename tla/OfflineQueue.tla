----------------------------- MODULE OfflineQueue -----------------------------
(***************************************************************************)
(* The agent's queue of backups made while the server was away             *)
(* (internal/agent/queue.go over its SQLite table) and the server handler  *)
(* their reports end in.                                                   *)
(*                                                                         *)
(* A sync lists the pending entries, marks each of them, reports them in   *)
(* one request and writes each back.  Nothing keeps the ticker's sync and  *)
(* those started on reconnection apart, and every write replaces a whole   *)
(* row with the copy its goroutine holds.                                  *)
(***************************************************************************)
EXTENDS Naturals, FiniteSets

CONSTANTS
  Backups,      \* identities of backups
  Loop,         \* the sync of syncLoop's ticker
  Reconnects,   \* syncs started by handleReconnection
  Recorders,    \* concurrent calls of RecordBackupResult
  MaxQueueSize, \* QueueConfig.MaxQueueSize
  MaxRetries,   \* QueueConfig.MaxRetries
  Faults        \* a subset of {"down", "lost", "reject", "store_error", "crash"}

ASSUME OfflineQueueAssumption ==
  /\ MaxQueueSize \in Nat /\ MaxRetries \in Nat \ {0}
  /\ Loop \notin Reconnects \cup Recorders
  /\ Reconnects \cap Recorders = {}
  /\ Faults \subseteq {"down", "lost", "reject", "store_error", "crash"}

VARIABLES
  entries,   \* the queued_backups table
  reachable, \* Queue.serverReachable
  phase,     \* what a sync is about to do when it holds no entry
  held,      \* the copies of rows that goroutines will write
  recorded,  \* the server: which backups it has a record of, with which outcome
  stranded   \* history: entries whose mark "syncing" was left by a crash, by a
             \* failed write or by a recorder's stale copy

vars == <<entries, reachable, phase, held, recorded, stranded>>

Syncs == {Loop} \cup Reconnects

Live == {"pending", "syncing", "synced", "failed"}

\* "none" and "gone": no row yet, and no row any more.
Entry == [status : Live \cup {"none", "gone"}, retry_count : 0 .. MaxRetries,
          result : BOOLEAN]

Copy == [owner : Syncs \cup Recorders, stage : {"mark", "send", "save"},
         id : Backups, row : Entry]

WithStatus(s) == {b \in Backups : entries[b].status = s}

Batch(s) == {t \in held : t.owner = s}

\* UpdateQueuedBackup: every mutable column, and no row if it was deleted.
UpdateQueuedBackup(t) ==
  entries' = IF entries[t.id].status \in Live
             THEN [entries EXCEPT ![t.id] = t.row]
             ELSE entries

\* syncLoop prunes after its sync, however that ended.
EndSync(s) == phase' = [phase EXCEPT ![s] = IF s = Loop THEN "pruning" ELSE "idle"]

Init ==
  /\ entries = [b \in Backups |-> [status |-> "none", retry_count |-> 0, result |-> FALSE]]
  /\ reachable = FALSE
  /\ phase = [s \in Syncs |-> "idle"]
  /\ held = {}
  /\ recorded = {}
  /\ stranded = {}

-----------------------------------------------------------------------------
(* Operations of the queue's users.                                        *)

\* GetQueueCount counts the pending rows only.
QueueBackup(b) ==
  /\ entries[b].status = "none"
  /\ Cardinality(WithStatus("pending")) < MaxQueueSize
  /\ entries' = [entries EXCEPT ![b].status = "pending"]
  /\ UNCHANGED <<reachable, phase, held, recorded, stranded>>

\* RecordBackupResult reads the row, sets the result and (in Save) writes it.
RecordBackupResult(r, b) ==
  /\ Batch(r) = {}
  /\ entries[b].status \in Live /\ ~entries[b].result
  /\ held' = held \cup {[owner |-> r, stage |-> "save", id |-> b,
                         row |-> [entries[b] EXCEPT !.result = TRUE]]}
  /\ UNCHANGED <<entries, reachable, phase, recorded, stranded>>

\* keldris-agent queue clear --force, another process.
ForceClear(b) ==
  /\ entries[b].status \in Live
  /\ entries' = [entries EXCEPT ![b].status = "gone"]
  /\ UNCHANGED <<reachable, phase, held, recorded, stranded>>

\* checkServerHealth; a reconnection with pending entries starts a sync.
CheckHealth ==
  \/ /\ ~reachable
     /\ reachable' = TRUE
     /\ \/ WithStatus("pending") = {} /\ UNCHANGED phase
        \/ /\ WithStatus("pending") # {}
           /\ \E s \in Reconnects : /\ phase[s] = "idle" /\ Batch(s) = {}
                                    /\ phase' = [phase EXCEPT ![s] = "starting"]
     /\ UNCHANGED <<entries, held, recorded, stranded>>
  \/ /\ reachable /\ "down" \in Faults
     /\ reachable' = FALSE
     /\ UNCHANGED <<entries, phase, held, recorded, stranded>>

-----------------------------------------------------------------------------
(* syncPendingBackups.                                                     *)

Starts(s) ==
  /\ Batch(s) = {}
  /\ IF s = Loop THEN phase[s] = "idle" /\ reachable ELSE phase[s] = "starting"

ListPending(s) ==
  /\ Starts(s)
  /\ reachable /\ WithStatus("pending") # {}
  /\ phase' = [phase EXCEPT ![s] = "idle"]
  /\ held' = held \cup {[owner |-> s, stage |-> "mark", id |-> b,
                         row |-> [entries[b] EXCEPT !.status = "syncing"]] :
                        b \in WithStatus("pending")}
  /\ UNCHANGED <<entries, reachable, recorded, stranded>>

NothingToSync(s) ==
  /\ Starts(s)
  /\ ~reachable \/ WithStatus("pending") = {}
  /\ EndSync(s)
  /\ UNCHANGED <<entries, reachable, held, recorded, stranded>>

Marked(t) == held' = (held \ {t}) \cup {[t EXCEPT !.stage = "send"]}

Mark(t) ==
  /\ t.stage = "mark"
  /\ UpdateQueuedBackup(t)
  /\ Marked(t)
  /\ UNCHANGED <<reachable, phase, recorded, stranded>>

MarkFails(t) ==
  /\ "store_error" \in Faults
  /\ t.stage = "mark"
  /\ Marked(t)
  /\ UNCHANGED <<entries, reachable, phase, recorded, stranded>>

Synced(row) == [row EXCEPT !.status = "synced"]

\* Mutants: the budget is compared before counting; the error is ignored; the
\* failure is not counted.
ReportFailed_OffByOne(row) ==
  [row EXCEPT !.status = IF row.retry_count < MaxRetries THEN "pending" ELSE "failed",
              !.retry_count = @ + 1]

ReportFailed_Synced(row) == Synced(row)

ReportFailed_Uncounted(row) == [row EXCEPT !.status = "pending"]

ReportFailed(row) ==
  LET n == row.retry_count + 1
  IN  [row EXCEPT !.status = IF n < MaxRetries THEN "pending" ELSE "failed",
                  !.retry_count = n]

\* ReportQueuedBackups on the server: a record for each backup it accepts.  A
\* backup nobody recorded a result for is recorded as failed.
Records(batch) == {[id |-> t.id, result |-> t.row.result] : t \in batch}

\* The records the server makes of a request that reached it: all, or, when it
\* skips backups whose schedule is gone or whose insert failed, some of them.
Accepted(batch) == IF "reject" \in Faults THEN SUBSET batch ELSE {batch}

\* Mutant: the entries are not written back and stay as marked.
FinishReport_Drop(s, ok) == held' = held \ Batch(s)

FinishReport(s, ok) ==
  held' = (held \ Batch(s)) \cup
          {[t EXCEPT !.stage = "save",
                     !.row = IF ok THEN Synced(t.row) ELSE ReportFailed(t.row)] : t \in Batch(s)}

CanReport(s) == Batch(s) # {} /\ \A t \in Batch(s) : t.stage = "send"

ReportSucceeds(s) ==
  /\ CanReport(s)
  /\ \E batch \in Accepted(Batch(s)) : recorded' = recorded \cup Records(batch)
  /\ FinishReport(s, TRUE)
  /\ UNCHANGED <<entries, reachable, phase, stranded>>

\* The request, or only the answer to it, is lost.
ReportFails(s) ==
  /\ "lost" \in Faults
  /\ CanReport(s)
  /\ \/ UNCHANGED recorded
     \/ \E batch \in Accepted(Batch(s)) : recorded' = recorded \cup Records(batch)
  /\ FinishReport(s, FALSE)
  /\ UNCHANGED <<entries, reachable, phase, stranded>>

Saved(t) ==
  /\ held' = held \ {t}
  /\ IF t.owner \in Syncs /\ Batch(t.owner) = {t} THEN EndSync(t.owner) ELSE UNCHANGED phase
  /\ UNCHANGED <<reachable, recorded>>

Save(t) ==
  /\ t.stage = "save"
  /\ UpdateQueuedBackup(t)
  /\ Saved(t)
  /\ stranded' = IF t.row.status = "syncing" THEN stranded \cup {t.id} ELSE stranded \ {t.id}

SaveFails(t) ==
  /\ "store_error" \in Faults
  /\ t.stage = "save"
  /\ Saved(t)
  /\ UNCHANGED entries
  /\ stranded' = stranded \cup ({t.id} \cap WithStatus("syncing"))

\* PruneOldEntries deletes the finished entries that have become old enough.
Prune ==
  /\ phase[Loop] = "pruning"
  /\ phase' = [phase EXCEPT ![Loop] = "idle"]
  /\ \E old \in SUBSET (WithStatus("synced") \cup WithStatus("failed")) :
       entries' = [b \in Backups |-> IF b \in old THEN [entries[b] EXCEPT !.status = "gone"]
                                     ELSE entries[b]]
  /\ UNCHANGED <<reachable, held, recorded, stranded>>

\* The agent dies and starts again.
Crash ==
  /\ "crash" \in Faults
  /\ reachable' = FALSE
  /\ phase' = [s \in Syncs |-> "idle"]
  /\ held' = {}
  /\ stranded' = stranded \cup WithStatus("syncing")
  /\ UNCHANGED <<entries, recorded>>

Sync(s) == ListPending(s) \/ NothingToSync(s) \/ ReportSucceeds(s)

Next ==
  \/ \E b \in Backups : \/ QueueBackup(b) \/ ForceClear(b)
                        \/ \E r \in Recorders : RecordBackupResult(r, b)
  \/ CheckHealth
  \/ \E s \in Syncs : Sync(s) \/ ReportFails(s)
  \/ \E t \in held : Mark(t) \/ MarkFails(t) \/ Save(t) \/ SaveFails(t)
  \/ Prune
  \/ Crash

Spec == Init /\ [][Next]_vars

\* The sync ticker fires, a reconnection's goroutine runs, and calls return.
Fairness ==
  /\ \A s \in Syncs : WF_vars(Sync(s) \/ ReportFails(s))
  /\ WF_vars(\E t \in held : Mark(t) \/ Save(t))
  /\ WF_vars(Prune)

FairSpec == Spec /\ Fairness

-----------------------------------------------------------------------------
(* Properties.                                                             *)

\* Type invariant.
TypeOK ==
  /\ entries \in [Backups -> Entry]
  /\ reachable \in BOOLEAN
  /\ phase \in [Syncs -> {"idle", "starting", "pruning"}]
  /\ held \subseteq Copy
  /\ recorded \subseteq [id : Backups, result : BOOLEAN]
  /\ stranded \subseteq Backups

\* Concurrent syncs and stale writes never leave an entry, or a copy that will
\* be written, waiting for a sync with its retries used up, nor count beyond
\* MaxRetries (syncPendingBackups).
HasBudget(row) == row.status \in {"pending", "syncing"} => row.retry_count < MaxRetries

RetryBudget == (\A b \in Backups : HasBudget(entries[b])) /\ (\A t \in held : HasBudget(t.row))

\* At least once: what the agent marks as synced, and may delete, the server
\* has a record of (QueuedBackupStatusSynced).
SyncedIsRecorded ==
  \A b \in WithStatus("synced") : \E r \in recorded : r.id = b

\* What an entry's status means for the delivery of its backup.
View(status) ==
  IF status \in {"pending", "syncing"} THEN "open"
  ELSE IF status = "synced" THEN "confirmed"
  ELSE IF status = "failed" THEN "abandoned"
  ELSE IF status = "gone" THEN "deleted" ELSE "new"

Channel ==
  INSTANCE AtLeastOnce WITH Messages <- Backups,
                            view     <- [b \in Backups |-> View(entries[b].status)],
                            received <- {r.id : r \in recorded}

\* However syncs overlap, reports are lost and copies are written back late, the
\* queue delivers its backups at least once, and reports none it does not hold
\* (syncPendingBackups, ReportQueuedBackups).
ImplementsChannel == Channel!Spec

\* An entry says "syncing" only while a sync holds it (QueuedBackupStatusSyncing),
\* since nothing else ever picks it up again.  However syncs and reports overlap,
\* only the three accidents that stranded names leave the mark behind.
SyncingIsInFlight ==
  \A b \in WithStatus("syncing") \ stranded : \E t \in held : t.owner \in Syncs /\ t.id = b

\* The agent dies, or SQLite refuses a write.
Disturbance == Crash \/ \E t \in held : MarkFails(t) \/ SaveFails(t)

\* Once health checks succeed for good and the agent keeps running, every queued
\* backup is reported, given up or, by one of those accidents, stranded, whatever
\* reports fail, however syncs overlap and whatever results are recorded meanwhile.
QueuedSettle ==
  <>[][~Disturbance]_vars /\ <>[]reachable =>
    \A b \in Backups :
      entries[b].status = "pending" ~>
        entries[b].status \in {"synced", "failed", "gone"} \/ b \in stranded
=============================================================================
