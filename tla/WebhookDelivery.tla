--------------------------- MODULE WebhookDelivery ---------------------------
(***************************************************************************)
(* Outbound webhooks: internal/webhooks/dispatcher.go over the             *)
(* webhook_deliveries table, with the handlers that retry a delivery and   *)
(* delete an endpoint.                                                     *)
(*                                                                         *)
(* Dispatch stores a pending delivery and sends it at once from a          *)
(* goroutine of its own; the retry worker periodically lists the deliveries *)
(* that are due, the ones just dispatched included, and sends them through *)
(* a pool.  Whoever sends works on the copy it has, and writes the whole   *)
(* copy back by id.                                                        *)
(***************************************************************************)
EXTENDS Naturals, FiniteSets

CONSTANTS
  Deliveries,   \* identities of deliveries
  Endpoints,    \* registered endpoints
  Target,       \* the endpoint each delivery is for
  MaxAttempts,  \* WebhookEndpoint.RetryCount, not validated: 0 is allowed
  BatchSize,    \* Config.BatchSize
  WorkerCount,  \* Config.WorkerCount
  Faults        \* a subset of {"unreachable", "unsendable", "lookup_error",
                \*              "write_error", "crash"}

ASSUME WebhookAssumption ==
  /\ Target \in [Deliveries -> Endpoints]
  /\ MaxAttempts \in Nat
  /\ BatchSize \in Nat \ {0}
  /\ WorkerCount \in Nat \ {0}
  /\ Faults \subseteq {"unreachable", "unsendable", "lookup_error", "write_error", "crash"}

VARIABLES
  rows,       \* the webhook_deliveries table
  clock,      \* NOW() as created_at sees it
  endpoints,  \* the endpoints that exist
  sends,      \* the copies goroutines and requests work on
  accepted,   \* history: deliveries an endpoint answered with a 2xx
  refused     \* history: other answers to a delivery, counted up to MaxAttempts;
              \* MaxAttempts at once for one that can never be sent

vars == <<rows, clock, endpoints, sends, accepted, refused>>

-----------------------------------------------------------------------------
(* Rows.  "unborn" and "deleted" stand for no row under that identity.     *)

Unsettled == {"pending", "retrying"}

Settled == {"delivered", "failed"}

\* The first attempt is made whatever MaxAttempts is.
AttemptNumbers == {n \in Nat : n = 1 \/ n \in 1 .. MaxAttempts}

Row == [status     : {"unborn", "deleted"} \cup Unsettled \cup Settled,
        attempt    : AttemptNumbers,
        next_retry : {"nil", "waiting", "due"},
        created_at : Nat]

Send == [by : {"dispatch", "worker", "request"}, stage : {"listed", "sending", "saving"},
         id : Deliveries, row : Row]

NoRow == [status |-> "unborn", attempt |-> 1, next_retry |-> "nil", created_at |-> 0]

NewWebhookDelivery(now) ==
  [status |-> "pending", attempt |-> 1, next_retry |-> "nil", created_at |-> now]

MarkDelivered(row) == [row EXCEPT !.status = "delivered"]

MarkFailed(row) == [row EXCEPT !.status = "failed"]

MarkRetrying(row) == [row EXCEPT !.status = "retrying", !.next_retry = "waiting", !.attempt = @ + 1]

\* Mutants: one attempt too few; one too many.
ShouldRetry_OneLess(row) == row.attempt + 1 < MaxAttempts

ShouldRetry_OneMore(row) == row.attempt <= MaxAttempts

ShouldRetry(row) == row.attempt < MaxAttempts

HandleDeliveryError(row) == IF ShouldRetry(row) THEN MarkRetrying(row) ELSE MarkFailed(row)

Alive(d) == rows[d].status \in Unsettled \cup Settled

By(who) == {t \in sends : t.by = who}

\* The sender t goes on to stage with the copy row.
Becomes(t, stage, row) ==
  sends' = (sends \ {t}) \cup {[t EXCEPT !.stage = stage, !.row = row]}

-----------------------------------------------------------------------------
Init ==
  /\ rows = [d \in Deliveries |-> NoRow]
  /\ clock = 0
  /\ endpoints = Endpoints
  /\ sends = {}
  /\ accepted = {}
  /\ refused = [d \in Deliveries |-> 0]

\* One turn of Dispatch's loop over the endpoints subscribed to the event: the
\* row is stored, then a goroutine sends it.  An endpoint whose row cannot be
\* stored is skipped.
Dispatch(d) ==
  LET row == NewWebhookDelivery(clock)
  IN  /\ rows[d].status = "unborn"
      /\ Target[d] \in endpoints
      /\ rows' = [rows EXCEPT ![d] = row]
      /\ clock' = clock + 1
      /\ sends' = sends \cup {[by |-> "dispatch", stage |-> "sending", id |-> d, row |-> row]}
      /\ UNCHANGED <<endpoints, accepted, refused>>

\* Mutant: only deliveries never sent are listed.
Due_PendingOnly == {d \in Deliveries : rows[d].status = "pending"}

Due == {d \in Deliveries : rows[d].status \in Unsettled /\ rows[d].next_retry # "waiting"}

\* ORDER BY created_at LIMIT BatchSize over the deliveries that are due.
Batches ==
  {B \in SUBSET Due : /\ Cardinality(B) <= BatchSize
                      /\ B = Due \/ Cardinality(B) = BatchSize
                      /\ \A d \in B, e \in Due \ B : rows[d].created_at < rows[e].created_at}

\* GetPendingWebhookDeliveries, when the pass before it has ended.
ListDue ==
  /\ By("worker") = {}
  /\ Due # {}
  /\ \E B \in Batches :
       sends' = sends \cup {[by |-> "worker", stage |-> "listed", id |-> d, row |-> rows[d]] : d \in B}
  /\ UNCHANGED <<rows, clock, endpoints, accepted, refused>>

HasSlot(t) ==
  /\ t.stage = "listed"
  /\ Cardinality({u \in By("worker") : u.stage # "listed"}) < WorkerCount

\* A pool slot is free and the endpoint is found.
Start(t) ==
  /\ HasSlot(t)
  /\ Target[t.id] \in endpoints
  /\ Becomes(t, "sending", t.row)
  /\ UNCHANGED <<rows, clock, endpoints, accepted, refused>>

\* GetWebhookEndpointByID fails, because the endpoint is gone or for another reason.
LookupFails(t) ==
  /\ HasSlot(t)
  /\ Target[t.id] \notin endpoints \/ "lookup_error" \in Faults
  /\ Becomes(t, "saving", MarkFailed(t.row))
  /\ refused' = IF Target[t.id] \in endpoints THEN refused ELSE [refused EXCEPT ![t.id] = MaxAttempts]
  /\ UNCHANGED <<rows, clock, endpoints, accepted>>

\* The secret cannot be decrypted or the request cannot be built.
Unsendable(t) ==
  /\ "unsendable" \in Faults
  /\ t.stage = "sending"
  /\ Becomes(t, "saving", MarkFailed(t.row))
  /\ refused' = [refused EXCEPT ![t.id] = MaxAttempts]
  /\ UNCHANGED <<rows, clock, endpoints, accepted>>

\* client.Do fails: no answer.  The outcome goes into the copy, which is dropped.
Unreachable(t) ==
  /\ "unreachable" \in Faults
  /\ t.stage = "sending"
  /\ sends' = sends \ {t}
  /\ UNCHANGED <<rows, clock, endpoints, accepted, refused>>

\* Mutant: every answer counts as success.
Outcome_AnyAnswer(row, ok) == MarkDelivered(row)

Outcome(row, ok) == IF ok THEN MarkDelivered(row) ELSE HandleDeliveryError(row)

Answered2xx(t) ==
  /\ t.stage = "sending"
  /\ Becomes(t, "saving", Outcome(t.row, TRUE))
  /\ accepted' = accepted \cup {t.id}
  /\ UNCHANGED <<rows, clock, endpoints, refused>>

AnsweredOther(t) ==
  /\ t.stage = "sending"
  /\ Becomes(t, "saving", Outcome(t.row, FALSE))
  /\ refused' = [refused EXCEPT ![t.id] = IF @ < MaxAttempts THEN @ + 1 ELSE @]
  /\ UNCHANGED <<rows, clock, endpoints, accepted>>

\* UpdateWebhookDelivery: every mutable column, if the row still exists.
Save(t) ==
  /\ t.stage = "saving"
  /\ rows' = IF Alive(t.id) THEN [rows EXCEPT ![t.id] = t.row] ELSE rows
  /\ sends' = sends \ {t}
  /\ UNCHANGED <<clock, endpoints, accepted, refused>>

\* The error is logged only; the deadline of the context covers the write too.
SaveFails(t) ==
  /\ "write_error" \in Faults
  /\ t.stage = "saving"
  /\ sends' = sends \ {t}
  /\ UNCHANGED <<rows, clock, endpoints, accepted, refused>>

BackoffElapses(d) ==
  /\ rows[d].next_retry = "waiting"
  /\ rows' = [rows EXCEPT ![d].next_retry = "due"]
  /\ UNCHANGED <<clock, endpoints, sends, accepted, refused>>

\* The handler RetryDelivery reads the row, refuses a delivered one, resets its
\* copy and saves it.
RetryDelivery(d) ==
  /\ By("request") = {}
  /\ Alive(d)
  /\ rows[d].status # "delivered"
  /\ sends' = sends \cup {[by |-> "request", stage |-> "saving", id |-> d,
                           row |-> [rows[d] EXCEPT !.status = "pending", !.attempt = 1,
                                                   !.next_retry = "nil"]]}
  /\ UNCHANGED <<rows, clock, endpoints, accepted, refused>>

\* DeleteWebhookEndpoint; its deliveries go with it (ON DELETE CASCADE).
DeleteEndpoint(e) ==
  /\ e \in endpoints
  /\ endpoints' = endpoints \ {e}
  /\ rows' = [d \in Deliveries |-> IF Target[d] = e /\ Alive(d)
                                   THEN [rows[d] EXCEPT !.status = "deleted"]
                                   ELSE rows[d]]
  /\ UNCHANGED <<clock, sends, accepted, refused>>

\* The server process dies: the copies are gone, the table is not.
Crash ==
  /\ "crash" \in Faults
  /\ sends # {}
  /\ sends' = {}
  /\ UNCHANGED <<rows, clock, endpoints, accepted, refused>>

Deliver(t) ==
  Start(t) \/ LookupFails(t) \/ Answered2xx(t) \/ AnsweredOther(t) \/ Save(t)

Next ==
  \/ \E d \in Deliveries : Dispatch(d) \/ BackoffElapses(d) \/ RetryDelivery(d)
  \/ ListDue
  \/ \E t \in sends : Deliver(t) \/ Unsendable(t) \/ Unreachable(t) \/ SaveFails(t)
  \/ \E e \in Endpoints : DeleteEndpoint(e)
  \/ Crash

Spec == Init /\ [][Next]_vars

\* The ticker keeps firing, a send has a deadline, time passes.
Fairness ==
  /\ WF_vars(ListDue)
  /\ \A d \in Deliveries : /\ WF_vars(\E t \in sends : t.id = d /\ (Deliver(t) \/ Unreachable(t)))
                           /\ WF_vars(BackoffElapses(d))

FairSpec == Spec /\ Fairness

-----------------------------------------------------------------------------
(* Properties.                                                             *)

\* Type invariant of the table, the copies and the histories.
TypeOK ==
  /\ rows \in [Deliveries -> Row]
  /\ clock \in Nat
  /\ endpoints \subseteq Endpoints
  /\ sends \subseteq Send
  /\ accepted \subseteq Deliveries
  /\ refused \in [Deliveries -> 0 .. MaxAttempts]

\* Although several goroutines send a delivery and overwrite each other's rows, a
\* delivery recorded as delivered was answered with a 2xx (MarkDelivered).
DeliveredWasAccepted ==
  \A d \in Deliveries : rows[d].status = "delivered" => d \in accepted

\* What a delivery's status means for its endpoint.
View(status) ==
  IF status \in Unsettled THEN "open"
  ELSE IF status = "delivered" THEN "confirmed"
  ELSE IF status = "failed" THEN "abandoned"
  ELSE IF status = "deleted" THEN "deleted" ELSE "new"

Channel ==
  INSTANCE AtLeastOnce WITH Messages <- Deliveries,
                            view     <- [d \in Deliveries |-> View(rows[d].status)],
                            received <- accepted

\* Whoever sends and saves a delivery at the same time, the table is that of a
\* channel that delivers at least once: what it says was delivered has arrived, and
\* a deleted row never comes back (Dispatcher, UpdateWebhookDelivery).
ImplementsChannel == Channel!Spec

\* However stale the copies and however often a delivery is retried by hand, it is
\* recorded as failed only when its endpoint refused it MaxAttempts times or it
\* can never be sent (ShouldRetry).
FailedWasRefused ==
  \A d \in Deliveries :
    rows[d].status = "failed" => refused[d] = MaxAttempts

\* Steps that only people or failures of the server's own parts take.
Disturbance ==
  \/ Crash
  \/ \E t \in sends : SaveFails(t)
  \/ \E d \in Deliveries : RetryDelivery(d)

AllSettle ==
  \A d \in Deliveries :
    rows[d].status \in Unsettled ~> rows[d].status \in Settled \cup {"deleted"}

\* Once the server stops dying, writes stop failing, nobody retries by hand and
\* endpoints answer, every delivery is delivered or given up, whatever the answers
\* are and however many deliveries compete for a batch (retryWorker).
DeliveriesSettle ==
  <>[][~ (Disturbance \/ \E t \in sends : Unreachable(t))]_vars => AllSettle
=============================================================================
