------------------------ MODULE WebhookDeliveryProofs ------------------------
(***************************************************************************)
(* Theorems about WebhookDelivery, for any deliveries, endpoints, pool and *)
(* combination of faults.                                                  *)
(***************************************************************************)
EXTENDS WebhookDelivery, TLAPS

\* A row that claims success has a 2xx behind it, stored or not.
Accepted(d, row) == row.status = "delivered" => d \in accepted

AcceptedInv ==
  /\ \A d \in Deliveries : Accepted(d, rows[d])
  /\ \A t \in sends : Accepted(t.id, t.row)

\* Attempt n follows n - 1 refusals, and giving up follows all of them.
Refused(d, row) ==
  /\ row.attempt <= refused[d] + 1
  /\ row.status = "failed" => refused[d] = MaxAttempts

RefusedInv ==
  /\ \A d \in Deliveries : Refused(d, rows[d])
  /\ \A t \in sends : Refused(t.id, t.row)

-----------------------------------------------------------------------------
(* What the operations on a row return.                                    *)

LEMMA MarkFields ==
  ASSUME NEW row \in Row
  PROVE  /\ MarkDelivered(row) \in Row /\ MarkDelivered(row).status = "delivered"
         /\ MarkDelivered(row).attempt = row.attempt
         /\ MarkFailed(row) \in Row /\ MarkFailed(row).status = "failed"
         /\ MarkFailed(row).attempt = row.attempt
BY DEF Row, Settled, MarkDelivered, MarkFailed

LEMMA RetryingFields ==
  ASSUME NEW row \in Row, ShouldRetry(row)
  PROVE  /\ MarkRetrying(row) \in Row /\ MarkRetrying(row).status = "retrying"
         /\ MarkRetrying(row).attempt = row.attempt + 1
<1> DEFINE n == row.attempt + 1
<1>1. n \in AttemptNumbers
  BY WebhookAssumption DEF Row, ShouldRetry, AttemptNumbers
<1>2. MarkRetrying(row) =
        [row EXCEPT !.status = "retrying", !.next_retry = "waiting", !.attempt = n]
  BY DEF MarkRetrying
<1> HIDE DEF n
<1>3. MarkRetrying(row) \in Row
  BY <1>1, <1>2 DEF Row, Unsettled
<1>4. MarkRetrying(row).status = "retrying" /\ MarkRetrying(row).attempt = n
  BY <1>2 DEF Row
<1> QED
  BY <1>3, <1>4 DEF n

\* A refusal is followed by another attempt or, after the last one, by giving up.
LEMMA RefusalFields ==
  ASSUME NEW row \in Row
  PROVE  /\ Outcome(row, FALSE) \in Row
         /\ \/ /\ Outcome(row, FALSE).status = "retrying"
               /\ Outcome(row, FALSE).attempt = row.attempt + 1
               /\ row.attempt < MaxAttempts
            \/ /\ Outcome(row, FALSE).status = "failed"
               /\ Outcome(row, FALSE).attempt = row.attempt
               /\ row.attempt >= MaxAttempts
<1>0. row.attempt \in Nat
  BY DEF Row, AttemptNumbers
<1>1. CASE ShouldRetry(row)
  <2>1. Outcome(row, FALSE) = MarkRetrying(row)
    BY <1>1 DEF Outcome, HandleDeliveryError
  <2> QED
    BY <2>1, <1>1, RetryingFields DEF ShouldRetry
<1>2. CASE ~ ShouldRetry(row)
  <2>1. Outcome(row, FALSE) = MarkFailed(row)
    BY <1>2 DEF Outcome, HandleDeliveryError
  <2>2. row.attempt >= MaxAttempts
    BY <1>0, <1>2, WebhookAssumption DEF ShouldRetry
  <2>3. /\ MarkFailed(row) \in Row /\ MarkFailed(row).status = "failed"
        /\ MarkFailed(row).attempt = row.attempt
    BY MarkFields
  <2> QED
    BY <2>1, <2>2, <2>3
<1> QED
  BY <1>1, <1>2

\* What a sender that goes on leaves behind: the others' copies and its new one.
LEMMA BecomesFields ==
  ASSUME sends \subseteq Send, NEW t \in sends, NEW row \in Row,
         NEW stage \in {"listed", "sending", "saving"}, Becomes(t, stage, row)
  PROVE  /\ sends' \subseteq Send
         /\ \A u \in sends' : u \in sends \/ (u.id = t.id /\ u.row = row)
<1> DEFINE new == [t EXCEPT !.stage = stage, !.row = row]
<1>1. new \in Send /\ new.id = t.id /\ new.row = row
  BY DEF Send
<1>2. sends' = (sends \ {t}) \cup {new}
  BY DEF Becomes
<1> HIDE DEF new
<1> QED
  BY <1>1, <1>2
-----------------------------------------------------------------------------
(* Type correctness.                                                       *)

LEMMA InitType == Init => TypeOK
BY WebhookAssumption DEF Init, TypeOK, NoRow, Row, AttemptNumbers

LEMMA NextType == TypeOK /\ [Next]_vars => TypeOK'
<1> SUFFICES ASSUME TypeOK, [Next]_vars PROVE TypeOK'
  OBVIOUS
<1> USE WebhookAssumption
<1>t. /\ rows \in [Deliveries -> Row] /\ clock \in Nat /\ endpoints \subseteq Endpoints
      /\ sends \subseteq Send /\ accepted \subseteq Deliveries
      /\ refused \in [Deliveries -> 0 .. MaxAttempts]
      /\ \A t \in sends : t \in Send /\ t.id \in Deliveries /\ t.row \in Row
  BY DEF TypeOK, Send
<1>1. ASSUME NEW d \in Deliveries, Dispatch(d) PROVE TypeOK'
  <2> DEFINE row == NewWebhookDelivery(clock)
             new == [by |-> "dispatch", stage |-> "sending", id |-> d, row |-> row]
  <2>1. row \in Row
    BY <1>t DEF NewWebhookDelivery, Row, Unsettled, AttemptNumbers
  <2>2. new \in Send
    BY <2>1 DEF Send
  <2>3. /\ rows' = [rows EXCEPT ![d] = row] /\ sends' = sends \cup {new}
        /\ clock' = clock + 1 /\ UNCHANGED <<endpoints, accepted, refused>>
    BY <1>1 DEF Dispatch
  <2> HIDE DEF row, new
  <2> QED
    BY <2>1, <2>2, <2>3, <1>t DEF TypeOK
<1>2. ASSUME NEW d \in Deliveries, BackoffElapses(d) PROVE TypeOK'
  <2>1. [rows[d] EXCEPT !.next_retry = "due"] \in Row
    BY <1>t DEF Row
  <2>2. rows' = [rows EXCEPT ![d] = [rows[d] EXCEPT !.next_retry = "due"]]
    BY <1>2, <1>t DEF BackoffElapses
  <2> QED
    BY <2>1, <2>2, <1>2, <1>t DEF BackoffElapses, TypeOK
<1>3. ASSUME NEW d \in Deliveries, RetryDelivery(d) PROVE TypeOK'
  <2> DEFINE row == [rows[d] EXCEPT !.status = "pending", !.attempt = 1, !.next_retry = "nil"]
             new == [by |-> "request", stage |-> "saving", id |-> d, row |-> row]
  <2>1. row \in Row
    BY <1>t DEF Row, Unsettled, AttemptNumbers
  <2>2. new \in Send
    BY <2>1 DEF Send
  <2>3. sends' = sends \cup {new} /\ UNCHANGED <<rows, clock, endpoints, accepted, refused>>
    BY <1>3 DEF RetryDelivery
  <2> HIDE DEF new
  <2> QED
    BY <2>2, <2>3, <1>t DEF TypeOK
<1>4. ASSUME ListDue PROVE TypeOK'
  <2>1. PICK B \in Batches :
          sends' = sends \cup
            {[by |-> "worker", stage |-> "listed", id |-> d, row |-> rows[d]] : d \in B}
    BY <1>4 DEF ListDue
  <2>2. B \subseteq Deliveries
    BY DEF Batches, Due
  <2>3. \A d \in B : [by |-> "worker", stage |-> "listed", id |-> d, row |-> rows[d]] \in Send
    BY <2>2, <1>t DEF Send
  <2> QED
    BY <2>1, <2>3, <1>4, <1>t DEF ListDue, TypeOK
<1>5. ASSUME NEW t \in sends, Deliver(t) \/ Unsendable(t) PROVE TypeOK'
  <2>f. /\ MarkFailed(t.row) \in Row /\ Outcome(t.row, TRUE) \in Row
        /\ Outcome(t.row, FALSE) \in Row
    BY <1>t, MarkFields, RefusalFields DEF Outcome
  <2>r. [refused EXCEPT ![t.id] = MaxAttempts] \in [Deliveries -> 0 .. MaxAttempts]
    BY <1>t
  <2>1. CASE Start(t)
    <3>1. sends' \subseteq Send
      BY <2>1, <1>t, BecomesFields DEF Start
    <3> QED
      BY <3>1, <2>1, <1>t DEF Start, TypeOK
  <2>2. CASE LookupFails(t) \/ Unsendable(t)
    <3>1. sends' \subseteq Send
      BY <2>2, <2>f, <1>t, BecomesFields DEF LookupFails, Unsendable
    <3> QED
      BY <3>1, <2>2, <2>r, <1>t DEF LookupFails, Unsendable, TypeOK
  <2>3. CASE Answered2xx(t)
    <3>1. sends' \subseteq Send
      BY <2>3, <2>f, <1>t, BecomesFields DEF Answered2xx
    <3> QED
      BY <3>1, <2>3, <1>t DEF Answered2xx, TypeOK
  <2>4. CASE AnsweredOther(t)
    <3>1. sends' \subseteq Send
      BY <2>4, <2>f, <1>t, BecomesFields DEF AnsweredOther
    <3>2. refused' \in [Deliveries -> 0 .. MaxAttempts]
      BY <2>4, <1>t DEF AnsweredOther
    <3> QED
      BY <3>1, <3>2, <2>4, <1>t DEF AnsweredOther, TypeOK
  <2>5. CASE Save(t)
    BY <2>5, <1>t DEF Save, TypeOK
  <2> QED
    BY <1>5, <2>1, <2>2, <2>3, <2>4, <2>5 DEF Deliver
<1>6. ASSUME NEW e \in Endpoints, DeleteEndpoint(e) PROVE TypeOK'
  <2>1. \A d \in Deliveries : [rows[d] EXCEPT !.status = "deleted"] \in Row
    BY <1>t DEF Row
  <2> QED
    BY <1>6, <2>1, <1>t DEF DeleteEndpoint, TypeOK
<1>7. CASE Crash \/ (\E t \in sends : Unreachable(t) \/ SaveFails(t)) \/ UNCHANGED vars
  BY <1>7, <1>t DEF Crash, Unreachable, SaveFails, vars, TypeOK
<1> QED
  BY <1>1, <1>2, <1>3, <1>4, <1>5, <1>6, <1>7 DEF Next

\* The table, the copies and the histories keep their types.
THEOREM TypeCorrect == Spec => []TypeOK
BY InitType, NextType, PTL DEF Spec

-----------------------------------------------------------------------------
(* What a step does to rows, copies and histories.                         *)

\* A row keeps its status and attempt, starts over, is deleted or is a copy.
RowStep ==
  \A d \in Deliveries :
    \/ /\ rows'[d].status \in {rows[d].status, "pending", "deleted"}
       /\ rows'[d].attempt \in {rows[d].attempt, 1}
    \/ \E t \in sends : t.id = d /\ rows'[d] = t.row

Counted(d) == IF refused[d] < MaxAttempts THEN refused[d] + 1 ELSE refused[d]

\* A copy is an old one, a row, a fresh start, or an old one with its outcome.
Outcomes(u, t) ==
  \/ u.row = t.row
  \/ /\ u.row = MarkFailed(t.row)
     /\ refused'[t.id] = MaxAttempts \/ "lookup_error" \in Faults
  \/ u.row = MarkDelivered(t.row) /\ t.id \in accepted'
  \/ u.row = Outcome(t.row, FALSE) /\ refused'[t.id] = Counted(t.id)

SendStep ==
  \A u \in sends' :
    \/ u.row = rows[u.id]
    \/ u.row.status = "pending" /\ u.row.attempt = 1
    \/ \E t \in sends : u.id = t.id /\ Outcomes(u, t)

HistoryStep ==
  /\ accepted \subseteq accepted'
  /\ \A d \in Deliveries : refused[d] <= refused'[d]

LEMMA StepShape ==
  ASSUME TypeOK, [Next]_vars PROVE RowStep /\ SendStep /\ HistoryStep
<1> USE WebhookAssumption
<1>t. /\ rows \in [Deliveries -> Row] /\ sends \subseteq Send
      /\ refused \in [Deliveries -> 0 .. MaxAttempts]
      /\ \A t \in sends : t \in Send /\ t.id \in Deliveries /\ t.row \in Row
  BY DEF TypeOK, Send
<1>s. \A t \in sends : Outcomes(t, t)
  BY DEF Outcomes
<1>h. UNCHANGED <<accepted, refused>> => HistoryStep
  BY <1>t DEF HistoryStep
<1>k. sends' \subseteq sends => SendStep
  BY <1>s DEF SendStep
<1>r. UNCHANGED rows => RowStep
  BY DEF RowStep
<1>1. ASSUME NEW d \in Deliveries, Dispatch(d) PROVE RowStep /\ SendStep /\ HistoryStep
  <2> DEFINE row == NewWebhookDelivery(clock)
             new == [by |-> "dispatch", stage |-> "sending", id |-> d, row |-> row]
  <2>1. row.status = "pending" /\ row.attempt = 1
    BY DEF NewWebhookDelivery
  <2>2. new.row = row
    OBVIOUS
  <2>3. /\ rows' = [rows EXCEPT ![d] = row] /\ sends' = sends \cup {new}
        /\ UNCHANGED <<accepted, refused>>
    BY <1>1 DEF Dispatch
  <2> HIDE DEF row, new
  <2>4. RowStep
    BY <2>1, <2>3, <1>t DEF RowStep
  <2>5. SendStep
    BY <2>1, <2>2, <2>3, <1>s DEF SendStep
  <2> QED
    BY <2>3, <2>4, <2>5, <1>h
<1>2. ASSUME NEW d \in Deliveries, BackoffElapses(d) PROVE RowStep /\ SendStep /\ HistoryStep
  <2> DEFINE row == [rows[d] EXCEPT !.next_retry = "due"]
  <2>1. row.status = rows[d].status /\ row.attempt = rows[d].attempt
    BY <1>t DEF Row
  <2>2. rows' = [rows EXCEPT ![d] = row] /\ UNCHANGED <<sends, accepted, refused>>
    BY <1>2, <1>t DEF BackoffElapses
  <2> HIDE DEF row
  <2>3. RowStep
    BY <2>1, <2>2, <1>t DEF RowStep
  <2> QED
    BY <2>2, <2>3, <1>h, <1>k
<1>3. ASSUME NEW d \in Deliveries, RetryDelivery(d) PROVE RowStep /\ SendStep /\ HistoryStep
  <2> DEFINE row == [rows[d] EXCEPT !.status = "pending", !.attempt = 1, !.next_retry = "nil"]
             new == [by |-> "request", stage |-> "saving", id |-> d, row |-> row]
  <2>1. row.status = "pending" /\ row.attempt = 1
    BY <1>t DEF Row
  <2>2. new.row = row
    OBVIOUS
  <2>3. sends' = sends \cup {new} /\ UNCHANGED <<rows, accepted, refused>>
    BY <1>3 DEF RetryDelivery
  <2> HIDE DEF row, new
  <2>4. SendStep
    BY <2>1, <2>2, <2>3, <1>s DEF SendStep
  <2> QED
    BY <2>3, <2>4, <1>h, <1>r
<1>4. ASSUME ListDue PROVE RowStep /\ SendStep /\ HistoryStep
  <2> DEFINE new(d) == [by |-> "worker", stage |-> "listed", id |-> d, row |-> rows[d]]
  <2>1. PICK B \in Batches : sends' = sends \cup {new(d) : d \in B}
    BY <1>4 DEF ListDue
  <2>2. \A d \in B : new(d).row = rows[new(d).id]
    OBVIOUS
  <2> HIDE DEF new
  <2>3. SendStep
    BY <2>1, <2>2, <1>s DEF SendStep
  <2> QED
    BY <1>4, <2>3, <1>h, <1>r DEF ListDue
<1>5. ASSUME NEW t \in sends, Start(t) PROVE RowStep /\ SendStep /\ HistoryStep
  <2>1. \A u \in sends' : u \in sends \/ (u.id = t.id /\ u.row = t.row)
    BY <1>5, <1>t, BecomesFields DEF Start
  <2>2. SendStep
    BY <2>1, <1>s DEF SendStep, Outcomes
  <2> QED
    BY <1>5, <2>2, <1>h, <1>r DEF Start
<1>6. ASSUME NEW t \in sends, LookupFails(t) \/ Unsendable(t)
      PROVE  RowStep /\ SendStep /\ HistoryStep
  <2>0. MarkFailed(t.row) \in Row
    BY <1>t, MarkFields
  <2>1. \A u \in sends' : u \in sends \/ (u.id = t.id /\ u.row = MarkFailed(t.row))
    BY <1>6, <2>0, <1>t, BecomesFields DEF LookupFails, Unsendable
  <2>2. refused'[t.id] = MaxAttempts \/ "lookup_error" \in Faults
    BY <1>6, <1>t DEF LookupFails, Unsendable
  <2>3. SendStep
    BY <2>1, <2>2, <1>s DEF SendStep, Outcomes
  <2>4. HistoryStep
    BY <1>6, <1>t DEF LookupFails, Unsendable, HistoryStep
  <2> QED
    BY <1>6, <2>3, <2>4, <1>r DEF LookupFails, Unsendable
<1>7. ASSUME NEW t \in sends, Answered2xx(t) PROVE RowStep /\ SendStep /\ HistoryStep
  <2>0. Outcome(t.row, TRUE) = MarkDelivered(t.row) /\ MarkDelivered(t.row) \in Row
    BY <1>t, MarkFields DEF Outcome
  <2>1. \A u \in sends' : u \in sends \/ (u.id = t.id /\ u.row = MarkDelivered(t.row))
    BY <1>7, <2>0, <1>t, BecomesFields DEF Answered2xx
  <2>2. t.id \in accepted' /\ UNCHANGED <<rows, refused>> /\ accepted \subseteq accepted'
    BY <1>7 DEF Answered2xx
  <2>3. SendStep
    BY <2>1, <2>2, <1>s DEF SendStep, Outcomes
  <2>4. HistoryStep
    BY <2>2, <1>t DEF HistoryStep
  <2> QED
    BY <2>2, <2>3, <2>4, <1>r
<1>8. ASSUME NEW t \in sends, AnsweredOther(t) PROVE RowStep /\ SendStep /\ HistoryStep
  <2>0. Outcome(t.row, FALSE) \in Row
    BY <1>t, RefusalFields
  <2>1. \A u \in sends' : u \in sends \/ (u.id = t.id /\ u.row = Outcome(t.row, FALSE))
    BY <1>8, <2>0, <1>t, BecomesFields DEF AnsweredOther
  <2>2. /\ refused' = [refused EXCEPT ![t.id] = Counted(t.id)]
        /\ UNCHANGED <<rows, accepted>>
    BY <1>8 DEF AnsweredOther, Counted
  <2>3. SendStep
    <3>1. refused'[t.id] = Counted(t.id)
      BY <2>2, <1>t
    <3> QED
      BY <2>1, <3>1, <1>s DEF SendStep, Outcomes
  <2>4. HistoryStep
    BY <2>2, <1>t DEF HistoryStep, Counted
  <2> QED
    BY <2>2, <2>3, <2>4, <1>r
<1>9. ASSUME NEW t \in sends, Save(t) PROVE RowStep /\ SendStep /\ HistoryStep
  <2>1. RowStep
    BY <1>9, <1>t DEF Save, RowStep
  <2> QED
    BY <1>9, <2>1, <1>h, <1>k DEF Save
<1>10. ASSUME NEW e \in Endpoints, DeleteEndpoint(e) PROVE RowStep /\ SendStep /\ HistoryStep
  <2> DEFINE gone(d) == [rows[d] EXCEPT !.status = "deleted"]
  <2>1. \A d \in Deliveries : gone(d).status = "deleted" /\ gone(d).attempt = rows[d].attempt
    BY <1>t DEF Row
  <2>2. \A d \in Deliveries : rows'[d] \in {gone(d), rows[d]}
    BY <1>10 DEF DeleteEndpoint
  <2> HIDE DEF gone
  <2>3. RowStep
    BY <2>1, <2>2 DEF RowStep
  <2> QED
    BY <1>10, <2>3, <1>h, <1>k DEF DeleteEndpoint
<1>11. ASSUME Crash \/ (\E t \in sends : Unreachable(t) \/ SaveFails(t)) \/ UNCHANGED vars
       PROVE  RowStep /\ SendStep /\ HistoryStep
  <2>1. UNCHANGED <<rows, accepted, refused>> /\ sends' \subseteq sends
    BY <1>11 DEF Crash, Unreachable, SaveFails, vars
  <2> QED
    BY <2>1, <1>h, <1>k, <1>r
<1> QED
  BY <1>1, <1>2, <1>3, <1>4, <1>5, <1>6, <1>7, <1>8, <1>9, <1>10, <1>11 DEF Next, Deliver

-----------------------------------------------------------------------------
(* Success has a 2xx behind it.                                            *)

LEMMA NextAccepted == TypeOK /\ AcceptedInv /\ [Next]_vars => AcceptedInv'
<1> SUFFICES ASSUME TypeOK, AcceptedInv, [Next]_vars PROVE AcceptedInv'
  OBVIOUS
<1>s. RowStep /\ SendStep /\ HistoryStep
  BY StepShape
<1>t. \A t \in sends : t.id \in Deliveries /\ t.row \in Row
  BY DEF TypeOK, Send
<1>u. \A u \in sends' : u.id \in Deliveries
  BY NextType DEF TypeOK, Send
<1>1. ASSUME NEW d \in Deliveries PROVE Accepted(d, rows[d])'
  BY <1>s DEF RowStep, HistoryStep, AcceptedInv, Accepted
<1>2. ASSUME NEW u \in sends' PROVE Accepted(u.id, u.row)'
  <2>1. CASE u.row = rows[u.id] \/ (u.row.status = "pending" /\ u.row.attempt = 1)
    BY <2>1, <1>s, <1>u DEF HistoryStep, AcceptedInv, Accepted
  <2>2. ASSUME NEW t \in sends, u.id = t.id, Outcomes(u, t) PROVE Accepted(u.id, u.row)'
    <3>1. /\ MarkFailed(t.row).status = "failed"
          /\ Outcome(t.row, FALSE).status \in {"retrying", "failed"}
      BY <1>t, MarkFields, RefusalFields
    <3> QED
      BY <2>2, <3>1, <1>s DEF Outcomes, HistoryStep, AcceptedInv, Accepted
  <2> QED
    BY <2>1, <2>2, <1>s DEF SendStep
<1> QED
  BY <1>1, <1>2 DEF AcceptedInv

\* No delivery is recorded as delivered that its endpoint did not accept.
THEOREM DeliveredWasAcceptedHolds == Spec => []DeliveredWasAccepted
<1>1. Init => AcceptedInv
  BY DEF Init, AcceptedInv, Accepted, NoRow
<1>2. AcceptedInv => DeliveredWasAccepted
  BY DEF AcceptedInv, Accepted, DeliveredWasAccepted
<1> QED
  BY <1>1, <1>2, TypeCorrect, NextAccepted, PTL DEF Spec

-----------------------------------------------------------------------------
(* Giving up has MaxAttempts refusals behind it.                           *)

LEMMA NextRefused ==
  ASSUME "lookup_error" \notin Faults
  PROVE  TypeOK /\ RefusedInv /\ [Next]_vars => RefusedInv'
<1> SUFFICES ASSUME TypeOK, RefusedInv, [Next]_vars PROVE RefusedInv'
  OBVIOUS
<1>s. RowStep /\ SendStep /\ HistoryStep
  BY StepShape
<1>a. MaxAttempts \in Nat
  BY WebhookAssumption
<1>t. /\ \A t \in sends : t.id \in Deliveries /\ t.row \in Row
      /\ \A d \in Deliveries : refused[d] \in 0 .. MaxAttempts /\ rows[d] \in Row
      /\ \A row \in Row : row.attempt \in Nat
  BY DEF TypeOK, Send, Row, AttemptNumbers
<1>u. /\ \A u \in sends' : u.id \in Deliveries
      /\ \A d \in Deliveries : refused'[d] \in 0 .. MaxAttempts
  BY NextType DEF TypeOK, Send
\* What was justified stays justified, and a first attempt always is.
<1>m. \A d \in Deliveries : \A row : Refused(d, row) /\ row.attempt \in Nat => Refused(d, row)'
  BY <1>s, <1>t, <1>u, <1>a DEF HistoryStep, Refused
<1>f. \A d \in Deliveries : \A row : row.attempt = 1 /\ row.status # "failed" => Refused(d, row)'
  BY <1>u, <1>a DEF Refused
<1>1. ASSUME NEW d \in Deliveries PROVE Refused(d, rows[d])'
  <2>1. Refused(d, rows[d]) /\ refused'[d] \in Nat /\ rows[d].attempt \in Nat
    BY <1>t, <1>u, <1>a DEF RefusedInv
  <2>2. CASE /\ rows'[d].status \in {rows[d].status, "pending", "deleted"}
             /\ rows'[d].attempt \in {rows[d].attempt, 1}
    BY <2>1, <2>2, <1>s, <1>t, <1>u, <1>a DEF HistoryStep, Refused
  <2>3. CASE \E t \in sends : t.id = d /\ rows'[d] = t.row
    BY <2>3, <1>m, <1>t DEF RefusedInv, Refused
  <2> QED
    BY <2>2, <2>3, <1>s DEF RowStep
<1>2. ASSUME NEW u \in sends' PROVE Refused(u.id, u.row)'
  <2>1. CASE u.row = rows[u.id]
    BY <2>1, <1>m, <1>t, <1>u DEF RefusedInv, Refused
  <2>2. CASE u.row.status = "pending" /\ u.row.attempt = 1
    BY <2>2, <1>f, <1>u DEF Refused
  <2>3. ASSUME NEW t \in sends, u.id = t.id, Outcomes(u, t) PROVE Refused(u.id, u.row)'
    <3>1. Refused(t.id, t.row) /\ t.row.attempt \in Nat /\ t.id \in Deliveries
      BY <1>t DEF RefusedInv
    <3>2. CASE u.row = t.row
      BY <3>1, <3>2, <2>3, <1>m DEF Refused
    <3>3. CASE u.row = MarkFailed(t.row) /\ refused'[t.id] = MaxAttempts
      <4>1. u.row.attempt = t.row.attempt
        BY <3>3, <1>t, MarkFields
      <4> QED
        BY <4>1, <3>1, <3>3, <2>3, <1>t, <1>a DEF Refused
    <3>4. CASE u.row = MarkDelivered(t.row)
      <4>1. u.row.attempt = t.row.attempt /\ u.row.status = "delivered"
        BY <3>4, <1>t, MarkFields
      <4> QED
        BY <4>1, <3>1, <2>3, <1>s, <1>t, <1>u, <1>a DEF HistoryStep, Refused
    <3>5. CASE u.row = Outcome(t.row, FALSE) /\ refused'[t.id] = Counted(t.id)
      <4>1. \/ /\ u.row.status = "retrying" /\ u.row.attempt = t.row.attempt + 1
               /\ t.row.attempt < MaxAttempts
            \/ /\ u.row.status = "failed" /\ u.row.attempt = t.row.attempt
               /\ t.row.attempt >= MaxAttempts
        BY <3>5, <1>t, RefusalFields
      <4>2. /\ refused[t.id] \in Nat /\ refused[t.id] <= MaxAttempts
            /\ t.row.attempt <= refused[t.id] + 1
            /\ refused'[t.id] = IF refused[t.id] < MaxAttempts
                                THEN refused[t.id] + 1 ELSE refused[t.id]
        BY <3>1, <3>5, <1>t, <1>a DEF Counted, Refused
      <4>3. u.row.attempt <= refused'[t.id] + 1
        BY <4>1, <4>2, <3>1, <1>a
      <4>4. u.row.status = "failed" => refused'[t.id] = MaxAttempts
        BY <4>1, <4>2, <3>1, <1>a
      <4> QED
        BY <4>3, <4>4, <2>3 DEF Refused
    <3> QED
      BY <2>3, <3>2, <3>3, <3>4, <3>5 DEF Outcomes
  <2> QED
    BY <2>1, <2>2, <2>3, <1>s DEF SendStep
<1> QED
  BY <1>1, <1>2 DEF RefusedInv

\* Where endpoint lookups do not fail by accident, no delivery is given up early.
THEOREM FailedWasRefusedHolds ==
  ASSUME "lookup_error" \notin Faults PROVE Spec => []FailedWasRefused
<1>1. Init => RefusedInv
  BY WebhookAssumption DEF Init, RefusedInv, Refused, NoRow
<1>2. RefusedInv => FailedWasRefused
  BY DEF RefusedInv, Refused, FailedWasRefused
<1> QED
  BY <1>1, <1>2, TypeCorrect, NextRefused, PTL DEF Spec
-----------------------------------------------------------------------------
(* The dispatcher is a channel that delivers at least once.                *)

Stored == Unsettled \cup Settled

\* A copy is one of a row that was stored, and would leave it stored.
SendsExist == \A t \in sends : rows[t.id].status # "unborn" /\ t.row.status \in Stored

LEMMA StoredOutcomes ==
  ASSUME TypeOK, SendsExist, NEW t \in sends
  PROVE  /\ t.id \in Deliveries /\ t.row \in Row /\ t.row.status \in Stored
         /\ MarkFailed(t.row) \in Row /\ MarkFailed(t.row).status \in Stored
         /\ Outcome(t.row, TRUE) \in Row /\ Outcome(t.row, TRUE).status \in Stored
         /\ Outcome(t.row, FALSE) \in Row /\ Outcome(t.row, FALSE).status \in Stored
<1>1. t.id \in Deliveries /\ t.row \in Row /\ t.row.status \in Stored
  BY DEF TypeOK, Send, SendsExist
<1>2. /\ MarkFailed(t.row) \in Row /\ MarkFailed(t.row).status = "failed"
      /\ Outcome(t.row, TRUE) \in Row /\ Outcome(t.row, TRUE).status = "delivered"
  BY <1>1, MarkFields DEF Outcome
<1>3. /\ Outcome(t.row, FALSE) \in Row
      /\ Outcome(t.row, FALSE).status \in {"retrying", "failed"}
  BY <1>1, RefusalFields
<1> QED
  BY <1>1, <1>2, <1>3 DEF Stored, Unsettled, Settled

\* What is copied is stored, and what senders hold stays so.
LEMMA CopiesOfStored ==
  ASSUME TypeOK, SendsExist, [Next]_vars, NEW u \in sends'
  PROVE  /\ u.row.status \in Stored
         /\ rows[u.id].status # "unborn" \/ rows'[u.id].status \in Stored
<1>t. sends \subseteq Send /\ rows \in [Deliveries -> Row]
  BY DEF TypeOK
<1>o. CASE u \in sends
  BY <1>o DEF SendsExist
<1>1. ASSUME NEW d \in Deliveries, Dispatch(d), u \notin sends
      PROVE  u.row.status \in Stored /\ rows'[u.id].status \in Stored
  <2> DEFINE row == NewWebhookDelivery(clock)
             new == [by |-> "dispatch", stage |-> "sending", id |-> d, row |-> row]
  <2>1. rows' = [rows EXCEPT ![d] = row] /\ u = new
    BY <1>1 DEF Dispatch
  <2>2. new.row = row /\ new.id = d /\ row.status = "pending"
    BY DEF NewWebhookDelivery
  <2> HIDE DEF row, new
  <2> QED
    BY <2>1, <2>2, <1>t DEF Stored, Unsettled
<1>2. ASSUME NEW d \in Deliveries, RetryDelivery(d), u \notin sends
      PROVE  u.row.status \in Stored /\ rows[u.id].status # "unborn"
  <2> DEFINE row == [rows[d] EXCEPT !.status = "pending", !.attempt = 1, !.next_retry = "nil"]
             new == [by |-> "request", stage |-> "saving", id |-> d, row |-> row]
  <2>1. u = new /\ rows[d].status \in Stored
    BY <1>2 DEF RetryDelivery, Alive, Stored
  <2>2. row.status = "pending"
    BY <1>t DEF Row
  <2>3. new.row = row /\ new.id = d
    OBVIOUS
  <2> HIDE DEF row, new
  <2> QED
    BY <2>1, <2>2, <2>3 DEF Stored, Unsettled, Settled
<1>3. ASSUME ListDue, u \notin sends
      PROVE  u.row.status \in Stored /\ rows[u.id].status # "unborn"
  <2> DEFINE new(d) == [by |-> "worker", stage |-> "listed", id |-> d, row |-> rows[d]]
  <2>1. PICK B \in Batches : sends' = sends \cup {new(d) : d \in B}
    BY <1>3 DEF ListDue
  <2>2. PICK d \in B : u = new(d)
    BY <1>3, <2>1
  <2>3. rows[d].status \in Unsettled
    BY DEF Batches, Due
  <2>4. new(d).id = d /\ new(d).row = rows[d]
    OBVIOUS
  <2> HIDE DEF new
  <2> QED
    BY <2>2, <2>3, <2>4 DEF Stored, Unsettled
<1>4. ASSUME NEW t \in sends, Deliver(t) \/ Unsendable(t), u \notin sends
      PROVE  u.row.status \in Stored /\ rows[u.id].status # "unborn"
  <2>1. PICK row \in {t.row, MarkFailed(t.row), Outcome(t.row, TRUE), Outcome(t.row, FALSE)} :
          \E stage \in {"sending", "saving"} : Becomes(t, stage, row)
    BY <1>4 DEF Deliver, Start, LookupFails, Answered2xx, AnsweredOther, Save, Unsendable
  <2>2. row \in Row /\ row.status \in Stored
    BY <2>1, StoredOutcomes
  <2>3. u.id = t.id /\ u.row = row
    BY <2>1, <2>2, <1>4, <1>t, BecomesFields
  <2> QED
    BY <2>2, <2>3 DEF SendsExist
<1>5. ASSUME sends' \subseteq sends PROVE u \in sends
  BY <1>5
<1> QED
  BY <1>o, <1>1, <1>2, <1>3, <1>4, <1>5
  DEF Next, vars, BackoffElapses, Unreachable, SaveFails, DeleteEndpoint, Crash

LEMMA NextExist == TypeOK /\ SendsExist /\ [Next]_vars => SendsExist'
<1> SUFFICES ASSUME TypeOK, SendsExist, [Next]_vars, NEW u \in sends'
             PROVE  u.row.status \in Stored /\ rows'[u.id].status # "unborn"
  BY DEF SendsExist, Stored
<1>1. u.id \in Deliveries
  BY NextType DEF TypeOK, Send
<1>2. RowStep
  BY StepShape
<1>3. rows[u.id].status # "unborn" => rows'[u.id].status # "unborn"
  BY <1>1, <1>2 DEF RowStep, SendsExist, Stored, Unsettled, Settled
<1> QED
  BY <1>3, CopiesOfStored DEF Stored, Unsettled, Settled

LEMMA Views ==
  ASSUME NEW row \in Row
  PROVE  /\ View(row.status) \in Channel!Kept <=> row.status \in Stored
         /\ View(row.status) = "new" <=> row.status = "unborn"
         /\ View(row.status) = "confirmed" <=> row.status = "delivered"
BY DEF View, Channel!Kept, Row, Stored, Unsettled, Settled

LEMMA ChannelStep ==
  ASSUME TypeOK, AcceptedInv, SendsExist, [Next]_vars
  PROVE  [Channel!Next]_(Channel!vars)
<1>t. /\ rows \in [Deliveries -> Row]
      /\ \A t \in sends : t.id \in Deliveries /\ t.row \in Row /\ t.row.status \in Stored
  BY DEF TypeOK, Send, SendsExist
<1> DEFINE view == [d \in Deliveries |-> View(rows[d].status)]
<1>1. ASSUME NEW d \in Deliveries, Dispatch(d) PROVE Channel!Next
  <2> DEFINE row == NewWebhookDelivery(clock)
  <2>1. /\ rows' = [rows EXCEPT ![d] = row] /\ rows[d].status = "unborn" /\ accepted' = accepted
        /\ row.status = "pending"
    BY <1>1 DEF Dispatch, NewWebhookDelivery
  <2> HIDE DEF row
  <2>2. /\ [c \in Deliveries |-> View(rows'[c].status)] = [view EXCEPT ![d] = "open"]
        /\ view[d] = "new"
    BY <2>1, <1>t DEF View, Unsettled
  <2>3. Channel!Send(d)
    BY <2>1, <2>2 DEF Channel!Send
  <2> QED
    BY <2>3 DEF Channel!Next
<1>2. ASSUME NEW d \in Deliveries, BackoffElapses(d) PROVE UNCHANGED Channel!vars
  <2>1. [rows[d] EXCEPT !.next_retry = "due"].status = rows[d].status
    BY <1>t DEF Row
  <2>2. rows' = [rows EXCEPT ![d] = [rows[d] EXCEPT !.next_retry = "due"]] /\ accepted' = accepted
    BY <1>2, <1>t DEF BackoffElapses
  <2>3. \A c \in Deliveries : rows'[c].status = rows[c].status
    BY <2>1, <2>2, <1>t
  <2> QED
    BY <2>2, <2>3 DEF Channel!vars
<1>3. ASSUME NEW t \in sends, Answered2xx(t) PROVE Channel!Next
  <2>1. {t.id} \in SUBSET {d \in Deliveries : view[d] # "new"}
    BY <1>t, Views DEF SendsExist
  <2>2. Channel!Arrive
    BY <1>3, <2>1 DEF Answered2xx, Channel!Arrive
  <2> QED
    BY <2>2 DEF Channel!Next
<1>4. ASSUME NEW t \in sends, Save(t), Alive(t.id) PROVE Channel!Next
  <2> DEFINE v == View(t.row.status)
  <2>1. rows' = [rows EXCEPT ![t.id] = t.row] /\ accepted' = accepted
    BY <1>4 DEF Save
  <2>2. [d \in Deliveries |-> View(rows'[d].status)] = [view EXCEPT ![t.id] = v]
    BY <2>1, <1>t
  <2>3. view[t.id] \in Channel!Kept /\ v \in Channel!Kept
    BY <1>4, <1>t, Views DEF Alive, Stored
  <2>4. Channel!Turns(t.id, v)
    BY <2>1, <2>2, <2>3 DEF Channel!Turns
  <2>5. v = "confirmed" => t.id \in accepted
    BY <1>t, Views DEF AcceptedInv, Accepted
  <2>6. Channel!Confirm(t.id) \/ Channel!Abandon(t.id) \/ Channel!Reopen(t.id)
    BY <2>3, <2>4, <2>5 DEF Channel!Kept, Channel!Confirm, Channel!Abandon, Channel!Reopen
  <2> QED
    BY <2>6, <1>t DEF Channel!Next
<1>5. ASSUME NEW e \in Endpoints, DeleteEndpoint(e) PROVE Channel!Next
  <2> DEFINE old == {d \in Deliveries : Target[d] = e /\ Alive(d)}
  <2>1. [d \in Deliveries |-> View(rows'[d].status)] =
          [d \in Deliveries |-> IF d \in old THEN "deleted" ELSE view[d]]
    BY <1>5, <1>t DEF DeleteEndpoint, Row, View, Unsettled
  <2>2. old \in SUBSET {d \in Deliveries : view[d] \in Channel!Kept}
    BY <1>t, Views DEF Alive, Stored
  <2>3. Channel!Delete
    BY <1>5, <2>1, <2>2 DEF DeleteEndpoint, Channel!Delete
  <2> QED
    BY <2>3 DEF Channel!Next
<1>6. CASE UNCHANGED <<rows, accepted>>
  BY <1>6 DEF Channel!vars
<1> QED
  BY <1>1, <1>2, <1>3, <1>4, <1>5, <1>6
  DEF Next, vars, Deliver, RetryDelivery, ListDue, Start, LookupFails, AnsweredOther, Save,
      Unsendable, Unreachable, SaveFails, Crash

\* Whoever sends, answers, retries by hand and saves late, every behaviour of the
\* dispatcher is one of a channel that delivers at least once: only dispatched
\* deliveries arrive, "delivered" is written only after a 2xx, and the row of a
\* deleted endpoint stays deleted (Dispatcher, UpdateWebhookDelivery).
THEOREM ImplementsChannelHolds == Spec => ImplementsChannel
<1> DEFINE Inv == AcceptedInv /\ SendsExist
<1>1. Init => Inv
  BY DEF Init, AcceptedInv, Accepted, SendsExist, NoRow
<1>2. TypeOK /\ Inv /\ [Next]_vars => Inv'
  BY NextAccepted, NextExist
<1>3. Init => Channel!Init
  BY DEF Init, NoRow, View, Unsettled, Channel!Init
<1>4. TypeOK /\ Inv /\ [Next]_vars => [Channel!Next]_(Channel!vars)
  BY ChannelStep
<1> QED
  BY <1>1, <1>2, <1>3, <1>4, TypeCorrect, PTL DEF Spec, ImplementsChannel, Channel!Spec
=============================================================================
