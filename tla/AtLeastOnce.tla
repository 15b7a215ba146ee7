----------------------------- MODULE AtLeastOnce -----------------------------
(***************************************************************************)
(* What a sender that keeps its messages in a table promises, whoever      *)
(* holds copies of their rows: only what was sent arrives, perhaps more    *)
(* than once, and it may arrive after the sender has given it up or        *)
(* deleted it; the sender confirms only what has arrived; what it has      *)
(* deleted never comes back.  That it may go back on a confirmation and    *)
(* send again is what "at least once" allows.  OfflineQueue and            *)
(* WebhookDelivery implement this.                                         *)
(***************************************************************************)
CONSTANT Messages

VARIABLES
  view,     \* what the sender's table says of a message
  received  \* the messages that have arrived

vars == <<view, received>>

Kept == {"open", "confirmed", "abandoned"}

Init ==
  /\ view = [m \in Messages |-> "new"]
  /\ received = {}

Send(m) ==
  /\ view[m] = "new"
  /\ view' = [view EXCEPT ![m] = "open"]
  /\ UNCHANGED received

\* Any messages that were sent arrive together, once more or for the first time.
Arrive ==
  /\ \E some \in SUBSET {m \in Messages : view[m] # "new"} : received' = received \cup some
  /\ UNCHANGED view

Turns(m, v) ==
  /\ view[m] \in Kept
  /\ view' = [view EXCEPT ![m] = v]
  /\ UNCHANGED received

Confirm(m) == m \in received /\ Turns(m, "confirmed")

Abandon(m) == Turns(m, "abandoned")

Reopen(m) == Turns(m, "open")

Delete ==
  /\ \E old \in SUBSET {m \in Messages : view[m] \in Kept} :
       view' = [m \in Messages |-> IF m \in old THEN "deleted" ELSE view[m]]
  /\ UNCHANGED received

Next ==
  \/ \E m \in Messages : Send(m) \/ Confirm(m) \/ Abandon(m) \/ Reopen(m)
  \/ Arrive
  \/ Delete

Spec == Init /\ [][Next]_vars
=============================================================================
