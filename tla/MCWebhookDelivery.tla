-------------------------- MODULE MCWebhookDelivery --------------------------
(* Small instances of WebhookDelivery: every delivery is for one endpoint.   *)
EXTENDS WebhookDelivery

CONSTANTS d1, d2, e1

MCTarget == [d \in Deliveries |-> e1]
=============================================================================
