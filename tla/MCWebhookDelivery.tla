-------------------------- MODULE MCWebhookDelivery --------------------------
(* Small instances of WebhookDelivery for TLC.                             *)
EXTENDS WebhookDelivery, TLC

CONSTANTS d1, d2, e1

OneEndpoint == [d \in Delivery |-> e1]

WorkerSymmetry == Permutations(Worker)

\* Deliveries to one endpoint differ in nothing but their name.
Interchangeable == WorkerSymmetry \union Permutations(Delivery)
=============================================================================
