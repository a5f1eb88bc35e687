--------------------------- MODULE MCWebhookOutbox ---------------------------
(* Small instances of WebhookOutbox for TLC.                               *)
EXTENDS WebhookOutbox

CONSTANTS p1, p2, c1, c2

\* Two ingest batches with an event in common, each with one of its own.
OverlappingBatches == [p \in Emitter |-> IF p = p1 THEN {c1} ELSE {c1, c2}]
SingleEvents == [p \in Emitter |-> {c1}]
=============================================================================
