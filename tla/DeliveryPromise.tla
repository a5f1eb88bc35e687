--------------------------- MODULE DeliveryPromise ---------------------------
(***************************************************************************)
(* What the webhook subsystem promises the code that emits an event,       *)
(* without the topic, the sweeper and the handlers: a delivery that has    *)
(* been persisted stays owed until it is kept (the receiver has accepted   *)
(* the request), broken (MaxAttempts attempts were recorded) or withdrawn  *)
(* with its site. Each attempt is recorded once, and what is settled stays *)
(* settled until its row is deleted.                                       *)
(***************************************************************************)
EXTENDS Naturals

CONSTANTS
    Delivery,     \* delivery ids
    MaxAttempts   \* recorded attempts after which a delivery is given up

VARIABLES
    promise,    \* none, owed, kept, broken or forgotten
    tries,      \* recorded attempts
    received    \* the receiver has answered 2xx

vars == <<promise, tries, received>>

Init ==
    /\ promise = [d \in Delivery |-> "none"]
    /\ tries = [d \in Delivery |-> 0]
    /\ received = [d \in Delivery |-> FALSE]

\* One emission persists a set of deliveries at once.
Owe(D) ==
    /\ \A d \in D : promise[d] = "none"
    /\ promise' = [d \in Delivery |-> IF d \in D THEN "owed" ELSE promise[d]]
    /\ UNCHANGED <<tries, received>>

Accept(d) ==
    /\ promise[d] \in {"owed", "forgotten"}
    /\ received' = [received EXCEPT ![d] = TRUE]
    /\ UNCHANGED <<promise, tries>>

\* One attempt is recorded; the last one allowed breaks the promise.
Try(d) ==
    /\ promise[d] = "owed"
    /\ tries' = [tries EXCEPT ![d] = @ + 1]
    /\ promise' = [promise EXCEPT ![d] = IF tries[d] + 1 < MaxAttempts THEN "owed" ELSE "broken"]
    /\ UNCHANGED received

Keep(d) ==
    /\ promise[d] = "owed" /\ received[d]
    /\ tries' = [tries EXCEPT ![d] = @ + 1]
    /\ promise' = [promise EXCEPT ![d] = "kept"]
    /\ UNCHANGED received

\* A site is deleted, or settled rows pass their retention.
Forget(D) ==
    /\ \A d \in D : promise[d] # "none"
    /\ promise' = [d \in Delivery |-> IF d \in D THEN "forgotten" ELSE promise[d]]
    /\ UNCHANGED <<tries, received>>

Next ==
    \/ \E D \in SUBSET Delivery : Owe(D) \/ Forget(D)
    \/ \E d \in Delivery : Accept(d) \/ Try(d) \/ Keep(d)

Spec == Init /\ [][Next]_vars
=============================================================================
