--------------------------- MODULE WebhookDelivery ---------------------------
(***************************************************************************)
(* The life of outbound webhook deliveries: the rows of                    *)
(* webhook_deliveries and webhook_delivery_attempts in DuckDB              *)
(* (database/store_webhook_delivery.go), the embedded NSQ topic that       *)
(* carries delivery ids, the goroutines that publish to it                 *)
(* (webhookdispatcher/emitter.go and sweeper.go) and the handlers that     *)
(* consume it (worker.go, dispatcher.go).                                  *)
(*                                                                         *)
(* Rows survive a crash. The topic does not: cmd/hitkeep.go gives nsqd a   *)
(* fresh temporary directory at every start and removes it at shutdown.    *)
(*                                                                         *)
(* Simplifications:                                                        *)
(*  - Wall-clock comparisons are one bit per row, set by the Time actions: *)
(*    due (next_attempt_at <= now), queued (no marker, a marker inside the *)
(*    queue lease, an expired one) and stale (last_attempt_at is older     *)
(*    than staleAfter).                                                    *)
(*  - Every failed statement, failed publish, lost message and crash takes *)
(*    one unit of the budget MaxFaults, so that they do not recur forever. *)
(*  - NSQ counts the attempts of a message and gives it up after ten, which *)
(*    busy endpoints, errors and timeouts use up: a message at its last one *)
(*    will never be handled, so it leaves the topic at once.               *)
(*  - A sweep lists every dispatchable row; the limit of 500 rows per      *)
(*    sweep is above every instance checked.                               *)
(***************************************************************************)
EXTENDS Naturals, Sequences, FiniteSets

CONSTANTS
    Delivery,       \* delivery ids
    Endpoint,       \* webhook ids
    EndpointOf,     \* the webhook each delivery is addressed to
    Worker,         \* concurrent handlers of the NSQ consumer
    Emitter,        \* goroutines that run Emitter.EmitBatch
    Sweeper,        \* the goroutine that runs Sweeper.Start
    None,           \* no delivery
    MaxAttempts,    \* config.WebhookMaxAttempts
    EndpointLimit,  \* config.WebhookPerEndpointConcurrency
    MaxCopies,      \* bound on queued messages per delivery
    MaxFaults,      \* bound on failures and crashes in a behaviour
    Timely          \* TRUE: an attempt ends within staleAfter of its claim

Publisher == Emitter \union {Sweeper}

ASSUME DeliveryAssumption ==
    /\ EndpointOf \in [Delivery -> Endpoint]
    /\ Sweeper \notin Emitter
    /\ None \notin Delivery
    /\ MaxAttempts \in Nat \ {0}
    /\ EndpointLimit \in Nat \ {0}
    /\ MaxCopies \in Nat \ {0}
    /\ MaxFaults \in Nat
    /\ Timely \in BOOLEAN

VARIABLES
    \* columns of webhook_deliveries, and the attempts table
    status, attemptCount, due, queued, stale, attempts,
    \* messages waiting in the NSQ topic
    queue,
    \* per handler: program counter, delivery, the AttemptCount read by the
    \* claim, the number the attempt will be recorded under, the HTTP outcome,
    \* and whether NSQ still considers the message in flight
    wpc, job, claimed, number, outcome, held,
    \* per publisher: program counter, deliveries still to publish, the one
    \* being published, and whether its queue marker was set
    ppc, todo, current, marked,
    \* ghost: whether the receiver has answered 2xx, how many requests it has
    \* been sent, and the faults so far
    accepted, posts, faults

rowVars == <<status, attemptCount, due, queued, stale, attempts>>
workerVars == <<wpc, job, claimed, number, outcome, held>>
publisherVars == <<ppc, todo, current, marked>>
receiverVars == <<accepted, posts>>
vars == <<rowVars, queue, workerVars, publisherVars, receiverVars, faults>>

Waiting == {"pending", "retrying"}
Open == Waiting \union {"processing"}
Settled == {"succeeded", "failed"}

\* A handler that has claimed its delivery and not yet recorded the result.
Attempting(w) == wpc[w] \in {"claimed", "sending", "responded", "recording"}

Busy(e) == Cardinality({w \in Worker : wpc[w] # "idle" /\ EndpointOf[job[w]] = e})

Fault == faults < MaxFaults /\ faults' = faults + 1

Init ==
    /\ status = [d \in Delivery |-> "absent"]
    /\ attemptCount = [d \in Delivery |-> 0]
    /\ due = [d \in Delivery |-> FALSE]
    /\ queued = [d \in Delivery |-> "no"]
    /\ stale = [d \in Delivery |-> FALSE]
    /\ attempts = [d \in Delivery |-> <<>>]
    /\ queue = [d \in Delivery |-> 0]
    /\ wpc = [w \in Worker |-> "idle"]
    /\ job = [w \in Worker |-> None]
    /\ claimed = [w \in Worker |-> 0]
    /\ number = [w \in Worker |-> 0]
    /\ outcome = [w \in Worker |-> "none"]
    /\ held = [w \in Worker |-> FALSE]
    /\ ppc = [p \in Publisher |-> "idle"]
    /\ todo = [p \in Publisher |-> {}]
    /\ current = [p \in Publisher |-> None]
    /\ marked = [p \in Publisher |-> FALSE]
    /\ accepted = [d \in Delivery |-> FALSE]
    /\ posts = [d \in Delivery |-> 0]
    /\ faults = 0

-----------------------------------------------------------------------------
(* Emission: one transaction inserts the event and a pending row for each  *)
(* subscriber; only then does the emitter publish the rows one at a time.  *)

Enqueue(p, D) ==
    /\ ppc[p] = "idle"
    /\ D # {} /\ \A d \in D : status[d] # "deleted"
    \* A deduplicated event that exists already is emitted again when the
    \* ingest message that caused it is redelivered: its rows are published
    \* again, and the emission counts as a fault.
    /\ IF \A d \in D : status[d] = "absent" THEN UNCHANGED faults ELSE Fault
    /\ status' = [d \in Delivery |->
                    IF d \in D /\ status[d] = "absent" THEN "pending" ELSE status[d]]
    /\ due' = [d \in Delivery |-> due[d] \/ (d \in D /\ status[d] = "absent")]
    /\ ppc' = [ppc EXCEPT ![p] = "ready"]
    /\ todo' = [todo EXCEPT ![p] = D]
    /\ UNCHANGED <<attemptCount, queued, stale, attempts, queue, workerVars,
                   current, marked, receiverVars>>

(* Publication of one delivery, the same in publishDelivery and in the     *)
(* sweeper's loop: set the queue marker, publish, and take the marker back *)
(* when the publish failed.                                                *)

MarkQueued(p, d) ==
    /\ ppc[p] = "ready" /\ d \in todo[p]
    /\ ppc' = [ppc EXCEPT ![p] = "publish"]
    /\ todo' = [todo EXCEPT ![p] = @ \ {d}]
    /\ current' = [current EXCEPT ![p] = d]
    /\ \/ /\ queued' = [queued EXCEPT ![d] = IF status[d] \in Waiting THEN "fresh" ELSE @]
          /\ marked' = [marked EXCEPT ![p] = TRUE]
          /\ UNCHANGED faults
       \/ /\ Fault
          /\ marked' = [marked EXCEPT ![p] = FALSE]
          /\ UNCHANGED queued
    /\ UNCHANGED <<status, attemptCount, due, stale, attempts, queue, workerVars, receiverVars>>

Publish(p) ==
    /\ ppc[p] = "publish"
    /\ queue[current[p]] < MaxCopies
    /\ queue' = [queue EXCEPT ![current[p]] = @ + 1]
    /\ ppc' = [ppc EXCEPT ![p] = "ready"]
    /\ UNCHANGED <<rowVars, workerVars, todo, current, marked, receiverVars, faults>>

PublishFails(p) ==
    /\ ppc[p] = "publish"
    /\ Fault
    /\ ppc' = [ppc EXCEPT ![p] = IF marked[p] THEN "clear" ELSE "ready"]
    /\ UNCHANGED <<rowVars, queue, workerVars, todo, current, marked, receiverVars>>

ClearQueued(p) ==
    /\ ppc[p] = "clear"
    /\ ppc' = [ppc EXCEPT ![p] = "ready"]
    /\ \/ /\ queued' = [queued EXCEPT ![current[p]] = IF status[current[p]] \in Waiting THEN "no" ELSE @]
          /\ UNCHANGED faults
       \/ Fault /\ UNCHANGED queued
    /\ UNCHANGED <<status, attemptCount, due, stale, attempts, queue, workerVars,
                   todo, current, marked, receiverVars>>

FinishPublishing(p) ==
    /\ ppc[p] = "ready" /\ todo[p] = {}
    /\ ppc' = [ppc EXCEPT ![p] = "idle"]
    /\ UNCHANGED <<rowVars, queue, workerVars, todo, current, marked, receiverVars, faults>>

-----------------------------------------------------------------------------
(* Sweeper.RunOnce: recover stale claims, list what may be dispatched,     *)
(* publish the list, and once a day delete history.                        *)

\* Mutant: every claim is recovered, whatever its age.
RecoverEveryClaim ==
    LET recovered == {d \in Delivery : status[d] = "processing"}
    IN  /\ ppc[Sweeper] = "idle"
        /\ ppc' = [ppc EXCEPT ![Sweeper] = "list"]
        /\ status' = [d \in Delivery |-> IF d \in recovered THEN "retrying" ELSE status[d]]
        /\ due' = [d \in Delivery |-> d \in recovered \/ due[d]]
        /\ queued' = [d \in Delivery |-> IF d \in recovered THEN "no" ELSE queued[d]]
        /\ UNCHANGED <<attemptCount, stale, attempts, queue, workerVars,
                       todo, current, marked, receiverVars, faults>>

\* Mutant: an interrupted delivery is given up.
RecoverAsFailed ==
    /\ ppc[Sweeper] = "idle"
    /\ ppc' = [ppc EXCEPT ![Sweeper] = "list"]
    /\ status' = [d \in Delivery |-> IF status[d] = "processing" /\ stale[d] THEN "failed" ELSE status[d]]
    /\ UNCHANGED <<attemptCount, due, queued, stale, attempts, queue, workerVars,
                   todo, current, marked, receiverVars, faults>>

RecoverStale ==
    LET recovered == {d \in Delivery : status[d] = "processing" /\ stale[d]}
    IN  /\ ppc[Sweeper] = "idle"
        /\ ppc' = [ppc EXCEPT ![Sweeper] = "list"]
        /\ status' = [d \in Delivery |-> IF d \in recovered THEN "retrying" ELSE status[d]]
        /\ due' = [d \in Delivery |-> d \in recovered \/ due[d]]
        /\ queued' = [d \in Delivery |-> IF d \in recovered THEN "no" ELSE queued[d]]
        /\ UNCHANGED <<attemptCount, stale, attempts, queue, workerVars,
                       todo, current, marked, receiverVars, faults>>

\* The staged events of deleted sites become deliveries of their own.
RecoverStaged(D) ==
    /\ ppc[Sweeper] = "list"
    /\ D # {} /\ \A d \in D : status[d] = "absent"
    /\ status' = [d \in Delivery |-> IF d \in D THEN "pending" ELSE status[d]]
    /\ due' = [d \in Delivery |-> d \in D \/ due[d]]
    /\ UNCHANGED <<attemptCount, queued, stale, attempts, queue, workerVars, publisherVars,
                   receiverVars, faults>>

\* Mutant: a delivery that was marked once is never listed again.
DispatchableUnmarked(d) == status[d] \in Waiting /\ due[d] /\ queued[d] = "no"

Dispatchable(d) == status[d] \in Waiting /\ due[d] /\ queued[d] # "fresh"

ListDispatchable ==
    /\ ppc[Sweeper] = "list"
    /\ ppc' = [ppc EXCEPT ![Sweeper] = "ready"]
    /\ todo' = [todo EXCEPT ![Sweeper] = {d \in Delivery : Dispatchable(d)}]
    /\ UNCHANGED <<rowVars, queue, workerVars, current, marked, receiverVars, faults>>

\* A statement of the sweep fails and RunOnce returns its error.
SweepFails ==
    /\ ppc[Sweeper] \in {"list", "gc"}
    /\ Fault
    /\ ppc' = [ppc EXCEPT ![Sweeper] = "idle"]
    /\ todo' = [todo EXCEPT ![Sweeper] = {}]
    /\ UNCHANGED <<rowVars, queue, workerVars, current, marked, receiverVars>>

\* The first statement of the daily clean-up deletes the attempts completed
\* before the cutoff, the oldest of each delivery, whatever its status.
DeleteOldAttempts(kept) ==
    /\ ppc[Sweeper] = "ready" /\ todo[Sweeper] = {}
    /\ \A d \in Delivery : kept[d] <= Len(attempts[d])
    /\ attempts' = [d \in Delivery |->
                      SubSeq(attempts[d], Len(attempts[d]) - kept[d] + 1, Len(attempts[d]))]
    /\ ppc' = [ppc EXCEPT ![Sweeper] = "gc"]
    /\ UNCHANGED <<status, attemptCount, due, queued, stale, queue, workerVars,
                   todo, current, marked, receiverVars, faults>>

\* The second one deletes the settled deliveries completed before the cutoff.
\* A delivery completes with its last attempt, so that attempt is gone too.
DeleteOldDeliveries ==
    /\ ppc[Sweeper] = "gc"
    /\ status' = [d \in Delivery |->
                    IF status[d] \in Settled /\ attempts[d] = <<>> THEN "deleted" ELSE status[d]]
    /\ ppc' = [ppc EXCEPT ![Sweeper] = "idle"]
    /\ UNCHANGED <<attemptCount, due, queued, stale, attempts, queue, workerVars,
                   todo, current, marked, receiverVars, faults>>

\* Deleting a site deletes every row with its site_id, whatever its status.
DeleteSiteRows(D) ==
    /\ D # {} /\ \A d \in D : status[d] \notin {"absent", "deleted"}
    /\ status' = [d \in Delivery |-> IF d \in D THEN "deleted" ELSE status[d]]
    /\ attempts' = [d \in Delivery |-> IF d \in D THEN <<>> ELSE attempts[d]]
    /\ UNCHANGED <<attemptCount, due, queued, stale, queue, workerVars, publisherVars,
                   receiverVars, faults>>

-----------------------------------------------------------------------------
(* Worker.handleMessage and Dispatcher.Dispatch.                           *)

\* The handler's own state once handleMessage has returned.
Return(w) ==
    /\ wpc' = [wpc EXCEPT ![w] = "idle"]
    /\ job' = [job EXCEPT ![w] = None]
    /\ claimed' = [claimed EXCEPT ![w] = 0]
    /\ number' = [number EXCEPT ![w] = 0]
    /\ outcome' = [outcome EXCEPT ![w] = "none"]
    /\ held' = [held EXCEPT ![w] = FALSE]

\* The handler's message goes back to the topic, if it has attempts left.
Requeue(w) ==
    \/ queue[job[w]] < MaxCopies /\ queue' = [queue EXCEPT ![job[w]] = @ + 1]
    \/ UNCHANGED queue

\* handleMessage returned an error: go-nsq requeues the message, unless it
\* has timed out and NSQ has taken it back already.
ReturnError(w) ==
    /\ IF held[w] THEN Requeue(w) ELSE UNCHANGED queue
    /\ Return(w)

\* The row exists and the endpoint has a free slot.
Receive(w, d) ==
    /\ wpc[w] = "idle" /\ queue[d] > 0
    /\ status[d] \notin {"absent", "deleted"}
    /\ Busy(EndpointOf[d]) < EndpointLimit
    /\ queue' = [queue EXCEPT ![d] = @ - 1]
    /\ wpc' = [wpc EXCEPT ![w] = "acquired"]
    /\ job' = [job EXCEPT ![w] = d]
    /\ held' = [held EXCEPT ![w] = TRUE]
    /\ UNCHANGED <<rowVars, claimed, number, outcome, publisherVars, receiverVars, faults>>

\* The message leaves the topic without an attempt: its row is gone, or the
\* endpoint was busy and this was the last NSQ attempt. (A message requeued
\* because the endpoint is busy stays where it is.)
DiscardMessage(d) ==
    /\ queue[d] > 0
    /\ \/ status[d] \in {"absent", "deleted"}
       \/ Busy(EndpointOf[d]) >= EndpointLimit
    /\ queue' = [queue EXCEPT ![d] = @ - 1]
    /\ UNCHANGED <<rowVars, workerVars, publisherVars, receiverVars, faults>>

\* Mutants of the claim: granted whatever the status, or before it is due.
ClaimIf(w, granted) ==
    /\ wpc[w] = "acquired"
    /\ IF granted
       THEN /\ status' = [status EXCEPT ![job[w]] = "processing"]
            /\ queued' = [queued EXCEPT ![job[w]] = "no"]
            /\ stale' = [stale EXCEPT ![job[w]] = FALSE]
            /\ wpc' = [wpc EXCEPT ![w] = "claimed"]
            /\ UNCHANGED <<job, claimed, number, outcome, held>>
       ELSE Return(w) /\ UNCHANGED <<status, queued, stale>>
    /\ UNCHANGED <<attemptCount, due, attempts, queue, publisherVars, receiverVars, faults>>
ClaimAnyStatus(w) == ClaimIf(w, status[job[w]] # "deleted")
ClaimBeforeDue(w) == ClaimIf(w, status[job[w]] \in Waiting)

\* The UPDATE of ClaimWebhookDelivery; no row affected ends the handler.
Claim(w) ==
    LET d == job[w]
        granted == status[d] \in Waiting /\ due[d]
    IN  /\ wpc[w] = "acquired"
        /\ IF granted
           THEN /\ status' = [status EXCEPT ![d] = "processing"]
                /\ queued' = [queued EXCEPT ![d] = "no"]
                /\ stale' = [stale EXCEPT ![d] = FALSE]
                /\ wpc' = [wpc EXCEPT ![w] = "claimed"]
                /\ UNCHANGED <<job, claimed, number, outcome, held>>
           ELSE Return(w) /\ UNCHANGED <<status, queued, stale>>
        /\ UNCHANGED <<attemptCount, due, attempts, queue, publisherVars, receiverVars, faults>>

\* The re-read of the claimed row.
LoadClaim(w) ==
    LET d == job[w]
    IN  /\ wpc[w] = "claimed"
        /\ IF status[d] = "processing"
           THEN /\ wpc' = [wpc EXCEPT ![w] = "sending"]
                /\ claimed' = [claimed EXCEPT ![w] = attemptCount[d]]
                /\ UNCHANGED <<job, number, outcome, held>>
           ELSE Return(w)
        /\ UNCHANGED <<rowVars, queue, publisherVars, receiverVars, faults>>

\* The POST: a 2xx answer, another answer, a 2xx answer lost on the way back;
\* or no request at all, to a refused or unreachable destination.
Send(w) ==
    /\ wpc[w] = "sending"
    /\ wpc' = [wpc EXCEPT ![w] = "responded"]
    /\ \E r \in {"ok", "rejected", "lost", "unsent"} :
          /\ outcome' = [outcome EXCEPT ![w] = IF r = "ok" THEN "ok" ELSE "error"]
          /\ accepted' = [accepted EXCEPT ![job[w]] = @ \/ r \in {"ok", "lost"}]
          /\ posts' = [posts EXCEPT ![job[w]] = IF r = "unsent" THEN @ ELSE @ + 1]
    /\ UNCHANGED <<rowVars, queue, job, claimed, number, held, publisherVars, faults>>

\* Mutant: the attempt is recorded under the number of the previous one.
LoadForRecordUncounted(w) ==
    /\ wpc[w] = "responded"
    /\ status[job[w]] # "deleted"
    /\ wpc' = [wpc EXCEPT ![w] = "recording"]
    /\ number' = [number EXCEPT ![w] = attemptCount[job[w]]]
    /\ UNCHANGED <<rowVars, queue, job, claimed, outcome, held, publisherVars, receiverVars, faults>>

\* RecordWebhookDeliveryAttempt reads the row before its transaction starts.
LoadForRecord(w) ==
    /\ wpc[w] = "responded"
    /\ status[job[w]] # "deleted"
    /\ wpc' = [wpc EXCEPT ![w] = "recording"]
    /\ number' = [number EXCEPT ![w] = attemptCount[job[w]] + 1]
    /\ UNCHANGED <<rowVars, queue, job, claimed, outcome, held, publisherVars, receiverVars, faults>>

\* Mutant: one attempt too many.
ResultStatusLate(w) ==
    IF outcome[w] = "ok" THEN "succeeded"
    ELSE IF claimed[w] >= MaxAttempts THEN "failed"
    ELSE "retrying"

\* Mutant: an attempt that may be retried puts the delivery back to pending.
ResultStatusPending(w) ==
    IF outcome[w] = "ok" THEN "succeeded"
    ELSE IF claimed[w] + 1 >= MaxAttempts THEN "failed"
    ELSE "pending"

\* The status finishAttempt decides on, from the AttemptCount of the claim.
ResultStatus(w) ==
    IF outcome[w] = "ok" THEN "succeeded"
    ELSE IF claimed[w] + 1 >= MaxAttempts THEN "failed"
    ELSE "retrying"

\* Mutant: attempt_count is not part of the UPDATE.
RecordAttemptUncounted(w) ==
    LET d == job[w]
    IN  /\ wpc[w] = "recording"
        /\ attempts' = [attempts EXCEPT ![d] =
                          Append(@, [number |-> number[w], status |-> ResultStatus(w)])]
        /\ status' = [status EXCEPT ![d] = IF @ = "deleted" THEN @ ELSE ResultStatus(w)]
        /\ due' = [due EXCEPT ![d] = FALSE]
        /\ queued' = [queued EXCEPT ![d] = "no"]
        /\ Return(w)
        /\ UNCHANGED <<attemptCount, stale, queue, publisherVars, receiverVars, faults>>

\* The transaction: insert the attempt, then update the row by id alone.
RecordAttempt(w) ==
    LET d == job[w]
    IN  /\ wpc[w] = "recording"
        /\ attempts' = [attempts EXCEPT ![d] =
                          Append(@, [number |-> number[w], status |-> ResultStatus(w)])]
        /\ IF status[d] = "deleted"
           THEN UNCHANGED <<status, attemptCount, due, queued>>
           ELSE /\ status' = [status EXCEPT ![d] = ResultStatus(w)]
                /\ attemptCount' = [attemptCount EXCEPT ![d] = number[w]]
                /\ due' = [due EXCEPT ![d] = FALSE]
                /\ queued' = [queued EXCEPT ![d] = "no"]
        /\ Return(w)
        /\ UNCHANGED <<stale, queue, publisherVars, receiverVars, faults>>

\* A statement of the handler fails; a row already claimed stays "processing".
HandlerFails(w) ==
    /\ wpc[w] \in {"acquired", "claimed", "responded", "recording"}
    /\ Fault
    /\ ReturnError(w)
    /\ UNCHANGED <<rowVars, publisherVars, receiverVars>>

\* RecordWebhookDeliveryAttempt finds no row: "webhook delivery not found".
RecordFindsNoRow(w) ==
    /\ wpc[w] = "responded" /\ status[job[w]] = "deleted"
    /\ ReturnError(w)
    /\ UNCHANGED <<rowVars, publisherVars, receiverVars, faults>>

-----------------------------------------------------------------------------
(* Time and failures.                                                      *)

BackoffElapses(d) ==
    /\ status[d] = "retrying" /\ ~due[d]
    /\ due' = [due EXCEPT ![d] = TRUE]
    /\ UNCHANGED <<status, attemptCount, queued, stale, attempts, queue, workerVars,
                   publisherVars, receiverVars, faults>>

QueueLeaseExpires(d) ==
    /\ queued[d] = "fresh"
    /\ queued' = [queued EXCEPT ![d] = "expired"]
    /\ UNCHANGED <<status, attemptCount, due, stale, attempts, queue, workerVars,
                   publisherVars, receiverVars, faults>>

ClaimAges(d) ==
    /\ status[d] = "processing" /\ ~stale[d]
    /\ Timely => \A w \in Worker : ~(Attempting(w) /\ job[w] = d)
    /\ stale' = [stale EXCEPT ![d] = TRUE]
    /\ UNCHANGED <<status, attemptCount, due, queued, attempts, queue, workerVars,
                   publisherVars, receiverVars, faults>>

\* NSQ's message timeout passes while the handler is still running.
MessageTimesOut(w) ==
    /\ held[w]
    /\ Fault
    /\ Requeue(w)
    /\ held' = [held EXCEPT ![w] = FALSE]
    /\ UNCHANGED <<rowVars, wpc, job, claimed, number, outcome, publisherVars, receiverVars>>

\* The process dies and restarts: rows remain, nsqd starts empty.
Crash ==
    /\ Fault
    /\ queue' = [d \in Delivery |-> 0]
    /\ wpc' = [w \in Worker |-> "idle"]
    /\ job' = [w \in Worker |-> None]
    /\ claimed' = [w \in Worker |-> 0]
    /\ number' = [w \in Worker |-> 0]
    /\ outcome' = [w \in Worker |-> "none"]
    /\ held' = [w \in Worker |-> FALSE]
    /\ ppc' = [p \in Publisher |-> "idle"]
    /\ todo' = [p \in Publisher |-> {}]
    /\ current' = [p \in Publisher |-> None]
    /\ marked' = [p \in Publisher |-> FALSE]
    /\ UNCHANGED <<rowVars, receiverVars>>

-----------------------------------------------------------------------------
PublisherStep(p) ==
    \/ \E d \in Delivery : MarkQueued(p, d)
    \/ Publish(p)
    \/ PublishFails(p)
    \/ ClearQueued(p)
    \/ FinishPublishing(p)

SweeperStep ==
    \/ RecoverStale
    \/ \E D \in SUBSET Delivery : RecoverStaged(D)
    \/ ListDispatchable
    \/ SweepFails
    \/ \E kept \in [Delivery -> 0 .. MaxAttempts] : DeleteOldAttempts(kept)
    \/ DeleteOldDeliveries

HandlerStep(w) ==
    \/ Claim(w)
    \/ LoadClaim(w)
    \/ Send(w)
    \/ LoadForRecord(w)
    \/ RecordAttempt(w)
    \/ HandlerFails(w)
    \/ RecordFindsNoRow(w)

TimeStep(d) == BackoffElapses(d) \/ QueueLeaseExpires(d) \/ ClaimAges(d)

Next ==
    \/ \E p \in Emitter, D \in SUBSET Delivery : Enqueue(p, D)
    \/ \E p \in Publisher : PublisherStep(p)
    \/ SweeperStep
    \/ \E D \in SUBSET Delivery : DeleteSiteRows(D)
    \/ \E w \in Worker, d \in Delivery : Receive(w, d)
    \/ \E d \in Delivery : DiscardMessage(d)
    \/ \E w \in Worker : HandlerStep(w)
    \/ \E d \in Delivery : TimeStep(d)
    \/ \E w \in Worker : MessageTimesOut(w)
    \/ Crash

Spec == Init /\ [][Next]_vars

(* The goroutines keep running, the topic keeps handing out messages and   *)
(* the clocks advance; nothing forces an emission, a fault or a clean-up.  *)
Fairness ==
    /\ \A p \in Publisher : WF_vars(PublisherStep(p))
    /\ WF_vars(RecoverStale) /\ WF_vars(ListDispatchable) /\ WF_vars(DeleteOldDeliveries)
    /\ \A w \in Worker : WF_vars(HandlerStep(w))
    /\ \A d \in Delivery : WF_vars(\E w \in Worker : Receive(w, d)) /\ WF_vars(DiscardMessage(d))
    /\ \A d \in Delivery : WF_vars(TimeStep(d))

FairSpec == Spec /\ Fairness
-----------------------------------------------------------------------------
(* Properties.                                                             *)

RowTypes ==
    /\ status \in [Delivery -> {"absent", "deleted"} \union Open \union Settled]
    /\ attemptCount \in [Delivery -> Nat]
    /\ due \in [Delivery -> BOOLEAN]
    /\ queued \in [Delivery -> {"no", "fresh", "expired"}]
    /\ stale \in [Delivery -> BOOLEAN]
    /\ attempts \in [Delivery -> Seq([number : Nat, status : {"retrying"} \union Settled])]

HandlerTypes ==
    /\ wpc \in [Worker -> {"idle", "acquired", "claimed", "sending", "responded", "recording"}]
    /\ job \in [Worker -> Delivery \union {None}]
    /\ claimed \in [Worker -> Nat]
    /\ number \in [Worker -> Nat]
    /\ outcome \in [Worker -> {"none", "ok", "error"}]
    /\ held \in [Worker -> BOOLEAN]
    /\ \A w \in Worker : wpc[w] # "idle" => job[w] \in Delivery

PublisherTypes ==
    /\ ppc \in [Publisher -> {"idle", "list", "ready", "publish", "clear", "gc"}]
    /\ todo \in [Publisher -> SUBSET Delivery]
    /\ current \in [Publisher -> Delivery \union {None}]
    /\ marked \in [Publisher -> BOOLEAN]
    /\ \A p \in Publisher : ppc[p] \in {"publish", "clear"} => current[p] \in Delivery

ReceiverTypes ==
    /\ accepted \in [Delivery -> BOOLEAN]
    /\ posts \in [Delivery -> Nat]

(* Every variable has its type; a handler at work and a publisher in the     *)
(* middle of a publication have a delivery.                                  *)
TypeOK ==
    /\ RowTypes /\ HandlerTypes /\ PublisherTypes /\ ReceiverTypes
    /\ queue \in [Delivery -> Nat]
    /\ faults \in 0 .. MaxFaults

(* The claim is exclusive: two handlers are never in an attempt at the same *)
(* delivery, whatever duplicates the topic and the sweeper hand out.        *)
ClaimExclusive ==
    \A w1, w2 \in Worker :
        Attempting(w1) /\ Attempting(w2) /\ job[w1] = job[w2] => w1 = w2

(* The attempts table of a delivery that still has a row is the end of its  *)
(* history: numbered without gap or repetition up to attempt_count, every    *)
(* one but the last a retry and the last one the status the row now has. A   *)
(* duplicate, a recovery or the daily clean-up never makes it otherwise.     *)
AttemptLogFaithful ==
    \A d \in Delivery : status[d] # "deleted" =>
        \A i \in 1 .. Len(attempts[d]) :
            /\ attempts[d][i].number = attemptCount[d] - Len(attempts[d]) + i
            /\ attempts[d][i].status \in Settled =>
                  i = Len(attempts[d]) /\ status[d] = attempts[d][i].status
            /\ status[d] \in Settled /\ i = Len(attempts[d]) => attempts[d][i].status = status[d]

(* A delivery is given up only after MaxAttempts recorded attempts, and it  *)
(* is reported as succeeded only if the receiver has answered 2xx.          *)
SettledForAReason ==
    \A d \in Delivery :
        /\ status[d] = "failed" => attemptCount[d] = MaxAttempts
        /\ status[d] = "succeeded" => accepted[d] /\ attemptCount[d] \in 1 .. MaxAttempts

\* The handler has made its request and the row does not count it yet.
Uncounted(d) == Cardinality({w \in Worker : wpc[w] \in {"responded", "recording"} /\ job[w] = d})

(* A request the row does not count is one a failure cut short: the receiver *)
(* is sent at most attempt_count requests, one for the attempt in progress   *)
(* and one for each fault, as long as the delivery has a row.                *)
RequestsAccountedFor ==
    \A d \in Delivery : status[d] # "deleted" => posts[d] <= attemptCount[d] + Uncounted(d) + faults

(* Once a delivery has succeeded or failed nothing changes its status again, *)
(* except that the row is deleted.                                           *)
SettledIsFinal ==
    [][\A d \in Delivery : status[d] \in Settled => status'[d] \in {status[d], "deleted"}]_vars

(* The receiver is never sent a request before the backoff of the previous  *)
(* attempt has elapsed, however many messages for the delivery are left.     *)
BackoffRespected ==
    [][\A d \in Delivery : posts'[d] # posts[d] /\ status[d] # "deleted" => due[d]]_vars

(* Every delivery that was persisted is settled in the end, or deleted with  *)
(* its site: lost messages, failed publishes and crashes only delay it.      *)
EveryDeliverySettles ==
    \A d \in Delivery : status[d] \in Open ~> status[d] \notin Open

(* What a caller of EmitBatch may rely on, as an abstract specification.     *)
PromiseOf(d) ==
    CASE status[d] = "absent" -> "none"
      [] status[d] \in Open -> "owed"
      [] status[d] = "succeeded" -> "kept"
      [] status[d] = "failed" -> "broken"
      [] OTHER -> "forgotten"

Promise == INSTANCE DeliveryPromise WITH
    promise <- [d \in Delivery |-> PromiseOf(d)], tries <- attemptCount, received <- accepted

(* The implementation keeps the promise.                                     *)
KeepsPromise == Promise!Spec
=============================================================================
