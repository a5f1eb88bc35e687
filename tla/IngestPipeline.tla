--------------------------- MODULE IngestPipeline ---------------------------
(***************************************************************************)
(* How hits (and custom events, which take the same path) get from the     *)
(* HTTP handlers into the analytics stores: the handler publishes to an    *)
(* embedded nsqd, the consumer's handlers (processMessage) hand each       *)
(* message to a batcher goroutine (storeBatcher) and wait for its answer,  *)
(* the batcher persists a batch store by store, and the handler finishes   *)
(* or requeues its message.                                                *)
(*                                                                         *)
(* Simplifications:                                                        *)
(*  - The channel to the batcher has room for twice the number of handlers, *)
(*    each of which has one item at most: a send does not block.           *)
(*  - A batch is what its handlers hold, so channel, pending slice and     *)
(*    flush are read off the handlers' program counters.                   *)
(*  - Message bodies parse: the HTTP handlers marshal them.                *)
(*  - Delays of requeued messages are left out: a message is ready at any   *)
(*    later time.                                                          *)
(*  - EmitBatch is in WebhookOutbox; here it stores the conversions of all *)
(*    rows of a group, or fails.                                           *)
(***************************************************************************)
EXTENDS Naturals, FiniteSets

CONSTANTS
    Message,      \* the messages of a topic, one per hit
    Identified,   \* those whose body has an id
    Store,        \* analytics stores, one per tenant
    StoreOf,      \* the store of each message's site
    Handler,      \* the consumer's concurrent handlers
    None,         \* no message, no store
    BatchSize,    \* ingestBatchSize
    MaxAttempts,  \* MaxAttempts of the nsq.Config
    MaxFaults     \* bound on failures, timeouts and crashes in a behaviour

ASSUME IngestAssumption ==
    /\ Identified \subseteq Message
    /\ StoreOf \in [Message -> Store]
    /\ None \notin Message \union Store
    /\ BatchSize \in Nat \ {0}
    /\ MaxAttempts \in Nat
    /\ MaxFaults \in Nat

VARIABLES
    \* nsqd: the state of each message, and how often it was handed out
    topic, tries,
    \* per handler: program counter, its message, which handing out it was,
    \* and the batcher's answer
    hpc, message, attempt, answer,
    \* the batcher: program counter, the store being persisted, and the ids
    \* filterMissingIngestRows did not find there
    bpc, group, missing,
    \* per id: rows in its store, how often the realtime broker was told, and
    \* the ids whose conversions are stored
    rows, told, converted,
    \* ghost: faults so far
    faults

topicVars == <<topic, tries>>
handlerVars == <<hpc, message, attempt, answer>>
batcherVars == <<bpc, group, missing>>
storeVars == <<rows, told, converted>>
vars == <<topicVars, handlerVars, batcherVars, storeVars, faults>>

\* A message without an id gets a new one in each attempt to persist it, and
\* it is unmarshalled anew for each.
RowId == Message \X (0 .. MaxAttempts)
IdOf(h) == <<message[h], IF message[h] \in Identified THEN 0 ELSE attempt[h]>>

Pending == {h \in Handler : hpc[h] = "pending"}
Group(s) == {h \in Pending : StoreOf[message[h]] = s}
GroupIds == {IdOf(h) : h \in Group(group)}

Fault == faults < MaxFaults /\ faults' = faults + 1

Init ==
    /\ topic = [m \in Message |-> "unsent"]
    /\ tries = [m \in Message |-> 0]
    /\ hpc = [h \in Handler |-> "idle"]
    /\ message = [h \in Handler |-> None]
    /\ attempt = [h \in Handler |-> 0]
    /\ answer = [h \in Handler |-> "none"]
    /\ bpc = "collecting"
    /\ group = None
    /\ missing = {}
    /\ rows = [r \in RowId |-> 0]
    /\ told = [r \in RowId |-> 0]
    /\ converted = {}
    /\ faults = 0

-----------------------------------------------------------------------------
(* nsqd                                                                    *)

\* The HTTP handler answers 202 once nsqd has the message.
Accept(m) ==
    /\ topic[m] = "unsent"
    /\ topic' = [topic EXCEPT ![m] = "ready"]
    /\ UNCHANGED <<tries, handlerVars, batcherVars, storeVars, faults>>

Receive(h, m) ==
    /\ hpc[h] = "idle"
    /\ topic[m] = "ready"
    /\ tries[m] < MaxAttempts
    /\ topic' = [topic EXCEPT ![m] = "inflight"]
    /\ tries' = [tries EXCEPT ![m] = @ + 1]
    /\ message' = [message EXCEPT ![h] = m]
    /\ attempt' = [attempt EXCEPT ![h] = tries[m] + 1]
    /\ hpc' = [hpc EXCEPT ![h] = "resolving"]
    /\ UNCHANGED <<answer, batcherVars, storeVars, faults>>

\* go-nsq finishes a message after its last attempt, unhandled.
GiveUp(m) ==
    /\ topic[m] = "ready"
    /\ tries[m] = MaxAttempts
    /\ topic' = [topic EXCEPT ![m] = "discarded"]
    /\ UNCHANGED <<tries, handlerVars, batcherVars, storeVars, faults>>

\* The handler that has the message knows nothing of it.
MessageTimesOut(m) ==
    /\ topic[m] = "inflight"
    /\ topic' = [topic EXCEPT ![m] = "ready"]
    /\ Fault
    /\ UNCHANGED <<tries, handlerVars, batcherVars, storeVars>>

\* FIN and REQ have no effect on a message that is not in flight. All handlers
\* share a connection: one of them may respond for another's handing out.
Settle(m, s) == topic' = [topic EXCEPT ![m] = IF @ = "inflight" THEN s ELSE @]

-----------------------------------------------------------------------------
(* processMessage                                                          *)

ResolveFails(h) ==
    /\ hpc[h] = "resolving"
    /\ Settle(message[h], "ready")
    /\ hpc' = [hpc EXCEPT ![h] = "idle"]
    /\ Fault
    /\ UNCHANGED <<tries, message, attempt, answer, batcherVars, storeVars>>

Enqueue(h) ==
    /\ hpc[h] = "resolving"
    /\ hpc' = [hpc EXCEPT ![h] = "queued"]
    /\ UNCHANGED <<topicVars, message, attempt, answer, batcherVars, storeVars, faults>>

\* Mutant: the message is finished whatever the batcher answers.
ResponseFinish(a) == "finished"

Response(a) == IF a = "ok" THEN "finished" ELSE "ready"

Respond(h) ==
    /\ hpc[h] = "answered"
    /\ Settle(message[h], Response(answer[h]))
    /\ hpc' = [hpc EXCEPT ![h] = "idle"]
    /\ answer' = [answer EXCEPT ![h] = "none"]
    /\ UNCHANGED <<tries, message, attempt, batcherVars, storeVars, faults>>

-----------------------------------------------------------------------------
(* storeBatcher: run, and flush, whose persist function does for each      *)
(* store the steps from FilterMissing to Emit.                             *)

Collect(h) ==
    /\ bpc = "collecting"
    /\ hpc[h] = "queued"
    /\ hpc' = [hpc EXCEPT ![h] = "pending"]
    /\ bpc' = IF Cardinality(Pending) + 1 >= BatchSize THEN "flushing" ELSE "collecting"
    /\ UNCHANGED <<topicVars, message, attempt, answer, group, missing, storeVars, faults>>

Tick ==
    /\ bpc = "collecting"
    /\ Pending # {}
    /\ bpc' = "flushing"
    /\ UNCHANGED <<topicVars, handlerVars, group, missing, storeVars, faults>>

\* Mutant: all rows of the batch are taken to be new.
AllNew(ids) == ids

NotStored(ids) == {r \in ids : rows[r] = 0}

\* Two copies of a message in one batch have the same id, and one is left.
FilterMissing(s) ==
    /\ bpc = "flushing"
    /\ Group(s) # {}
    /\ group' = s
    /\ missing' = NotStored({IdOf(h) : h \in Group(s)})
    /\ bpc' = "filtered"
    /\ UNCHANGED <<topicVars, handlerVars, storeVars, faults>>

RowsWith(ids) == [r \in RowId |-> IF r \in ids THEN rows[r] + 1 ELSE rows[r]]

\* Not in one transaction with the read; hits.id is not a key.
Append ==
    /\ bpc = "filtered"
    /\ rows' = RowsWith(missing)
    /\ bpc' = "appended"
    /\ UNCHANGED <<topicVars, handlerVars, group, missing, told, converted, faults>>

\* Activity summary and realtime broker, for new rows. An error of the former
\* is logged.
Announce ==
    /\ bpc = "appended"
    /\ told' = [r \in RowId |-> IF r \in missing THEN told[r] + 1 ELSE told[r]]
    /\ bpc' = "announced"
    /\ UNCHANGED <<topicVars, handlerVars, group, missing, rows, converted, faults>>

\* Mutants: a failed group keeps its handlers waiting; and everybody is
\* answered, whether he waits or not.
AnsweredOnSuccess(a) == IF a = "ok" THEN Group(group) ELSE {}
AnsweredAll(a) == Handler

\* Everyone whose item is in the group gets the same answer.
Answered(a) == Group(group)

AnswerGroup(a) ==
    /\ hpc' = [h \in Handler |-> IF h \in Answered(a) THEN "answered" ELSE hpc[h]]
    /\ answer' = [h \in Handler |-> IF h \in Answered(a) THEN a ELSE answer[h]]
    /\ group' = None
    /\ missing' = {}
    /\ bpc' = IF Pending \ Group(group) = {} THEN "collecting" ELSE "flushing"
    /\ UNCHANGED <<topicVars, message, attempt>>

\* The conversions of all rows, also of those found.
Emit ==
    /\ bpc = "announced"
    /\ converted' = converted \union GroupIds
    /\ AnswerGroup("ok")
    /\ UNCHANGED <<rows, told, faults>>

\* The read fails, or the insert; closing the appender after an error stores
\* the rows it already has, and nobody is told of them.
AppendFails ==
    /\ bpc = "filtered"
    /\ \E some \in SUBSET missing : rows' = RowsWith(some)
    /\ AnswerGroup("error")
    /\ Fault
    /\ UNCHANGED <<told, converted>>

\* Copies of a message in one batch produce one conversion event, twice, and
\* the second INSERT fails, unless the event is stored already. (There is no
\* event if no goal matches.)
Collide == \E g, h \in Group(group) :
    g # h /\ IdOf(g) = IdOf(h) /\ IdOf(g) \notin converted

EmitCollides ==
    /\ bpc = "announced"
    /\ Collide
    /\ AnswerGroup("error")
    /\ UNCHANGED <<storeVars, faults>>

\* Goals cannot be loaded, or the events not be stored.
EmitFails ==
    /\ bpc = "announced"
    /\ AnswerGroup("error")
    /\ Fault
    /\ UNCHANGED storeVars

-----------------------------------------------------------------------------

\* The process restarts; nsqd kept its messages in a temporary directory.
Crash ==
    /\ Fault
    /\ topic' = [m \in Message |-> IF topic[m] \in {"ready", "inflight"} THEN "lost" ELSE topic[m]]
    /\ hpc' = [h \in Handler |-> "idle"]
    /\ answer' = [h \in Handler |-> "none"]
    /\ bpc' = "collecting"
    /\ group' = None
    /\ missing' = {}
    /\ UNCHANGED <<tries, message, attempt, storeVars>>

HandlerStep(h) == Enqueue(h) \/ Respond(h)

BatcherStep ==
    \/ \E h \in Handler : Collect(h)
    \/ Tick
    \/ \E s \in Store : FilterMissing(s)
    \/ Append
    \/ Announce
    \/ Emit
    \/ EmitCollides

HandOut(m) == (\E h \in Handler : Receive(h, m)) \/ GiveUp(m)

Next ==
    \/ \E m \in Message : Accept(m) \/ HandOut(m) \/ MessageTimesOut(m)
    \/ \E h \in Handler : HandlerStep(h) \/ ResolveFails(h)
    \/ BatcherStep
    \/ AppendFails
    \/ EmitFails
    \/ Crash

Spec == Init /\ [][Next]_vars

\* Handlers and the batcher run, its ticker fires, and nsqd hands out what is
\* ready. Nobody has to send a hit or fail.
FairSpec ==
    /\ Spec
    /\ \A m \in Message : WF_vars(HandOut(m))
    /\ \A h \in Handler : WF_vars(HandlerStep(h))
    /\ WF_vars(BatcherStep)

(***************************************************************************)
(* Properties                                                              *)
(***************************************************************************)

TopicTypes ==
    /\ topic \in [Message -> {"unsent", "ready", "inflight", "finished", "discarded", "lost"}]
    /\ tries \in [Message -> 0 .. MaxAttempts]

HandlerTypes ==
    /\ hpc \in [Handler -> {"idle", "resolving", "queued", "pending", "answered"}]
    /\ message \in [Handler -> Message \union {None}]
    /\ attempt \in [Handler -> 0 .. MaxAttempts]
    /\ answer \in [Handler -> {"none", "ok", "error"}]
    /\ \A h \in Handler : hpc[h] # "idle" => message[h] \in Message

BatcherTypes ==
    /\ bpc \in {"collecting", "flushing", "filtered", "appended", "announced"}
    /\ group \in Store \union {None}
    /\ missing \subseteq RowId

StoreTypes ==
    /\ rows \in [RowId -> Nat]
    /\ told \in [RowId -> Nat]
    /\ converted \subseteq RowId

\* Every variable keeps its type (messages, handlers' locals, rows).
TypeOK ==
    /\ TopicTypes
    /\ HandlerTypes
    /\ BatcherTypes
    /\ StoreTypes
    /\ faults \in 0 .. MaxFaults

\* An id has at most one row, and the realtime broker is told of it at most
\* once, after the row: however often a message with an id is handed out,
\* alone, with a copy of itself in one batch, or while a copy is being
\* persisted (CreateHitsBulkIdempotent; the table has no key).
RowsCountedOnce ==
    \A r \in RowId : rows[r] <= 1 /\ told[r] <= rows[r]

\* A finished message has a row whose conversions are stored too, also if it
\* was another attempt that finished it (processMessage).
FinishedIsStored ==
    \A m \in Message : topic[m] = "finished" =>
        \E r \in converted : r[1] = m /\ rows[r] = 1

\* nsqd gets rid of every message it has accepted: no handler waits for an
\* answer for ever, and no message is requeued without end.
MessageSettles ==
    \A m \in Message : (topic[m] = "ready") ~> (topic[m] \in {"finished", "discarded", "lost"})

-----------------------------------------------------------------------------
(* What comments say, and the code does not do.                            *)

\* "so a post-persist outbox failure can safely requeue the original message
\* batch": a message leaves at most one row (CreateHitsBulkIdempotent).
RequeueIsSafe ==
    \A m \in Message : \A i, j \in {r \in RowId : r[1] = m} :
        (rows[i] > 0 /\ rows[j] > 0) => i = j

=============================================================================
