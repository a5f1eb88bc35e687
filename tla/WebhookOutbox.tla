---------------------------- MODULE WebhookOutbox ----------------------------
(***************************************************************************)
(* How outbound webhook events come to be rows of webhook_events and       *)
(* webhook_deliveries, for one site: goroutines that emit events           *)
(* (Store.EnqueueWebhookEvents), requests that delete the site and         *)
(* announce it (Store.DeleteSiteWithWebhookEvent), the sweeper's repair of *)
(* interrupted deletions, and the configuration they all read: webhooks    *)
(* are created, switched, deleted and given new secrets meanwhile.         *)
(*                                                                         *)
(* A deletion takes several transactions: its announcement waits in the    *)
(* table site_deletion_webhook_outbox until the site's row is gone.        *)
(*                                                                         *)
(* Simplifications:                                                        *)
(*  - A webhook is "on" when it is enabled and subscribed to every event   *)
(*    type emitted here, "off" when it is not; a secret is its version.    *)
(*  - What the dispatcher does with a delivery is in WebhookDelivery; here *)
(*    it is pending (or retrying), processing or settled.                  *)
(*  - All outbox rows of a deletion are written, read and deleted by       *)
(*    statements on its event id, so they are one value, outbox[d].        *)
(*  - An outbox row turns 24 hours old only after its request has ended.   *)
(*  - The retention of old events is left to WebhookDelivery.              *)
(*  - The messages of an ingest batch carry ids, so a batch keeps its events *)
(*    when it is redelivered. Without an id (see IngestPipeline) each       *)
(*    attempt has events of its own, and is an emitter of its own here.     *)
(*  - Failed statements, redeliveries and crashes share MaxFaults.         *)
(***************************************************************************)
EXTENDS Naturals

CONSTANTS
    Webhook,        \* webhook ids, of the instance and of the site
    SiteWebhook,    \* those with the site's site_id
    Event,          \* ids of the events emitted for the site
    Deletion,       \* requests to delete the site, each with its event id
    Emitter,        \* goroutines that emit events
    Ingest,         \* those that run an ingest batch, which NSQ redelivers
    Batch,          \* the events each emitter emits together
    Sweeper,        \* the goroutine that runs Sweeper.RunOnce
    None,           \* no deletion
    MaxRotations,   \* bound on the rotations of one secret
    MaxFaults       \* bound on failures and crashes in a behaviour

ASSUME OutboxAssumption ==
    /\ SiteWebhook \subseteq Webhook
    /\ Ingest \subseteq Emitter
    /\ Event \intersect Deletion = {}
    /\ Emitter \intersect Deletion = {}
    /\ Batch \in [Emitter -> SUBSET Event]
    /\ Sweeper \notin Deletion
    /\ None \notin Deletion
    /\ MaxRotations \in Nat
    /\ MaxFaults \in Nat

VARIABLES
    \* sites and webhooks: whether the site's row exists, the configuration
    \* and the secret of each webhook
    site, config, secret,
    \* webhook_events, and the columns status and signing_secret of
    \* webhook_deliveries
    events, status, signed,
    \* site_deletion_webhook_outbox: the staged deliveries of each deletion,
    \* and the deletions whose rows are older than a day
    outbox, aged,
    \* per emitter: program counter, the events it did not find stored, those
    \* whose subscribers it has yet to read, and the subscribers it read
    epc, missing, unread, subs,
    \* per deletion: program counter and the subscribers it read
    dpc, captured,
    \* the staged deliveries read by a deletion or by the sweeper; the sweep's
    \* program counter, its list, and the deletion it is at
    loaded, spc, todo, current,
    \* ghost: the webhook's secret at the time its delivery was stored, the
    \* deletions that removed the site's row, and the faults so far
    keyAtStore, removers, faults

configVars == <<site, config, secret>>
rowVars == <<events, status, signed, keyAtStore>>
stageVars == <<outbox, aged>>
emitterVars == <<epc, missing, unread, subs>>
deletionVars == <<dpc, captured, removers>>
sweepVars == <<spc, todo, current>>
vars == <<configVars, rowVars, stageVars, emitterVars, deletionVars, loaded, sweepVars, faults>>

Key == 0 .. MaxRotations

\* Deliveries of an event, told apart by the goroutine that made up their ids,
\* and the deliveries a deletion stages.
EventDelivery == [cause : Event, hook : Webhook, by : Emitter]
FinalDelivery == {[cause |-> d, hook |-> w, by |-> d] : d \in Deletion, w \in Webhook}
DeliveryId == EventDelivery \union FinalDelivery

Final(d, w) == [cause |-> d, hook |-> w, by |-> d]

\* Subscribers with the secret each had when it was read.
Snapshot == UNION {[H -> Key] : H \in SUBSET Webhook}
Nobody == [w \in {} |-> 0]

Exists(w) == config[w] \in {"on", "off"}
Subscribers == [w \in {v \in Webhook : config[v] = "on"} |-> secret[w]]
Stored(i) == status[i] # "absent"
Open(i) == status[i] \in {"pending", "processing"}

Fault == faults < MaxFaults /\ faults' = faults + 1

Init ==
    /\ site = TRUE
    /\ config \in [Webhook -> {"none", "on"}]
    /\ secret = [w \in Webhook |-> 0]
    /\ events = {}
    /\ status = [i \in DeliveryId |-> "absent"]
    /\ signed = [i \in DeliveryId |-> 0]
    /\ outbox = [d \in Deletion |-> Nobody]
    /\ aged = {}
    /\ epc = [p \in Emitter |-> "received"]
    /\ missing = [p \in Emitter |-> {}]
    /\ unread = [p \in Emitter |-> {}]
    /\ subs = [p \in Emitter |-> [e \in Event |-> Nobody]]
    /\ dpc = [d \in Deletion |-> "idle"]
    /\ captured = [d \in Deletion |-> Nobody]
    /\ loaded = [c \in Deletion \union {Sweeper} |-> Nobody]
    /\ spc = "idle"
    /\ todo = {}
    /\ current = None
    /\ keyAtStore = [i \in DeliveryId |-> 0]
    /\ removers = {}
    /\ faults = 0

\* Mutant: an event that is there already is skipped, its deliveries are not.
StoreEventsOrIgnore(new, keys) ==
    /\ events' = events \union new
    /\ status' = [i \in DeliveryId |-> IF i \in DOMAIN keys THEN "pending" ELSE status[i]]
    /\ signed' = [i \in DeliveryId |-> IF i \in DOMAIN keys THEN keys[i] ELSE signed[i]]
    /\ keyAtStore' = [i \in DeliveryId |->
           IF i \in DOMAIN keys THEN secret[i.hook] ELSE keyAtStore[i]]

\* The INSERTs of one transaction into webhook_events and webhook_deliveries.
\* The primary keys make it fail when the event or a delivery is there.
StoreEvents(new, keys) ==
    /\ new \intersect events = {}
    /\ \A i \in DOMAIN keys : ~Stored(i)
    /\ events' = events \union new
    /\ status' = [i \in DeliveryId |-> IF i \in DOMAIN keys THEN "pending" ELSE status[i]]
    /\ signed' = [i \in DeliveryId |-> IF i \in DOMAIN keys THEN keys[i] ELSE signed[i]]
    /\ keyAtStore' = [i \in DeliveryId |->
           IF i \in DOMAIN keys THEN secret[i.hook] ELSE keyAtStore[i]]

-----------------------------------------------------------------------------
(* Emission: which events are stored already, the subscribers of each of   *)
(* the others, then one transaction for the batch.                         *)

\* Mutant: a batch with one event stored is taken to be stored.
LookUpWholeBatch(p) ==
    LET found == IF Batch[p] \intersect events = {} THEN Batch[p] ELSE {}
    IN /\ epc[p] = "received"
       /\ epc' = [epc EXCEPT ![p] = "reading"]
       /\ missing' = [missing EXCEPT ![p] = found]
       /\ unread' = [unread EXCEPT ![p] = found]
       /\ subs' = [subs EXCEPT ![p] = [e \in Event |-> Nobody]]
       /\ UNCHANGED <<configVars, rowVars, stageVars, deletionVars, loaded, sweepVars, faults>>

LookUp(p) ==
    /\ epc[p] = "received"
    /\ epc' = [epc EXCEPT ![p] = "reading"]
    /\ missing' = [missing EXCEPT ![p] = Batch[p] \ events]
    /\ unread' = [unread EXCEPT ![p] = Batch[p] \ events]
    /\ subs' = [subs EXCEPT ![p] = [e \in Event |-> Nobody]]
    /\ UNCHANGED <<configVars, rowVars, stageVars, deletionVars, loaded, sweepVars, faults>>

ReadSubscribers(p, e) ==
    /\ epc[p] = "reading"
    /\ e \in unread[p]
    /\ subs' = [subs EXCEPT ![p][e] = Subscribers]
    /\ unread' = [unread EXCEPT ![p] = @ \ {e}]
    /\ UNCHANGED <<epc, missing, configVars, rowVars, stageVars, deletionVars, loaded, sweepVars, faults>>

\* An event without subscribers is not stored.
Prepared(p) == {e \in missing[p] : DOMAIN subs[p][e] # {}}
PreparedDeliveries(p) ==
    {i \in EventDelivery : i.by = p /\ i.cause \in Prepared(p) /\ i.hook \in DOMAIN subs[p][i.cause]}

ReadyToStore(p) == epc[p] = "reading" /\ unread[p] = {}

InsertEvents(p) ==
    /\ ReadyToStore(p)
    /\ StoreEvents(Prepared(p), [i \in PreparedDeliveries(p) |-> subs[p][i.cause][i.hook]])
    /\ epc' = [epc EXCEPT ![p] = "acked"]
    /\ UNCHANGED <<missing, unread, subs, configVars, stageVars, deletionVars, loaded, sweepVars, faults>>

\* An ingest batch whose emission failed is requeued; the handlers of other
\* requests log "webhook emission was deferred" and go on.
AfterFailedEmission(p) == IF p \in Ingest THEN "received" ELSE "deferred"

\* Another goroutine has stored one of the events since the look-up.
InsertConflicts(p) ==
    /\ ReadyToStore(p)
    /\ Prepared(p) \intersect events # {}
    /\ epc' = [epc EXCEPT ![p] = AfterFailedEmission(p)]
    /\ UNCHANGED <<missing, unread, subs, configVars, rowVars, stageVars, deletionVars, loaded, sweepVars, faults>>

EmissionFails(p) ==
    /\ epc[p] = "reading"
    /\ epc' = [epc EXCEPT ![p] = AfterFailedEmission(p)]
    /\ Fault
    /\ UNCHANGED <<missing, unread, subs, configVars, rowVars, stageVars, deletionVars, loaded, sweepVars>>

\* NSQ redelivers the hits of a batch whose handlers were too slow to finish
\* their messages.
Redeliver(p) ==
    /\ p \in Ingest
    /\ epc[p] = "acked"
    /\ epc' = [epc EXCEPT ![p] = "received"]
    /\ Fault
    /\ UNCHANGED <<missing, unread, subs, configVars, rowVars, stageVars, deletionVars, loaded, sweepVars>>

\* NSQ gives the messages of a batch up after five attempts.
Discard(p) ==
    /\ p \in Ingest
    /\ epc[p] = "received"
    /\ epc' = [epc EXCEPT ![p] = "lost"]
    /\ Fault
    /\ UNCHANGED <<missing, unread, subs, configVars, rowVars, stageVars, deletionVars, loaded, sweepVars>>

-----------------------------------------------------------------------------
(* Deletion of the site, one transaction per action.                       *)

\* The handler and ResolveSiteStore have read the site before; another request
\* may have deleted it since.
ReadDeletionSubscribers(d) ==
    /\ dpc[d] = "idle"
    /\ captured' = [captured EXCEPT ![d] = Subscribers]
    /\ dpc' = [dpc EXCEPT ![d] = IF DOMAIN Subscribers = {} THEN "deleting" ELSE "prepared"]
    /\ UNCHANGED <<removers, configVars, rowVars, stageVars, emitterVars, loaded, sweepVars, faults>>

Stage(d) ==
    /\ dpc[d] = "prepared"
    /\ outbox' = [outbox EXCEPT ![d] = captured[d]]
    /\ dpc' = [dpc EXCEPT ![d] = "deleting"]
    /\ UNCHANGED <<captured, removers, aged, configVars, rowVars, emitterVars, loaded, sweepVars, faults>>

\* Every row with the site's site_id goes: its webhooks, its events and their
\* deliveries. The rows of a deletion event have no site_id.
DeleteSiteData(d) ==
    /\ dpc[d] = "deleting"
    /\ dpc' = [dpc EXCEPT ![d] = "stripped"]
    /\ config' = [w \in Webhook |-> IF w \in SiteWebhook /\ Exists(w) THEN "deleted" ELSE config[w]]
    /\ events' = events \ Event
    /\ status' = [i \in DeliveryId |-> IF i.cause \in Event THEN "absent" ELSE status[i]]
    /\ UNCHANGED <<captured, removers, site, secret, signed, keyAtStore, stageVars, emitterVars, loaded, sweepVars, faults>>

\* A webhook created for the site meanwhile still references its row.
Referenced == site /\ \E w \in SiteWebhook : Exists(w)

DeleteSiteRow(d) ==
    /\ dpc[d] = "stripped"
    /\ ~Referenced
    /\ site' = FALSE
    /\ removers' = removers \union {d}
    /\ dpc' = [dpc EXCEPT ![d] = IF DOMAIN captured[d] = {} THEN "done" ELSE "removed"]
    /\ UNCHANGED <<captured, config, secret, rowVars, stageVars, emitterVars, loaded, sweepVars, faults>>

\* Mutant: a failed deletion is left as if it were staged for a retry.
AfterFailedDeletionStaged(d) == "staged"

AfterFailedDeletion(d) == IF DOMAIN captured[d] = {} THEN "done" ELSE "cancelling"

DeleteSiteRowRefused(d) ==
    /\ dpc[d] = "stripped"
    /\ Referenced
    /\ dpc' = [dpc EXCEPT ![d] = AfterFailedDeletion(d)]
    /\ UNCHANGED <<captured, removers, configVars, rowVars, stageVars, emitterVars, loaded, sweepVars, faults>>

DeletionFails(d) ==
    /\ \/ /\ dpc[d] = "prepared"
          /\ dpc' = [dpc EXCEPT ![d] = "done"]
       \/ /\ dpc[d] \in {"deleting", "stripped"}
          /\ dpc' = [dpc EXCEPT ![d] = AfterFailedDeletion(d)]
    /\ Fault
    /\ UNCHANGED <<captured, removers, configVars, rowVars, stageVars, emitterVars, loaded, sweepVars>>

CancelStaged(d) ==
    /\ dpc[d] = "cancelling"
    /\ outbox' = [outbox EXCEPT ![d] = Nobody]
    /\ dpc' = [dpc EXCEPT ![d] = "done"]
    /\ UNCHANGED <<captured, removers, aged, configVars, rowVars, emitterVars, loaded, sweepVars, faults>>

\* The cancellation runs on the request's context, and its error is dropped.
CancelFails(d) ==
    /\ dpc[d] = "cancelling"
    /\ dpc' = [dpc EXCEPT ![d] = "done"]
    /\ Fault
    /\ UNCHANGED <<captured, removers, configVars, rowVars, stageVars, emitterVars, loaded, sweepVars>>

-----------------------------------------------------------------------------
(* CommitStagedSiteDeletionWebhookEvent, called by the deletion and by the *)
(* sweeper: a read, then a transaction that moves the rows.                *)

Materialise(c, d) ==
    /\ StoreEvents({d}, [i \in {Final(d, w) : w \in DOMAIN loaded[c]} |-> loaded[c][i.hook]])
    /\ outbox' = [outbox EXCEPT ![d] = Nobody]
    /\ loaded' = [loaded EXCEPT ![c] = Nobody]

LoadStaged(d) ==
    /\ dpc[d] = "removed"
    /\ loaded' = [loaded EXCEPT ![d] = outbox[d]]
    /\ dpc' = [dpc EXCEPT ![d] = IF DOMAIN outbox[d] = {} THEN "done" ELSE "loaded"]
    /\ UNCHANGED <<captured, removers, configVars, rowVars, stageVars, emitterVars, sweepVars, faults>>

CommitStaged(d) ==
    /\ dpc[d] = "loaded"
    /\ Materialise(d, d)
    /\ dpc' = [dpc EXCEPT ![d] = "done"]
    /\ UNCHANGED <<captured, removers, aged, configVars, emitterVars, sweepVars, faults>>

\* The sweeper has stored the event since the read, or a statement fails: the
\* materialisation is "deferred", and the request succeeds.
CommitDeferred(d) ==
    /\ \/ dpc[d] = "loaded" /\ d \in events /\ UNCHANGED faults
       \/ dpc[d] \in {"removed", "loaded"} /\ Fault
    /\ loaded' = [loaded EXCEPT ![d] = Nobody]
    /\ dpc' = [dpc EXCEPT ![d] = "done"]
    /\ UNCHANGED <<captured, removers, configVars, rowVars, stageVars, emitterVars, sweepVars>>

-----------------------------------------------------------------------------
(* The sweeper: Sweeper.RunOnce calls                                      *)
(* RecoverStagedSiteDeletionWebhookEvents and then                         *)
(* DeleteAbandonedStagedSiteDeletionWebhookEvents.                         *)

\* Mutants: the sweeper does not ask whether the site is still there.
RecoverableAnySite == {d \in Deletion : DOMAIN outbox[d] # {}}
AbandonedByAge == aged

Recoverable == {d \in Deletion : DOMAIN outbox[d] # {} /\ ~site}
Abandoned == {d \in aged : site}

ListRecoverable ==
    /\ spc = "idle"
    /\ spc' = "sweeping"
    /\ todo' = Recoverable
    /\ UNCHANGED <<current, configVars, rowVars, stageVars, emitterVars, deletionVars, loaded, faults>>

SweepLoad(d) ==
    /\ spc = "sweeping"
    /\ current = None
    /\ d \in todo
    /\ todo' = todo \ {d}
    /\ loaded' = [loaded EXCEPT ![Sweeper] = outbox[d]]
    /\ current' = IF DOMAIN outbox[d] = {} THEN None ELSE d
    /\ UNCHANGED <<spc, configVars, rowVars, stageVars, emitterVars, deletionVars, faults>>

SweepCommit(d) ==
    /\ current = d
    /\ Materialise(Sweeper, d)
    /\ current' = None
    /\ UNCHANGED <<spc, todo, aged, configVars, emitterVars, deletionVars, faults>>

\* An error ends the sweep.
SweepFails ==
    /\ spc = "sweeping"
    /\ \/ current \in events /\ UNCHANGED faults
       \/ Fault
    /\ spc' = "idle"
    /\ todo' = {}
    /\ current' = None
    /\ loaded' = [loaded EXCEPT ![Sweeper] = Nobody]
    /\ UNCHANGED <<configVars, rowVars, stageVars, emitterVars, deletionVars>>

DeleteAbandoned ==
    /\ spc = "sweeping"
    /\ current = None
    /\ todo = {}
    /\ outbox' = [d \in Deletion |-> IF d \in Abandoned THEN Nobody ELSE outbox[d]]
    /\ spc' = "idle"
    /\ UNCHANGED <<todo, current, aged, configVars, rowVars, emitterVars, deletionVars, loaded, faults>>

\* Time: the rows of an ended request pass 24 hours.
Age(d) ==
    /\ dpc[d] = "done"
    /\ DOMAIN outbox[d] # {}
    /\ d \notin aged
    /\ aged' = aged \union {d}
    /\ UNCHANGED <<outbox, configVars, rowVars, emitterVars, deletionVars, loaded, sweepVars, faults>>

-----------------------------------------------------------------------------
(* Configuration, each change one transaction.                             *)

configUnchanged == UNCHANGED <<stageVars, emitterVars, deletionVars, loaded, sweepVars, faults>>

CreateWebhook(w) ==
    /\ config[w] = "none"
    /\ w \in SiteWebhook => site
    /\ config' = [config EXCEPT ![w] = "on"]
    /\ UNCHANGED <<site, secret, rowVars>>
    /\ configUnchanged

UpdateWebhook(w) ==
    /\ Exists(w)
    /\ config' = [config EXCEPT ![w] = IF @ = "on" THEN "off" ELSE "on"]
    /\ UNCHANGED <<site, secret, rowVars>>
    /\ configUnchanged

\* Deliveries keep their copy of the endpoint.
DeleteWebhook(w) ==
    /\ Exists(w)
    /\ config' = [config EXCEPT ![w] = "deleted"]
    /\ UNCHANGED <<site, secret, rowVars>>
    /\ configUnchanged

\* Mutant: rotation leaves out the deliveries being attempted.
OpenOfPending(w) == {i \in DeliveryId : i.hook = w /\ status[i] = "pending"}

\* Rotation also gives the new secret to the open deliveries of the webhook.
OpenOf(w) == {i \in DeliveryId : i.hook = w /\ Open(i)}

RotateSecret(w) ==
    /\ Exists(w)
    /\ secret[w] < MaxRotations
    /\ secret' = [secret EXCEPT ![w] = @ + 1]
    /\ signed' = [i \in DeliveryId |-> IF i \in OpenOf(w) THEN secret[w] + 1 ELSE signed[i]]
    /\ UNCHANGED <<site, config, events, status, keyAtStore>>
    /\ configUnchanged

-----------------------------------------------------------------------------
(* The dispatcher: a claim, and the record of an attempt.                  *)

Claim(i) ==
    /\ status[i] = "pending"
    /\ status' = [status EXCEPT ![i] = "processing"]
    /\ UNCHANGED <<events, signed, keyAtStore, configVars, stageVars, emitterVars, deletionVars, loaded, sweepVars, faults>>

RecordAttempt(i) ==
    /\ status[i] = "processing"
    /\ status' \in {[status EXCEPT ![i] = s] : s \in {"pending", "settled"}}
    /\ UNCHANGED <<events, signed, keyAtStore, configVars, stageVars, emitterVars, deletionVars, loaded, sweepVars, faults>>

\* The process restarts: requests and sweeps end where they are, and the hits
\* waiting in NSQ's temporary directory are gone.
Crash ==
    /\ Fault
    /\ epc' = [p \in Emitter |-> IF epc[p] \in {"received", "reading"} THEN "lost" ELSE epc[p]]
    /\ dpc' = [d \in Deletion |-> IF dpc[d] = "idle" THEN "idle" ELSE "done"]
    /\ loaded' = [c \in Deletion \union {Sweeper} |-> Nobody]
    /\ spc' = "idle"
    /\ todo' = {}
    /\ current' = None
    /\ UNCHANGED <<missing, unread, subs, captured, removers, configVars, rowVars, stageVars>>

-----------------------------------------------------------------------------

EmitterStep(p) ==
    \/ LookUp(p)
    \/ \E e \in Event : ReadSubscribers(p, e)
    \/ InsertEvents(p)
    \/ InsertConflicts(p)

DeletionStep(d) ==
    \/ Stage(d)
    \/ DeleteSiteData(d)
    \/ DeleteSiteRow(d)
    \/ DeleteSiteRowRefused(d)
    \/ CancelStaged(d)
    \/ LoadStaged(d)
    \/ CommitStaged(d)
    \/ CommitDeferred(d)

SweepStep ==
    \/ ListRecoverable
    \/ \E d \in Deletion : SweepLoad(d) \/ SweepCommit(d)
    \/ SweepFails
    \/ DeleteAbandoned

Configure(w) ==
    \/ CreateWebhook(w)
    \/ UpdateWebhook(w)
    \/ DeleteWebhook(w)
    \/ RotateSecret(w)

Next ==
    \/ \E p \in Emitter :
          EmitterStep(p) \/ EmissionFails(p) \/ Redeliver(p) \/ Discard(p)
    \/ \E d \in Deletion :
          \/ ReadDeletionSubscribers(d)
          \/ DeletionStep(d)
          \/ DeletionFails(d)
          \/ CancelFails(d)
          \/ Age(d)
    \/ SweepStep
    \/ \E w \in Webhook : Configure(w)
    \/ \E i \in DeliveryId : Claim(i) \/ RecordAttempt(i)
    \/ Crash

Spec == Init /\ [][Next]_vars

\* Goroutines run and the sweeper's ticker fires; nobody has to delete the
\* site, change the configuration or fail.
FairSpec ==
    /\ Spec
    /\ \A p \in Emitter : WF_vars(EmitterStep(p))
    /\ \A d \in Deletion : WF_vars(DeletionStep(d))
    /\ WF_vars(SweepStep)

(***************************************************************************)
(* Properties                                                              *)
(***************************************************************************)

ConfigTypes ==
    /\ site \in BOOLEAN
    /\ config \in [Webhook -> {"none", "on", "off", "deleted"}]
    /\ secret \in [Webhook -> Key]

RowTypes ==
    /\ events \subseteq Event \union Deletion
    /\ status \in [DeliveryId -> {"absent", "pending", "processing", "settled"}]
    /\ signed \in [DeliveryId -> Key]
    /\ keyAtStore \in [DeliveryId -> Key]

StageTypes ==
    /\ outbox \in [Deletion -> Snapshot]
    /\ aged \subseteq Deletion

EmitterTypes ==
    /\ epc \in [Emitter -> {"received", "reading", "acked", "deferred", "lost"}]
    /\ missing \in [Emitter -> SUBSET Event]
    /\ unread \in [Emitter -> SUBSET Event]
    /\ subs \in [Emitter -> [Event -> Snapshot]]

DeletionTypes ==
    /\ dpc \in [Deletion -> {"idle", "prepared", "deleting", "stripped", "cancelling",
                             "removed", "loaded", "done"}]
    /\ captured \in [Deletion -> Snapshot]
    /\ removers \subseteq Deletion

SweepTypes ==
    /\ spc \in {"idle", "sweeping"}
    /\ todo \subseteq Deletion
    /\ current \in Deletion \union {None}

\* Every variable keeps its type (the columns, the goroutines' locals).
TypeOK ==
    /\ ConfigTypes
    /\ RowTypes
    /\ StageTypes
    /\ EmitterTypes
    /\ DeletionTypes
    /\ loaded \in [Deletion \union {Sweeper} -> Snapshot]
    /\ SweepTypes
    /\ faults \in 0 .. MaxFaults

\* The final deliveries of a site do not become dispatchable before its row is
\* gone, whoever commits them: the request, the sweeper, or both at once, after
\* any failed or interrupted deletion (DeleteSiteWithWebhookEvent).
AnnouncedAfterDeletion ==
    \A d \in Deletion, w \in Webhook : Stored(Final(d, w)) => ~site

\* Once a request has removed the site's row, each subscriber it read is either
\* staged for the sweeper or has its delivery, whatever fails or stops then;
\* the clean-up of abandoned announcements spares it.
AnnouncementKept ==
    \A d \in removers : \A w \in DOMAIN captured[d] :
        w \in DOMAIN outbox[d] \/ Stored(Final(d, w))

\* A subscriber has at most one delivery of an event, though redelivered ingest
\* batches, and the sweeper and a deletion, insert the same event at once; and
\* no delivery is staged that has been stored (EnqueueWebhookEvents,
\* CommitStagedSiteDeletionWebhookEvent).
OneDeliveryPerEvent ==
    /\ \A i, j \in DeliveryId :
          (Stored(i) /\ Stored(j) /\ i.cause = j.cause /\ i.hook = j.hook) => i = j
    /\ \A d \in Deletion : \A w \in DOMAIN outbox[d] : ~Stored(Final(d, w))

\* The rows of the site have not been deleted under the emitters.
SiteUntouched == \A d \in Deletion : dpc[d] \in {"idle", "prepared", "deleting"}

\* An ingest batch whose messages are finished has each of its events stored,
\* also those of a batch that shares some events with another one, unless
\* nobody was subscribed when it looked (Emitter.EmitBatch).
AcknowledgedIsStored ==
    \A p \in Emitter : (epc[p] = "acked" /\ SiteUntouched) =>
        \A e \in Batch[p] : e \in events \/ (e \in missing[p] /\ DOMAIN subs[p][e] = {})

\* An open delivery has its webhook's current secret once that was rotated
\* after the delivery was stored: a rotation reaches every row that is there,
\* also those being attempted, which may be retried (rotateWebhookSecret).
RotationReachesStored ==
    \A i \in DeliveryId :
        (Open(i) /\ secret[i.hook] # keyAtStore[i]) => signed[i] = secret[i.hook]

\* An announcement staged by the request that removed the site is delivered in
\* the end, also if that request stopped halfway (Sweeper.RunOnce).
AnnouncementDelivered ==
    \A d \in Deletion, w \in Webhook :
        (d \in removers /\ w \in DOMAIN outbox[d]) ~> Stored(Final(d, w))

-----------------------------------------------------------------------------
(* What the documentation says, and the code does not do.                  *)

\* "Pending deliveries will use the new secret": no delivery waiting to be sent
\* carries a secret that has been rotated away.
PendingUseNewSecret ==
    \A i \in DeliveryId : status[i] = "pending" => signed[i] = secret[i.hook]

=============================================================================
