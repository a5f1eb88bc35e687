------------------------- MODULE WebhookOutbox_proofs -------------------------
(***************************************************************************)
(* Proofs about WebhookOutbox, for any webhooks, emitters, batches and     *)
(* deletions, and any number of rotations and faults.                      *)
(***************************************************************************)
EXTENDS WebhookOutbox, TLAPS

Committer == Deletion \union {Sweeper}

-----------------------------------------------------------------------------
(* Snapshots and delivery ids.                                             *)

LEMMA SnapshotParts ==
    ASSUME NEW f \in Snapshot
    PROVE  /\ DOMAIN f \subseteq Webhook
           /\ \A w \in DOMAIN f : f[w] \in Key
<1>1. PICK H \in SUBSET Webhook : f \in [H -> Key]
  BY DEF Snapshot
<1> QED BY <1>1

LEMMA NobodyTyped == Nobody \in Snapshot /\ DOMAIN Nobody = {}
<1>1. Nobody \in [{} -> Key] /\ DOMAIN Nobody = {}
  BY DEF Nobody
<1>2. {} \in SUBSET Webhook
  OBVIOUS
<1> QED BY <1>1, <1>2 DEF Snapshot

LEMMA SubscribersTyped == ConfigTypes => Subscribers \in Snapshot
<1> SUFFICES ASSUME ConfigTypes PROVE Subscribers \in Snapshot
  OBVIOUS
<1> DEFINE H == {v \in Webhook : config[v] = "on"}
<1>1. Subscribers \in [H -> Key]
  BY DEF Subscribers, ConfigTypes
<1>2. H \in SUBSET Webhook
  OBVIOUS
<1> QED BY <1>1, <1>2 DEF Snapshot

LEMMA ZeroIsKey == 0 \in Key
BY OutboxAssumption DEF Key

LEMMA FinalIsDelivery ==
    ASSUME NEW d \in Deletion, NEW w \in Webhook
    PROVE  Final(d, w) \in DeliveryId
BY DEF DeliveryId, FinalDelivery, Final

LEMMA FinalParts ==
    ASSUME NEW d, NEW w
    PROVE  Final(d, w).cause = d /\ Final(d, w).hook = w /\ Final(d, w).by = d
BY DEF Final

\* A delivery is one of an event or one a deletion stages, never both.
LEMMA DeliveryKinds ==
    ASSUME NEW i \in DeliveryId
    PROVE  /\ i.hook \in Webhook
           /\ \/ i.cause \in Event /\ i.by \in Emitter
              \/ i.cause \in Deletion /\ i = Final(i.cause, i.hook)
<1>1. CASE i \in EventDelivery
  BY <1>1 DEF EventDelivery
<1>2. CASE i \in FinalDelivery
  <2>1. PICK d \in Deletion, w \in Webhook : i = [cause |-> d, hook |-> w, by |-> d]
    BY <1>2 DEF FinalDelivery
  <2> QED BY <2>1 DEF Final
<1> QED BY <1>1, <1>2 DEF DeliveryId

\* Two deliveries are the same if cause, webhook and author are.
LEMMA SameDelivery ==
    ASSUME NEW i \in DeliveryId, NEW j \in DeliveryId,
           i.cause = j.cause, i.hook = j.hook, i.by = j.by
    PROVE  i = j
<1>1. i \in [cause : Event, hook : Webhook, by : Emitter] \/ i \in FinalDelivery
  BY DEF DeliveryId, EventDelivery
<1>2. j \in [cause : Event, hook : Webhook, by : Emitter] \/ j \in FinalDelivery
  BY DEF DeliveryId, EventDelivery
<1>3. \A k \in FinalDelivery : k = [cause |-> k.cause, hook |-> k.hook, by |-> k.by]
  BY DEF FinalDelivery
<1>4. \A k \in [cause : Event, hook : Webhook, by : Emitter] :
          k = [cause |-> k.cause, hook |-> k.hook, by |-> k.by]
  OBVIOUS
<1> QED BY <1>1, <1>2, <1>3, <1>4

-----------------------------------------------------------------------------
(* Types.                                                                  *)

LEMMA TypeInit == Init => TypeOK
<1> SUFFICES ASSUME Init PROVE TypeOK
  OBVIOUS
<1>1. ConfigTypes
  BY ZeroIsKey DEF Init, ConfigTypes
<1>2. RowTypes
  BY ZeroIsKey DEF Init, RowTypes
<1>3. StageTypes /\ EmitterTypes
  BY NobodyTyped DEF Init, StageTypes, EmitterTypes
<1>4. DeletionTypes /\ SweepTypes /\ loaded \in [Deletion \union {Sweeper} -> Snapshot]
  BY NobodyTyped DEF Init, DeletionTypes, SweepTypes
<1>5. faults \in 0 .. MaxFaults
  BY OutboxAssumption DEF Init
<1> QED BY <1>1, <1>2, <1>3, <1>4, <1>5 DEF TypeOK

LEMMA ConfigStay == ConfigTypes /\ UNCHANGED configVars => ConfigTypes'
BY DEF ConfigTypes, configVars

LEMMA RowsStay == RowTypes /\ UNCHANGED rowVars => RowTypes'
BY DEF RowTypes, rowVars

LEMMA StageStay == StageTypes /\ UNCHANGED stageVars => StageTypes'
BY DEF StageTypes, stageVars

LEMMA EmittersStay == EmitterTypes /\ UNCHANGED emitterVars => EmitterTypes'
BY DEF EmitterTypes, emitterVars

LEMMA DeletionsStay == DeletionTypes /\ UNCHANGED deletionVars => DeletionTypes'
BY DEF DeletionTypes, deletionVars

LEMMA SweepStays == SweepTypes /\ UNCHANGED sweepVars => SweepTypes'
BY DEF SweepTypes, sweepVars

LEMMA FaultTyped == faults \in 0 .. MaxFaults /\ Fault => faults' \in 0 .. MaxFaults
BY OutboxAssumption DEF Fault

LEMMA StoreEventsTyped ==
    ASSUME RowTypes, ConfigTypes, NEW new \in SUBSET (Event \union Deletion),
           NEW keys, DOMAIN keys \subseteq DeliveryId, \A i \in DOMAIN keys : keys[i] \in Key,
           StoreEvents(new, keys)
    PROVE  RowTypes'
<1>1. events' \subseteq Event \union Deletion
  BY DEF RowTypes, StoreEvents
<1>2. status' \in [DeliveryId -> {"absent", "pending", "processing", "settled"}]
  BY DEF RowTypes, StoreEvents
<1>3. signed' \in [DeliveryId -> Key]
  BY DEF RowTypes, StoreEvents
<1>4. keyAtStore' \in [DeliveryId -> Key]
  <2>1. \A i \in DeliveryId : secret[i.hook] \in Key
    BY DeliveryKinds DEF ConfigTypes
  <2> QED BY <2>1 DEF RowTypes, StoreEvents
<1> QED BY <1>1, <1>2, <1>3, <1>4 DEF RowTypes

LEMMA PreparedTyped ==
    ASSUME EmitterTypes, NEW p \in Emitter
    PROVE  /\ Prepared(p) \subseteq Event
           /\ PreparedDeliveries(p) \subseteq DeliveryId
           /\ \A i \in PreparedDeliveries(p) : subs[p][i.cause][i.hook] \in Key
<1>1. Prepared(p) \subseteq Event
  BY DEF EmitterTypes, Prepared
<1>2. PreparedDeliveries(p) \subseteq DeliveryId
  BY DEF PreparedDeliveries, DeliveryId
<1>3. ASSUME NEW i \in PreparedDeliveries(p)
      PROVE  subs[p][i.cause][i.hook] \in Key
  <2>1. i.cause \in Event /\ i.hook \in DOMAIN subs[p][i.cause]
    BY <1>1 DEF PreparedDeliveries
  <2>2. subs[p][i.cause] \in Snapshot
    BY <2>1 DEF EmitterTypes
  <2> QED BY <2>1, <2>2, SnapshotParts
<1> QED BY <1>1, <1>2, <1>3

LEMMA MaterialiseTyped ==
    ASSUME TypeOK, NEW c \in Committer, NEW d \in Deletion, Materialise(c, d)
    PROVE  /\ RowTypes'
           /\ outbox' \in [Deletion -> Snapshot]
           /\ loaded' \in [Committer -> Snapshot]
<1>1. loaded[c] \in Snapshot
  BY DEF TypeOK, Committer
<1>2. DEFINE keys == [i \in {Final(d, w) : w \in DOMAIN loaded[c]} |-> loaded[c][i.hook]]
<1>3. DOMAIN keys \subseteq DeliveryId
  BY <1>1, SnapshotParts, FinalIsDelivery
<1>4. \A i \in DOMAIN keys : keys[i] \in Key
  BY <1>1, SnapshotParts, FinalParts
<1>5. StoreEvents({d}, keys)
  BY DEF Materialise
<1> HIDE DEF keys
<1>6. RowTypes'
  <2>1. {d} \in SUBSET (Event \union Deletion)
    OBVIOUS
  <2> QED BY <2>1, <1>3, <1>4, <1>5, StoreEventsTyped DEF TypeOK
<1>7. outbox' \in [Deletion -> Snapshot]
  BY NobodyTyped DEF TypeOK, StageTypes, Materialise
<1>8. loaded' \in [Committer -> Snapshot]
  BY NobodyTyped DEF TypeOK, Materialise, Committer
<1> QED BY <1>6, <1>7, <1>8

LEMMA TypeEmitter ==
    ASSUME TypeOK, NEW p \in Emitter, EmitterStep(p)
    PROVE  TypeOK'
<1>1. CASE LookUp(p)
  <2>1. EmitterTypes'
    <3>1. Batch[p] \ events \subseteq Event
      BY OutboxAssumption
    <3> QED BY <1>1, <3>1, NobodyTyped DEF TypeOK, EmitterTypes, LookUp
  <2> QED BY <1>1, <2>1, ConfigStay, RowsStay, StageStay, DeletionsStay, SweepStays
        DEF TypeOK, Committer, LookUp
<1>2. ASSUME NEW e \in Event, ReadSubscribers(p, e)
      PROVE  TypeOK'
  <2>1. EmitterTypes'
    <3>1. Subscribers \in Snapshot
      BY SubscribersTyped DEF TypeOK
    <3> QED BY <1>2, <3>1 DEF TypeOK, EmitterTypes, ReadSubscribers
  <2> QED BY <1>2, <2>1, ConfigStay, RowsStay, StageStay, DeletionsStay, SweepStays
        DEF TypeOK, Committer, ReadSubscribers
<1>3. CASE InsertEvents(p)
  <2>1. RowTypes'
    BY <1>3, PreparedTyped, StoreEventsTyped DEF TypeOK, InsertEvents
  <2>2. EmitterTypes'
    BY <1>3 DEF TypeOK, EmitterTypes, InsertEvents
  <2> QED BY <1>3, <2>1, <2>2, ConfigStay, StageStay, DeletionsStay, SweepStays
        DEF TypeOK, Committer, InsertEvents
<1>4. CASE InsertConflicts(p)
  <2>1. EmitterTypes'
    BY <1>4 DEF TypeOK, EmitterTypes, AfterFailedEmission, InsertConflicts
  <2> QED BY <1>4, <2>1, ConfigStay, RowsStay, StageStay, DeletionsStay, SweepStays
        DEF TypeOK, Committer, InsertConflicts
<1> QED BY <1>1, <1>2, <1>3, <1>4 DEF EmitterStep

LEMMA TypeEmitterFaults ==
    ASSUME TypeOK, NEW p \in Emitter,
           EmissionFails(p) \/ Redeliver(p) \/ Discard(p)
    PROVE  TypeOK'
<1>1. CASE EmissionFails(p)
  <2>1. EmitterTypes'
    BY <1>1 DEF TypeOK, EmitterTypes, AfterFailedEmission, EmissionFails
  <2> QED BY <1>1, <2>1, FaultTyped, ConfigStay, RowsStay, StageStay, DeletionsStay, SweepStays
        DEF TypeOK, Committer, EmissionFails
<1>2. CASE Redeliver(p)
  <2>1. EmitterTypes'
    BY <1>2 DEF TypeOK, EmitterTypes, Redeliver
  <2> QED BY <1>2, <2>1, FaultTyped, ConfigStay, RowsStay, StageStay, DeletionsStay, SweepStays
        DEF TypeOK, Committer, Redeliver
<1>3. CASE Discard(p)
  <2>1. EmitterTypes'
    BY <1>3 DEF TypeOK, EmitterTypes, Discard
  <2> QED BY <1>3, <2>1, FaultTyped, ConfigStay, RowsStay, StageStay, DeletionsStay, SweepStays
        DEF TypeOK, Committer, Discard
<1> QED BY <1>1, <1>2, <1>3

LEMMA TypeDeletion ==
    ASSUME TypeOK, NEW d \in Deletion, DeletionStep(d)
    PROVE  TypeOK'
<1>1. CASE Stage(d)
  <2>1. StageTypes'
    BY <1>1 DEF TypeOK, StageTypes, DeletionTypes, Stage
  <2>2. DeletionTypes'
    BY <1>1 DEF TypeOK, DeletionTypes, Stage
  <2> QED BY <1>1, <2>1, <2>2, ConfigStay, RowsStay, EmittersStay, SweepStays
        DEF TypeOK, Committer, Stage
<1>2. CASE DeleteSiteData(d)
  <2>1. ConfigTypes'
    BY <1>2 DEF TypeOK, ConfigTypes, DeleteSiteData
  <2>2. RowTypes'
    <3>1. events' \subseteq Event \union Deletion
      BY <1>2 DEF TypeOK, RowTypes, DeleteSiteData
    <3>2. status' \in [DeliveryId -> {"absent", "pending", "processing", "settled"}]
      BY <1>2 DEF TypeOK, RowTypes, DeleteSiteData
    <3> QED BY <1>2, <3>1, <3>2 DEF TypeOK, RowTypes, DeleteSiteData
  <2>3. DeletionTypes'
    BY <1>2 DEF TypeOK, DeletionTypes, DeleteSiteData
  <2> QED BY <1>2, <2>1, <2>2, <2>3, StageStay, EmittersStay, SweepStays
        DEF TypeOK, Committer, DeleteSiteData
<1>3. CASE DeleteSiteRow(d)
  <2>1. ConfigTypes'
    BY <1>3 DEF TypeOK, ConfigTypes, DeleteSiteRow
  <2>2. DeletionTypes'
    BY <1>3 DEF TypeOK, DeletionTypes, DeleteSiteRow
  <2> QED BY <1>3, <2>1, <2>2, RowsStay, StageStay, EmittersStay, SweepStays
        DEF TypeOK, Committer, DeleteSiteRow
<1>4. CASE DeleteSiteRowRefused(d)
  <2>1. DeletionTypes'
    BY <1>4 DEF TypeOK, DeletionTypes, AfterFailedDeletion, DeleteSiteRowRefused
  <2> QED BY <1>4, <2>1, ConfigStay, RowsStay, StageStay, EmittersStay, SweepStays
        DEF TypeOK, Committer, DeleteSiteRowRefused
<1>5. CASE CancelStaged(d)
  <2>1. StageTypes'
    BY <1>5, NobodyTyped DEF TypeOK, StageTypes, CancelStaged
  <2>2. DeletionTypes'
    BY <1>5 DEF TypeOK, DeletionTypes, CancelStaged
  <2> QED BY <1>5, <2>1, <2>2, ConfigStay, RowsStay, EmittersStay, SweepStays
        DEF TypeOK, Committer, CancelStaged
<1>6. CASE LoadStaged(d)
  <2>1. DeletionTypes'
    BY <1>6 DEF TypeOK, DeletionTypes, LoadStaged
  <2>2. loaded' \in [Committer -> Snapshot]
    BY <1>6 DEF TypeOK, Committer, StageTypes, LoadStaged
  <2> QED BY <1>6, <2>1, <2>2, ConfigStay, RowsStay, StageStay, EmittersStay, SweepStays
        DEF TypeOK, Committer, LoadStaged
<1>7. CASE CommitStaged(d)
  <2>1. RowTypes'
    BY <1>7, MaterialiseTyped DEF Committer, CommitStaged
  <2>2. StageTypes'
    BY <1>7, MaterialiseTyped DEF TypeOK, StageTypes, Committer, CommitStaged
  <2>3. DeletionTypes'
    BY <1>7 DEF TypeOK, DeletionTypes, CommitStaged
  <2>4. loaded' \in [Committer -> Snapshot]
    BY <1>7, MaterialiseTyped DEF Committer, CommitStaged
  <2> QED BY <1>7, <2>1, <2>2, <2>3, <2>4, ConfigStay, EmittersStay, SweepStays
        DEF TypeOK, Committer, CommitStaged
<1>8. CASE CommitDeferred(d)
  <2>1. DeletionTypes'
    BY <1>8 DEF TypeOK, DeletionTypes, CommitDeferred
  <2>2. loaded' \in [Committer -> Snapshot]
    BY <1>8, NobodyTyped DEF TypeOK, Committer, CommitDeferred
  <2> QED BY <1>8, <2>1, <2>2, FaultTyped, ConfigStay, RowsStay, StageStay, EmittersStay, SweepStays
        DEF TypeOK, Committer, CommitDeferred
<1> QED BY <1>1, <1>2, <1>3, <1>4, <1>5, <1>6, <1>7, <1>8 DEF DeletionStep

LEMMA TypeRequest ==
    ASSUME TypeOK, NEW d \in Deletion,
           \/ ReadDeletionSubscribers(d)
           \/ DeletionFails(d)
           \/ CancelFails(d)
           \/ Age(d)
    PROVE  TypeOK'
<1>1. CASE ReadDeletionSubscribers(d)
  <2>1. DeletionTypes'
    <3>1. Subscribers \in Snapshot
      BY SubscribersTyped DEF TypeOK
    <3> QED BY <1>1, <3>1 DEF TypeOK, DeletionTypes, ReadDeletionSubscribers
  <2> QED BY <1>1, <2>1, ConfigStay, RowsStay, StageStay, EmittersStay, SweepStays
        DEF TypeOK, Committer, ReadDeletionSubscribers
<1>2. CASE DeletionFails(d)
  <2>1. DeletionTypes'
    BY <1>2 DEF TypeOK, DeletionTypes, AfterFailedDeletion, DeletionFails
  <2> QED BY <1>2, <2>1, FaultTyped, ConfigStay, RowsStay, StageStay, EmittersStay, SweepStays
        DEF TypeOK, Committer, DeletionFails
<1>3. CASE CancelFails(d)
  <2>1. DeletionTypes'
    BY <1>3 DEF TypeOK, DeletionTypes, CancelFails
  <2> QED BY <1>3, <2>1, FaultTyped, ConfigStay, RowsStay, StageStay, EmittersStay, SweepStays
        DEF TypeOK, Committer, CancelFails
<1>4. CASE Age(d)
  <2>1. StageTypes'
    BY <1>4 DEF TypeOK, StageTypes, Age
  <2> QED BY <1>4, <2>1, ConfigStay, RowsStay, EmittersStay, DeletionsStay, SweepStays
        DEF TypeOK, Committer, Age
<1> QED BY <1>1, <1>2, <1>3, <1>4

LEMMA TypeSweeper ==
    ASSUME TypeOK, SweepStep
    PROVE  TypeOK'
<1>1. CASE ListRecoverable
  <2>1. SweepTypes'
    BY <1>1 DEF TypeOK, SweepTypes, Recoverable, ListRecoverable
  <2> QED BY <1>1, <2>1, ConfigStay, RowsStay, StageStay, EmittersStay, DeletionsStay
        DEF TypeOK, Committer, ListRecoverable
<1>2. ASSUME NEW d \in Deletion, SweepLoad(d)
      PROVE  TypeOK'
  <2>1. SweepTypes'
    BY <1>2 DEF TypeOK, SweepTypes, SweepLoad
  <2>2. loaded' \in [Committer -> Snapshot]
    BY <1>2 DEF TypeOK, Committer, StageTypes, SweepLoad
  <2> QED BY <1>2, <2>1, <2>2, ConfigStay, RowsStay, StageStay, EmittersStay, DeletionsStay
        DEF TypeOK, Committer, SweepLoad
<1>3. ASSUME NEW d \in Deletion, SweepCommit(d)
      PROVE  TypeOK'
  <2>1. RowTypes'
    BY <1>3, MaterialiseTyped DEF Committer, SweepCommit
  <2>2. StageTypes'
    BY <1>3, MaterialiseTyped DEF TypeOK, StageTypes, Committer, SweepCommit
  <2>3. SweepTypes'
    BY <1>3 DEF TypeOK, SweepTypes, SweepCommit
  <2>4. loaded' \in [Committer -> Snapshot]
    BY <1>3, MaterialiseTyped DEF Committer, SweepCommit
  <2> QED BY <1>3, <2>1, <2>2, <2>3, <2>4, ConfigStay, EmittersStay, DeletionsStay
        DEF TypeOK, Committer, SweepCommit
<1>4. CASE SweepFails
  <2>1. SweepTypes'
    BY <1>4 DEF TypeOK, SweepTypes, SweepFails
  <2>2. loaded' \in [Committer -> Snapshot]
    BY <1>4, NobodyTyped DEF TypeOK, Committer, SweepFails
  <2> QED BY <1>4, <2>1, <2>2, FaultTyped, ConfigStay, RowsStay, StageStay, EmittersStay, DeletionsStay
        DEF TypeOK, Committer, SweepFails
<1>5. CASE DeleteAbandoned
  <2>1. StageTypes'
    BY <1>5, NobodyTyped DEF TypeOK, StageTypes, DeleteAbandoned
  <2>2. SweepTypes'
    BY <1>5 DEF TypeOK, SweepTypes, DeleteAbandoned
  <2> QED BY <1>5, <2>1, <2>2, ConfigStay, RowsStay, EmittersStay, DeletionsStay
        DEF TypeOK, Committer, DeleteAbandoned
<1> QED BY <1>1, <1>2, <1>3, <1>4, <1>5 DEF SweepStep

LEMMA TypeConfigure ==
    ASSUME TypeOK, NEW w \in Webhook, Configure(w)
    PROVE  TypeOK'
<1>1. CASE CreateWebhook(w)
  <2>1. ConfigTypes'
    BY <1>1 DEF TypeOK, ConfigTypes, CreateWebhook
  <2> QED BY <1>1, <2>1, RowsStay, StageStay, EmittersStay, DeletionsStay, SweepStays
        DEF TypeOK, configUnchanged, rowVars, CreateWebhook
<1>2. CASE UpdateWebhook(w)
  <2>1. ConfigTypes'
    BY <1>2 DEF TypeOK, ConfigTypes, UpdateWebhook
  <2> QED BY <1>2, <2>1, RowsStay, StageStay, EmittersStay, DeletionsStay, SweepStays
        DEF TypeOK, configUnchanged, rowVars, UpdateWebhook
<1>3. CASE DeleteWebhook(w)
  <2>1. ConfigTypes'
    BY <1>3 DEF TypeOK, ConfigTypes, DeleteWebhook
  <2> QED BY <1>3, <2>1, RowsStay, StageStay, EmittersStay, DeletionsStay, SweepStays
        DEF TypeOK, configUnchanged, rowVars, DeleteWebhook
<1>4. CASE RotateSecret(w)
  <2>1. ConfigTypes'
    <3>1. secret' \in [Webhook -> Key]
      BY <1>4, OutboxAssumption DEF TypeOK, ConfigTypes, RotateSecret, Key
    <3> QED BY <1>4, <3>1 DEF TypeOK, ConfigTypes, RotateSecret
  <2>2. RowTypes'
    <3>1. secret[w] + 1 \in Key
      BY <1>4, OutboxAssumption DEF TypeOK, ConfigTypes, RotateSecret, Key
    <3> QED BY <1>4, <3>1 DEF TypeOK, RowTypes, RotateSecret
  <2> QED BY <1>4, <2>1, <2>2, StageStay, EmittersStay, DeletionsStay, SweepStays
        DEF TypeOK, configUnchanged, rowVars, RotateSecret
<1> QED BY <1>1, <1>2, <1>3, <1>4 DEF Configure

LEMMA TypeDispatcher ==
    ASSUME TypeOK, NEW i \in DeliveryId, Claim(i) \/ RecordAttempt(i)
    PROVE  TypeOK'
<1>1. CASE Claim(i)
  <2>1. RowTypes'
    BY <1>1 DEF TypeOK, RowTypes, Claim
  <2> QED BY <1>1, <2>1, ConfigStay, StageStay, EmittersStay, DeletionsStay, SweepStays
        DEF TypeOK, Committer, Claim
<1>2. CASE RecordAttempt(i)
  <2>1. RowTypes'
    BY <1>2 DEF TypeOK, RowTypes, RecordAttempt
  <2> QED BY <1>2, <2>1, ConfigStay, StageStay, EmittersStay, DeletionsStay, SweepStays
        DEF TypeOK, Committer, RecordAttempt
<1> QED BY <1>1, <1>2

LEMMA TypeCrash ==
    ASSUME TypeOK, Crash
    PROVE  TypeOK'
<1>1. EmitterTypes'
  BY DEF TypeOK, EmitterTypes, Crash
<1>2. DeletionTypes'
  BY DEF TypeOK, DeletionTypes, Crash
<1>3. SweepTypes' /\ loaded' \in [Committer -> Snapshot]
  BY NobodyTyped DEF TypeOK, SweepTypes, Committer, Crash
<1> QED BY <1>1, <1>2, <1>3, FaultTyped, ConfigStay, RowsStay, StageStay
        DEF TypeOK, Committer, Crash

LEMMA TypeStutter ==
    ASSUME TypeOK, UNCHANGED vars
    PROVE  TypeOK'
BY ConfigStay, RowsStay, StageStay, EmittersStay, DeletionsStay, SweepStays DEF TypeOK, vars

LEMMA TypeStep == TypeOK /\ [Next]_vars => TypeOK'
BY TypeEmitter, TypeEmitterFaults, TypeDeletion, TypeRequest, TypeSweeper, TypeConfigure,
   TypeDispatcher, TypeCrash, TypeStutter
   DEF Next

\* The columns, the goroutines' locals and the counters keep their types.
THEOREM TypeCorrect == Spec => []TypeOK
BY TypeInit, TypeStep, PTL DEF Spec

-----------------------------------------------------------------------------
(* Rotation. Nothing reopens a settled delivery, and a stored one keeps    *)
(* the secret it was stored under, so the property is inductive.           *)

\* The steps that touch stored events and deliveries, or a secret.
LEMMA RowSteps ==
    ASSUME [Next]_vars
    PROVE  \/ UNCHANGED <<rowVars, secret>>
           \/ \E p \in Emitter : InsertEvents(p)
           \/ \E d \in Deletion : CommitStaged(d) \/ SweepCommit(d) \/ DeleteSiteData(d)
           \/ \E w \in Webhook : RotateSecret(w)
           \/ \E i \in DeliveryId : Claim(i) \/ RecordAttempt(i)
<1>1. ASSUME NEW p \in Emitter, EmitterStep(p) \/ EmissionFails(p) \/ Redeliver(p) \/ Discard(p)
      PROVE  UNCHANGED <<rowVars, secret>> \/ InsertEvents(p)
  BY <1>1 DEF EmitterStep, LookUp, ReadSubscribers, InsertConflicts, EmissionFails, Redeliver,
              Discard, configVars
<1>2. ASSUME NEW d \in Deletion,
             \/ ReadDeletionSubscribers(d)
             \/ DeletionStep(d)
             \/ DeletionFails(d)
             \/ CancelFails(d)
             \/ Age(d)
      PROVE  UNCHANGED <<rowVars, secret>> \/ CommitStaged(d) \/ DeleteSiteData(d)
  BY <1>2 DEF DeletionStep, ReadDeletionSubscribers, Stage, DeleteSiteRow, DeleteSiteRowRefused,
              CancelStaged, LoadStaged, CommitDeferred, DeletionFails, CancelFails, Age, configVars
<1>3. ASSUME SweepStep
      PROVE  UNCHANGED <<rowVars, secret>> \/ \E d \in Deletion : SweepCommit(d)
  BY <1>3 DEF SweepStep, ListRecoverable, SweepLoad, SweepFails, DeleteAbandoned, configVars
<1>4. ASSUME NEW w \in Webhook, Configure(w)
      PROVE  UNCHANGED <<rowVars, secret>> \/ RotateSecret(w)
  BY <1>4 DEF Configure, CreateWebhook, UpdateWebhook, DeleteWebhook
<1>5. CASE Crash
  BY <1>5 DEF Crash, configVars
<1>6. CASE UNCHANGED vars
  BY <1>6 DEF vars, configVars
<1> QED BY <1>1, <1>2, <1>3, <1>4, <1>5, <1>6 DEF Next

LEMMA RotationStore ==
    ASSUME TypeOK, RotationReachesStored, NEW new, NEW keys, StoreEvents(new, keys),
           UNCHANGED secret
    PROVE  RotationReachesStored'
<1> SUFFICES ASSUME NEW i \in DeliveryId, Open(i)', (secret[i.hook] # keyAtStore[i])'
             PROVE  (signed[i] = secret[i.hook])'
  BY DEF RotationReachesStored
<1>1. i \notin DOMAIN keys
  BY DEF StoreEvents
<1>2. status'[i] = status[i] /\ signed'[i] = signed[i] /\ keyAtStore'[i] = keyAtStore[i]
  BY <1>1 DEF StoreEvents
<1> QED BY <1>2 DEF RotationReachesStored, Open

LEMMA RotationStep == TypeOK /\ RotationReachesStored /\ [Next]_vars => RotationReachesStored'
<1> SUFFICES ASSUME TypeOK, RotationReachesStored, [Next]_vars
             PROVE  RotationReachesStored'
  OBVIOUS
<1>1. CASE UNCHANGED <<rowVars, secret>>
  BY <1>1 DEF RotationReachesStored, Open, rowVars
<1>2. ASSUME NEW p \in Emitter, InsertEvents(p)
      PROVE  RotationReachesStored'
  BY <1>2, RotationStore DEF InsertEvents, configVars
<1>3. ASSUME NEW d \in Deletion, CommitStaged(d) \/ SweepCommit(d)
      PROVE  RotationReachesStored'
  BY <1>3, RotationStore DEF CommitStaged, SweepCommit, Materialise, configVars
<1>4. ASSUME NEW d \in Deletion, DeleteSiteData(d)
      PROVE  RotationReachesStored'
  BY <1>4 DEF RotationReachesStored, Open, DeleteSiteData, TypeOK, RowTypes
<1>5. ASSUME NEW w \in Webhook, RotateSecret(w)
      PROVE  RotationReachesStored'
  <2> SUFFICES ASSUME NEW i \in DeliveryId, Open(i)', (secret[i.hook] # keyAtStore[i])'
               PROVE  signed'[i] = secret'[i.hook]
    BY DEF RotationReachesStored
  <2>1. CASE i.hook = w
    BY <1>5, <2>1 DEF RotateSecret, OpenOf, Open, TypeOK, ConfigTypes
  <2>2. CASE i.hook # w
    BY <1>5, <2>2, DeliveryKinds DEF RotateSecret, OpenOf, Open, TypeOK, ConfigTypes,
                                      RotationReachesStored
  <2> QED BY <2>1, <2>2
<1>6. ASSUME NEW i \in DeliveryId, Claim(i) \/ RecordAttempt(i)
      PROVE  RotationReachesStored'
  BY <1>6 DEF RotationReachesStored, Open, Claim, RecordAttempt, configVars, TypeOK, RowTypes
<1> QED BY <1>1, <1>2, <1>3, <1>4, <1>5, <1>6, RowSteps

\* A rotation reaches every delivery that is open, also one being attempted,
\* so that a later retry is signed with the new secret.
THEOREM RotationsReachStored == Spec => []RotationReachesStored
<1>1. Init => RotationReachesStored
  BY DEF Init, RotationReachesStored, Open
<1> QED BY <1>1, RotationStep, TypeCorrect, PTL DEF Spec

-----------------------------------------------------------------------------
(* Announcements and the site's row. The row never comes back, so whoever  *)
(* once saw it gone may commit at any later time.                          *)

\* The request, the sweeper's list and the staged deletion it is at have all
\* seen the site's row gone.
SeenGone ==
    /\ \A d \in Deletion : dpc[d] \in {"removed", "loaded"} => ~site
    /\ \A d \in todo : ~site
    /\ current \in Deletion => ~site
    /\ removers # {} => ~site

LEMMA SiteStaysGone == [Next]_vars /\ ~site => ~site'
<1> SUFFICES ASSUME [Next]_vars, ~site PROVE ~site'
  OBVIOUS
<1>1. ASSUME NEW p \in Emitter, EmitterStep(p) \/ EmissionFails(p) \/ Redeliver(p) \/ Discard(p)
      PROVE  ~site'
  BY <1>1 DEF EmitterStep, LookUp, ReadSubscribers, InsertEvents, InsertConflicts, EmissionFails,
              Redeliver, Discard, configVars
<1>2. ASSUME NEW d \in Deletion,
             \/ ReadDeletionSubscribers(d)
             \/ DeletionStep(d)
             \/ DeletionFails(d)
             \/ CancelFails(d)
             \/ Age(d)
      PROVE  ~site'
  BY <1>2 DEF DeletionStep, ReadDeletionSubscribers, Stage, DeleteSiteData, DeleteSiteRow,
              DeleteSiteRowRefused, CancelStaged, LoadStaged, CommitStaged, CommitDeferred,
              DeletionFails, CancelFails, Age, configVars
<1>3. CASE SweepStep
  BY <1>3 DEF SweepStep, ListRecoverable, SweepLoad, SweepCommit, SweepFails, DeleteAbandoned,
              configVars
<1>4. ASSUME NEW w \in Webhook, Configure(w)
      PROVE  ~site'
  BY <1>4 DEF Configure, CreateWebhook, UpdateWebhook, DeleteWebhook, RotateSecret
<1>5. ASSUME NEW i \in DeliveryId, Claim(i) \/ RecordAttempt(i)
      PROVE  ~site'
  BY <1>5 DEF Claim, RecordAttempt, configVars
<1>6. CASE Crash \/ UNCHANGED vars
  BY <1>6 DEF Crash, vars, configVars
<1> QED BY <1>1, <1>2, <1>3, <1>4, <1>5, <1>6 DEF Next

LEMMA SeenGoneDeletion ==
    ASSUME TypeOK, SeenGone, NEW d \in Deletion,
           \/ ReadDeletionSubscribers(d)
           \/ DeletionStep(d)
           \/ DeletionFails(d)
           \/ CancelFails(d)
           \/ Age(d)
    PROVE  SeenGone'
<1>1. CASE DeleteSiteRow(d)
  BY <1>1 DEF SeenGone, DeleteSiteRow, sweepVars
<1>2. CASE LoadStaged(d)
  BY <1>2 DEF SeenGone, LoadStaged, TypeOK, DeletionTypes, sweepVars, configVars
<1>3. CASE \/ ReadDeletionSubscribers(d) \/ Stage(d) \/ DeleteSiteData(d)
           \/ DeletionFails(d) \/ CancelFails(d) \/ Age(d)
  BY <1>3 DEF SeenGone, ReadDeletionSubscribers, Stage, DeleteSiteData, DeletionFails, CancelFails,
              Age, AfterFailedDeletion, TypeOK, DeletionTypes, sweepVars, configVars, deletionVars
<1>4. CASE \/ DeleteSiteRowRefused(d) \/ CancelStaged(d) \/ CommitStaged(d) \/ CommitDeferred(d)
  BY <1>4 DEF SeenGone, DeleteSiteRowRefused, CancelStaged, CommitStaged, CommitDeferred,
              AfterFailedDeletion, TypeOK, DeletionTypes, sweepVars, configVars
<1> QED BY <1>1, <1>2, <1>3, <1>4 DEF DeletionStep

LEMMA SeenGoneSweeper ==
    ASSUME TypeOK, SeenGone, SweepStep
    PROVE  SeenGone'
<1> None \notin Deletion
  BY OutboxAssumption
<1>1. CASE ListRecoverable
  BY <1>1 DEF SeenGone, ListRecoverable, Recoverable, configVars, deletionVars
<1>2. ASSUME NEW d \in Deletion, SweepLoad(d)
      PROVE  SeenGone'
  BY <1>2 DEF SeenGone, SweepLoad, configVars, deletionVars
<1>3. ASSUME NEW d \in Deletion, SweepCommit(d)
      PROVE  SeenGone'
  BY <1>3 DEF SeenGone, SweepCommit, configVars, deletionVars
<1>4. CASE SweepFails \/ DeleteAbandoned
  BY <1>4 DEF SeenGone, SweepFails, DeleteAbandoned, configVars, deletionVars
<1> QED BY <1>1, <1>2, <1>3, <1>4 DEF SweepStep

LEMMA SeenGoneStep == TypeOK /\ SeenGone /\ [Next]_vars => SeenGone'
<1> SUFFICES ASSUME TypeOK, SeenGone, [Next]_vars PROVE SeenGone'
  OBVIOUS
<1>1. ASSUME NEW p \in Emitter, EmitterStep(p) \/ EmissionFails(p) \/ Redeliver(p) \/ Discard(p)
      PROVE  SeenGone'
  <2>1. UNCHANGED <<site, dpc, removers, todo, current>>
    BY <1>1 DEF EmitterStep, LookUp, ReadSubscribers, InsertEvents, InsertConflicts, EmissionFails,
                Redeliver, Discard, configVars, deletionVars, sweepVars
  <2> QED BY <2>1 DEF SeenGone
<1>2. ASSUME NEW w \in Webhook, Configure(w)
      PROVE  SeenGone'
  <2>1. UNCHANGED <<site, dpc, removers, todo, current>>
    BY <1>2 DEF Configure, CreateWebhook, UpdateWebhook, DeleteWebhook, RotateSecret,
                configUnchanged, deletionVars, sweepVars
  <2> QED BY <2>1 DEF SeenGone
<1>3. ASSUME NEW i \in DeliveryId, Claim(i) \/ RecordAttempt(i)
      PROVE  SeenGone'
  <2>1. UNCHANGED <<site, dpc, removers, todo, current>>
    BY <1>3 DEF Claim, RecordAttempt, configVars, deletionVars, sweepVars
  <2> QED BY <2>1 DEF SeenGone
<1>4. CASE Crash
  <2> None \notin Deletion
    BY OutboxAssumption
  <2> QED BY <1>4 DEF SeenGone, Crash, configVars
<1>5. CASE UNCHANGED vars
  BY <1>5 DEF SeenGone, vars, configVars, deletionVars, sweepVars
<1> QED BY <1>1, <1>2, <1>3, <1>4, <1>5, SeenGoneDeletion, SeenGoneSweeper DEF Next

\* The deliveries a commit stores are the final ones of its deletion.
LEMMA MaterialiseStores ==
    ASSUME TypeOK, NEW c \in Committer, NEW d \in Deletion, Materialise(c, d),
           NEW i \in DeliveryId
    PROVE  Stored(i)' <=> (Stored(i) \/ \E w \in DOMAIN loaded[c] : i = Final(d, w))
<1> DEFINE K == {Final(d, w) : w \in DOMAIN loaded[c]}
           keys == [k \in K |-> loaded[c][k.hook]]
<1>1. StoreEvents({d}, keys)
  BY DEF Materialise
<1>2. DOMAIN keys = K
  OBVIOUS
<1> HIDE DEF keys
<1>3. status'[i] = IF i \in K THEN "pending" ELSE status[i]
  BY <1>1, <1>2 DEF StoreEvents
<1> QED BY <1>3 DEF Stored

\* Only these steps store a delivery.
LEMMA StoredBy ==
    ASSUME TypeOK, [Next]_vars, NEW i \in DeliveryId, Stored(i)'
    PROVE  \/ Stored(i)
           \/ \E p \in Emitter : InsertEvents(p) /\ i \in PreparedDeliveries(p)
           \/ \E d \in Deletion : /\ CommitStaged(d) \/ SweepCommit(d)
                                  /\ \E w \in Webhook : i = Final(d, w)
<1>1. CASE UNCHANGED <<rowVars, secret>>
  BY <1>1 DEF Stored, rowVars
<1>2. ASSUME NEW p \in Emitter, InsertEvents(p)
      PROVE  Stored(i) \/ i \in PreparedDeliveries(p)
  BY <1>2 DEF InsertEvents, StoreEvents, Stored
<1>3. ASSUME NEW d \in Deletion, CommitStaged(d) \/ SweepCommit(d)
      PROVE  Stored(i) \/ \E w \in Webhook : i = Final(d, w)
  <2>1. PICK c \in Committer : Materialise(c, d)
    BY <1>3 DEF CommitStaged, SweepCommit, Committer
  <2>2. DOMAIN loaded[c] \subseteq Webhook
    BY SnapshotParts DEF TypeOK, Committer
  <2> QED BY <2>1, <2>2, MaterialiseStores
<1>4. ASSUME NEW d \in Deletion, DeleteSiteData(d)
      PROVE  Stored(i)
  BY <1>4 DEF DeleteSiteData, Stored
<1>5. ASSUME NEW w \in Webhook, RotateSecret(w)
      PROVE  Stored(i)
  BY <1>5 DEF RotateSecret, Stored
<1>6. ASSUME NEW j \in DeliveryId, Claim(j) \/ RecordAttempt(j)
      PROVE  Stored(i)
  BY <1>6 DEF Claim, RecordAttempt, Stored, TypeOK, RowTypes
<1> QED BY <1>1, <1>2, <1>3, <1>4, <1>5, <1>6, RowSteps

LEMMA AnnouncedStep ==
    TypeOK /\ SeenGone /\ AnnouncedAfterDeletion /\ [Next]_vars => AnnouncedAfterDeletion'
<1> SUFFICES ASSUME TypeOK, SeenGone, AnnouncedAfterDeletion, [Next]_vars,
                    NEW d \in Deletion, NEW w \in Webhook, Stored(Final(d, w))'
             PROVE  ~site'
  BY DEF AnnouncedAfterDeletion
<1> DEFINE i == Final(d, w)
<1>1. i \in DeliveryId /\ i.cause = d
  BY FinalIsDelivery, FinalParts
<1>2. CASE Stored(i)
  BY <1>2, SiteStaysGone DEF AnnouncedAfterDeletion
<1>3. ASSUME NEW p \in Emitter, i \in PreparedDeliveries(p)
      PROVE  FALSE
  BY <1>1, <1>3, PreparedTyped, OutboxAssumption DEF PreparedDeliveries, TypeOK
<1>4. ASSUME NEW e \in Deletion, CommitStaged(e) \/ SweepCommit(e)
      PROVE  ~site
  BY <1>4 DEF CommitStaged, SweepCommit, SeenGone
<1> HIDE DEF i
<1>5. Stored(i)'
  BY DEF i
<1> QED BY <1>1, <1>2, <1>3, <1>4, <1>5, StoredBy, SiteStaysGone

\* A site's deletion is announced only when its row is gone: a staged
\* delivery is out of the dispatcher's reach until then, whoever commits it.
THEOREM AnnouncementsFollowDeletion == Spec => []AnnouncedAfterDeletion
<1>1. Init => SeenGone /\ AnnouncedAfterDeletion
  BY OutboxAssumption, FinalIsDelivery DEF Init, SeenGone, AnnouncedAfterDeletion, Stored
<1> QED BY <1>1, SeenGoneStep, AnnouncedStep, TypeCorrect, PTL DEF Spec

-----------------------------------------------------------------------------
(* One delivery per event. An event is stored with all its deliveries or   *)
(* not at all; a deletion event that is stored has left the outbox, and no *)
(* step stages it again.                                                   *)

StoredWithEvent == \A i \in DeliveryId : Stored(i) => i.cause \in events

\* The deletion event of a request is staged once, before anyone commits it.
StagedOnce ==
    /\ \A d \in Deletion : d \in events => DOMAIN outbox[d] = {}
    /\ \A d \in Deletion :
          (d \in events \/ DOMAIN outbox[d] # {} \/ d \in todo \/ d = current)
              => dpc[d] \notin {"idle", "prepared"}

LEMMA StoredWithEventStep ==
    TypeOK /\ StoredWithEvent /\ [Next]_vars => StoredWithEvent'
<1> SUFFICES ASSUME TypeOK, StoredWithEvent, [Next]_vars,
                    NEW i \in DeliveryId, Stored(i)'
             PROVE  i.cause \in events'
  BY DEF StoredWithEvent
<1>1. CASE UNCHANGED <<rowVars, secret>>
  BY <1>1 DEF StoredWithEvent, Stored, rowVars
<1>2. ASSUME NEW p \in Emitter, InsertEvents(p)
      PROVE  i.cause \in events'
  BY <1>2 DEF StoredWithEvent, Stored, InsertEvents, StoreEvents, PreparedDeliveries
<1>3. ASSUME NEW d \in Deletion, CommitStaged(d) \/ SweepCommit(d)
      PROVE  i.cause \in events'
  <2>1. PICK c \in Committer : Materialise(c, d)
    BY <1>3 DEF CommitStaged, SweepCommit, Committer
  <2>2. Stored(i) \/ i.cause = d
    BY <2>1, MaterialiseStores, FinalParts
  <2>3. events' = events \union {d}
    BY <2>1 DEF Materialise, StoreEvents
  <2> QED BY <2>2, <2>3 DEF StoredWithEvent
<1>4. ASSUME NEW d \in Deletion, DeleteSiteData(d)
      PROVE  i.cause \in events'
  BY <1>4 DEF StoredWithEvent, Stored, DeleteSiteData
<1>5. ASSUME NEW w \in Webhook, RotateSecret(w)
      PROVE  i.cause \in events'
  BY <1>5 DEF StoredWithEvent, Stored, RotateSecret
<1>6. ASSUME NEW j \in DeliveryId, Claim(j) \/ RecordAttempt(j)
      PROVE  i.cause \in events'
  BY <1>6 DEF StoredWithEvent, Stored, Claim, RecordAttempt, TypeOK, RowTypes
<1> QED BY <1>1, <1>2, <1>3, <1>4, <1>5, <1>6, RowSteps

LEMMA EventsStay ==
    ASSUME TypeOK, NEW p \in Emitter, InsertEvents(p)
    PROVE  \A d \in Deletion : d \in events' <=> d \in events
BY PreparedTyped, OutboxAssumption DEF InsertEvents, StoreEvents, TypeOK

LEMMA StagedOnceDeletion ==
    ASSUME TypeOK, StagedOnce, NEW d \in Deletion,
           \/ ReadDeletionSubscribers(d)
           \/ DeletionStep(d)
           \/ DeletionFails(d)
           \/ CancelFails(d)
           \/ Age(d)
    PROVE  StagedOnce'
<1> dpc \in [Deletion -> {"idle", "prepared", "deleting", "stripped", "cancelling",
                          "removed", "loaded", "done"}]
  BY DEF TypeOK, DeletionTypes
<1> outbox \in [Deletion -> Snapshot]
  BY DEF TypeOK, StageTypes
<1>1. CASE ReadDeletionSubscribers(d)
  BY <1>1 DEF StagedOnce, ReadDeletionSubscribers, rowVars, stageVars, sweepVars
<1>2. CASE Stage(d)
  BY <1>2 DEF StagedOnce, Stage, rowVars, sweepVars
<1>3. CASE DeleteSiteData(d)
  BY <1>3, OutboxAssumption DEF StagedOnce, DeleteSiteData, stageVars, sweepVars
<1>4. CASE DeleteSiteRow(d) \/ DeleteSiteRowRefused(d) \/ DeletionFails(d) \/ CancelFails(d)
  BY <1>4 DEF StagedOnce, DeleteSiteRow, DeleteSiteRowRefused, DeletionFails, CancelFails,
              AfterFailedDeletion, rowVars, stageVars, sweepVars
<1>5. CASE CancelStaged(d)
  BY <1>5, NobodyTyped DEF StagedOnce, CancelStaged, rowVars, sweepVars
<1>6. CASE LoadStaged(d) \/ CommitDeferred(d) \/ Age(d)
  BY <1>6 DEF StagedOnce, LoadStaged, CommitDeferred, Age, rowVars, stageVars, sweepVars,
              deletionVars
<1>7. CASE CommitStaged(d)
  BY <1>7, NobodyTyped DEF StagedOnce, CommitStaged, Materialise, StoreEvents, sweepVars
<1> QED BY <1>1, <1>2, <1>3, <1>4, <1>5, <1>6, <1>7 DEF DeletionStep

LEMMA StagedOnceSweeper ==
    ASSUME TypeOK, StagedOnce, SweepStep
    PROVE  StagedOnce'
<1> None \notin Deletion
  BY OutboxAssumption
<1> outbox \in [Deletion -> Snapshot]
  BY DEF TypeOK, StageTypes
<1>1. CASE ListRecoverable
  BY <1>1 DEF StagedOnce, ListRecoverable, Recoverable, rowVars, stageVars, deletionVars
<1>2. ASSUME NEW d \in Deletion, SweepLoad(d)
      PROVE  StagedOnce'
  BY <1>2 DEF StagedOnce, SweepLoad, rowVars, stageVars, deletionVars
<1>3. ASSUME NEW d \in Deletion, SweepCommit(d)
      PROVE  StagedOnce'
  BY <1>3, NobodyTyped DEF StagedOnce, SweepCommit, Materialise, StoreEvents, deletionVars
<1>4. CASE SweepFails
  BY <1>4 DEF StagedOnce, SweepFails, rowVars, stageVars, deletionVars
<1>5. CASE DeleteAbandoned
  BY <1>5, NobodyTyped DEF StagedOnce, DeleteAbandoned, rowVars, deletionVars
<1> QED BY <1>1, <1>2, <1>3, <1>4, <1>5 DEF SweepStep

LEMMA StagedOnceStep == TypeOK /\ StagedOnce /\ [Next]_vars => StagedOnce'
<1> SUFFICES ASSUME TypeOK, StagedOnce, [Next]_vars PROVE StagedOnce'
  OBVIOUS
<1>1. ASSUME NEW p \in Emitter, EmitterStep(p) \/ EmissionFails(p) \/ Redeliver(p) \/ Discard(p)
      PROVE  StagedOnce'
  <2>1. UNCHANGED <<outbox, dpc, todo, current>>
    BY <1>1 DEF EmitterStep, LookUp, ReadSubscribers, InsertEvents, InsertConflicts, EmissionFails,
                Redeliver, Discard, stageVars, deletionVars, sweepVars
  <2>2. CASE InsertEvents(p)
    BY <2>1, <2>2, EventsStay DEF StagedOnce
  <2>3. CASE ~InsertEvents(p)
    <3>1. UNCHANGED events
      BY <1>1, <2>3 DEF EmitterStep, LookUp, ReadSubscribers, InsertConflicts, EmissionFails,
                        Redeliver, Discard, rowVars
    <3> QED BY <2>1, <3>1 DEF StagedOnce
  <2> QED BY <2>2, <2>3
<1>2. ASSUME NEW w \in Webhook, Configure(w)
      PROVE  StagedOnce'
  <2>1. UNCHANGED <<events, outbox, dpc, todo, current>>
    BY <1>2 DEF Configure, CreateWebhook, UpdateWebhook, DeleteWebhook, RotateSecret,
                configUnchanged, rowVars, stageVars, deletionVars, sweepVars
  <2> QED BY <2>1 DEF StagedOnce
<1>3. ASSUME NEW i \in DeliveryId, Claim(i) \/ RecordAttempt(i)
      PROVE  StagedOnce'
  <2>1. UNCHANGED <<events, outbox, dpc, todo, current>>
    BY <1>3 DEF Claim, RecordAttempt, stageVars, deletionVars, sweepVars
  <2> QED BY <2>1 DEF StagedOnce
<1>4. CASE Crash
  <2> None \notin Deletion
    BY OutboxAssumption
  <2> QED BY <1>4 DEF StagedOnce, Crash, rowVars, stageVars
<1>5. CASE UNCHANGED vars
  BY <1>5 DEF StagedOnce, vars, rowVars, stageVars, deletionVars, sweepVars
<1> QED BY <1>1, <1>2, <1>3, <1>4, <1>5, StagedOnceDeletion, StagedOnceSweeper DEF Next

\* The first half of OneDeliveryPerEvent.
OneStored ==
    \A i, j \in DeliveryId :
        (Stored(i) /\ Stored(j) /\ i.cause = j.cause /\ i.hook = j.hook) => i = j

LEMMA OneStoredStep == TypeOK /\ StoredWithEvent /\ OneStored /\ [Next]_vars => OneStored'
<1> SUFFICES ASSUME TypeOK, StoredWithEvent, OneStored, [Next]_vars,
                    NEW i \in DeliveryId, NEW j \in DeliveryId,
                    Stored(i)', Stored(j)', i.cause = j.cause, i.hook = j.hook
             PROVE  i = j
  BY DEF OneStored
<1>1. CASE i.cause \in Deletion
  <2>1. i = Final(i.cause, i.hook) /\ j = Final(j.cause, j.hook)
    BY <1>1, DeliveryKinds, OutboxAssumption
  <2> QED BY <2>1
<1>2. CASE i.cause \notin Deletion
  <2>1. \A d \in Deletion, w \in Webhook : i # Final(d, w) /\ j # Final(d, w)
    BY <1>2, FinalParts
  <2>2. CASE Stored(i) /\ Stored(j)
    BY <2>2 DEF OneStored
  <2>3. CASE ~Stored(i) \/ ~Stored(j)
    <3>1. PICK p \in Emitter :
             InsertEvents(p) /\ (i \in PreparedDeliveries(p) \/ j \in PreparedDeliveries(p))
      BY <2>1, <2>3, StoredBy
    <3>2. i.cause \in Prepared(p) /\ i.cause \notin events
      BY <3>1 DEF InsertEvents, StoreEvents, PreparedDeliveries
    <3>3. ~Stored(i) /\ ~Stored(j)
      BY <3>2 DEF StoredWithEvent
    <3>4. i \in PreparedDeliveries(p) /\ j \in PreparedDeliveries(p)
      BY <3>1, <3>3 DEF InsertEvents, StoreEvents, Stored
    <3> QED BY <3>4, SameDelivery DEF PreparedDeliveries
  <2> QED BY <2>2, <2>3
<1> QED BY <1>1, <1>2

LEMMA OneDeliveryFollows ==
    TypeOK /\ StoredWithEvent /\ StagedOnce /\ OneStored => OneDeliveryPerEvent
<1> SUFFICES ASSUME TypeOK, StoredWithEvent, StagedOnce,
                    NEW d \in Deletion, NEW w \in DOMAIN outbox[d], Stored(Final(d, w))
             PROVE  FALSE
  BY DEF OneDeliveryPerEvent, OneStored
<1>1. w \in Webhook
  BY SnapshotParts DEF TypeOK, StageTypes
<1>2. d \in events
  BY <1>1, FinalIsDelivery, FinalParts DEF StoredWithEvent
<1> QED BY <1>2 DEF StagedOnce

\* However batches overlap and are redelivered, and whoever commits a staged
\* deletion, a subscriber has one delivery of an event, staged or stored.
THEOREM OneDelivery == Spec => []OneDeliveryPerEvent
<1>1. Init => StoredWithEvent /\ StagedOnce /\ OneStored
  BY OutboxAssumption, NobodyTyped
     DEF Init, StoredWithEvent, StagedOnce, OneStored, Stored
<1> QED BY <1>1, StoredWithEventStep, StagedOnceStep, OneStoredStep, OneDeliveryFollows,
           TypeCorrect, PTL DEF Spec

-----------------------------------------------------------------------------
(* Announcements are kept. From its staging to its commit, a delivery is   *)
(* in the outbox or stored: a request that is deleting the site has staged *)
(* what it read, whoever commits has read all that is staged, and what is  *)
(* cancelled or cleaned up belongs to a request that did not remove the    *)
(* site's row.                                                             *)

\* What the request read is staged or stored.
Kept(d) == \A w \in DOMAIN captured[d] : w \in DOMAIN outbox[d] \/ Stored(Final(d, w))

KeptByRequests ==
    \A d \in Deletion : (dpc[d] \in {"deleting", "stripped"} \/ d \in removers) => Kept(d)

RequestOrder ==
    /\ \A d \in aged : dpc[d] = "done"
    /\ \A d \in removers : dpc[d] \in {"removed", "loaded", "done"}

\* A committer has read every staged delivery that is still there.
LoadedAll ==
    /\ \A d \in Deletion : dpc[d] = "loaded" => DOMAIN outbox[d] \subseteq DOMAIN loaded[d]
    /\ current \in Deletion => DOMAIN outbox[current] \subseteq DOMAIN loaded[Sweeper]

KeptInv == KeptByRequests /\ RequestOrder /\ LoadedAll

\* No step takes the delivery of a deletion event away.
LEMMA FinalStaysStored ==
    ASSUME TypeOK, [Next]_vars, NEW i \in DeliveryId, i.cause \in Deletion, Stored(i)
    PROVE  Stored(i)'
<1>1. CASE UNCHANGED <<rowVars, secret>>
  BY <1>1 DEF Stored, rowVars
<1>2. ASSUME NEW p \in Emitter, InsertEvents(p)
      PROVE  Stored(i)'
  BY <1>2 DEF InsertEvents, StoreEvents, Stored
<1>3. ASSUME NEW e \in Deletion, CommitStaged(e) \/ SweepCommit(e)
      PROVE  Stored(i)'
  BY <1>3, MaterialiseStores DEF CommitStaged, SweepCommit, Committer
<1>4. ASSUME NEW e \in Deletion, DeleteSiteData(e)
      PROVE  Stored(i)'
  BY <1>4, OutboxAssumption DEF DeleteSiteData, Stored
<1>5. ASSUME NEW v \in Webhook, RotateSecret(v)
      PROVE  Stored(i)'
  BY <1>5 DEF RotateSecret, Stored
<1>6. ASSUME NEW j \in DeliveryId, Claim(j) \/ RecordAttempt(j)
      PROVE  Stored(i)'
  BY <1>6 DEF Claim, RecordAttempt, Stored, TypeOK, RowTypes
<1> QED BY <1>1, <1>2, <1>3, <1>4, <1>5, <1>6, RowSteps

\* What is kept stays kept when the outbox keeps its rows or stores them.
LEMMA KeptStays ==
    ASSUME TypeOK, [Next]_vars, NEW d \in Deletion, Kept(d), captured'[d] = captured[d],
           \A w \in DOMAIN outbox[d] : w \in DOMAIN outbox'[d] \/ Stored(Final(d, w))'
    PROVE  Kept(d)'
<1> SUFFICES ASSUME NEW w \in DOMAIN captured'[d]
             PROVE  w \in DOMAIN outbox'[d] \/ Stored(Final(d, w))'
  BY DEF Kept
<1>1. w \in DOMAIN captured[d] /\ w \in Webhook
  BY SnapshotParts DEF TypeOK, DeletionTypes
<1>2. CASE w \in DOMAIN outbox[d]
  BY <1>2
<1>3. CASE Stored(Final(d, w))
  <2>1. Final(d, w) \in DeliveryId /\ Final(d, w).cause \in Deletion
    BY <1>1, FinalIsDelivery, FinalParts
  <2>2. \A i \in DeliveryId : i.cause \in Deletion /\ Stored(i) => Stored(i)'
    BY FinalStaysStored
  <2> QED BY <1>3, <2>1, <2>2
<1> QED BY <1>1, <1>2, <1>3 DEF Kept

\* A commit that has read all staged deliveries of d keeps them.
LEMMA MaterialiseKeeps ==
    ASSUME TypeOK, NEW c \in Committer, NEW e \in Deletion, Materialise(c, e),
           DOMAIN outbox[e] \subseteq DOMAIN loaded[c], NEW d \in Deletion
    PROVE  /\ \A w \in DOMAIN outbox[d] : w \in DOMAIN outbox'[d] \/ Stored(Final(d, w))'
           /\ DOMAIN outbox'[d] \subseteq DOMAIN outbox[d]
<1>1. outbox' = [outbox EXCEPT ![e] = Nobody]
  BY DEF Materialise
<1>2. CASE d = e
  <2>1. ASSUME NEW w \in DOMAIN outbox[d]
        PROVE  Stored(Final(d, w))'
    <3>1. w \in Webhook
      BY <2>1, SnapshotParts DEF TypeOK, StageTypes
    <3>2. Final(d, w) \in DeliveryId
      BY <3>1, FinalIsDelivery
    <3>3. w \in DOMAIN loaded[c]
      BY <1>2, <2>1
    <3> QED BY <1>2, <3>2, <3>3, MaterialiseStores
  <2> QED BY <1>1, <1>2, <2>1, NobodyTyped DEF TypeOK, StageTypes
<1>3. CASE d # e
  BY <1>1, <1>3 DEF TypeOK, StageTypes
<1> QED BY <1>2, <1>3

\* Steps of the other actors leave the deletions and the outbox alone.
LEMMA OthersLeaveStaged ==
    ASSUME \/ \E p \in Emitter :
                 EmitterStep(p) \/ EmissionFails(p) \/ Redeliver(p) \/ Discard(p)
           \/ \E w \in Webhook : Configure(w)
           \/ \E i \in DeliveryId : Claim(i) \/ RecordAttempt(i)
           \/ UNCHANGED vars
    PROVE  UNCHANGED <<stageVars, deletionVars, loaded, current>>
<1>1. ASSUME NEW p \in Emitter, EmitterStep(p) \/ EmissionFails(p) \/ Redeliver(p) \/ Discard(p)
      PROVE  UNCHANGED <<stageVars, deletionVars, loaded, current>>
  BY <1>1 DEF EmitterStep, LookUp, ReadSubscribers, InsertEvents, InsertConflicts, EmissionFails,
              Redeliver, Discard, sweepVars
<1>2. ASSUME NEW w \in Webhook, Configure(w)
      PROVE  UNCHANGED <<stageVars, deletionVars, loaded, current>>
  BY <1>2 DEF Configure, CreateWebhook, UpdateWebhook, DeleteWebhook, RotateSecret,
              configUnchanged, sweepVars
<1>3. ASSUME NEW i \in DeliveryId, Claim(i) \/ RecordAttempt(i)
      PROVE  UNCHANGED <<stageVars, deletionVars, loaded, current>>
  BY <1>3 DEF Claim, RecordAttempt, sweepVars
<1>4. CASE UNCHANGED vars
  BY <1>4 DEF vars, sweepVars
<1> QED BY <1>1, <1>2, <1>3, <1>4

LEMMA RequestOrderStep == TypeOK /\ RequestOrder /\ [Next]_vars => RequestOrder'
<1> SUFFICES ASSUME TypeOK, RequestOrder, [Next]_vars PROVE RequestOrder'
  OBVIOUS
<1> dpc \in [Deletion -> {"idle", "prepared", "deleting", "stripped", "cancelling",
                          "removed", "loaded", "done"}]
  BY DEF TypeOK, DeletionTypes
<1> aged \subseteq Deletion /\ removers \subseteq Deletion
  BY DEF TypeOK, StageTypes, DeletionTypes
<1>1. ASSUME NEW d \in Deletion,
             \/ ReadDeletionSubscribers(d) \/ Stage(d) \/ DeleteSiteData(d)
             \/ DeleteSiteRow(d) \/ DeleteSiteRowRefused(d) \/ CancelStaged(d)
      PROVE  RequestOrder'
  BY <1>1 DEF RequestOrder, ReadDeletionSubscribers, Stage, DeleteSiteData, DeleteSiteRow,
              DeleteSiteRowRefused, CancelStaged, AfterFailedDeletion, stageVars
<1>2. ASSUME NEW d \in Deletion,
             \/ LoadStaged(d) \/ CommitStaged(d) \/ CommitDeferred(d)
             \/ DeletionFails(d) \/ CancelFails(d) \/ Age(d)
      PROVE  RequestOrder'
  BY <1>2 DEF RequestOrder, LoadStaged, CommitStaged, CommitDeferred, DeletionFails, CancelFails,
              Age, AfterFailedDeletion, stageVars, deletionVars
<1>3. CASE SweepStep
  <2>1. UNCHANGED <<dpc, removers, aged>>
    BY <1>3 DEF SweepStep, ListRecoverable, SweepLoad, SweepCommit, SweepFails, DeleteAbandoned,
                stageVars, deletionVars
  <2> QED BY <2>1 DEF RequestOrder
<1>4. CASE UNCHANGED <<stageVars, deletionVars, loaded, current>>
  BY <1>4 DEF RequestOrder, stageVars, deletionVars
<1>5. CASE Crash
  BY <1>5 DEF RequestOrder, Crash, stageVars
<1> QED BY <1>1, <1>2, <1>3, <1>4, <1>5, OthersLeaveStaged DEF Next, DeletionStep

LEMMA LoadedAllStep == TypeOK /\ StagedOnce /\ LoadedAll /\ [Next]_vars => LoadedAll'
<1> SUFFICES ASSUME TypeOK, StagedOnce, LoadedAll, [Next]_vars PROVE LoadedAll'
  OBVIOUS
<1> dpc \in [Deletion -> {"idle", "prepared", "deleting", "stripped", "cancelling",
                          "removed", "loaded", "done"}]
  BY DEF TypeOK, DeletionTypes
<1> outbox \in [Deletion -> Snapshot]
  BY DEF TypeOK, StageTypes
<1> loaded \in [Deletion \union {Sweeper} -> Snapshot]
  BY DEF TypeOK
<1> None \notin Deletion /\ Sweeper \notin Deletion
  BY OutboxAssumption
<1>1. ASSUME NEW d \in Deletion,
             \/ ReadDeletionSubscribers(d) \/ DeleteSiteData(d) \/ DeleteSiteRow(d)
             \/ DeleteSiteRowRefused(d) \/ DeletionFails(d) \/ CancelFails(d) \/ Age(d)
      PROVE  LoadedAll'
  <2>1. UNCHANGED <<outbox, loaded, current>>
    BY <1>1 DEF ReadDeletionSubscribers, DeleteSiteData, DeleteSiteRow, DeleteSiteRowRefused,
                DeletionFails, CancelFails, Age, stageVars, sweepVars
  <2>2. \A e \in Deletion : dpc'[e] = "loaded" => dpc[e] = "loaded"
    BY <1>1 DEF ReadDeletionSubscribers, DeleteSiteData, DeleteSiteRow, DeleteSiteRowRefused,
                DeletionFails, CancelFails, Age, AfterFailedDeletion, deletionVars
  <2> QED BY <2>1, <2>2 DEF LoadedAll
<1>2. ASSUME NEW d \in Deletion, Stage(d)
      PROVE  LoadedAll'
  BY <1>2 DEF LoadedAll, StagedOnce, Stage, sweepVars
<1>3. ASSUME NEW d \in Deletion, CancelStaged(d)
      PROVE  LoadedAll'
  BY <1>3, NobodyTyped DEF LoadedAll, CancelStaged, sweepVars
<1>4. ASSUME NEW d \in Deletion, LoadStaged(d)
      PROVE  LoadedAll'
  BY <1>4 DEF LoadedAll, LoadStaged, stageVars, sweepVars
<1>5. ASSUME NEW d \in Deletion, CommitStaged(d)
      PROVE  LoadedAll'
  BY <1>5, NobodyTyped DEF LoadedAll, CommitStaged, Materialise, sweepVars
<1>6. ASSUME NEW d \in Deletion, CommitDeferred(d)
      PROVE  LoadedAll'
  BY <1>6 DEF LoadedAll, CommitDeferred, stageVars, sweepVars
<1>7. ASSUME NEW d \in Deletion, SweepLoad(d) \/ SweepCommit(d)
      PROVE  LoadedAll'
  BY <1>7, NobodyTyped DEF LoadedAll, SweepLoad, SweepCommit, Materialise, stageVars, deletionVars
<1>8. CASE ListRecoverable \/ SweepFails
  BY <1>8 DEF LoadedAll, ListRecoverable, SweepFails, stageVars, deletionVars
<1>9. CASE DeleteAbandoned
  BY <1>9, NobodyTyped DEF LoadedAll, DeleteAbandoned, deletionVars
<1>10. CASE UNCHANGED <<stageVars, deletionVars, loaded, current>>
  BY <1>10 DEF LoadedAll, stageVars, deletionVars
<1>11. CASE Crash
  BY <1>11 DEF LoadedAll, Crash
<1> QED BY <1>1, <1>2, <1>3, <1>4, <1>5, <1>6, <1>7, <1>8, <1>9, <1>10, <1>11, OthersLeaveStaged
        DEF Next, DeletionStep, SweepStep

LEMMA KeptStep == TypeOK /\ SeenGone /\ KeptInv /\ [Next]_vars => KeptByRequests'
<1> SUFFICES ASSUME TypeOK, SeenGone, KeptInv, [Next]_vars, NEW d \in Deletion,
                    (dpc[d] \in {"deleting", "stripped"} \/ d \in removers)'
             PROVE  Kept(d)'
  BY DEF KeptByRequests
<1> DEFINE Removing == dpc[d] \in {"deleting", "stripped"} \/ d \in removers
<1> dpc \in [Deletion -> {"idle", "prepared", "deleting", "stripped", "cancelling",
                          "removed", "loaded", "done"}]
  BY DEF TypeOK, DeletionTypes
<1> captured \in [Deletion -> Snapshot] /\ outbox \in [Deletion -> Snapshot]
  BY DEF TypeOK, DeletionTypes, StageTypes
<1>0. ASSUME Removing, captured'[d] = captured[d],
             \A w \in DOMAIN outbox[d] : w \in DOMAIN outbox'[d] \/ Stored(Final(d, w))'
      PROVE  Kept(d)'
  BY <1>0, KeptStays DEF KeptInv, KeptByRequests
<1>1. ASSUME NEW e \in Deletion, ReadDeletionSubscribers(e)
      PROVE  Kept(d)'
  <2>1. CASE e = d
    BY <1>1, <2>1 DEF ReadDeletionSubscribers, KeptInv, RequestOrder, Kept
  <2>2. CASE e # d
    <3>1. Removing /\ captured'[d] = captured[d] /\ outbox' = outbox
      BY <1>1, <2>2 DEF ReadDeletionSubscribers, stageVars
    <3> QED BY <1>0, <3>1
  <2> QED BY <2>1, <2>2
<1>2. ASSUME NEW e \in Deletion, Stage(e)
      PROVE  Kept(d)'
  <2>1. CASE e = d
    BY <1>2, <2>1 DEF Stage, Kept
  <2>2. CASE e # d
    <3>1. Removing /\ captured' = captured /\ outbox'[d] = outbox[d]
      BY <1>2, <2>2 DEF Stage
    <3> QED BY <1>0, <3>1
  <2> QED BY <2>1, <2>2
<1>3. ASSUME NEW e \in Deletion,
             \/ DeleteSiteData(e) \/ DeleteSiteRow(e) \/ DeleteSiteRowRefused(e)
             \/ LoadStaged(e) \/ CommitDeferred(e) \/ DeletionFails(e) \/ CancelFails(e) \/ Age(e)
      PROVE  Kept(d)'
  <2>1. Removing
    BY <1>3 DEF DeleteSiteData, DeleteSiteRow, DeleteSiteRowRefused, LoadStaged, CommitDeferred,
                DeletionFails, CancelFails, Age, AfterFailedDeletion, deletionVars
  <2>2. UNCHANGED <<captured, outbox>>
    BY <1>3 DEF DeleteSiteData, DeleteSiteRow, DeleteSiteRowRefused, LoadStaged, CommitDeferred,
                DeletionFails, CancelFails, Age, stageVars, deletionVars
  <2> QED BY <1>0, <2>1, <2>2
<1>4. ASSUME NEW e \in Deletion, CancelStaged(e)
      PROVE  Kept(d)'
  <2>1. Removing /\ d # e
    BY <1>4 DEF CancelStaged, KeptInv, RequestOrder
  <2>2. captured' = captured /\ outbox'[d] = outbox[d]
    BY <1>4, <2>1 DEF CancelStaged
  <2> QED BY <1>0, <2>1, <2>2
<1>5. ASSUME NEW e \in Deletion, CommitStaged(e)
      PROVE  Kept(d)'
  <2>1. Removing /\ captured' = captured
    BY <1>5 DEF CommitStaged
  <2>2. Materialise(e, e) /\ DOMAIN outbox[e] \subseteq DOMAIN loaded[e] /\ e \in Committer
    BY <1>5 DEF CommitStaged, KeptInv, LoadedAll, Committer
  <2> QED BY <1>0, <2>1, <2>2, MaterialiseKeeps
<1>6. ASSUME NEW e \in Deletion, SweepCommit(e)
      PROVE  Kept(d)'
  <2>1. Removing /\ captured' = captured
    BY <1>6 DEF SweepCommit, deletionVars
  <2>2. /\ Materialise(Sweeper, e)
        /\ DOMAIN outbox[e] \subseteq DOMAIN loaded[Sweeper]
        /\ Sweeper \in Committer
    BY <1>6 DEF SweepCommit, KeptInv, LoadedAll, Committer
  <2> QED BY <1>0, <2>1, <2>2, MaterialiseKeeps
<1>7. ASSUME ListRecoverable \/ SweepFails \/ \E e \in Deletion : SweepLoad(e)
      PROVE  Kept(d)'
  <2>1. Removing /\ UNCHANGED <<captured, outbox>>
    BY <1>7 DEF ListRecoverable, SweepFails, SweepLoad, stageVars, deletionVars
  <2> QED BY <1>0, <2>1
<1>8. CASE DeleteAbandoned
  <2>1. Removing /\ captured' = captured
    BY <1>8 DEF DeleteAbandoned, deletionVars
  <2>2. d \notin Abandoned
    BY <2>1 DEF Abandoned, KeptInv, RequestOrder, SeenGone
  <2>3. outbox'[d] = outbox[d]
    BY <1>8, <2>2 DEF DeleteAbandoned
  <2> QED BY <1>0, <2>1, <2>3
<1>9. CASE UNCHANGED <<stageVars, deletionVars, loaded, current>>
  <2>1. Removing /\ UNCHANGED <<captured, outbox>>
    BY <1>9 DEF stageVars, deletionVars
  <2> QED BY <1>0, <2>1
<1>10. CASE Crash
  <2>1. Removing /\ UNCHANGED <<captured, outbox>>
    BY <1>10 DEF Crash, stageVars
  <2> QED BY <1>0, <2>1
<1> QED BY <1>1, <1>2, <1>3, <1>4, <1>5, <1>6, <1>7, <1>8, <1>9, <1>10, OthersLeaveStaged
        DEF Next, DeletionStep, SweepStep

\* No failure, crash, cancellation or clean-up loses an announcement of a
\* request that has removed the site's row.
THEOREM AnnouncementsAreKept == Spec => []AnnouncementKept
<1>1. Init => SeenGone /\ StagedOnce /\ KeptInv
  BY OutboxAssumption, NobodyTyped
     DEF Init, SeenGone, StagedOnce, KeptInv, KeptByRequests, RequestOrder, LoadedAll
<1>2. KeptInv <=> KeptByRequests /\ RequestOrder /\ LoadedAll
  BY DEF KeptInv
<1>3. TypeOK /\ KeptInv => AnnouncementKept
  BY DEF TypeOK, DeletionTypes, KeptInv, KeptByRequests, Kept, AnnouncementKept
<1> QED BY <1>1, <1>2, <1>3, SeenGoneStep, StagedOnceStep, RequestOrderStep, LoadedAllStep,
           KeptStep, TypeCorrect, PTL DEF Spec

-----------------------------------------------------------------------------
(* Acknowledged batches. While the site's data is there, an event that was *)
(* found or stored stays; what a look-up misses is stored by the insert,   *)
(* or had no subscriber.                                                   *)

\* What an emitter did not miss is stored.
Found ==
    \A p \in Emitter : (epc[p] \in {"reading", "acked"} /\ SiteUntouched) =>
        \A e \in Batch[p] : e \in events \/ e \in missing[p]

\* The deletion of the site's data cannot be undone.
LEMMA UntouchedBefore ==
    ASSUME TypeOK, [Next]_vars, SiteUntouched'
    PROVE  SiteUntouched /\ events \subseteq events'
<1> dpc \in [Deletion -> {"idle", "prepared", "deleting", "stripped", "cancelling",
                          "removed", "loaded", "done"}]
  BY DEF TypeOK, DeletionTypes
<1>1. SiteUntouched
  <2>1. ASSUME NEW d \in Deletion,
               \/ ReadDeletionSubscribers(d) \/ Stage(d) \/ DeleteSiteData(d)
               \/ DeleteSiteRow(d) \/ DeleteSiteRowRefused(d) \/ CancelStaged(d)
        PROVE  SiteUntouched
    BY <2>1 DEF SiteUntouched, ReadDeletionSubscribers, Stage, DeleteSiteData, DeleteSiteRow,
                DeleteSiteRowRefused, CancelStaged, AfterFailedDeletion
  <2>2. ASSUME NEW d \in Deletion,
               \/ LoadStaged(d) \/ CommitStaged(d) \/ CommitDeferred(d)
               \/ DeletionFails(d) \/ CancelFails(d) \/ Age(d)
        PROVE  SiteUntouched
    BY <2>2 DEF SiteUntouched, LoadStaged, CommitStaged, CommitDeferred, DeletionFails,
                CancelFails, Age, AfterFailedDeletion, deletionVars
  <2>3. CASE SweepStep
    <3>1. UNCHANGED dpc
      BY <2>3 DEF SweepStep, ListRecoverable, SweepLoad, SweepCommit, SweepFails, DeleteAbandoned,
                  deletionVars
    <3> QED BY <3>1 DEF SiteUntouched
  <2>4. CASE UNCHANGED <<stageVars, deletionVars, loaded, current>>
    BY <2>4 DEF SiteUntouched, deletionVars
  <2>5. CASE Crash
    BY <2>5 DEF SiteUntouched, Crash
  <2> QED BY <2>1, <2>2, <2>3, <2>4, <2>5, OthersLeaveStaged DEF Next, DeletionStep
<1>2. ASSUME NEW d \in Deletion, DeleteSiteData(d)
      PROVE  FALSE
  BY <1>2 DEF SiteUntouched, DeleteSiteData
<1>3. ASSUME NEW d \in Deletion, CommitStaged(d) \/ SweepCommit(d)
      PROVE  events \subseteq events'
  BY <1>3 DEF CommitStaged, SweepCommit, Materialise, StoreEvents
<1>4. ASSUME NEW p \in Emitter, InsertEvents(p)
      PROVE  events \subseteq events'
  BY <1>4 DEF InsertEvents, StoreEvents
<1>5. CASE UNCHANGED <<rowVars, secret>>
  BY <1>1, <1>5 DEF rowVars
<1>6. ASSUME NEW w \in Webhook, RotateSecret(w)
      PROVE  events \subseteq events'
  BY <1>6 DEF RotateSecret
<1>7. ASSUME NEW i \in DeliveryId, Claim(i) \/ RecordAttempt(i)
      PROVE  events \subseteq events'
  BY <1>7 DEF Claim, RecordAttempt
<1> QED BY <1>1, <1>2, <1>3, <1>4, <1>5, <1>6, <1>7, RowSteps

\* Who else moves leaves an emitter's locals alone, or stops it.
LEMMA EmittersUndisturbed ==
    ASSUME [Next]_vars
    PROVE  \/ UNCHANGED emitterVars
           \/ Crash
           \/ \E p \in Emitter :
                 EmitterStep(p) \/ EmissionFails(p) \/ Redeliver(p) \/ Discard(p)
<1>1. ASSUME NEW d \in Deletion,
             \/ ReadDeletionSubscribers(d)
             \/ DeletionStep(d)
             \/ DeletionFails(d)
             \/ CancelFails(d)
             \/ Age(d)
      PROVE  UNCHANGED emitterVars
  BY <1>1 DEF DeletionStep, ReadDeletionSubscribers, Stage, DeleteSiteData, DeleteSiteRow,
              DeleteSiteRowRefused, CancelStaged, LoadStaged, CommitStaged, CommitDeferred,
              DeletionFails, CancelFails, Age
<1>2. CASE SweepStep
  BY <1>2 DEF SweepStep, ListRecoverable, SweepLoad, SweepCommit, SweepFails, DeleteAbandoned
<1>3. ASSUME NEW w \in Webhook, Configure(w)
      PROVE  UNCHANGED emitterVars
  BY <1>3 DEF Configure, CreateWebhook, UpdateWebhook, DeleteWebhook, RotateSecret,
              configUnchanged
<1>4. ASSUME NEW i \in DeliveryId, Claim(i) \/ RecordAttempt(i)
      PROVE  UNCHANGED emitterVars
  BY <1>4 DEF Claim, RecordAttempt
<1>5. CASE UNCHANGED vars
  BY <1>5 DEF vars
<1> QED BY <1>1, <1>2, <1>3, <1>4, <1>5 DEF Next

LEMMA FoundStep == TypeOK /\ Found /\ [Next]_vars => Found'
<1> SUFFICES ASSUME TypeOK, Found, [Next]_vars, SiteUntouched',
                    NEW q \in Emitter, epc'[q] \in {"reading", "acked"}, NEW e \in Batch[q]
             PROVE  e \in events' \/ e \in missing'[q]
  BY DEF Found
<1>1. SiteUntouched /\ events \subseteq events'
  BY UntouchedBefore
<1>2. CASE epc[q] \in {"reading", "acked"} /\ missing'[q] = missing[q]
  BY <1>1, <1>2 DEF Found
<1> epc \in [Emitter -> {"received", "reading", "acked", "deferred", "lost"}]
  BY DEF TypeOK, EmitterTypes
<1> missing \in [Emitter -> SUBSET Event]
  BY DEF TypeOK, EmitterTypes
<1>3. CASE UNCHANGED emitterVars
  BY <1>2, <1>3 DEF emitterVars
<1>4. CASE Crash
  BY <1>2, <1>4 DEF Crash
<1>5. ASSUME NEW p \in Emitter, LookUp(p)
      PROVE  e \in events' \/ e \in missing'[q]
  <2>1. CASE p = q
    BY <1>1, <1>5, <2>1 DEF LookUp
  <2>2. CASE p # q
    BY <1>2, <1>5, <2>2 DEF LookUp
  <2> QED BY <2>1, <2>2
<1>6. ASSUME NEW p \in Emitter,
             \/ InsertEvents(p) \/ InsertConflicts(p)
             \/ EmissionFails(p) \/ Redeliver(p) \/ Discard(p)
      PROVE  e \in events' \/ e \in missing'[q]
  <2>1. missing' = missing /\ (epc'[q] \in {"reading", "acked"} => epc[q] \in {"reading", "acked"})
    BY <1>6 DEF InsertEvents, InsertConflicts, EmissionFails, Redeliver, Discard,
                AfterFailedEmission, ReadyToStore
  <2> QED BY <1>2, <2>1
<1>7. ASSUME NEW p \in Emitter, NEW f \in Event, ReadSubscribers(p, f)
      PROVE  e \in events' \/ e \in missing'[q]
  BY <1>2, <1>7 DEF ReadSubscribers
<1> QED BY <1>3, <1>4, <1>5, <1>6, <1>7, EmittersUndisturbed DEF EmitterStep

LEMMA AcknowledgedStep ==
    TypeOK /\ Found /\ AcknowledgedIsStored /\ [Next]_vars => AcknowledgedIsStored'
<1> SUFFICES ASSUME TypeOK, Found, AcknowledgedIsStored, [Next]_vars, SiteUntouched',
                    NEW q \in Emitter, epc'[q] = "acked", NEW e \in Batch[q]
             PROVE  e \in events' \/ (e \in missing'[q] /\ DOMAIN subs'[q][e] = {})
  BY DEF AcknowledgedIsStored
<1>1. SiteUntouched /\ events \subseteq events'
  BY UntouchedBefore
<1>2. CASE epc[q] = "acked" /\ missing'[q] = missing[q] /\ subs'[q] = subs[q]
  BY <1>1, <1>2 DEF AcknowledgedIsStored
<1> epc \in [Emitter -> {"received", "reading", "acked", "deferred", "lost"}]
  BY DEF TypeOK, EmitterTypes
<1> missing \in [Emitter -> SUBSET Event] /\ subs \in [Emitter -> [Event -> Snapshot]]
  BY DEF TypeOK, EmitterTypes
<1>3. CASE UNCHANGED emitterVars
  BY <1>2, <1>3 DEF emitterVars
<1>4. CASE Crash
  BY <1>2, <1>4 DEF Crash
<1>5. ASSUME NEW p \in Emitter,
             \/ LookUp(p) \/ (\E f \in Event : ReadSubscribers(p, f)) \/ InsertConflicts(p)
             \/ EmissionFails(p) \/ Redeliver(p) \/ Discard(p)
      PROVE  e \in events' \/ (e \in missing'[q] /\ DOMAIN subs'[q][e] = {})
  <2>1. epc[q] = "acked" /\ p # q
    BY <1>5 DEF LookUp, ReadSubscribers, InsertConflicts, EmissionFails, Redeliver, Discard,
                AfterFailedEmission, ReadyToStore
  <2>2. missing'[q] = missing[q] /\ subs'[q] = subs[q]
    BY <1>5, <2>1 DEF LookUp, ReadSubscribers, InsertConflicts, EmissionFails, Redeliver, Discard
  <2> QED BY <1>2, <2>1, <2>2
<1>6. ASSUME NEW p \in Emitter, InsertEvents(p)
      PROVE  e \in events' \/ (e \in missing'[q] /\ DOMAIN subs'[q][e] = {})
  <2>1. missing' = missing /\ subs' = subs
    BY <1>6 DEF InsertEvents
  <2>2. CASE p = q
    <3>1. e \in events \/ e \in missing[q]
      BY <1>1, <1>6, <2>2 DEF Found, InsertEvents, ReadyToStore
    <3>2. events' = events \union Prepared(q)
      BY <1>6, <2>2 DEF InsertEvents, StoreEvents
    <3> QED BY <2>1, <3>1, <3>2 DEF Prepared
  <2>3. CASE p # q
    BY <1>2, <1>6, <2>1, <2>3 DEF InsertEvents
  <2> QED BY <2>2, <2>3
<1> QED BY <1>3, <1>4, <1>5, <1>6, EmittersUndisturbed DEF EmitterStep

\* A batch whose messages are finished has left no event behind, also when it
\* shares some with another batch and when inserts collide.
THEOREM AcknowledgedAreStored == Spec => []AcknowledgedIsStored
<1>1. Init => Found /\ AcknowledgedIsStored
  BY DEF Init, Found, AcknowledgedIsStored
<1> QED BY <1>1, FoundStep, AcknowledgedStep, TypeCorrect, PTL DEF Spec

=============================================================================
