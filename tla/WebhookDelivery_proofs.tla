------------------------ MODULE WebhookDelivery_proofs ------------------------
(***************************************************************************)
(* Proofs about WebhookDelivery, for any deliveries, endpoints, handlers   *)
(* and publishers, any MaxAttempts and any number of faults.               *)
(***************************************************************************)
EXTENDS WebhookDelivery, SequenceTheorems, FiniteSetTheorems, TLAPS

-----------------------------------------------------------------------------
(* Types.                                                                  *)

LEMMA TypeInit == Init => TypeOK
BY DeliveryAssumption DEF Init, TypeOK, RowTypes, HandlerTypes, PublisherTypes, ReceiverTypes, Publisher

LEMMA RowsStay == RowTypes /\ UNCHANGED rowVars => RowTypes'
BY DEF RowTypes, rowVars

LEMMA HandlersStay == HandlerTypes /\ UNCHANGED workerVars => HandlerTypes'
BY DEF HandlerTypes, workerVars

LEMMA PublishersStay == PublisherTypes /\ UNCHANGED publisherVars => PublisherTypes'
BY DEF PublisherTypes, publisherVars

LEMMA ReceiverStays == ReceiverTypes /\ UNCHANGED receiverVars => ReceiverTypes'
BY DEF ReceiverTypes, receiverVars

LEMMA FaultTyped == faults \in 0 .. MaxFaults /\ Fault => faults' \in 0 .. MaxFaults
BY DeliveryAssumption DEF Fault

LEMMA ReturnTyped ==
    ASSUME HandlerTypes, NEW w \in Worker, Return(w)
    PROVE  HandlerTypes'
BY DEF HandlerTypes, Return

LEMMA PushTyped ==
    ASSUME queue \in [Delivery -> Nat], NEW d \in Delivery, queue' = [queue EXCEPT ![d] = @ + 1]
    PROVE  queue' \in [Delivery -> Nat]
OBVIOUS

\* What the daily clean-up leaves of an attempt log: its last k entries.
LEMMA Suffix ==
    ASSUME NEW S, NEW s \in Seq(S), NEW k \in Nat, k <= Len(s)
    PROVE  /\ SubSeq(s, Len(s) - k + 1, Len(s)) \in Seq(S)
           /\ Len(SubSeq(s, Len(s) - k + 1, Len(s))) = k
           /\ \A i \in 1 .. k : SubSeq(s, Len(s) - k + 1, Len(s))[i] = s[Len(s) - k + i]
<1>1. Len(s) \in Nat /\ Len(s) - k + 1 \in Int
  BY LenProperties
<1>2. \A i \in Len(s) - k + 1 .. Len(s) : s[i] \in S
  <2>1. \A i \in 1 .. Len(s) : s[i] \in S
    BY ElementOfSeq
  <2> QED BY <1>1, <2>1
<1>3. DEFINE t == SubSeq(s, Len(s) - k + 1, Len(s))
<1>4. /\ t \in Seq(S)
      /\ Len(t) = IF Len(s) - k + 1 <= Len(s) THEN Len(s) - (Len(s) - k + 1) + 1 ELSE 0
      /\ \A i \in 1 .. Len(s) - (Len(s) - k + 1) + 1 : t[i] = s[Len(s) - k + 1 + i - 1]
  BY <1>1, <1>2, SubSeqProperties
<1> HIDE DEF t
<1>5. Len(t) = k /\ \A i \in 1 .. k : t[i] = s[Len(s) - k + i]
  <2>1. Len(s) - (Len(s) - k + 1) + 1 = k /\ \A i \in 1 .. k : Len(s) - k + 1 + i - 1 = Len(s) - k + i
    BY <1>1
  <2> QED BY <1>1, <1>4, <2>1
<1> QED BY <1>4, <1>5 DEF t

LEMMA TypeEmission ==
    ASSUME TypeOK, NEW p \in Emitter, NEW D \in SUBSET Delivery, Enqueue(p, D)
    PROVE  TypeOK'
<1> p \in Publisher
  BY DEF Publisher
<1>1. RowTypes'
  BY DEF TypeOK, RowTypes, Enqueue, Open, Waiting
<1>2. PublisherTypes'
  BY DEF TypeOK, PublisherTypes, Enqueue
<1>3. faults' \in 0 .. MaxFaults
  BY FaultTyped DEF TypeOK, Enqueue
<1> QED BY <1>1, <1>2, <1>3, HandlersStay, ReceiverStays DEF TypeOK, Enqueue

LEMMA TypePublisher ==
    ASSUME TypeOK, NEW p \in Publisher, PublisherStep(p)
    PROVE  TypeOK'
<1>1. ASSUME NEW d \in Delivery, MarkQueued(p, d)
      PROVE  TypeOK'
  <2>1. RowTypes'
    BY <1>1 DEF TypeOK, RowTypes, MarkQueued
  <2>2. PublisherTypes'
    BY <1>1 DEF TypeOK, PublisherTypes, MarkQueued
  <2>3. faults' \in 0 .. MaxFaults
    BY <1>1, FaultTyped DEF TypeOK, MarkQueued
  <2> QED BY <1>1, <2>1, <2>2, <2>3, HandlersStay, ReceiverStays DEF TypeOK, MarkQueued
<1>2. CASE Publish(p)
  <2>1. PublisherTypes'
    BY <1>2 DEF TypeOK, PublisherTypes, Publish
  <2>2. queue' \in [Delivery -> Nat]
    <3>1. current[p] \in Delivery
      BY <1>2 DEF TypeOK, PublisherTypes, Publish
    <3> QED BY <1>2, <3>1, PushTyped DEF TypeOK, Publish
  <2> QED BY <1>2, <2>1, <2>2, RowsStay, HandlersStay, ReceiverStays DEF TypeOK, Publish
<1>3. CASE PublishFails(p)
  <2>1. PublisherTypes'
    BY <1>3 DEF TypeOK, PublisherTypes, PublishFails
  <2> QED BY <1>3, <2>1, FaultTyped, RowsStay, HandlersStay, ReceiverStays DEF TypeOK, PublishFails
<1>4. CASE ClearQueued(p)
  <2>1. RowTypes'
    BY <1>4 DEF TypeOK, RowTypes, ClearQueued
  <2>2. PublisherTypes'
    BY <1>4 DEF TypeOK, PublisherTypes, ClearQueued
  <2>3. faults' \in 0 .. MaxFaults
    BY <1>4, FaultTyped DEF TypeOK, ClearQueued
  <2> QED BY <1>4, <2>1, <2>2, <2>3, HandlersStay, ReceiverStays DEF TypeOK, ClearQueued
<1>5. CASE FinishPublishing(p)
  <2>1. PublisherTypes'
    BY <1>5 DEF TypeOK, PublisherTypes, FinishPublishing
  <2> QED BY <1>5, <2>1, RowsStay, HandlersStay, ReceiverStays DEF TypeOK, FinishPublishing
<1> QED BY <1>1, <1>2, <1>3, <1>4, <1>5 DEF PublisherStep

LEMMA TypeSweeper ==
    ASSUME TypeOK, SweeperStep
    PROVE  TypeOK'
<1> Sweeper \in Publisher
  BY DEF Publisher
<1>1. CASE RecoverStale
  <2>1. RowTypes'
    BY <1>1 DEF TypeOK, RowTypes, RecoverStale, Open, Waiting
  <2>2. PublisherTypes'
    BY <1>1 DEF TypeOK, PublisherTypes, RecoverStale
  <2> QED BY <1>1, <2>1, <2>2, HandlersStay, ReceiverStays DEF TypeOK, RecoverStale
<1>2. ASSUME NEW D \in SUBSET Delivery, RecoverStaged(D)
      PROVE  TypeOK'
  <2>1. RowTypes'
    BY <1>2 DEF TypeOK, RowTypes, RecoverStaged, Open, Waiting
  <2> QED BY <1>2, <2>1, HandlersStay, PublishersStay, ReceiverStays DEF TypeOK, RecoverStaged
<1>3. CASE ListDispatchable
  <2>1. PublisherTypes'
    BY <1>3 DEF TypeOK, PublisherTypes, ListDispatchable
  <2> QED BY <1>3, <2>1, RowsStay, HandlersStay, ReceiverStays DEF TypeOK, ListDispatchable
<1>4. CASE SweepFails
  <2>1. PublisherTypes'
    BY <1>4 DEF TypeOK, PublisherTypes, SweepFails
  <2> QED BY <1>4, <2>1, FaultTyped, RowsStay, HandlersStay, ReceiverStays DEF TypeOK, SweepFails
<1>5. ASSUME NEW kept \in [Delivery -> 0 .. MaxAttempts], DeleteOldAttempts(kept)
      PROVE  TypeOK'
  <2>1. \A d \in Delivery :
          SubSeq(attempts[d], Len(attempts[d]) - kept[d] + 1, Len(attempts[d]))
            \in Seq([number : Nat, status : {"retrying"} \union Settled])
    <3>1. TAKE d \in Delivery
    <3>2. attempts[d] \in Seq([number : Nat, status : {"retrying"} \union Settled])
      BY DEF TypeOK, RowTypes
    <3>3. kept[d] \in Nat /\ kept[d] <= Len(attempts[d])
      BY <1>5, DeliveryAssumption DEF DeleteOldAttempts
    <3> QED BY <3>2, <3>3, Suffix
  <2>2. RowTypes'
    BY <1>5, <2>1 DEF TypeOK, RowTypes, DeleteOldAttempts
  <2>3. PublisherTypes'
    BY <1>5 DEF TypeOK, PublisherTypes, DeleteOldAttempts
  <2> QED BY <1>5, <2>2, <2>3, HandlersStay, ReceiverStays DEF TypeOK, DeleteOldAttempts
<1>6. CASE DeleteOldDeliveries
  <2>1. RowTypes'
    BY <1>6 DEF TypeOK, RowTypes, DeleteOldDeliveries
  <2>2. PublisherTypes'
    BY <1>6 DEF TypeOK, PublisherTypes, DeleteOldDeliveries
  <2> QED BY <1>6, <2>1, <2>2, HandlersStay, ReceiverStays DEF TypeOK, DeleteOldDeliveries
<1> QED BY <1>1, <1>2, <1>3, <1>4, <1>5, <1>6 DEF SweeperStep

LEMMA TypeHandler ==
    ASSUME TypeOK, NEW w \in Worker, HandlerStep(w)
    PROVE  TypeOK'
<1>0. job[w] \in Delivery \/ wpc[w] = "idle"
  BY DEF TypeOK, HandlerTypes
<1>1. CASE Claim(w)
  <2>1. RowTypes'
    BY <1>1 DEF TypeOK, RowTypes, Claim, Open, Waiting
  <2>2. HandlerTypes'
    <3>1. CASE Return(w)
      BY <3>1, ReturnTyped DEF TypeOK
    <3>2. CASE /\ wpc' = [wpc EXCEPT ![w] = "claimed"]
               /\ UNCHANGED <<job, claimed, number, outcome, held>>
      BY <3>2, <1>0, <1>1 DEF TypeOK, HandlerTypes, Claim
    <3> QED BY <1>1, <3>1, <3>2 DEF Claim
  <2> QED BY <1>1, <2>1, <2>2, PublishersStay, ReceiverStays DEF TypeOK, Claim
<1>2. CASE LoadClaim(w)
  <2>1. HandlerTypes'
    <3>1. CASE Return(w)
      BY <3>1, ReturnTyped DEF TypeOK
    <3>2. CASE ~Return(w)
      <4>1. attemptCount[job[w]] \in Nat
        BY <1>0, <1>2 DEF TypeOK, RowTypes, LoadClaim
      <4> QED BY <3>2, <4>1, <1>2 DEF TypeOK, HandlerTypes, LoadClaim
    <3> QED BY <3>1, <3>2
  <2> QED BY <1>2, <2>1, RowsStay, PublishersStay, ReceiverStays DEF TypeOK, LoadClaim
<1>3. CASE Send(w)
  <2>1. HandlerTypes'
    BY <1>3 DEF TypeOK, HandlerTypes, Send
  <2>2. ReceiverTypes'
    BY <1>0, <1>3 DEF TypeOK, ReceiverTypes, Send
  <2> QED BY <1>3, <2>1, <2>2, RowsStay, PublishersStay DEF TypeOK, Send
<1>4. CASE LoadForRecord(w)
  <2>1. attemptCount[job[w]] + 1 \in Nat
    BY <1>0, <1>4 DEF TypeOK, RowTypes, LoadForRecord
  <2>2. HandlerTypes'
    BY <1>4, <2>1 DEF TypeOK, HandlerTypes, LoadForRecord
  <2> QED BY <1>4, <2>2, RowsStay, PublishersStay, ReceiverStays DEF TypeOK, LoadForRecord
<1>5. CASE RecordAttempt(w)
  <2>1. ResultStatus(w) \in {"retrying"} \union Settled
    BY DEF ResultStatus, Settled
  <2>2. number[w] \in Nat /\ job[w] \in Delivery
    BY <1>0, <1>5 DEF TypeOK, HandlerTypes, RecordAttempt
  <2>3. attempts' \in [Delivery -> Seq([number : Nat, status : {"retrying"} \union Settled])]
    <3>1. [number |-> number[w], status |-> ResultStatus(w)]
            \in [number : Nat, status : {"retrying"} \union Settled]
      BY <2>1, <2>2
    <3>2. attempts \in [Delivery -> Seq([number : Nat, status : {"retrying"} \union Settled])]
      BY DEF TypeOK, RowTypes
    <3>3. Append(attempts[job[w]], [number |-> number[w], status |-> ResultStatus(w)])
            \in Seq([number : Nat, status : {"retrying"} \union Settled])
      BY <2>2, <3>1, <3>2, AppendProperties
    <3> QED BY <1>5, <3>2, <3>3 DEF RecordAttempt
  <2>4. RowTypes'
    <3>1. ResultStatus(w) \in {"absent", "deleted"} \union Open \union Settled
      BY <2>1 DEF Open, Waiting
    <3>2. CASE status[job[w]] = "deleted"
      BY <1>5, <2>3, <3>2 DEF TypeOK, RowTypes, RecordAttempt
    <3>3. CASE status[job[w]] # "deleted"
      <4>1. /\ status' = [status EXCEPT ![job[w]] = ResultStatus(w)]
            /\ attemptCount' = [attemptCount EXCEPT ![job[w]] = number[w]]
            /\ due' = [due EXCEPT ![job[w]] = FALSE]
            /\ queued' = [queued EXCEPT ![job[w]] = "no"]
            /\ stale' = stale
        BY <1>5, <3>3 DEF RecordAttempt
      <4>2. status' \in [Delivery -> {"absent", "deleted"} \union Open \union Settled]
        BY <3>1, <4>1 DEF TypeOK, RowTypes
      <4> QED BY <2>2, <2>3, <4>1, <4>2 DEF TypeOK, RowTypes
    <3> QED BY <3>2, <3>3
  <2>5. HandlerTypes'
    BY <1>5, ReturnTyped DEF TypeOK, RecordAttempt
  <2> QED BY <1>5, <2>4, <2>5, PublishersStay, ReceiverStays DEF TypeOK, RecordAttempt
<1>6. ASSUME wpc[w] # "idle", ReturnError(w)
      PROVE  HandlerTypes' /\ queue' \in [Delivery -> Nat]
  <2>1. HandlerTypes'
    BY <1>6, ReturnTyped DEF TypeOK, ReturnError
  <2> QED BY <1>0, <1>6, <2>1, PushTyped DEF TypeOK, ReturnError, Requeue
<1>7. CASE HandlerFails(w)
  BY <1>6, <1>7, FaultTyped, RowsStay, PublishersStay, ReceiverStays DEF TypeOK, HandlerFails
<1>8. CASE RecordFindsNoRow(w)
  BY <1>6, <1>8, RowsStay, PublishersStay, ReceiverStays DEF TypeOK, RecordFindsNoRow
<1> QED BY <1>1, <1>2, <1>3, <1>4, <1>5, <1>7, <1>8 DEF HandlerStep

LEMMA TypeTime ==
    ASSUME TypeOK, NEW d \in Delivery, TimeStep(d)
    PROVE  TypeOK'
<1>1. RowTypes'
  BY DEF TypeOK, RowTypes, TimeStep, BackoffElapses, QueueLeaseExpires, ClaimAges
<1> QED
  BY <1>1, HandlersStay, PublishersStay, ReceiverStays
     DEF TypeOK, TimeStep, BackoffElapses, QueueLeaseExpires, ClaimAges

LEMMA TypeNext == TypeOK /\ [Next]_vars => TypeOK'
<1> SUFFICES ASSUME TypeOK, [Next]_vars
             PROVE  TypeOK'
  OBVIOUS
<1>1. ASSUME NEW D \in SUBSET Delivery, DeleteSiteRows(D)
      PROVE  TypeOK'
  <2>1. <<>> \in Seq([number : Nat, status : {"retrying"} \union Settled])
    OBVIOUS
  <2>2. RowTypes'
    BY <1>1, <2>1 DEF TypeOK, RowTypes, DeleteSiteRows
  <2> QED BY <1>1, <2>2, HandlersStay, PublishersStay, ReceiverStays DEF TypeOK, DeleteSiteRows
<1>2. ASSUME NEW w \in Worker, NEW d \in Delivery, Receive(w, d)
      PROVE  TypeOK'
  <2>1. HandlerTypes'
    BY <1>2 DEF TypeOK, HandlerTypes, Receive
  <2>2. queue' \in [Delivery -> Nat]
    BY <1>2 DEF TypeOK, Receive
  <2> QED BY <1>2, <2>1, <2>2, RowsStay, PublishersStay, ReceiverStays DEF TypeOK, Receive
<1>3. ASSUME NEW d \in Delivery, DiscardMessage(d)
      PROVE  TypeOK'
  <2>1. queue' \in [Delivery -> Nat]
    BY <1>3 DEF TypeOK, DiscardMessage
  <2> QED BY <1>3, <2>1, RowsStay, HandlersStay, PublishersStay, ReceiverStays DEF TypeOK, DiscardMessage
<1>4. ASSUME NEW w \in Worker, MessageTimesOut(w)
      PROVE  TypeOK'
  <2>1. HandlerTypes'
    BY <1>4 DEF TypeOK, HandlerTypes, MessageTimesOut
  <2>2. queue' \in [Delivery -> Nat]
    BY <1>4, PushTyped DEF TypeOK, HandlerTypes, MessageTimesOut, Requeue
  <2> QED BY <1>4, <2>1, <2>2, FaultTyped, RowsStay, PublishersStay, ReceiverStays DEF TypeOK, MessageTimesOut
<1>5. CASE Crash
  <2>1. HandlerTypes' /\ PublisherTypes' /\ queue' \in [Delivery -> Nat]
    BY <1>5 DEF HandlerTypes, PublisherTypes, Crash
  <2> QED BY <1>5, <2>1, FaultTyped, RowsStay, ReceiverStays DEF TypeOK, Crash
<1>6. CASE UNCHANGED vars
  BY <1>6, RowsStay, HandlersStay, PublishersStay, ReceiverStays DEF TypeOK, vars
<1> QED
  BY <1>1, <1>2, <1>3, <1>4, <1>5, <1>6, TypeEmission, TypePublisher, TypeSweeper, TypeHandler,
     TypeTime DEF Next

(* Every variable keeps its type, and whoever is at work on a delivery knows *)
(* which one.                                                                *)
THEOREM TypeCorrect == Spec => []TypeOK
BY TypeInit, TypeNext, PTL DEF Spec

-----------------------------------------------------------------------------
(* The claim. A handler in an attempt holds a claim that nobody else can    *)
(* take: the row is "processing" and neither stale, so that the sweep passes *)
(* it over, nor claimable, or it was deleted under the handler and cannot    *)
(* come back. The first conjunct is what makes exclusiveness inductive.      *)
HoldsClaim(d) ==
    \/ status[d] = "deleted"
    \/ status[d] = "processing" /\ ~stale[d] /\ due[d]

ClaimInv ==
    /\ \A w \in Worker : Attempting(w) => HoldsClaim(job[w])
    /\ ClaimExclusive

\* A handler whose program counter is not that of an attempt holds nothing.
LEMMA ClaimKept ==
    ASSUME ClaimInv,
           \A w \in Worker : Attempting(w)' => Attempting(w) /\ job'[w] = job[w],
           \A w \in Worker : Attempting(w)' /\ HoldsClaim(job[w]) => HoldsClaim(job[w])'
    PROVE  ClaimInv'
<1>1. ASSUME NEW w \in Worker, Attempting(w)'
      PROVE  HoldsClaim(job[w])'
  <2>1. Attempting(w) /\ job'[w] = job[w] /\ HoldsClaim(job[w])'
    BY <1>1 DEF ClaimInv
  <2> QED BY <2>1 DEF HoldsClaim
<1>2. ClaimExclusive'
  BY DEF ClaimInv, ClaimExclusive
<1> QED BY <1>1, <1>2 DEF ClaimInv

LEMMA ClaimInit == Init => ClaimInv
BY DEF Init, ClaimInv, ClaimExclusive, Attempting

\* The steps that leave the handlers alone.
LEMMA ClaimElsewhere ==
    ASSUME TypeOK, ClaimInv, Timely,
           \/ \E p \in Emitter, D \in SUBSET Delivery : Enqueue(p, D)
           \/ \E p \in Publisher : PublisherStep(p)
           \/ SweeperStep
           \/ \E D \in SUBSET Delivery : DeleteSiteRows(D)
           \/ \E d \in Delivery : DiscardMessage(d)
           \/ \E d \in Delivery : TimeStep(d)
    PROVE  ClaimInv'
<1>1. UNCHANGED <<wpc, job>>
  BY DEF Enqueue, PublisherStep, MarkQueued, Publish, PublishFails, ClearQueued, FinishPublishing,
     SweeperStep, RecoverStale, RecoverStaged, ListDispatchable, SweepFails, DeleteOldAttempts,
     DeleteOldDeliveries, DeleteSiteRows, DiscardMessage, TimeStep, BackoffElapses,
     QueueLeaseExpires, ClaimAges, workerVars
<1>2. ASSUME NEW w \in Worker, Attempting(w), HoldsClaim(job[w])
      PROVE  HoldsClaim(job[w])'
  <2> DEFINE d == job[w]
  <2>1. d \in Delivery
    BY <1>2 DEF TypeOK, HandlerTypes, Attempting
  <2>2. d' = d
    BY <1>1
  <2>3. status \in [Delivery -> {"absent", "deleted"} \union Open \union Settled]
    BY DEF TypeOK, RowTypes
  <2> HIDE DEF d
  <2> SUFFICES \/ status'[d] = "deleted"
               \/ status'[d] = "processing" /\ ~stale'[d] /\ due'[d]
    BY <2>2 DEF HoldsClaim, d
  <2>4. HoldsClaim(d)
    BY <1>2 DEF d
  <2>5. CASE \E p \in Emitter, D \in SUBSET Delivery : Enqueue(p, D)
    BY <2>1, <2>4, <2>5 DEF Enqueue, HoldsClaim
  <2>6. CASE \E p \in Publisher : PublisherStep(p)
    BY <2>1, <2>4, <2>6 DEF PublisherStep, MarkQueued, Publish, PublishFails, ClearQueued,
       FinishPublishing, rowVars, HoldsClaim
  <2>7. CASE SweeperStep
    <3>1. CASE RecoverStale
      BY <2>1, <2>4, <3>1 DEF RecoverStale, HoldsClaim
    <3>2. CASE DeleteOldDeliveries
      BY <2>1, <2>4, <3>2 DEF DeleteOldDeliveries, HoldsClaim
    <3>3. ASSUME NEW D \in SUBSET Delivery, RecoverStaged(D)
          PROVE  status'[d] = status[d] /\ stale'[d] = stale[d] /\ (due[d] => due'[d])
      BY <2>1, <2>4, <3>3 DEF RecoverStaged, HoldsClaim
    <3>4. CASE ListDispatchable \/ SweepFails \/ \E kept \in [Delivery -> 0 .. MaxAttempts] : DeleteOldAttempts(kept)
      BY <2>1, <2>4, <3>4 DEF ListDispatchable, SweepFails, DeleteOldAttempts, rowVars, HoldsClaim
    <3> QED BY <2>4, <2>7, <3>1, <3>2, <3>3, <3>4 DEF SweeperStep, HoldsClaim
  <2>8. CASE \E D \in SUBSET Delivery : DeleteSiteRows(D)
    BY <2>1, <2>4, <2>8 DEF DeleteSiteRows, HoldsClaim
  <2>9. CASE \E e \in Delivery : DiscardMessage(e)
    BY <2>4, <2>9 DEF DiscardMessage, rowVars, HoldsClaim
  <2>10. ASSUME NEW e \in Delivery, TimeStep(e)
         PROVE  status'[d] = status[d] /\ stale'[d] = stale[d] /\ (due[d] => due'[d])
    <3>1. CASE BackoffElapses(e)
      BY <2>1, <2>4, <3>1 DEF BackoffElapses, HoldsClaim, TypeOK, RowTypes
    <3>2. CASE QueueLeaseExpires(e)
      BY <3>2 DEF QueueLeaseExpires
    <3>3. CASE ClaimAges(e)
      <4>1. e # d
        BY <1>2, <3>3 DEF ClaimAges, d
      <4> QED BY <2>1, <3>3, <4>1 DEF ClaimAges, TypeOK, RowTypes
    <3> QED BY <2>10, <3>1, <3>2, <3>3 DEF TimeStep
  <2> QED BY <2>4, <2>5, <2>6, <2>7, <2>8, <2>9, <2>10 DEF HoldsClaim
<1> QED BY <1>1, <1>2, ClaimKept DEF Attempting

\* A handler takes its claim, works under it and gives it up.
LEMMA ClaimHandler ==
    ASSUME TypeOK, ClaimInv, NEW w \in Worker, HandlerStep(w)
    PROVE  ClaimInv'
<1>1. ASSUME NEW v \in Worker, v # w
      PROVE  wpc'[v] = wpc[v] /\ job'[v] = job[v]
  BY <1>1 DEF HandlerStep, Claim, LoadClaim, Send, LoadForRecord, RecordAttempt, HandlerFails,
     RecordFindsNoRow, ReturnError, Return, TypeOK, HandlerTypes
<1>2. CASE Claim(w) /\ wpc'[w] = "claimed"
  <2>1. /\ job[w] \in Delivery
        /\ status[job[w]] \in Waiting /\ due[job[w]]
        /\ status' = [status EXCEPT ![job[w]] = "processing"]
        /\ stale' = [stale EXCEPT ![job[w]] = FALSE]
        /\ UNCHANGED <<job, due>>
    BY <1>2 DEF Claim, Return, TypeOK, HandlerTypes
  <2>2. HoldsClaim(job[w])'
    BY <2>1 DEF HoldsClaim, TypeOK, RowTypes
  <2>3. ASSUME NEW v \in Worker, v # w, Attempting(v)'
        PROVE  Attempting(v) /\ job[v] # job[w] /\ HoldsClaim(job[v])'
    <3>1. Attempting(v) /\ HoldsClaim(job[v])
      BY <1>1, <2>3 DEF ClaimInv, Attempting
    <3>2. job[v] # job[w] /\ job[v] \in Delivery
      BY <2>1, <3>1 DEF HoldsClaim, Waiting, TypeOK, HandlerTypes, Attempting
    <3> QED BY <2>1, <3>1, <3>2 DEF HoldsClaim, TypeOK, RowTypes
  <2> QED BY <2>1, <2>2, <2>3 DEF ClaimInv, ClaimExclusive
<1>3. CASE Claim(w) /\ wpc'[w] # "claimed"
  <2>1. ~Attempting(w)' /\ UNCHANGED <<status, stale, due>>
    BY <1>3 DEF Claim, Return, Attempting, TypeOK, HandlerTypes
  <2> QED BY <1>1, <2>1, ClaimKept DEF Attempting, HoldsClaim
<1>4. CASE LoadClaim(w) \/ Send(w) \/ LoadForRecord(w) \/ HandlerFails(w) \/ RecordFindsNoRow(w)
  <2>1. UNCHANGED <<status, stale, due>>
    BY <1>4 DEF LoadClaim, Send, LoadForRecord, HandlerFails, RecordFindsNoRow, rowVars
  <2>2. Attempting(w)' => Attempting(w) /\ job'[w] = job[w]
    BY <1>4 DEF LoadClaim, Send, LoadForRecord, HandlerFails, RecordFindsNoRow, ReturnError, Return,
       Attempting, TypeOK, HandlerTypes
  <2> QED BY <1>1, <2>1, <2>2, ClaimKept DEF Attempting, HoldsClaim
<1>5. CASE RecordAttempt(w)
  <2>1. ~Attempting(w)' /\ Attempting(w) /\ job[w] \in Delivery
    BY <1>5 DEF RecordAttempt, Return, Attempting, TypeOK, HandlerTypes
  <2>2. ASSUME NEW v \in Worker, Attempting(v)', HoldsClaim(job[v])
        PROVE  HoldsClaim(job[v])'
    <3>1. v # w /\ Attempting(v) /\ job'[v] = job[v]
      BY <1>1, <2>1, <2>2 DEF Attempting
    <3>2. job[v] # job[w]
      BY <2>1, <3>1 DEF ClaimInv, ClaimExclusive
    <3>3. job[v] \in Delivery
      BY <3>1 DEF Attempting, TypeOK, HandlerTypes
    <3>4. status'[job[v]] = status[job[v]] /\ stale' = stale /\ due'[job[v]] = due[job[v]]
      <4>1. /\ stale' = stale
            /\ status' \in {status, [status EXCEPT ![job[w]] = ResultStatus(w)]}
            /\ due' \in {due, [due EXCEPT ![job[w]] = FALSE]}
        BY <1>5 DEF RecordAttempt
      <4>2. status \in [Delivery -> {"absent", "deleted"} \union Open \union Settled] /\ due \in [Delivery -> BOOLEAN]
        BY DEF TypeOK, RowTypes
      <4> QED
        BY <3>2, <3>3, <4>1, <4>2
    <3> QED BY <2>2, <3>1, <3>4 DEF HoldsClaim
  <2> QED BY <1>1, <2>1, <2>2, ClaimKept DEF Attempting
<1> QED BY <1>2, <1>3, <1>4, <1>5 DEF HandlerStep

LEMMA ClaimNext == TypeOK /\ ClaimInv /\ Timely /\ [Next]_vars => ClaimInv'
<1> SUFFICES ASSUME TypeOK, ClaimInv, Timely, [Next]_vars
             PROVE  ClaimInv'
  OBVIOUS
<1>1. ASSUME NEW w \in Worker, NEW d \in Delivery, Receive(w, d)
      PROVE  ClaimInv'
  <2>1. \A v \in Worker : Attempting(v)' => v # w /\ Attempting(v) /\ job'[v] = job[v]
    BY <1>1 DEF Receive, Attempting, TypeOK, HandlerTypes
  <2> QED BY <1>1, <2>1, ClaimKept DEF Receive, rowVars, HoldsClaim
<1>2. ASSUME NEW w \in Worker, MessageTimesOut(w)
      PROVE  ClaimInv'
  BY <1>2, ClaimKept DEF MessageTimesOut, rowVars, HoldsClaim, Attempting
<1>3. CASE Crash
  BY <1>3 DEF Crash, ClaimInv, ClaimExclusive, Attempting
<1>4. CASE UNCHANGED vars
  BY <1>4, ClaimKept DEF vars, rowVars, workerVars, HoldsClaim, Attempting
<1> QED BY <1>1, <1>2, <1>3, <1>4, ClaimElsewhere, ClaimHandler DEF Next

LEMMA ClaimAlways ==
    ASSUME Timely
    PROVE  Spec => [](TypeOK /\ ClaimInv)
<1>1. Init => TypeOK /\ ClaimInv
  BY TypeInit, ClaimInit
<1>2. TypeOK /\ ClaimInv /\ [Next]_vars => (TypeOK /\ ClaimInv)'
  BY TypeNext, ClaimNext
<1> QED BY <1>1, <1>2, PTL DEF Spec

(* If attempts end within staleAfter, no two handlers are ever in an attempt *)
(* at one delivery: ClaimWebhookDelivery is a lock although nothing holds it *)
(* but a status column, and duplicates, timeouts and sweeps cannot break it. *)
THEOREM ExclusiveClaims ==
    ASSUME Timely
    PROVE  Spec => []ClaimExclusive
<1>1. TypeOK /\ ClaimInv => ClaimExclusive
  BY DEF ClaimInv
<1> QED BY <1>1, ClaimAlways, PTL

\* A handler records under a claim, so the row it updates is not settled.
LEMMA SettledStep ==
    ASSUME TypeOK, ClaimInv, [Next]_vars, NEW d \in Delivery, status[d] \in Settled
    PROVE  status'[d] \in {status[d], "deleted"}
<1>0. status[d] \notin Open /\ status[d] \notin {"absent", "deleted"}
  BY DEF Open, Waiting, Settled
<1>1. CASE \E p \in Emitter, D \in SUBSET Delivery : Enqueue(p, D)
  BY <1>0, <1>1 DEF Enqueue
<1>2. CASE \E p \in Publisher : PublisherStep(p)
  BY <1>2 DEF PublisherStep, MarkQueued, Publish, PublishFails, ClearQueued, FinishPublishing, rowVars
<1>3. CASE SweeperStep
  BY <1>0, <1>3 DEF SweeperStep, RecoverStale, RecoverStaged, ListDispatchable, SweepFails,
     DeleteOldAttempts, DeleteOldDeliveries, rowVars, Open
<1>4. CASE \E D \in SUBSET Delivery : DeleteSiteRows(D)
  BY <1>4 DEF DeleteSiteRows
<1>5. CASE \E w \in Worker : HandlerStep(w)
  <2> PICK w \in Worker : HandlerStep(w)
    BY <1>5
  <2>1. CASE Claim(w)
    BY <1>0, <2>1 DEF Claim, Open, TypeOK, RowTypes
  <2>2. CASE RecordAttempt(w)
    <3>1. HoldsClaim(job[w])
      BY <2>2 DEF ClaimInv, Attempting, RecordAttempt
    <3>2. job[w] # d
      BY <1>0, <3>1 DEF HoldsClaim, Open
    <3> QED BY <2>2, <3>2 DEF RecordAttempt, TypeOK, RowTypes
  <2>3. CASE LoadClaim(w) \/ Send(w) \/ LoadForRecord(w) \/ HandlerFails(w) \/ RecordFindsNoRow(w)
    BY <2>3 DEF LoadClaim, Send, LoadForRecord, HandlerFails, RecordFindsNoRow, rowVars
  <2> QED BY <2>1, <2>2, <2>3 DEF HandlerStep
<1>6. CASE \/ \E w \in Worker, e \in Delivery : Receive(w, e)
           \/ \E e \in Delivery : DiscardMessage(e)
           \/ \E e \in Delivery : TimeStep(e)
           \/ \E w \in Worker : MessageTimesOut(w)
           \/ Crash
           \/ UNCHANGED vars
  BY <1>6 DEF Receive, DiscardMessage, TimeStep, BackoffElapses, QueueLeaseExpires, ClaimAges,
     MessageTimesOut, Crash, vars, rowVars
<1> QED BY <1>1, <1>2, <1>3, <1>4, <1>5, <1>6 DEF Next

(* Under the same assumption the unconditional UPDATE at the end of          *)
(* RecordWebhookDeliveryAttempt never overwrites an outcome: succeeded and   *)
(* failed are final.                                                         *)
THEOREM OutcomesAreFinal ==
    ASSUME Timely
    PROVE  Spec => SettledIsFinal
<1>1. TypeOK /\ ClaimInv /\ [Next]_vars =>
        [\A d \in Delivery : status[d] \in Settled => status'[d] \in {status[d], "deleted"}]_vars
  BY SettledStep
<1> QED BY <1>1, ClaimAlways, PTL DEF Spec, SettledIsFinal

(* And the receiver is sent nothing before the backoff has elapsed: a        *)
(* request is made under a claim, which is granted to a due row only, and    *)
(* nothing makes the row undue before the attempt is recorded.               *)
THEOREM NoEarlyRequest ==
    ASSUME Timely
    PROVE  Spec => BackoffRespected
<1>1. ASSUME TypeOK, ClaimInv, [Next]_vars, NEW d \in Delivery, posts'[d] # posts[d], status[d] # "deleted"
      PROVE  due[d]
  <2>1. \E w \in Worker : Send(w)
    BY <1>1 DEF Next, vars, Enqueue, PublisherStep, MarkQueued, Publish, PublishFails, ClearQueued,
       FinishPublishing, SweeperStep, RecoverStale, RecoverStaged, ListDispatchable, SweepFails,
       DeleteOldAttempts, DeleteOldDeliveries, DeleteSiteRows, Receive, DiscardMessage, HandlerStep,
       Claim, LoadClaim, LoadForRecord, RecordAttempt, HandlerFails, RecordFindsNoRow, TimeStep,
       BackoffElapses, QueueLeaseExpires, ClaimAges, MessageTimesOut, Crash, receiverVars
  <2> PICK w \in Worker : Send(w)
    BY <2>1
  <2>2. job[w] = d /\ Attempting(w)
    BY <1>1 DEF Send, Attempting, TypeOK, ReceiverTypes
  <2> QED BY <1>1, <2>2 DEF ClaimInv, HoldsClaim
<1>2. TypeOK /\ ClaimInv /\ [Next]_vars =>
        [\A d \in Delivery : posts'[d] # posts[d] /\ status[d] # "deleted" => due[d]]_vars
  BY <1>1
<1> QED BY <1>2, ClaimAlways, PTL DEF Spec, BackoffRespected

-----------------------------------------------------------------------------
(* The attempt log and the reasons for settling. Between the claim and the  *)
(* record a handler works from copies: the attempt count the claim saw, the *)
(* number the attempt will get, the answer of the receiver. They are still  *)
(* true of the row when the handler writes, because nobody else writes to a *)
(* claimed row.                                                             *)
LogOf(d) ==
    /\ status[d] # "deleted" =>
          \A i \in 1 .. Len(attempts[d]) :
              /\ attempts[d][i].number = attemptCount[d] - Len(attempts[d]) + i
              /\ attempts[d][i].status \in Settled =>
                    i = Len(attempts[d]) /\ status[d] = attempts[d][i].status
              /\ status[d] \in Settled /\ i = Len(attempts[d]) => attempts[d][i].status = status[d]
    /\ status[d] \in {"absent"} \union Open => attemptCount[d] < MaxAttempts
    /\ status[d] = "failed" => attemptCount[d] = MaxAttempts
    /\ status[d] = "succeeded" => accepted[d] /\ attemptCount[d] \in 1 .. MaxAttempts

CopiesOf(w) ==
    /\ wpc[w] \in {"sending", "responded", "recording"} /\ status[job[w]] = "processing" =>
          claimed[w] = attemptCount[job[w]]
    /\ wpc[w] = "recording" /\ status[job[w]] = "processing" => number[w] = attemptCount[job[w]] + 1
    /\ wpc[w] \in {"responded", "recording"} /\ outcome[w] = "ok" => accepted[job[w]]

LogInv == (\A d \in Delivery : LogOf(d)) /\ (\A w \in Worker : CopiesOf(w))

LEMMA LogInit == Init => LogInv
BY DeliveryAssumption DEF Init, LogInv, LogOf, CopiesOf, Open, Waiting

LEMMA LogKept ==
    ASSUME NEW d \in Delivery, LogOf(d),
           UNCHANGED <<attempts[d], attemptCount[d]>>, accepted[d] => accepted'[d],
           \/ status'[d] \in {status[d], "deleted"}
           \/ status[d] \in {"absent"} \union Open /\ status'[d] \in Open
    PROVE  LogOf(d)'
<1>1. CASE status'[d] = "deleted"
  BY <1>1 DEF LogOf, Open, Waiting
<1>2. CASE status'[d] = status[d]
  BY <1>2 DEF LogOf
<1>3. CASE status[d] \in {"absent"} \union Open /\ status'[d] \in Open
  BY <1>3 DEF LogOf, Open, Waiting, Settled
<1> QED BY <1>1, <1>2, <1>3

LEMMA CopiesKept ==
    ASSUME NEW w \in Worker, CopiesOf(w),
           UNCHANGED <<wpc[w], job[w], claimed[w], number[w], outcome[w]>>,
           Attempting(w) => /\ UNCHANGED attemptCount[job[w]]
                            /\ accepted[job[w]] => accepted'[job[w]]
                            /\ status'[job[w]] = "processing" => status[job[w]] = "processing"
    PROVE  CopiesOf(w)'
BY DEF CopiesOf, Attempting

\* What the steps outside the handlers do to a row they do not delete.
LEMMA RowsElsewhere ==
    ASSUME TypeOK, NEW d \in Delivery,
           \/ \E p \in Emitter, D \in SUBSET Delivery : Enqueue(p, D)
           \/ \E p \in Publisher : PublisherStep(p)
           \/ RecoverStale
           \/ \E D \in SUBSET Delivery : RecoverStaged(D)
           \/ ListDispatchable
           \/ SweepFails
           \/ DeleteOldDeliveries
           \/ \E e \in Delivery : DiscardMessage(e)
           \/ \E e \in Delivery : TimeStep(e)
    PROVE  /\ UNCHANGED <<attempts, attemptCount, accepted>>
           /\ \/ status'[d] \in {status[d], "deleted"}
              \/ status[d] \in {"absent"} \union Open /\ status'[d] \in Waiting
<1>1. status \in [Delivery -> {"absent", "deleted"} \union Open \union Settled]
  BY DEF TypeOK, RowTypes
<1>2. CASE \E p \in Emitter, D \in SUBSET Delivery : Enqueue(p, D)
  BY <1>1, <1>2 DEF Enqueue, receiverVars, Waiting
<1>3. CASE \E p \in Publisher : PublisherStep(p)
  BY <1>3 DEF PublisherStep, MarkQueued, Publish, PublishFails, ClearQueued, FinishPublishing,
     rowVars, receiverVars
<1>4. CASE RecoverStale
  BY <1>1, <1>4 DEF RecoverStale, receiverVars, Waiting, Open
<1>5. CASE \E D \in SUBSET Delivery : RecoverStaged(D)
  BY <1>1, <1>5 DEF RecoverStaged, receiverVars, Waiting
<1>6. CASE ListDispatchable \/ SweepFails
  BY <1>6 DEF ListDispatchable, SweepFails, rowVars, receiverVars
<1>7. CASE DeleteOldDeliveries
  BY <1>1, <1>7 DEF DeleteOldDeliveries, receiverVars
<1>8. CASE \E e \in Delivery : DiscardMessage(e)
  BY <1>8 DEF DiscardMessage, rowVars, receiverVars
<1>9. CASE \E e \in Delivery : TimeStep(e)
  BY <1>9 DEF TimeStep, BackoffElapses, QueueLeaseExpires, ClaimAges, receiverVars
<1> QED BY <1>2, <1>3, <1>4, <1>5, <1>6, <1>7, <1>8, <1>9

LEMMA CopiesElsewhere ==
    ASSUME \/ \E p \in Emitter, D \in SUBSET Delivery : Enqueue(p, D)
           \/ \E p \in Publisher : PublisherStep(p)
           \/ SweeperStep
           \/ \E D \in SUBSET Delivery : DeleteSiteRows(D)
           \/ \E e \in Delivery : DiscardMessage(e)
           \/ \E e \in Delivery : TimeStep(e)
    PROVE  UNCHANGED workerVars
BY DEF Enqueue, PublisherStep, MarkQueued, Publish, PublishFails, ClearQueued, FinishPublishing,
   SweeperStep, RecoverStale, RecoverStaged, ListDispatchable, SweepFails, DeleteOldAttempts,
   DeleteOldDeliveries, DeleteSiteRows, DiscardMessage, TimeStep, BackoffElapses,
   QueueLeaseExpires, ClaimAges

LEMMA LogElsewhere ==
    ASSUME TypeOK, LogInv,
           \/ \E p \in Emitter, D \in SUBSET Delivery : Enqueue(p, D)
           \/ \E p \in Publisher : PublisherStep(p)
           \/ SweeperStep
           \/ \E D \in SUBSET Delivery : DeleteSiteRows(D)
           \/ \E e \in Delivery : DiscardMessage(e)
           \/ \E e \in Delivery : TimeStep(e)
    PROVE  LogInv'
<1>1. UNCHANGED workerVars
  BY CopiesElsewhere
<1>2. \A w \in Worker : Attempting(w) => job[w] \in Delivery
  BY DEF TypeOK, HandlerTypes, Attempting
<1>3. ASSUME NEW kept \in [Delivery -> 0 .. MaxAttempts], DeleteOldAttempts(kept)
      PROVE  LogInv'
  <2>1. UNCHANGED <<status, attemptCount, accepted>>
    BY <1>3 DEF DeleteOldAttempts, receiverVars
  <2>2. ASSUME NEW d \in Delivery
        PROVE  LogOf(d)'
    <3> DEFINE A == [number : Nat, status : {"retrying"} \union Settled]
               n == Len(attempts[d])
               k == kept[d]
    <3>1. attempts[d] \in Seq(A) /\ k \in Nat /\ k <= n /\ attemptCount[d] \in Nat
      <4>1. attempts[d] \in Seq(A) /\ attemptCount[d] \in Nat
        BY DEF TypeOK, RowTypes
      <4>2. k \in Nat /\ k <= n
        BY <1>3, DeliveryAssumption DEF DeleteOldAttempts
      <4> QED BY <4>1, <4>2
    <3>2. attempts'[d] = SubSeq(attempts[d], n - k + 1, n)
      BY <1>3 DEF DeleteOldAttempts
    <3>3. n \in Nat
      BY <3>1, LenProperties
    <3> HIDE DEF A
    <3>4. Len(attempts'[d]) = k /\ \A i \in 1 .. k : attempts'[d][i] = attempts[d][n - k + i]
      <4>1. /\ Len(SubSeq(attempts[d], n - k + 1, n)) = k
            /\ \A i \in 1 .. k : SubSeq(attempts[d], n - k + 1, n)[i] = attempts[d][n - k + i]
        BY <3>1, Suffix
      <4> QED BY <3>2, <4>1
    <3>5. ASSUME NEW i \in 1 .. Len(attempts'[d]), status[d] # "deleted"
          PROVE  /\ attempts'[d][i].number = attemptCount[d] - k + i
                 /\ attempts'[d][i].status \in Settled => i = k /\ status[d] = attempts'[d][i].status
                 /\ status[d] \in Settled /\ i = k => attempts'[d][i].status = status[d]
      <4>1. i \in 1 .. k
        BY <3>4, <3>5
      <4> DEFINE j == n - k + i
      <4>2. j \in 1 .. n /\ attempts'[d][i] = attempts[d][j]
            /\ attemptCount[d] - n + j = attemptCount[d] - k + i /\ (j = n <=> i = k)
        BY <3>1, <3>3, <3>4, <4>1
      <4>3. /\ attempts[d][j].number = attemptCount[d] - n + j
            /\ attempts[d][j].status \in Settled => j = n /\ status[d] = attempts[d][j].status
            /\ status[d] \in Settled /\ j = n => attempts[d][j].status = status[d]
        BY <3>5, <4>2 DEF LogInv, LogOf
      <4> HIDE DEF j, k, n
      <4> QED BY <4>2, <4>3
    <3>6. status[d] # "deleted" =>
            \A i \in 1 .. Len(attempts'[d]) :
                /\ attempts'[d][i].number = attemptCount[d] - Len(attempts'[d]) + i
                /\ attempts'[d][i].status \in Settled =>
                      i = Len(attempts'[d]) /\ status[d] = attempts'[d][i].status
                /\ status[d] \in Settled /\ i = Len(attempts'[d]) => attempts'[d][i].status = status[d]
      BY <3>4, <3>5
    <3> QED BY <2>1, <3>6 DEF LogInv, LogOf
  <2> QED BY <1>1, <1>2, <2>1, <2>2, CopiesKept DEF LogInv, workerVars
<1>4. CASE \E D \in SUBSET Delivery : DeleteSiteRows(D)
  <2>1. PICK D \in SUBSET Delivery : DeleteSiteRows(D)
    BY <1>4
  <2>2. UNCHANGED <<attemptCount, accepted>>
    BY <2>1 DEF DeleteSiteRows, receiverVars
  <2>3. ASSUME NEW d \in Delivery
        PROVE  \/ status'[d] = "deleted"
               \/ status'[d] = status[d] /\ attempts'[d] = attempts[d]
    BY <2>1 DEF DeleteSiteRows
  <2>4. ASSUME NEW d \in Delivery
        PROVE  LogOf(d)'
    <3>1. CASE status'[d] = "deleted"
      BY <3>1 DEF LogOf, Open, Waiting
    <3>2. CASE status'[d] = status[d] /\ attempts'[d] = attempts[d]
      BY <2>2, <3>2, LogKept DEF LogInv
    <3> QED BY <2>3, <3>1, <3>2
  <2> QED BY <1>1, <1>2, <2>2, <2>3, <2>4, CopiesKept DEF LogInv, workerVars
<1>5. CASE /\ ~ \E kept \in [Delivery -> 0 .. MaxAttempts] : DeleteOldAttempts(kept)
           /\ ~ \E D \in SUBSET Delivery : DeleteSiteRows(D)
  <2>1. ASSUME NEW d \in Delivery
        PROVE  /\ UNCHANGED <<attempts, attemptCount, accepted>>
               /\ \/ status'[d] \in {status[d], "deleted"}
                  \/ status[d] \in {"absent"} \union Open /\ status'[d] \in Waiting
    BY <1>5, RowsElsewhere DEF SweeperStep
  <2>2. \A d \in Delivery : LogOf(d)'
    BY <2>1, LogKept DEF LogInv, Open
  <2>3. ASSUME NEW w \in Worker
        PROVE  CopiesOf(w)'
    <3>1. Attempting(w) => /\ UNCHANGED attemptCount[job[w]]
                           /\ accepted[job[w]] => accepted'[job[w]]
                           /\ status'[job[w]] = "processing" => status[job[w]] = "processing"
      BY <1>1, <1>2, <2>1 DEF Waiting, workerVars
    <3> QED BY <1>1, <3>1, CopiesKept DEF LogInv, workerVars
  <2> QED BY <2>2, <2>3 DEF LogInv
<1> QED BY <1>3, <1>4, <1>5

LEMMA ResultOf ==
    ASSUME NEW w \in Worker
    PROVE  /\ ResultStatus(w) \in {"retrying"} \union Settled
           /\ ResultStatus(w) = "succeeded" => outcome[w] = "ok"
           /\ ResultStatus(w) = "failed" => claimed[w] + 1 >= MaxAttempts
           /\ ResultStatus(w) = "retrying" => ~(claimed[w] + 1 >= MaxAttempts)
BY DEF ResultStatus, Settled

\* The row a handler records its attempt in.
LEMMA LogRecord ==
    ASSUME TypeOK, ClaimInv, LogInv, NEW w \in Worker, RecordAttempt(w),
           NEW d \in Delivery, d = job[w], status[d] # "deleted"
    PROVE  /\ LogOf(d)'
           /\ status[d] = "processing" /\ attemptCount'[d] = attemptCount[d] + 1
<1> DEFINE n == Len(attempts[d])
           A == [number : Nat, status : {"retrying"} \union Settled]
           entry == [number |-> number[w], status |-> ResultStatus(w)]
<1>1. status[d] = "processing"
  BY DEF ClaimInv, HoldsClaim, RecordAttempt, Attempting
<1>2. /\ attempts'[d] = Append(attempts[d], entry)
      /\ status'[d] = ResultStatus(w)
      /\ attemptCount'[d] = number[w]
      /\ UNCHANGED accepted
  BY DEF RecordAttempt, TypeOK, RowTypes, receiverVars
<1>3. /\ claimed[w] = attemptCount[d]
      /\ number[w] = attemptCount[d] + 1
      /\ outcome[w] = "ok" => accepted[d]
  BY <1>1 DEF LogInv, CopiesOf, RecordAttempt
<1>4. attemptCount[d] \in Nat /\ attemptCount[d] < MaxAttempts /\ MaxAttempts \in Nat
  BY <1>1, DeliveryAssumption DEF TypeOK, RowTypes, LogInv, LogOf, Open
<1>5. attempts[d] \in Seq(A) /\ entry \in A /\ n \in Nat
  <2>1. attempts[d] \in Seq(A)
    BY DEF TypeOK, RowTypes
  <2>2. entry \in A
    BY ResultOf DEF TypeOK, HandlerTypes
  <2> QED BY <2>1, <2>2, LenProperties
<1>6. /\ Len(attempts'[d]) = n + 1
      /\ \A i \in 1 .. n : attempts'[d][i] = attempts[d][i]
      /\ attempts'[d][n + 1] = entry
  <2> HIDE DEF A, entry
  <2> QED BY <1>2, <1>5, AppendProperties
<1>7. ASSUME NEW i \in 1 .. n
      PROVE  attempts[d][i].number = attemptCount[d] - n + i /\ attempts[d][i].status \notin Settled
  BY <1>1 DEF LogInv, LogOf, Settled
<1>8. ASSUME NEW i \in 1 .. n + 1
      PROVE  /\ attempts'[d][i].number = attemptCount[d] + 1 - (n + 1) + i
             /\ attempts'[d][i].status \in Settled => i = n + 1 /\ ResultStatus(w) = attempts'[d][i].status
             /\ i = n + 1 => attempts'[d][i].status = ResultStatus(w)
  <2>1. CASE i \in 1 .. n
    <3>1. attempts'[d][i] = attempts[d][i] /\ attempts[d][i].number = attemptCount[d] - n + i
          /\ attempts[d][i].status \notin Settled
      BY <1>6, <1>7, <2>1
    <3>2. attemptCount[d] + 1 - (n + 1) + i = attemptCount[d] - n + i /\ i # n + 1
      BY <1>4, <1>5, <2>1
    <3> QED BY <3>1, <3>2
  <2>2. CASE i = n + 1
    <3>1. attempts'[d][i].number = number[w] /\ attempts'[d][i].status = ResultStatus(w)
      BY <1>6, <2>2
    <3> QED BY <1>3, <1>4, <1>5, <2>2, <3>1
  <2> QED BY <1>5, <2>1, <2>2
<1>9. /\ ResultStatus(w) \in {"absent"} \union Open => attemptCount[d] + 1 < MaxAttempts
      /\ ResultStatus(w) = "failed" => attemptCount[d] + 1 = MaxAttempts
      /\ ResultStatus(w) = "succeeded" => accepted[d] /\ attemptCount[d] + 1 \in 1 .. MaxAttempts
  BY <1>3, <1>4, ResultOf DEF Open, Waiting, Settled
<1>10. attemptCount'[d] = attemptCount[d] + 1
  BY <1>2, <1>3
<1>11. LogOf(d)'
  <2> HIDE DEF n
  <2>1. \A i \in 1 .. Len(attempts'[d]) :
            /\ attempts'[d][i].number = attemptCount'[d] - Len(attempts'[d]) + i
            /\ attempts'[d][i].status \in Settled =>
                  i = Len(attempts'[d]) /\ status'[d] = attempts'[d][i].status
            /\ status'[d] \in Settled /\ i = Len(attempts'[d]) => attempts'[d][i].status = status'[d]
    <3>1. TAKE i \in 1 .. Len(attempts'[d])
    <3>2. i \in 1 .. n + 1
      BY <1>6
    <3>3. attemptCount'[d] = attemptCount[d] + 1 /\ Len(attempts'[d]) = n + 1 /\ status'[d] = ResultStatus(w)
      BY <1>2, <1>6, <1>10
    <3>4. attemptCount[d] \in Nat /\ n \in Nat /\ i \in Nat
      BY <1>4, <1>5, <3>2
    <3> HIDE DEF A, entry
    <3>5. /\ attempts'[d][i].number = attemptCount[d] + 1 - (n + 1) + i
          /\ attempts'[d][i].status \in Settled => i = n + 1 /\ ResultStatus(w) = attempts'[d][i].status
          /\ i = n + 1 => attempts'[d][i].status = ResultStatus(w)
      BY <1>8, <3>2
    <3>6. attempts'[d][i].number = attemptCount'[d] - Len(attempts'[d]) + i
      BY <3>3, <3>4, <3>5
    <3>7. /\ attempts'[d][i].status \in Settled =>
                i = Len(attempts'[d]) /\ status'[d] = attempts'[d][i].status
          /\ status'[d] \in Settled /\ i = Len(attempts'[d]) => attempts'[d][i].status = status'[d]
      BY <3>3, <3>5
    <3> QED BY <3>6, <3>7
  <2>2. /\ status'[d] \in {"absent"} \union Open => attemptCount'[d] < MaxAttempts
        /\ status'[d] = "failed" => attemptCount'[d] = MaxAttempts
        /\ status'[d] = "succeeded" => accepted'[d] /\ attemptCount'[d] \in 1 .. MaxAttempts
    BY <1>2, <1>9, <1>10
  <2> QED BY <2>1, <2>2 DEF LogOf
<1> QED BY <1>1, <1>10, <1>11

LEMMA LogHandler ==
    ASSUME TypeOK, ClaimInv, LogInv, NEW w \in Worker, HandlerStep(w)
    PROVE  LogInv'
<1>1. ASSUME NEW v \in Worker, v # w
      PROVE  UNCHANGED <<wpc[v], job[v], claimed[v], number[v], outcome[v]>>
  BY <1>1 DEF HandlerStep, Claim, LoadClaim, Send, LoadForRecord, RecordAttempt, HandlerFails,
     RecordFindsNoRow, ReturnError, Return, TypeOK, HandlerTypes
<1>2. \A v \in Worker : Attempting(v) => job[v] \in Delivery /\ HoldsClaim(job[v])
  BY DEF TypeOK, HandlerTypes, Attempting, ClaimInv
<1>3. CASE Claim(w)
  <2>1. UNCHANGED <<attempts, attemptCount, accepted>>
    BY <1>3 DEF Claim, receiverVars
  <2>2. ASSUME NEW d \in Delivery
        PROVE  \/ status'[d] = status[d]
               \/ status[d] \in Waiting /\ status'[d] = "processing"
    BY <1>3 DEF Claim, TypeOK, RowTypes
  <2>3. \A d \in Delivery : LogOf(d)'
    BY <2>1, <2>2, LogKept DEF LogInv, Open
  <2>4. CopiesOf(w)'
    <3>1. wpc'[w] \in {"idle", "claimed"}
      BY <1>3 DEF Claim, Return, TypeOK, HandlerTypes
    <3> QED BY <3>1 DEF CopiesOf
  <2>5. ASSUME NEW v \in Worker, v # w
        PROVE  CopiesOf(v)'
    BY <1>1, <1>2, <2>1, <2>2, <2>5, CopiesKept DEF LogInv, HoldsClaim, Waiting
  <2> QED BY <2>3, <2>4, <2>5 DEF LogInv
<1>4. CASE LoadClaim(w) \/ LoadForRecord(w) \/ HandlerFails(w) \/ RecordFindsNoRow(w)
  <2>1. UNCHANGED <<attempts, attemptCount, accepted, status>>
    BY <1>4 DEF LoadClaim, LoadForRecord, HandlerFails, RecordFindsNoRow, rowVars, receiverVars
  <2>2. \A d \in Delivery : LogOf(d)'
    BY <2>1, LogKept DEF LogInv
  <2>3. CopiesOf(w)'
    <3>1. CASE LoadClaim(w)
      <4>1. \/ wpc'[w] = "idle"
            \/ wpc'[w] = "sending" /\ claimed'[w] = attemptCount[job[w]] /\ job' = job
        BY <3>1 DEF LoadClaim, Return, TypeOK, HandlerTypes
      <4> QED BY <2>1, <4>1 DEF CopiesOf
    <3>2. CASE LoadForRecord(w)
      BY <2>1, <3>2 DEF LogInv, CopiesOf, LoadForRecord, TypeOK, HandlerTypes
    <3>3. CASE HandlerFails(w) \/ RecordFindsNoRow(w)
      BY <3>3 DEF CopiesOf, HandlerFails, RecordFindsNoRow, ReturnError, Return, TypeOK, HandlerTypes
    <3> QED BY <1>4, <3>1, <3>2, <3>3
  <2>4. ASSUME NEW v \in Worker, v # w
        PROVE  CopiesOf(v)'
    BY <1>1, <2>1, <2>4, CopiesKept DEF LogInv
  <2> QED BY <2>2, <2>3, <2>4 DEF LogInv
<1>5. CASE Send(w)
  <2>1. UNCHANGED <<attempts, attemptCount, status>>
    BY <1>5 DEF Send, rowVars
  <2>2. \A d \in Delivery : accepted[d] => accepted'[d]
    BY <1>5 DEF Send, TypeOK, ReceiverTypes
  <2>3. \A d \in Delivery : LogOf(d)'
    BY <2>1, <2>2, LogKept DEF LogInv
  <2>4. CopiesOf(w)'
    <3>1. /\ wpc'[w] = "responded" /\ job[w] \in Delivery /\ wpc[w] = "sending"
          /\ UNCHANGED <<job, claimed, number>>
          /\ outcome'[w] = "ok" => accepted'[job[w]]
      BY <1>5 DEF Send, TypeOK, HandlerTypes, ReceiverTypes
    <3> QED BY <2>1, <3>1 DEF LogInv, CopiesOf
  <2>5. ASSUME NEW v \in Worker, v # w
        PROVE  CopiesOf(v)'
    BY <1>1, <1>2, <2>1, <2>2, <2>5, CopiesKept DEF LogInv
  <2> QED BY <2>3, <2>4, <2>5 DEF LogInv
<1>6. CASE RecordAttempt(w)
  <2>1. job[w] \in Delivery /\ Attempting(w) /\ UNCHANGED accepted
    BY <1>6 DEF RecordAttempt, Attempting, TypeOK, HandlerTypes, receiverVars
  <2>2. ASSUME NEW d \in Delivery, d # job[w]
        PROVE  UNCHANGED <<attempts[d], attemptCount[d], status[d]>>
    BY <1>6, <2>2 DEF RecordAttempt, TypeOK, RowTypes
  <2>3. ASSUME NEW d \in Delivery
        PROVE  LogOf(d)'
    <3>1. CASE d # job[w]
      BY <2>1, <2>2, <3>1, LogKept DEF LogInv
    <3>2. CASE d = job[w] /\ status[d] # "deleted"
      BY <1>6, <3>2, LogRecord
    <3>3. CASE d = job[w] /\ status[d] = "deleted"
      <4>1. status'[d] = "deleted"
        BY <1>6, <3>3 DEF RecordAttempt
      <4> QED BY <4>1 DEF LogOf, Open, Waiting
    <3> QED BY <3>1, <3>2, <3>3
  <2>4. CopiesOf(w)'
    BY <1>6 DEF CopiesOf, RecordAttempt, Return, TypeOK, HandlerTypes
  <2>5. ASSUME NEW v \in Worker, v # w
        PROVE  CopiesOf(v)'
    <3>1. Attempting(v) => job[v] # job[w]
      BY <2>1, <2>5 DEF ClaimInv, ClaimExclusive
    <3> QED BY <1>1, <1>2, <2>1, <2>2, <2>5, <3>1, CopiesKept DEF LogInv
  <2> QED BY <2>3, <2>4, <2>5 DEF LogInv
<1> QED BY <1>3, <1>4, <1>5, <1>6 DEF HandlerStep

LEMMA LogNext == TypeOK /\ ClaimInv /\ LogInv /\ [Next]_vars => LogInv'
<1> SUFFICES ASSUME TypeOK, ClaimInv, LogInv, [Next]_vars
             PROVE  LogInv'
  OBVIOUS
<1>1. CASE \/ \E w \in Worker, d \in Delivery : Receive(w, d)
           \/ \E w \in Worker : MessageTimesOut(w)
           \/ Crash
           \/ UNCHANGED vars
  <2>1. UNCHANGED <<attempts, attemptCount, accepted, status>>
    BY <1>1 DEF Receive, MessageTimesOut, Crash, vars, rowVars, receiverVars
  <2>2. \A d \in Delivery : LogOf(d)'
    BY <2>1, LogKept DEF LogInv
  <2>3. ASSUME NEW v \in Worker
        PROVE  CopiesOf(v)'
    <3>1. CASE wpc'[v] \in {"idle", "acquired"}
      BY <3>1 DEF CopiesOf
    <3>2. CASE wpc'[v] \notin {"idle", "acquired"}
      <4>1. UNCHANGED <<wpc[v], job[v], claimed[v], number[v], outcome[v]>>
        BY <1>1, <3>2 DEF Receive, MessageTimesOut, Crash, vars, workerVars, TypeOK, HandlerTypes
      <4> QED BY <2>1, <4>1, CopiesKept DEF LogInv
    <3> QED BY <3>1, <3>2
  <2> QED BY <2>2, <2>3 DEF LogInv
<1> QED BY <1>1, LogElsewhere, LogHandler DEF Next

LEMMA LogAlways ==
    ASSUME Timely
    PROVE  Spec => [](TypeOK /\ ClaimInv /\ LogInv)
BY TypeInit, TypeNext, ClaimInit, ClaimNext, LogInit, LogNext, PTL DEF Spec

(* The attempt log of a delivery is the end of its history and agrees with   *)
(* attempt_count and with the status of the row.                             *)
THEOREM FaithfulLog ==
    ASSUME Timely
    PROVE  Spec => []AttemptLogFaithful
<1>1. LogInv => AttemptLogFaithful
  BY DEF LogInv, LogOf, AttemptLogFaithful
<1> QED BY <1>1, LogAlways, PTL

(* No delivery is given up before MaxAttempts recorded attempts, and none is *)
(* reported delivered that the receiver has not accepted.                    *)
THEOREM SettlingReasons ==
    ASSUME Timely
    PROVE  Spec => []SettledForAReason
<1>1. LogInv => SettledForAReason
  BY DEF LogInv, LogOf, SettledForAReason
<1> QED BY <1>1, LogAlways, PTL

-----------------------------------------------------------------------------
(* Requests. A handler that has asked and not yet recorded is alone with its *)
(* delivery, so that one fault cuts at most one request short.               *)
Asking(w, d) == wpc[w] \in {"responded", "recording"} /\ job[w] = d

LEMMA OneOrNone ==
    ASSUME NEW S, \A x, y \in S : x = y
    PROVE  Cardinality(S) \in {0, 1} /\ (S = {} <=> Cardinality(S) = 0)
<1>1. CASE S = {}
  BY <1>1, FS_EmptySet
<1>2. ASSUME NEW x \in S
      PROVE  Cardinality(S) = 1
  <2>1. S = {x}
    OBVIOUS
  <2> QED BY <2>1, FS_Singleton
<1> QED BY <1>1, <1>2

LEMMA UncountedValue ==
    ASSUME ClaimExclusive, NEW d
    PROVE  Uncounted(d) \in {0, 1} /\ (Uncounted(d) = 0 <=> \A w \in Worker : ~Asking(w, d))
<1> DEFINE S == {w \in Worker : wpc[w] \in {"responded", "recording"} /\ job[w] = d}
<1>1. \A x, y \in S : x = y
  BY DEF ClaimExclusive, Attempting
<1>2. S = {} <=> \A w \in Worker : ~Asking(w, d)
  BY DEF Asking
<1> QED BY <1>1, <1>2, OneOrNone DEF Uncounted

LEMMA UncountedValueNext ==
    ASSUME ClaimExclusive', NEW d
    PROVE  Uncounted(d)' \in {0, 1} /\ (Uncounted(d)' = 0 <=> \A w \in Worker : ~Asking(w, d)')
<1> DEFINE S == {w \in Worker : wpc'[w] \in {"responded", "recording"} /\ job'[w] = d}
<1>1. \A x, y \in S : x = y
  BY DEF ClaimExclusive, Attempting
<1>2. S = {} <=> \A w \in Worker : ~Asking(w, d)'
  BY DEF Asking
<1> QED BY <1>1, <1>2, OneOrNone DEF Uncounted

LEMMA UncountedKept ==
    ASSUME ClaimExclusive, ClaimExclusive', NEW d,
           \A w \in Worker : Asking(w, d)' <=> Asking(w, d)
    PROVE  Uncounted(d)' = Uncounted(d)
BY UncountedValue, UncountedValueNext

\* Nothing outside a handler's step makes a request, counts one or forgets one.
LEMMA RequestsElsewhere ==
    ASSUME TypeOK,
           \/ \E p \in Emitter, D \in SUBSET Delivery : Enqueue(p, D)
           \/ \E p \in Publisher : PublisherStep(p)
           \/ SweeperStep
           \/ \E D \in SUBSET Delivery : DeleteSiteRows(D)
           \/ \E w \in Worker, d \in Delivery : Receive(w, d)
           \/ \E d \in Delivery : DiscardMessage(d)
           \/ \E d \in Delivery : TimeStep(d)
           \/ \E w \in Worker : MessageTimesOut(w)
           \/ UNCHANGED vars
    PROVE  /\ UNCHANGED <<posts, attemptCount>>
           /\ faults' \in {faults, faults + 1}
           /\ \A d \in Delivery : status[d] = "deleted" => status'[d] = "deleted"
           /\ \A d \in Delivery, w \in Worker : Asking(w, d)' <=> Asking(w, d)
<1>1. CASE \E p \in Emitter, D \in SUBSET Delivery : Enqueue(p, D)
  BY <1>1 DEF Enqueue, Fault, workerVars, receiverVars, Asking
<1>2. CASE \E p \in Publisher : PublisherStep(p)
  BY <1>2 DEF PublisherStep, MarkQueued, Publish, PublishFails, ClearQueued, FinishPublishing,
     Fault, rowVars, workerVars, receiverVars, Asking
<1>3. CASE SweeperStep
  BY <1>3 DEF SweeperStep, RecoverStale, RecoverStaged, ListDispatchable, SweepFails, DeleteOldAttempts,
     DeleteOldDeliveries, Fault, rowVars, workerVars, receiverVars, Asking
<1>4. CASE \/ \E D \in SUBSET Delivery : DeleteSiteRows(D)
           \/ \E d \in Delivery : DiscardMessage(d)
           \/ \E d \in Delivery : TimeStep(d)
           \/ UNCHANGED vars
  BY <1>4 DEF DeleteSiteRows, DiscardMessage, TimeStep, BackoffElapses, QueueLeaseExpires, ClaimAges,
     vars, rowVars, workerVars, receiverVars, Asking
<1>5. ASSUME NEW w \in Worker, NEW e \in Delivery, Receive(w, e)
      PROVE  /\ UNCHANGED <<posts, attemptCount, status, faults>>
             /\ \A d \in Delivery, v \in Worker : Asking(v, d)' <=> Asking(v, d)
  BY <1>5 DEF Receive, rowVars, receiverVars, Asking, TypeOK, HandlerTypes
<1>6. CASE \E w \in Worker : MessageTimesOut(w)
  BY <1>6 DEF MessageTimesOut, Fault, rowVars, receiverVars, Asking
<1> QED BY <1>1, <1>2, <1>3, <1>4, <1>5, <1>6

LEMMA RequestsNext ==
    ASSUME TypeOK, ClaimInv, LogInv, RequestsAccountedFor, ClaimInv', [Next]_vars
    PROVE  RequestsAccountedFor'
<1>0. ClaimExclusive /\ ClaimExclusive'
  BY DEF ClaimInv
<1>1. SUFFICES ASSUME NEW d \in Delivery, status'[d] # "deleted"
               PROVE  posts'[d] <= attemptCount'[d] + Uncounted(d)' + faults'
  BY DEF RequestsAccountedFor
<1>2. /\ posts[d] \in Nat /\ attemptCount[d] \in Nat /\ faults \in Nat
      /\ Uncounted(d) \in {0, 1} /\ Uncounted(d)' \in {0, 1}
  BY <1>0, UncountedValue, UncountedValueNext, DeliveryAssumption DEF TypeOK, RowTypes, ReceiverTypes
<1>3. status[d] # "deleted" => posts[d] <= attemptCount[d] + Uncounted(d) + faults
  BY DEF RequestsAccountedFor
<1>4. CASE Crash
  <2>1. UNCHANGED <<posts, attemptCount, status>> /\ faults' = faults + 1
    BY <1>4 DEF Crash, Fault, rowVars, receiverVars
  <2> QED BY <1>1, <1>2, <1>3, <2>1
<1>5. ASSUME NEW w \in Worker, HandlerStep(w)
      PROVE  posts'[d] <= attemptCount'[d] + Uncounted(d)' + faults'
  <2>1. \A v \in Worker \ {w} : Asking(v, d)' <=> Asking(v, d)
    BY <1>5 DEF HandlerStep, Claim, LoadClaim, Send, LoadForRecord, RecordAttempt, HandlerFails,
       RecordFindsNoRow, ReturnError, Return, Asking, TypeOK, HandlerTypes
  <2>2. CASE Claim(w) \/ LoadClaim(w) \/ LoadForRecord(w)
    <3>1. Asking(w, d)' <=> Asking(w, d)
      BY <2>2 DEF Claim, LoadClaim, LoadForRecord, Return, Asking, TypeOK, HandlerTypes
    <3>2. UNCHANGED <<posts, attemptCount, faults>> /\ status[d] # "deleted"
      BY <1>1, <2>2 DEF Claim, LoadClaim, LoadForRecord, rowVars, receiverVars, Waiting, TypeOK, RowTypes
    <3>3. Uncounted(d)' = Uncounted(d)
      BY <1>0, <2>1, <3>1, UncountedKept
    <3> QED BY <1>2, <1>3, <3>2, <3>3
  <2>3. CASE HandlerFails(w)
    <3>1. UNCHANGED <<posts, attemptCount, status>> /\ faults' = faults + 1
      BY <2>3 DEF HandlerFails, Fault, rowVars, receiverVars
    <3> QED BY <1>1, <1>2, <1>3, <3>1
  <2>4. CASE RecordFindsNoRow(w)
    <3>1. UNCHANGED <<posts, attemptCount, status, faults>> /\ job[w] # d
      BY <1>1, <2>4 DEF RecordFindsNoRow, rowVars, receiverVars
    <3>2. ~Asking(w, d)' /\ ~Asking(w, d)
      BY <2>4, <3>1 DEF RecordFindsNoRow, ReturnError, Return, Asking, TypeOK, HandlerTypes
    <3>3. Uncounted(d)' = Uncounted(d)
      BY <1>0, <2>1, <3>2, UncountedKept
    <3> QED BY <1>1, <1>2, <1>3, <3>1, <3>3
  <2>5. CASE Send(w)
    <3>1. UNCHANGED <<attemptCount, status, faults, job>> /\ wpc[w] = "sending" /\ wpc'[w] = "responded"
      BY <2>5 DEF Send, rowVars, TypeOK, HandlerTypes
    <3>2. CASE job[w] # d
      <4>1. posts'[d] = posts[d]
        BY <2>5, <3>2 DEF Send, TypeOK, ReceiverTypes
      <4>2. Uncounted(d)' = Uncounted(d)
        BY <1>0, <2>1, <3>1, <3>2, UncountedKept DEF Asking
      <4> QED BY <1>1, <1>2, <1>3, <3>1, <4>1, <4>2
    <3>3. CASE job[w] = d
      <4>1. posts'[d] \in {posts[d], posts[d] + 1}
        BY <2>5, <3>3 DEF Send, TypeOK, ReceiverTypes
      <4>2. Asking(w, d)' /\ \A v \in Worker : ~Asking(v, d)
        BY <1>0, <3>1, <3>3 DEF Asking, ClaimExclusive, Attempting
      <4>3. Uncounted(d)' = 1 /\ Uncounted(d) = 0
        BY <1>0, <1>2, <4>2, UncountedValue, UncountedValueNext
      <4> QED BY <1>1, <1>2, <1>3, <3>1, <4>1, <4>3
    <3> QED BY <3>2, <3>3
  <2>6. CASE RecordAttempt(w)
    <3>1. UNCHANGED <<posts, faults>>
      BY <2>6 DEF RecordAttempt, receiverVars
    <3>2. CASE job[w] # d
      <4>1. attemptCount'[d] = attemptCount[d] /\ status'[d] = status[d]
        BY <2>6, <3>2 DEF RecordAttempt, TypeOK, RowTypes
      <4>2. ~Asking(w, d)' /\ ~Asking(w, d)
        BY <2>6, <3>2 DEF RecordAttempt, Return, Asking, TypeOK, HandlerTypes
      <4>3. Uncounted(d)' = Uncounted(d)
        BY <1>0, <2>1, <4>2, UncountedKept
      <4> QED BY <1>1, <1>2, <1>3, <3>1, <4>1, <4>3
    <3>3. CASE job[w] = d
      <4>1. status[d] # "deleted"
        BY <1>1, <2>6, <3>3 DEF RecordAttempt
      <4>2. attemptCount'[d] = attemptCount[d] + 1
        BY <2>6, <3>3, <4>1, LogRecord
      <4> QED BY <1>2, <1>3, <3>1, <4>1, <4>2
    <3> QED BY <3>2, <3>3
  <2> QED BY <1>5, <2>2, <2>3, <2>4, <2>5, <2>6 DEF HandlerStep
<1>6. CASE ~Crash /\ ~(\E w \in Worker : HandlerStep(w))
  <2>1. /\ UNCHANGED <<posts, attemptCount>>
        /\ faults' \in {faults, faults + 1}
        /\ \A e \in Delivery : status[e] = "deleted" => status'[e] = "deleted"
        /\ \A e \in Delivery, v \in Worker : Asking(v, e)' <=> Asking(v, e)
    BY <1>6, RequestsElsewhere DEF Next
  <2>2. Uncounted(d)' = Uncounted(d)
    BY <1>0, <2>1, UncountedKept
  <2> QED BY <1>1, <1>2, <1>3, <2>1, <2>2
<1> QED BY <1>4, <1>5, <1>6

(* Retries, duplicates and timeouts send no request that is not counted: the *)
(* receiver gets at most one per counted attempt, one for the attempt in     *)
(* progress and one for each failure that cut an attempt short.              *)
THEOREM RequestsAreAccounted ==
    ASSUME Timely
    PROVE  Spec => []RequestsAccountedFor
<1>1. Init => RequestsAccountedFor
  <2> SUFFICES ASSUME Init
               PROVE  RequestsAccountedFor
    OBVIOUS
  <2>1. ClaimExclusive
    BY ClaimInit DEF ClaimInv
  <2>2. \A d \in Delivery : Uncounted(d) \in {0, 1}
    BY <2>1, UncountedValue
  <2> QED BY <2>2 DEF Init, RequestsAccountedFor
<1>2. /\ TypeOK /\ ClaimInv /\ LogInv /\ RequestsAccountedFor
      /\ (TypeOK /\ ClaimInv /\ LogInv)' /\ [Next]_vars
      => RequestsAccountedFor'
  BY RequestsNext
<1> QED BY <1>1, <1>2, LogAlways, PTL DEF Spec

-----------------------------------------------------------------------------
(* Refinement: each step of the system is a step of DeliveryPromise, or      *)
(* changes nothing the emitter of an event could tell.                       *)

LEMMA PromiseValue ==
    ASSUME TypeOK, NEW d \in Delivery
    PROVE  /\ PromiseOf(d) = "none" <=> status[d] = "absent"
           /\ PromiseOf(d) = "owed" <=> status[d] \in Open
           /\ PromiseOf(d) = "kept" <=> status[d] = "succeeded"
           /\ PromiseOf(d) = "broken" <=> status[d] = "failed"
           /\ PromiseOf(d) = "forgotten" <=> status[d] = "deleted"
           /\ PromiseOf(d) \in {"none", "owed", "kept", "broken", "forgotten"}
<1>1. status[d] \in {"absent", "deleted"} \union Open \union Settled
  BY DEF TypeOK, RowTypes
<1> QED BY <1>1 DEF PromiseOf, Open, Waiting, Settled

LEMMA PromiseValueNext ==
    ASSUME TypeOK', NEW d \in Delivery
    PROVE  /\ PromiseOf(d)' = "none" <=> status'[d] = "absent"
           /\ PromiseOf(d)' = "owed" <=> status'[d] \in Open
           /\ PromiseOf(d)' = "kept" <=> status'[d] = "succeeded"
           /\ PromiseOf(d)' = "broken" <=> status'[d] = "failed"
           /\ PromiseOf(d)' = "forgotten" <=> status'[d] = "deleted"
           /\ PromiseOf(d)' \in {"none", "owed", "kept", "broken", "forgotten"}
<1>1. status'[d] \in {"absent", "deleted"} \union Open \union Settled
  BY DEF TypeOK, RowTypes
<1> QED BY <1>1 DEF PromiseOf, Open, Waiting, Settled

LEMMA PromiseInit == Init => Promise!Init
<1> SUFFICES ASSUME Init
             PROVE  Promise!Init
  OBVIOUS
<1>1. \A d \in Delivery : PromiseOf(d) = "none"
  BY TypeInit, PromiseValue DEF Init
<1> QED BY <1>1 DEF Init, Promise!Init

LEMMA PromiseStutters ==
    ASSUME TypeOK, TypeOK', UNCHANGED <<attemptCount, accepted>>,
           \A d \in Delivery : status'[d] = status[d] \/ (status[d] \in Open /\ status'[d] \in Open)
    PROVE  UNCHANGED Promise!vars
<1>1. \A d \in Delivery : PromiseOf(d)' = PromiseOf(d)
  BY PromiseValue, PromiseValueNext
<1> QED BY <1>1 DEF Promise!vars

\* A set of rows is inserted, or a set of rows is deleted.
LEMMA PromiseOwed ==
    ASSUME TypeOK, TypeOK', UNCHANGED <<attemptCount, accepted>>, NEW D \in SUBSET Delivery,
           \A d \in Delivery : IF d \in D THEN status[d] = "absent" /\ status'[d] = "pending"
                                         ELSE status'[d] = status[d]
    PROVE  Promise!Next
<1>1. \A d \in D : PromiseOf(d) = "none"
  BY PromiseValue
<1>2. \A d \in Delivery : PromiseOf(d)' = IF d \in D THEN "owed" ELSE PromiseOf(d)
  BY PromiseValue, PromiseValueNext DEF Open, Waiting
<1>3. Promise!Owe(D)
  BY <1>1, <1>2 DEF Promise!Owe
<1> QED BY <1>3 DEF Promise!Next

LEMMA PromiseForgotten ==
    ASSUME TypeOK, TypeOK', UNCHANGED <<attemptCount, accepted>>, NEW D \in SUBSET Delivery,
           \A d \in Delivery : IF d \in D THEN status[d] # "absent" /\ status'[d] = "deleted"
                                         ELSE status'[d] = status[d]
    PROVE  Promise!Next
<1>1. \A d \in D : PromiseOf(d) # "none"
  BY PromiseValue
<1>2. \A d \in Delivery : PromiseOf(d)' = IF d \in D THEN "forgotten" ELSE PromiseOf(d)
  BY PromiseValue, PromiseValueNext
<1>3. Promise!Forget(D)
  BY <1>1, <1>2 DEF Promise!Forget
<1> QED BY <1>3 DEF Promise!Next

LEMMA PromiseSend ==
    ASSUME TypeOK, TypeOK', ClaimInv, NEW w \in Worker, Send(w)
    PROVE  Promise!Next \/ UNCHANGED Promise!vars
<1>1. job[w] \in Delivery /\ HoldsClaim(job[w])
  BY DEF Send, ClaimInv, Attempting, TypeOK, HandlerTypes
<1>2. UNCHANGED <<status, attemptCount>>
  BY DEF Send, rowVars
<1>3. accepted' \in {accepted, [accepted EXCEPT ![job[w]] = TRUE]}
  <2>1. PICK r \in {"ok", "rejected", "lost", "unsent"} :
          accepted' = [accepted EXCEPT ![job[w]] = @ \/ r \in {"ok", "lost"}]
    BY DEF Send
  <2>2. CASE r \in {"ok", "lost"}
    BY <2>1, <2>2
  <2>3. CASE r \notin {"ok", "lost"}
    BY <1>1, <2>1, <2>3 DEF TypeOK, ReceiverTypes
  <2> QED BY <2>2, <2>3
<1>4. CASE accepted' = accepted
  BY <1>2, <1>4, PromiseStutters
<1>5. CASE accepted' = [accepted EXCEPT ![job[w]] = TRUE]
  <2>1. PromiseOf(job[w]) \in {"owed", "forgotten"}
    BY <1>1, PromiseValue DEF HoldsClaim, Open
  <2>2. \A d \in Delivery : PromiseOf(d)' = PromiseOf(d)
    BY <1>2, PromiseValue, PromiseValueNext
  <2>3. Promise!Accept(job[w])
    BY <1>1, <1>2, <1>5, <2>1, <2>2 DEF Promise!Accept
  <2> QED BY <1>1, <2>3 DEF Promise!Next
<1> QED BY <1>3, <1>4, <1>5

LEMMA PromiseRecord ==
    ASSUME TypeOK, TypeOK', ClaimInv, LogInv, NEW w \in Worker, RecordAttempt(w)
    PROVE  Promise!Next \/ UNCHANGED Promise!vars
<1>1. job[w] \in Delivery /\ UNCHANGED accepted
  BY DEF RecordAttempt, TypeOK, HandlerTypes, receiverVars
<1>2. PICK d \in Delivery : d = job[w]
  BY <1>1
<1>3. CASE status[d] = "deleted"
  BY <1>1, <1>2, <1>3, PromiseStutters DEF RecordAttempt
<1>4. CASE status[d] # "deleted"
  <2>1. /\ status[d] = "processing"
        /\ attemptCount'[d] = attemptCount[d] + 1
        /\ LogOf(d)'
    BY <1>2, <1>4, LogRecord
  <2>2. /\ status' = [status EXCEPT ![d] = ResultStatus(w)]
        /\ attemptCount' = [attemptCount EXCEPT ![d] = attemptCount[d] + 1]
    BY <1>2, <1>4, <2>1 DEF RecordAttempt, TypeOK, RowTypes
  <2>3. claimed[w] = attemptCount[d] /\ attemptCount[d] \in Nat /\ (outcome[w] = "ok" => accepted[d])
    BY <1>2, <2>1 DEF LogInv, CopiesOf, RecordAttempt, TypeOK, RowTypes
  <2>4. PromiseOf(d) = "owed" /\ \A e \in Delivery \ {d} : PromiseOf(e)' = PromiseOf(e)
    <3>1. \A e \in Delivery \ {d} : status'[e] = status[e]
      BY <2>2 DEF TypeOK, RowTypes
    <3>2. \A e \in Delivery \ {d} : PromiseOf(e)' = PromiseOf(e)
      BY <3>1, PromiseValue, PromiseValueNext
    <3>3. PromiseOf(d) = "owed"
      BY <2>1, PromiseValue DEF Open
    <3> QED BY <3>2, <3>3
  <2>5. status'[d] = ResultStatus(w)
    BY <2>2 DEF TypeOK, RowTypes
  <2>6. CASE ResultStatus(w) = "succeeded"
    <3>1. PromiseOf(d)' = "kept" /\ accepted[d]
      BY <2>3, <2>5, <2>6, PromiseValueNext, ResultOf
    <3>2. Promise!Keep(d)
      BY <1>1, <2>2, <2>4, <3>1 DEF Promise!Keep
    <3> QED BY <3>2 DEF Promise!Next
  <2>7. CASE ResultStatus(w) # "succeeded"
    <3>1. \/ ResultStatus(w) = "retrying" /\ attemptCount[d] + 1 < MaxAttempts
          \/ ResultStatus(w) = "failed" /\ ~(attemptCount[d] + 1 < MaxAttempts)
      BY <2>3, <2>7, ResultOf, DeliveryAssumption DEF Settled
    <3>2. PromiseOf(d)' = IF attemptCount[d] + 1 < MaxAttempts THEN "owed" ELSE "broken"
      BY <2>5, <3>1, PromiseValueNext DEF Open, Waiting
    <3>3. Promise!Try(d)
      BY <1>1, <2>2, <2>4, <3>2 DEF Promise!Try
    <3> QED BY <3>3 DEF Promise!Next
  <2> QED BY <2>6, <2>7
<1> QED BY <1>3, <1>4

LEMMA PromiseNext ==
    ASSUME TypeOK, TypeOK', ClaimInv, LogInv, [Next]_vars
    PROVE  Promise!Next \/ UNCHANGED Promise!vars
<1>0. \A d \in Delivery : status[d] \in {"absent", "deleted"} \union Open \union Settled
  BY DEF TypeOK, RowTypes
<1>1. ASSUME NEW p \in Emitter, NEW D \in SUBSET Delivery, Enqueue(p, D)
      PROVE  Promise!Next
  <2> DEFINE N == {d \in D : status[d] = "absent"}
  <2>1. \A d \in Delivery : IF d \in N THEN status[d] = "absent" /\ status'[d] = "pending"
                                     ELSE status'[d] = status[d]
    BY <1>1 DEF Enqueue
  <2> QED BY <1>1, <2>1, PromiseOwed DEF Enqueue, receiverVars
<1>2. ASSUME NEW D \in SUBSET Delivery, RecoverStaged(D)
      PROVE  Promise!Next
  BY <1>2, PromiseOwed DEF RecoverStaged, receiverVars
<1>3. ASSUME NEW D \in SUBSET Delivery, DeleteSiteRows(D)
      PROVE  Promise!Next
  BY <1>3, PromiseForgotten DEF DeleteSiteRows, receiverVars
<1>4. CASE DeleteOldDeliveries
  <2> DEFINE D == {d \in Delivery : status[d] \in Settled /\ attempts[d] = <<>>}
  <2>1. \A d \in Delivery : IF d \in D THEN status[d] # "absent" /\ status'[d] = "deleted"
                                     ELSE status'[d] = status[d]
    BY <1>4 DEF DeleteOldDeliveries, Settled
  <2> QED BY <1>4, <2>1, PromiseForgotten DEF DeleteOldDeliveries, receiverVars
<1>5. CASE RecoverStale
  BY <1>0, <1>5, PromiseStutters DEF RecoverStale, receiverVars, Open, Waiting
<1>6. ASSUME NEW w \in Worker, HandlerStep(w)
      PROVE  Promise!Next \/ UNCHANGED Promise!vars
  <2>1. CASE Claim(w)
    <3>1. ASSUME NEW d \in Delivery
          PROVE  status'[d] = status[d] \/ (status[d] \in Waiting /\ status'[d] = "processing")
      BY <2>1 DEF Claim, TypeOK, RowTypes
    <3>2. UNCHANGED <<attemptCount, accepted>>
      BY <2>1 DEF Claim, receiverVars
    <3> QED BY <3>1, <3>2, PromiseStutters DEF Open
  <2>2. CASE LoadClaim(w) \/ LoadForRecord(w) \/ HandlerFails(w) \/ RecordFindsNoRow(w)
    BY <2>2, PromiseStutters DEF LoadClaim, LoadForRecord, HandlerFails, RecordFindsNoRow, rowVars, receiverVars
  <2> QED BY <1>6, <2>1, <2>2, PromiseSend, PromiseRecord DEF HandlerStep
<1>7. CASE \/ \E p \in Publisher : PublisherStep(p)
           \/ ListDispatchable
           \/ SweepFails
           \/ \E kept \in [Delivery -> 0 .. MaxAttempts] : DeleteOldAttempts(kept)
           \/ \E w \in Worker, e \in Delivery : Receive(w, e)
           \/ \E e \in Delivery : DiscardMessage(e)
           \/ \E e \in Delivery : TimeStep(e)
           \/ \E w \in Worker : MessageTimesOut(w)
           \/ Crash
           \/ UNCHANGED vars
  <2>1. UNCHANGED <<status, attemptCount, accepted>>
    BY <1>7 DEF PublisherStep, MarkQueued, Publish, PublishFails, ClearQueued, FinishPublishing,
       ListDispatchable, SweepFails, DeleteOldAttempts, Receive, DiscardMessage, TimeStep,
       BackoffElapses, QueueLeaseExpires, ClaimAges, MessageTimesOut, Crash, vars, rowVars, receiverVars
  <2> QED BY <2>1, PromiseStutters
<1> QED BY <1>1, <1>2, <1>3, <1>4, <1>5, <1>6, <1>7 DEF Next, SweeperStep

(* The subsystem implements DeliveryPromise.                                 *)
THEOREM PromiseKept ==
    ASSUME Timely
    PROVE  Spec => KeepsPromise
<1>1. TypeOK /\ TypeOK' /\ ClaimInv /\ LogInv /\ [Next]_vars => [Promise!Next]_(Promise!vars)
  BY PromiseNext
<1> QED BY <1>1, PromiseInit, LogAlways, PTL DEF Spec, KeepsPromise, Promise!Spec
=============================================================================
