----------------------- MODULE IngestPipeline_proofs -----------------------
(***************************************************************************)
(* Proofs about IngestPipeline, for any messages, handlers, stores, batch  *)
(* size, and number of attempts and faults.                                *)
(***************************************************************************)
EXTENDS IngestPipeline, TLAPS

-----------------------------------------------------------------------------
(* Types                                                                   *)

\* What a waiting handler holds has an id of the right type (IdOf).
LEMMA WaitingIds ==
    ASSUME TypeOK, NEW h \in Handler, hpc[h] # "idle"
    PROVE  IdOf(h) \in RowId
    <1>1. message[h] \in Message /\ attempt[h] \in 0 .. MaxAttempts
      BY DEF TypeOK, HandlerTypes
    <1>2. 0 \in 0 .. MaxAttempts
      BY IngestAssumption
    <1> QED
      BY <1>1, <1>2 DEF IdOf, RowId

\* The ids of a group are ids of rows (flush).
LEMMA IdsOfGroups ==
    ASSUME TypeOK, NEW s
    PROVE  {IdOf(h) : h \in Group(s)} \subseteq RowId
    <1>1. \A h \in Group(s) : h \in Handler /\ hpc[h] # "idle"
      BY DEF Group, Pending
    <1> QED
      BY <1>1, WaitingIds

\* Storing rows keeps their type (CreateHitsBulk).
LEMMA RowsType ==
    ASSUME rows \in [RowId -> Nat], NEW ids
    PROVE  RowsWith(ids) \in [RowId -> Nat]
    BY DEF RowsWith

\* nsqd's answer to FIN and REQ keeps the types.
LEMMA SettleTypes ==
    ASSUME TypeOK, NEW m \in Message, NEW s \in {"ready", "finished"}, Settle(m, s)
    PROVE  topic' \in [Message -> {"unsent", "ready", "inflight", "finished", "discarded", "lost"}]
    BY DEF TypeOK, TopicTypes, Settle

\* So does a fault.
LEMMA FaultTypes ==
    ASSUME TypeOK, Fault
    PROVE  faults' \in 0 .. MaxFaults
    BY IngestAssumption DEF TypeOK, Fault

\* And the answer to a group of handlers, which all have a message.
LEMMA AnswerTypes ==
    ASSUME TypeOK, NEW a \in {"ok", "error"}, AnswerGroup(a)
    PROVE  TopicTypes' /\ HandlerTypes' /\ BatcherTypes'
    <1>1. \A h \in Group(group) : hpc[h] # "idle"
      BY DEF Group, Pending
    <1>2. TopicTypes'
      BY DEF TypeOK, TopicTypes, AnswerGroup, topicVars
    <1>3. hpc' \in [Handler -> {"idle", "resolving", "queued", "pending", "answered"}]
      BY DEF TypeOK, HandlerTypes, AnswerGroup
    <1>4. answer' \in [Handler -> {"none", "ok", "error"}]
      BY DEF TypeOK, HandlerTypes, AnswerGroup
    <1>5. \A h \in Handler : hpc'[h] # "idle" => message'[h] \in Message
      BY <1>1 DEF TypeOK, HandlerTypes, AnswerGroup, Answered
    <1>6. HandlerTypes'
      BY <1>3, <1>4, <1>5 DEF TypeOK, HandlerTypes, AnswerGroup
    <1>7. BatcherTypes'
      BY DEF TypeOK, BatcherTypes, AnswerGroup
    <1> QED
      BY <1>2, <1>6, <1>7

LEMMA InitTypes == Init => TypeOK
    BY IngestAssumption
    DEF Init, TypeOK, TopicTypes, HandlerTypes, BatcherTypes, StoreTypes

\* Every action keeps the types.
LEMMA NextTypes == TypeOK /\ [Next]_vars => TypeOK'
    <1> SUFFICES ASSUME TypeOK, [Next]_vars PROVE TypeOK'
      OBVIOUS
    <1> USE DEF TypeOK
    <1>1. ASSUME NEW m \in Message, Accept(m) PROVE TypeOK'
      BY <1>1 DEF Accept, TopicTypes, HandlerTypes, BatcherTypes, StoreTypes,
                  handlerVars, batcherVars, storeVars
    <1>2. ASSUME NEW m \in Message, NEW h \in Handler, Receive(h, m) PROVE TypeOK'
      <2>1. tries[m] + 1 \in 0 .. MaxAttempts
        BY <1>2, IngestAssumption DEF Receive, TopicTypes
      <2>2. TopicTypes'
        BY <1>2, <2>1 DEF Receive, TopicTypes
      <2>3. message' \in [Handler -> Message \union {None}] /\ attempt' \in [Handler -> 0 .. MaxAttempts]
        BY <1>2, <2>1 DEF Receive, HandlerTypes
      <2>4. hpc' \in [Handler -> {"idle", "resolving", "queued", "pending", "answered"}]
        BY <1>2 DEF Receive, HandlerTypes
      <2>5. \A g \in Handler : hpc'[g] # "idle" => message'[g] \in Message
        BY <1>2 DEF Receive, HandlerTypes
      <2>6. HandlerTypes'
        BY <1>2, <2>3, <2>4, <2>5 DEF Receive, HandlerTypes
      <2> QED
        BY <1>2, <2>2, <2>6 DEF Receive, BatcherTypes, StoreTypes, batcherVars, storeVars
    <1>3. ASSUME NEW m \in Message, GiveUp(m) PROVE TypeOK'
      BY <1>3 DEF GiveUp, TopicTypes, HandlerTypes, BatcherTypes, StoreTypes,
                  handlerVars, batcherVars, storeVars
    <1>4. ASSUME NEW m \in Message, MessageTimesOut(m) PROVE TypeOK'
      <2>1. faults' \in 0 .. MaxFaults
        BY <1>4, FaultTypes DEF MessageTimesOut
      <2> QED
        BY <1>4, <2>1 DEF MessageTimesOut, TopicTypes, HandlerTypes, BatcherTypes, StoreTypes,
                          handlerVars, batcherVars, storeVars
    <1>5. ASSUME NEW h \in Handler, ResolveFails(h) PROVE TypeOK'
      <2>1. faults' \in 0 .. MaxFaults
        BY <1>5, FaultTypes DEF ResolveFails
      <2>2. message[h] \in Message
        BY <1>5 DEF ResolveFails, HandlerTypes
      <2>3. TopicTypes'
        BY <1>5, <2>2, SettleTypes DEF ResolveFails, TopicTypes
      <2>4. HandlerTypes'
        BY <1>5 DEF ResolveFails, HandlerTypes
      <2> QED
        BY <1>5, <2>1, <2>3, <2>4 DEF ResolveFails, BatcherTypes, StoreTypes, batcherVars, storeVars
    <1>6. ASSUME NEW h \in Handler, Enqueue(h) PROVE TypeOK'
      <2>1. HandlerTypes'
        BY <1>6 DEF Enqueue, HandlerTypes
      <2> QED
        BY <1>6, <2>1 DEF Enqueue, TopicTypes, BatcherTypes, StoreTypes, topicVars, batcherVars, storeVars
    <1>7. ASSUME NEW h \in Handler, Respond(h) PROVE TypeOK'
      <2>1. message[h] \in Message /\ Response(answer[h]) \in {"ready", "finished"}
        BY <1>7 DEF Respond, HandlerTypes, Response
      <2>2. TopicTypes'
        BY <1>7, <2>1, SettleTypes DEF Respond, TopicTypes
      <2>3. HandlerTypes'
        BY <1>7 DEF Respond, HandlerTypes
      <2> QED
        BY <1>7, <2>2, <2>3 DEF Respond, BatcherTypes, StoreTypes, batcherVars, storeVars
    <1>8. ASSUME NEW h \in Handler, Collect(h) PROVE TypeOK'
      <2>1. HandlerTypes'
        BY <1>8 DEF Collect, HandlerTypes
      <2>2. BatcherTypes'
        BY <1>8 DEF Collect, BatcherTypes
      <2> QED
        BY <1>8, <2>1, <2>2 DEF Collect, TopicTypes, StoreTypes, topicVars, storeVars
    <1>9. ASSUME Tick PROVE TypeOK'
      BY <1>9 DEF Tick, TopicTypes, HandlerTypes, BatcherTypes, StoreTypes,
                  topicVars, handlerVars, storeVars
    <1>10. ASSUME NEW s \in Store, FilterMissing(s) PROVE TypeOK'
      <2>1. missing' \subseteq RowId
        BY <1>10, IdsOfGroups DEF FilterMissing, NotStored
      <2> QED
        BY <1>10, <2>1 DEF FilterMissing, TopicTypes, HandlerTypes, BatcherTypes, StoreTypes,
                           topicVars, handlerVars, storeVars
    <1>11. ASSUME Append PROVE TypeOK'
      <2>1. rows' \in [RowId -> Nat]
        BY <1>11, RowsType DEF Append, StoreTypes
      <2> QED
        BY <1>11, <2>1 DEF Append, TopicTypes, HandlerTypes, BatcherTypes, StoreTypes,
                           topicVars, handlerVars
    <1>12. ASSUME Announce PROVE TypeOK'
      <2>1. told' \in [RowId -> Nat]
        BY <1>12 DEF Announce, StoreTypes
      <2> QED
        BY <1>12, <2>1 DEF Announce, TopicTypes, HandlerTypes, BatcherTypes, StoreTypes,
                           topicVars, handlerVars
    <1>13. ASSUME Emit PROVE TypeOK'
      <2>1. converted' \subseteq RowId
        BY <1>13, IdsOfGroups DEF Emit, GroupIds, StoreTypes
      <2> QED
        BY <1>13, <2>1, AnswerTypes DEF Emit, StoreTypes
    <1>14. ASSUME EmitCollides PROVE TypeOK'
      BY <1>14, AnswerTypes DEF EmitCollides, StoreTypes, storeVars
    <1>15. ASSUME EmitFails PROVE TypeOK'
      BY <1>15, AnswerTypes, FaultTypes DEF EmitFails, StoreTypes, storeVars
    <1>16. ASSUME AppendFails PROVE TypeOK'
      <2>1. rows' \in [RowId -> Nat]
        BY <1>16, RowsType DEF AppendFails, StoreTypes
      <2> QED
        BY <1>16, <2>1, AnswerTypes, FaultTypes DEF AppendFails, StoreTypes
    <1>17. ASSUME Crash PROVE TypeOK'
      <2>1. faults' \in 0 .. MaxFaults
        BY <1>17, FaultTypes DEF Crash
      <2> QED
        BY <1>17, <2>1 DEF Crash, TopicTypes, HandlerTypes, BatcherTypes, StoreTypes, storeVars
    <1>18. CASE UNCHANGED vars
      BY <1>18 DEF vars, TopicTypes, HandlerTypes, BatcherTypes, StoreTypes,
                   topicVars, handlerVars, batcherVars, storeVars
    <1> QED
      BY <1>1, <1>2, <1>3, <1>4, <1>5, <1>6, <1>7, <1>8, <1>9, <1>10, <1>11, <1>12, <1>13,
         <1>14, <1>15, <1>16, <1>17, <1>18
      DEF Next, HandOut, HandlerStep, BatcherStep

\* Every variable keeps its type (messages, handlers' locals, rows).
THEOREM TypeCorrect == Spec => []TypeOK
    BY InitTypes, NextTypes, PTL DEF Spec

-----------------------------------------------------------------------------
(* Rows                                                                    *)

\* What the read of FilterMissing saw is still so when Append acts on it: the
\* batcher is the only one to store rows (filterMissingIngestRows).
MissingIsMissing == bpc = "filtered" => \A r \in missing : rows[r] = 0

\* The rows about to be announced are stored, once, and nobody was told yet.
NewIsUntold == bpc = "appended" => \A r \in missing : rows[r] = 1 /\ told[r] = 0

RowsInv == RowsCountedOnce /\ MissingIsMissing /\ NewIsUntold

\* Steps of nsqd and of handlers leave all of it alone.
LEMMA RowsStay ==
    ASSUME RowsInv, UNCHANGED <<bpc, missing, rows, told>>
    PROVE  RowsInv'
    BY DEF RowsInv, RowsCountedOnce, MissingIsMissing, NewIsUntold

\* While a batch is not between its read and its announcement, only the counts
\* matter.
LEMMA RowsRest ==
    ASSUME RowsInv, UNCHANGED <<rows, told>>, bpc' \notin {"filtered", "appended"}
    PROVE  RowsInv'
    BY DEF RowsInv, RowsCountedOnce, MissingIsMissing, NewIsUntold

\* Storing missing rows gives each of them its first row.
LEMMA StoreMissing ==
    ASSUME TypeOK, RowsInv, bpc = "filtered", NEW ids \in SUBSET missing,
           rows' = RowsWith(ids), told' = told
    PROVE  /\ RowsCountedOnce'
           /\ \A r \in ids : rows'[r] = 1 /\ told'[r] = 0
           /\ \A r \in RowId : rows[r] = 1 => rows'[r] = 1
    <1>1. missing \subseteq RowId /\ rows \in [RowId -> Nat] /\ told \in [RowId -> Nat]
      BY DEF TypeOK, BatcherTypes, StoreTypes
    <1>2. \A r \in RowId : rows'[r] = IF r \in ids THEN rows[r] + 1 ELSE rows[r]
      BY DEF RowsWith
    <1>3. \A r \in ids : r \in RowId /\ rows[r] = 0 /\ told[r] = 0
      <2>1. \A r \in ids : r \in RowId /\ rows[r] = 0
        BY <1>1 DEF RowsInv, MissingIsMissing
      <2>2. \A r \in ids : told[r] \in Nat /\ told[r] <= rows[r]
        BY <1>1, <2>1 DEF RowsInv, RowsCountedOnce
      <2> QED
        BY <2>1, <2>2
    <1>4. \A r \in RowId : rows'[r] <= 1 /\ told'[r] <= rows'[r]
      BY <1>1, <1>2, <1>3 DEF RowsInv, RowsCountedOnce
    <1>5. \A r \in ids : rows'[r] = 1 /\ told'[r] = 0
      BY <1>2, <1>3
    <1>6. \A r \in RowId : rows[r] = 1 => rows'[r] = 1
      BY <1>2, <1>3
    <1> QED
      BY <1>4, <1>5, <1>6 DEF RowsCountedOnce

LEMMA InitRows == Init => RowsInv
    BY DEF Init, RowsInv, RowsCountedOnce, MissingIsMissing, NewIsUntold

\* The answer ends the group's turn.
LEMMA AnswerEndsGroup ==
    ASSUME NEW a, AnswerGroup(a)
    PROVE  bpc' \notin {"filtered", "appended", "announced"}
    BY DEF AnswerGroup

\* Every action keeps the invariant.
LEMMA NextRows == TypeOK /\ RowsInv /\ [Next]_vars => RowsInv'
    <1> SUFFICES ASSUME TypeOK, RowsInv, [Next]_vars PROVE RowsInv'
      OBVIOUS
    <1>1. ASSUME NEW m \in Message, Accept(m) \/ HandOut(m) \/ MessageTimesOut(m) PROVE RowsInv'
      BY <1>1, RowsStay DEF Accept, HandOut, Receive, GiveUp, MessageTimesOut, batcherVars, storeVars
    <1>2. ASSUME NEW h \in Handler, HandlerStep(h) \/ ResolveFails(h) PROVE RowsInv'
      BY <1>2, RowsStay DEF HandlerStep, Enqueue, Respond, ResolveFails, batcherVars, storeVars
    <1>3. ASSUME NEW h \in Handler, Collect(h) PROVE RowsInv'
      BY <1>3, RowsRest DEF Collect, storeVars
    <1>4. ASSUME Tick PROVE RowsInv'
      BY <1>4, RowsRest DEF Tick, storeVars
    <1>5. ASSUME NEW s \in Store, FilterMissing(s) PROVE RowsInv'
      <2>1. \A r \in missing' : rows'[r] = 0
        BY <1>5 DEF FilterMissing, NotStored, storeVars
      <2> QED
        BY <1>5, <2>1 DEF FilterMissing, storeVars, RowsInv, RowsCountedOnce, MissingIsMissing, NewIsUntold
    <1>6. ASSUME Append PROVE RowsInv'
      <2>1. RowsCountedOnce' /\ \A r \in missing : rows'[r] = 1 /\ told'[r] = 0
        BY <1>6, StoreMissing DEF Append
      <2> QED
        BY <1>6, <2>1 DEF Append, RowsInv, MissingIsMissing, NewIsUntold
    <1>7. ASSUME Announce PROVE RowsInv'
      <2>1. told \in [RowId -> Nat] /\ missing \subseteq RowId
        BY DEF TypeOK, StoreTypes, BatcherTypes
      <2>2. \A r \in RowId : told'[r] <= rows[r]
        BY <1>7, <2>1 DEF Announce, RowsInv, RowsCountedOnce, NewIsUntold
      <2> QED
        BY <1>7, <2>2 DEF Announce, RowsInv, RowsCountedOnce, MissingIsMissing, NewIsUntold
    <1>8. ASSUME Emit \/ EmitCollides \/ EmitFails PROVE RowsInv'
      BY <1>8, AnswerEndsGroup, RowsRest DEF Emit, EmitCollides, EmitFails, storeVars
    <1>9. ASSUME AppendFails PROVE RowsInv'
      <2>1. PICK some \in SUBSET missing : rows' = RowsWith(some)
        BY <1>9 DEF AppendFails
      <2>2. RowsCountedOnce'
        BY <1>9, <2>1, StoreMissing DEF AppendFails
      <2>3. bpc' \notin {"filtered", "appended"}
        BY <1>9, AnswerEndsGroup DEF AppendFails
      <2> QED
        BY <2>2, <2>3 DEF RowsInv, MissingIsMissing, NewIsUntold
    <1>10. ASSUME Crash PROVE RowsInv'
      BY <1>10, RowsRest DEF Crash, storeVars
    <1>11. CASE UNCHANGED vars
      BY <1>11, RowsStay DEF vars, batcherVars, storeVars
    <1> QED
      BY <1>1, <1>2, <1>3, <1>4, <1>5, <1>6, <1>7, <1>8, <1>9, <1>10, <1>11
      DEF Next, BatcherStep

LEMMA RowsAlways == Spec => [](TypeOK /\ RowsInv)
    BY TypeCorrect, InitRows, NextRows, PTL DEF Spec

\* An id has at most one row, and is announced at most once, after its row
\* (CreateHitsBulkIdempotent).
THEOREM RowsAreCountedOnce == Spec => []RowsCountedOnce
    <1>1. RowsInv => RowsCountedOnce
      BY DEF RowsInv
    <1> QED
      BY <1>1, RowsAlways, PTL

-----------------------------------------------------------------------------
(* What is finished is stored                                              *)

\* Every row of the group being persisted is missing or stored, and stored
\* when the conversions are emitted (persist function of NewConsumer).
GroupIsRead == bpc = "filtered" => \A r \in GroupIds : r \in missing \/ rows[r] = 1
GroupIsStored == bpc \in {"appended", "announced"} => \A r \in GroupIds : rows[r] = 1

\* Conversions are emitted for stored rows only.
ConvertedIsStored == \A r \in converted : rows[r] = 1

\* A handler that was told "ok" has its row and conversions stored.
OkIsConverted ==
    \A h \in Handler : hpc[h] = "answered" /\ answer[h] = "ok" => IdOf(h) \in converted

StoredInv ==
    /\ GroupIsRead
    /\ GroupIsStored
    /\ ConvertedIsStored
    /\ OkIsConverted
    /\ FinishedIsStored

\* Handlers that do not wait in the batch have no part in it.
LEMMA GroupStays ==
    ASSUME group' = group,
           \A h \in Handler : (hpc'[h] = "pending") <=> (hpc[h] = "pending"),
           \A h \in Handler : hpc[h] = "pending" =>
               message'[h] = message[h] /\ attempt'[h] = attempt[h]
    PROVE  GroupIds' = GroupIds
    <1>1. \A h \in Handler : h \in Group(group)' <=> h \in Group(group)
      BY DEF Group, Pending
    <1>2. \A h \in Group(group) : IdOf(h)' = IdOf(h) /\ h \in Handler
      BY DEF Group, Pending, IdOf
    <1>3. Group(group)' = Group(group)
      BY <1>1 DEF Group, Pending
    <1> QED
      BY <1>2, <1>3 DEF GroupIds

\* The group's rows stay what they are while nothing is stored.
LEMMA RowsOfGroupStay ==
    ASSUME GroupIsRead, GroupIsStored, GroupIds' = GroupIds, UNCHANGED <<bpc, missing, rows>>
    PROVE  GroupIsRead' /\ GroupIsStored'
    BY DEF GroupIsRead, GroupIsStored

\* Between batches there is nothing to say of a group.
LEMMA NoGroup ==
    ASSUME bpc' \notin {"filtered", "appended", "announced"}
    PROVE  GroupIsRead' /\ GroupIsStored'
    BY DEF GroupIsRead, GroupIsStored

\* Answers keep their meaning while no handler is told "ok".
LEMMA AnswersStay ==
    ASSUME OkIsConverted, converted \subseteq converted',
           \A h \in Handler : hpc'[h] = "answered" /\ answer'[h] = "ok" =>
               /\ hpc[h] = "answered" /\ answer[h] = "ok"
               /\ message'[h] = message[h] /\ attempt'[h] = attempt[h]
    PROVE  OkIsConverted'
    BY DEF OkIsConverted, IdOf

\* What is finished stays stored while no message is finished.
LEMMA FinishedStays ==
    ASSUME FinishedIsStored, converted \subseteq converted',
           \A r \in converted : rows'[r] = 1,
           \A m \in Message : topic'[m] = "finished" => topic[m] = "finished"
    PROVE  FinishedIsStored'
    BY DEF FinishedIsStored

\* An "error" is no "ok", and answers go to waiting handlers only.
LEMMA ErrorsAreNoOk ==
    ASSUME TypeOK, OkIsConverted, AnswerGroup("error"), converted' = converted
    PROVE  OkIsConverted'
    <1>1. \A h \in Handler : hpc'[h] = "answered" /\ answer'[h] = "ok" =>
              hpc[h] = "answered" /\ answer[h] = "ok"
      BY DEF AnswerGroup
    <1> QED
      BY <1>1, AnswersStay DEF AnswerGroup

LEMMA InitStored == Init => StoredInv
    <1> SUFFICES ASSUME Init PROVE StoredInv
      OBVIOUS
    <1>1. FinishedIsStored
      BY DEF Init, FinishedIsStored
    <1> QED
      BY <1>1 DEF Init, StoredInv, GroupIsRead, GroupIsStored, ConvertedIsStored, OkIsConverted

\* nsqd's steps.
LEMMA TopicStored ==
    ASSUME TypeOK, StoredInv, NEW m \in Message, Accept(m) \/ HandOut(m) \/ MessageTimesOut(m)
    PROVE  StoredInv'
    <1> USE DEF StoredInv
    <1>1. UNCHANGED <<batcherVars, storeVars>>
      BY DEF Accept, HandOut, Receive, GiveUp, MessageTimesOut
    <1>2. \A n \in Message : topic'[n] = "finished" => topic[n] = "finished"
      BY DEF Accept, HandOut, Receive, GiveUp, MessageTimesOut, TypeOK, TopicTypes
    <1>3. \A h \in Handler :
              \/ UNCHANGED <<hpc[h], answer[h], message[h], attempt[h]>>
              \/ hpc[h] = "idle" /\ hpc'[h] = "resolving"
      <2>1. CASE Accept(m) \/ GiveUp(m) \/ MessageTimesOut(m)
        BY <2>1 DEF Accept, GiveUp, MessageTimesOut, handlerVars
      <2>2. ASSUME NEW g \in Handler, Receive(g, m) PROVE <1>3!:
        BY <2>2 DEF Receive, TypeOK, HandlerTypes
      <2> QED
        BY <2>1, <2>2 DEF HandOut
    <1>4. GroupIds' = GroupIds
      BY <1>1, <1>3, GroupStays DEF batcherVars
    <1>5. GroupIsRead' /\ GroupIsStored'
      BY <1>1, <1>4, RowsOfGroupStay DEF batcherVars, storeVars
    <1>6. OkIsConverted'
      BY <1>1, <1>3, AnswersStay DEF storeVars
    <1>7. FinishedIsStored'
      BY <1>1, <1>2, FinishedStays DEF storeVars, ConvertedIsStored
    <1> QED
      BY <1>1, <1>5, <1>6, <1>7 DEF storeVars, ConvertedIsStored

\* The handlers' steps.
LEMMA HandlerStored ==
    ASSUME TypeOK, StoredInv, NEW h \in Handler, HandlerStep(h) \/ ResolveFails(h)
    PROVE  StoredInv'
    <1> USE DEF StoredInv
    <1>1. UNCHANGED <<batcherVars, storeVars, message, attempt>>
      BY DEF HandlerStep, Enqueue, Respond, ResolveFails
    <1>2. /\ hpc[h] \in {"resolving", "answered"} /\ hpc'[h] \in {"idle", "queued"}
          /\ \A g \in Handler \ {h} : UNCHANGED <<hpc[g], answer[g]>>
      BY DEF HandlerStep, Enqueue, Respond, ResolveFails, TypeOK, HandlerTypes
    <1>3. GroupIds' = GroupIds
      BY <1>1, <1>2, GroupStays DEF batcherVars
    <1>4. GroupIsRead' /\ GroupIsStored'
      BY <1>1, <1>3, RowsOfGroupStay DEF batcherVars, storeVars
    <1>5. OkIsConverted'
      BY <1>1, <1>2, AnswersStay DEF storeVars
    <1>6. FinishedIsStored'
      <2>1. message[h] \in Message
        BY <1>2 DEF TypeOK, HandlerTypes
      <2>2. CASE Respond(h) /\ answer[h] = "ok"
        <3>1. IdOf(h) \in converted /\ rows[IdOf(h)] = 1 /\ IdOf(h)[1] = message[h]
          BY <2>2 DEF Respond, OkIsConverted, ConvertedIsStored, IdOf
        <3>2. \A m \in Message : topic'[m] = "finished" => topic[m] = "finished" \/ m = message[h]
          BY <2>1, <2>2 DEF Respond, Settle, TypeOK, TopicTypes
        <3> QED
          BY <1>1, <3>1, <3>2 DEF FinishedIsStored, storeVars
      <2>3. CASE ~(Respond(h) /\ answer[h] = "ok")
        <3>1. \A m \in Message : topic'[m] = "finished" => topic[m] = "finished"
          BY <2>1, <2>3 DEF HandlerStep, Enqueue, Respond, ResolveFails, Settle, Response,
                            TypeOK, TopicTypes, topicVars
        <3> QED
          BY <1>1, <3>1, FinishedStays DEF storeVars, ConvertedIsStored
      <2> QED
        BY <2>2, <2>3
    <1> QED
      BY <1>1, <1>4, <1>5, <1>6 DEF storeVars, ConvertedIsStored

\* The batcher's steps up to the answer.
LEMMA BatchStored ==
    ASSUME TypeOK, RowsInv, StoredInv,
           \/ \E h \in Handler : Collect(h)
           \/ Tick
           \/ \E s \in Store : FilterMissing(s)
           \/ Append
           \/ Announce
    PROVE  StoredInv'
    <1> USE DEF StoredInv
    <1>1. ASSUME NEW h \in Handler, Collect(h) PROVE StoredInv'
      <2>1. GroupIsRead' /\ GroupIsStored'
        BY <1>1, NoGroup DEF Collect
      <2>2. \A g \in Handler : hpc'[g] = "answered" => hpc[g] = "answered"
        BY <1>1 DEF Collect, TypeOK, HandlerTypes
      <2>3. OkIsConverted'
        BY <1>1, <2>2, AnswersStay DEF Collect, storeVars
      <2>4. FinishedIsStored'
        BY <1>1, FinishedStays DEF Collect, topicVars, storeVars, ConvertedIsStored
      <2> QED
        BY <1>1, <2>1, <2>3, <2>4 DEF Collect, storeVars, ConvertedIsStored
    <1>2. CASE Tick
      <2>1. GroupIsRead' /\ GroupIsStored'
        BY <1>2, NoGroup DEF Tick
      <2> QED
        BY <1>2, <2>1, AnswersStay, FinishedStays
        DEF Tick, topicVars, handlerVars, storeVars, ConvertedIsStored
    <1>3. ASSUME NEW s \in Store, FilterMissing(s) PROVE StoredInv'
      <2> DEFINE ids == {IdOf(h) : h \in Group(s)}
      <2>1. \A r \in ids : r \in missing' \/ rows[r] = 1
        <3>1. missing' = {r \in ids : rows[r] = 0}
          BY <1>3 DEF FilterMissing, NotStored
        <3>2. \A r \in ids : rows[r] \in Nat /\ rows[r] <= 1
          BY IdsOfGroups DEF TypeOK, StoreTypes, RowsInv, RowsCountedOnce
        <3> QED
          BY <3>1, <3>2
      <2>2. GroupIds' = ids
        BY <1>3 DEF FilterMissing, GroupIds, Group, Pending, IdOf, handlerVars
      <2>3. GroupIsRead' /\ GroupIsStored'
        BY <1>3, <2>1, <2>2 DEF FilterMissing, GroupIsRead, GroupIsStored, storeVars
      <2> QED
        BY <1>3, <2>3, AnswersStay, FinishedStays
        DEF FilterMissing, topicVars, handlerVars, storeVars, ConvertedIsStored
    <1>4. CASE Append
      <2>1. /\ \A r \in missing : rows'[r] = 1
            /\ \A r \in RowId : rows[r] = 1 => rows'[r] = 1
        BY <1>4, StoreMissing DEF Append
      <2>2. GroupIds' = GroupIds
        BY <1>4, GroupStays DEF Append, handlerVars
      <2>3. GroupIds \subseteq RowId /\ converted \subseteq RowId
        BY IdsOfGroups DEF GroupIds, TypeOK, StoreTypes
      <2>4. GroupIsRead' /\ GroupIsStored'
        BY <1>4, <2>1, <2>2, <2>3 DEF Append, GroupIsRead, GroupIsStored
      <2>5. \A r \in converted : rows'[r] = 1
        BY <2>1, <2>3 DEF ConvertedIsStored
      <2> QED
        BY <1>4, <2>4, <2>5, AnswersStay, FinishedStays
        DEF Append, topicVars, handlerVars, ConvertedIsStored
    <1>5. CASE Announce
      <2>1. GroupIds' = GroupIds
        BY <1>5, GroupStays DEF Announce, handlerVars
      <2>2. GroupIsRead' /\ GroupIsStored'
        BY <1>5, <2>1 DEF Announce, GroupIsRead, GroupIsStored
      <2> QED
        BY <1>5, <2>2, AnswersStay, FinishedStays
        DEF Announce, topicVars, handlerVars, ConvertedIsStored
    <1> QED
      BY <1>1, <1>2, <1>3, <1>4, <1>5

\* The answer, and a restart.
LEMMA AnswerStored ==
    ASSUME TypeOK, RowsInv, StoredInv, Emit \/ EmitCollides \/ EmitFails \/ AppendFails \/ Crash
    PROVE  StoredInv'
    <1> USE DEF StoredInv
    <1>1. CASE Emit
      <2>1. GroupIsRead' /\ GroupIsStored'
        BY <1>1, AnswerEndsGroup, NoGroup DEF Emit
      <2>2. ConvertedIsStored'
        BY <1>1 DEF Emit, GroupIsStored, ConvertedIsStored
      <2>3. \A h \in Group(group) : IdOf(h)' \in converted'
        BY <1>1 DEF Emit, GroupIds, AnswerGroup, IdOf
      <2>4. \A h \in Handler \ Group(group) : UNCHANGED <<hpc[h], answer[h]>> /\ IdOf(h)' = IdOf(h)
        BY <1>1 DEF Emit, AnswerGroup, Answered, IdOf
      <2>5. OkIsConverted'
        BY <1>1, <2>3, <2>4 DEF Emit, OkIsConverted
      <2>6. FinishedIsStored'
        BY <1>1, FinishedStays DEF Emit, AnswerGroup, topicVars, ConvertedIsStored
      <2> QED
        BY <2>1, <2>2, <2>5, <2>6
    <1>2. CASE EmitCollides \/ EmitFails
      <2>1. AnswerGroup("error") /\ UNCHANGED storeVars
        BY <1>2 DEF EmitCollides, EmitFails
      <2>2. GroupIsRead' /\ GroupIsStored'
        BY <2>1, AnswerEndsGroup, NoGroup
      <2>3. OkIsConverted'
        BY <2>1, ErrorsAreNoOk DEF storeVars
      <2>4. FinishedIsStored'
        BY <2>1, FinishedStays DEF AnswerGroup, topicVars, storeVars, ConvertedIsStored
      <2> QED
        BY <2>1, <2>2, <2>3, <2>4 DEF storeVars, ConvertedIsStored
    <1>3. CASE AppendFails
      <2>1. AnswerGroup("error") /\ converted' = converted
        BY <1>3 DEF AppendFails
      <2>2. PICK some \in SUBSET missing : rows' = RowsWith(some)
        BY <1>3 DEF AppendFails
      <2>3. \A r \in RowId : rows[r] = 1 => rows'[r] = 1
        BY <1>3, <2>2, StoreMissing DEF AppendFails
      <2>4. \A r \in converted : rows'[r] = 1
        BY <2>3 DEF TypeOK, StoreTypes, ConvertedIsStored
      <2>5. GroupIsRead' /\ GroupIsStored'
        BY <2>1, AnswerEndsGroup, NoGroup
      <2>6. OkIsConverted'
        BY <2>1, ErrorsAreNoOk
      <2>7. FinishedIsStored'
        BY <2>1, <2>4, FinishedStays DEF AnswerGroup, topicVars
      <2> QED
        BY <2>1, <2>4, <2>5, <2>6, <2>7 DEF ConvertedIsStored
    <1>4. CASE Crash
      <2>1. GroupIsRead' /\ GroupIsStored'
        BY <1>4, NoGroup DEF Crash
      <2>2. OkIsConverted'
        BY <1>4 DEF Crash, OkIsConverted
      <2>3. FinishedIsStored'
        BY <1>4, FinishedStays DEF Crash, storeVars, ConvertedIsStored
      <2> QED
        BY <1>4, <2>1, <2>2, <2>3 DEF Crash, storeVars, ConvertedIsStored
    <1> QED
      BY <1>1, <1>2, <1>3, <1>4

LEMMA NextStored == TypeOK /\ RowsInv /\ StoredInv /\ [Next]_vars => StoredInv'
    <1> SUFFICES ASSUME TypeOK, RowsInv, StoredInv, [Next]_vars PROVE StoredInv'
      OBVIOUS
    <1>1. CASE UNCHANGED vars
      <2>1. GroupIds' = GroupIds
        BY <1>1, GroupStays DEF vars, handlerVars, batcherVars
      <2>2. GroupIsRead' /\ GroupIsStored'
        BY <1>1, <2>1, RowsOfGroupStay DEF StoredInv, vars, batcherVars, storeVars
      <2> QED
        BY <1>1, <2>2, AnswersStay, FinishedStays
        DEF StoredInv, ConvertedIsStored, vars, topicVars, handlerVars, storeVars
    <1> QED
      BY <1>1, TopicStored, HandlerStored, BatchStored, AnswerStored DEF Next, BatcherStep

\* A finished message has a row whose conversions are stored too, also if it
\* was another attempt that finished it (processMessage).
THEOREM FinishedAreStored == Spec => []FinishedIsStored
    <1>1. StoredInv => FinishedIsStored
      BY DEF StoredInv
    <1> QED
      BY <1>1, RowsAlways, InitStored, NextStored, PTL DEF Spec

=============================================================================
