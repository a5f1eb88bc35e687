------------------------------- MODULE RollupDirty -------------------------------
(***************************************************************************)
(* How the counts of one bucket of a site's roll-ups follow the hits.      *)
(*                                                                         *)
(*   createHitsBulk  (database/store_hit.go)  marks the bucket dirty, then *)
(*       appends the hits                                                  *)
(*   refreshDirtyRollupsInRange  (database/store_rollup_dirty.go)  counts  *)
(*       dirty buckets anew and clears their marks, for the worker every   *)
(*       minute and for every reader of the statistics                     *)
(*   BackfillRollups  (database/store_analytics_rollup_refresh.go)  counts *)
(*       everything anew, once a day and after a start                     *)
(*                                                                         *)
(* A mark carries the time it was made, and a refresh clears the marks     *)
(* that are not younger than itself.  Times are compared only in this way, *)
(* so a refresh keeps the set of the marks that are not younger.           *)
(*                                                                         *)
(* Simplifications.  One bucket of one kind: the others are treated alike, *)
(* in statements of their own.  Two statements that write the same row are *)
(* one after the other: DuckDB fails the second if they overlap.           *)
(***************************************************************************)
EXTENDS Naturals, FiniteSets

CONSTANTS
    Batch,              \* batches of hits that belong to the bucket
    Refresher,          \* the dirty worker and readers
    NoBatch,            \* the bucket is not marked
    MaxRollupFaults     \* bound: failing statements and restarts

ASSUME RollupAssumption ==
    /\ NoBatch \notin Batch
    /\ MaxRollupFaults \in Nat

VARIABLES
    batchAt,        \* the goroutine that stores each batch
    dirtyMark,      \* the batch whose mark the bucket carries
    refresh,        \* each refresher: its step, and the marks made before it began
    backfill,       \* the backfill worker
    tally,          \* the batches that the roll-up row counts
    rollupFaults

rollupVars == <<batchAt, dirtyMark, refresh, backfill, tally, rollupFaults>>

Appended == {b \in Batch : batchAt[b] = "appended"}
Timed == {b \in Batch : batchAt[b] # "new"}
NotRefreshing == [step |-> "idle", since |-> {}]

RollupInit ==
    /\ batchAt = [b \in Batch |-> "new"]
    /\ dirtyMark = NoBatch
    /\ refresh = [r \in Refresher |-> NotRefreshing]
    /\ backfill = "idle"
    /\ tally = {}
    /\ rollupFaults = 0

-----------------------------------------------------------------------------
(* createHitsBulk.                                                         *)

BatchGoes(b, from, to) ==
    /\ batchAt[b] = from
    /\ batchAt' = [batchAt EXCEPT ![b] = to]

\* markDirtyRollupBuckets takes the time.
TakeTime(b) ==
    /\ BatchGoes(b, "new", "timed")
    /\ UNCHANGED <<dirtyMark, refresh, backfill, tally, rollupFaults>>

\* Its upsert replaces the time of an earlier mark, even by an older one.
MarkDirty(b) ==
    /\ BatchGoes(b, "timed", "marked")
    /\ dirtyMark' = b
    /\ UNCHANGED <<refresh, backfill, tally, rollupFaults>>

AppendHits(b) ==
    /\ BatchGoes(b, "marked", "appended")
    /\ UNCHANGED <<dirtyMark, refresh, backfill, tally, rollupFaults>>

-----------------------------------------------------------------------------
(* refreshDirtyRollupsInRange.                                             *)

BeginRefresh(r) ==
    /\ refresh[r].step = "idle"
    /\ refresh' = [refresh EXCEPT ![r] = [step |-> "list", since |-> Timed]]
    /\ UNCHANGED <<batchAt, dirtyMark, backfill, tally, rollupFaults>>

ListDirty(r) ==
    /\ refresh[r].step = "list"
    /\ refresh' = [refresh EXCEPT ![r] = IF dirtyMark = NoBatch THEN NotRefreshing
                                         ELSE [@ EXCEPT !.step = "count"]]
    /\ UNCHANGED <<batchAt, dirtyMark, backfill, tally, rollupFaults>>

\* One INSERT .. SELECT .. ON CONFLICT DO UPDATE.
CountBucket(r) ==
    /\ refresh[r].step = "count"
    /\ tally' = Appended
    /\ refresh' = [refresh EXCEPT ![r].step = "clear"]
    /\ UNCHANGED <<batchAt, dirtyMark, backfill, rollupFaults>>

\* Only a mark that is not younger than the refresh is deleted.
ClearMark(r) ==
    /\ refresh[r].step = "clear"
    /\ dirtyMark' = IF dirtyMark \in refresh[r].since THEN NoBatch ELSE dirtyMark
    /\ refresh' = [refresh EXCEPT ![r] = NotRefreshing]
    /\ UNCHANGED <<batchAt, backfill, tally, rollupFaults>>

-----------------------------------------------------------------------------
(* BackfillRollups, of the range between the first hit and the last.       *)

BeginBackfill ==
    /\ backfill = "idle"
    /\ Appended # {}
    /\ backfill' = "count"
    /\ UNCHANGED <<batchAt, dirtyMark, refresh, tally, rollupFaults>>

\* Mutant: a bucket that has a row is left as it is.
BackfillMissing ==
    /\ backfill = "count"
    /\ tally' = IF tally = {} THEN Appended ELSE tally
    /\ backfill' = "idle"
    /\ UNCHANGED <<batchAt, dirtyMark, refresh, rollupFaults>>

BackfillBucket ==
    /\ backfill = "count"
    /\ tally' = Appended
    /\ backfill' = "idle"
    /\ UNCHANGED <<batchAt, dirtyMark, refresh, rollupFaults>>

-----------------------------------------------------------------------------
(* Faults.                                                                 *)

RollupFault == /\ rollupFaults < MaxRollupFaults
               /\ rollupFaults' = rollupFaults + 1
               /\ UNCHANGED tally

\* The hits come again, in a batch of their own: their messages are requeued.
BatchFails(b) ==
    /\ RollupFault
    /\ batchAt[b] \in {"timed", "marked"}
    /\ BatchGoes(b, batchAt[b], "failed")
    /\ UNCHANGED <<dirtyMark, refresh, backfill>>

RefreshFails(r) ==
    /\ RollupFault
    /\ refresh[r].step # "idle"
    /\ refresh' = [refresh EXCEPT ![r] = NotRefreshing]
    /\ UNCHANGED <<batchAt, dirtyMark, backfill>>

BackfillFails ==
    /\ RollupFault
    /\ backfill = "count"
    /\ backfill' = "idle"
    /\ UNCHANGED <<batchAt, dirtyMark, refresh>>

RollupRestart ==
    /\ RollupFault
    /\ batchAt' = [b \in Batch |-> IF batchAt[b] \in {"timed", "marked"} THEN "failed"
                                   ELSE batchAt[b]]
    /\ refresh' = [r \in Refresher |-> NotRefreshing]
    /\ backfill' = "idle"
    /\ UNCHANGED dirtyMark

-----------------------------------------------------------------------------
Backfill == BeginBackfill \/ BackfillBucket
RefreshStep(r) == BeginRefresh(r) \/ ListDirty(r) \/ CountBucket(r) \/ ClearMark(r)

RollupNext ==
    \/ \E b \in Batch : TakeTime(b) \/ MarkDirty(b) \/ AppendHits(b)
    \/ \E r \in Refresher : RefreshStep(r) \/ RefreshFails(r)
    \/ Backfill
    \/ \E b \in Batch : BatchFails(b)
    \/ BackfillFails \/ RollupRestart

\* The worker's daily ticker; nobody has to ask for statistics.
RollupFairness == WF_rollupVars(Backfill)

RollupSpec == RollupInit /\ [][RollupNext]_rollupVars /\ RollupFairness

-----------------------------------------------------------------------------
(* Properties.                                                             *)

RollupTypeOK ==
    /\ batchAt \in [Batch -> {"new", "timed", "marked", "appended", "failed"}]
    /\ dirtyMark \in Batch \cup {NoBatch}
    /\ refresh \in [Refresher -> [step : {"idle", "list", "count", "clear"},
                                  since : SUBSET Batch]]
    /\ backfill \in {"idle", "count"}
    /\ tally \in SUBSET Batch
    /\ rollupFaults \in 0 .. MaxRollupFaults

(* Every hit that was stored is in the counts some day, and stays there,   *)
(* also when a refresh has cleared its mark before it was appended         *)
(* (database/store_hit.go:191 and 209): a count once made never goes back. *)
EveryHitCounted ==
    \A b \in Batch : [](b \in Appended => <>[](b \in tally))
=============================================================================
