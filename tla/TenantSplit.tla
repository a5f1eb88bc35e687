------------------------------- MODULE TenantSplit -------------------------------
(***************************************************************************)
(* How a start of the server moves the default tenant's analytics out of   *)
(* the control database into a file of their own, once.                    *)
(*                                                                         *)
(*   RunDefaultTenantSplit  (database/split_default_tenant.go)  copies the *)
(*       rows to a tenant file and publishes it, then rewrites the control *)
(*       file without them and with a marker, and swaps the two            *)
(*   OpenDefaultSplitControlStore, OpenMigratedStore                       *)
(*       (database/migrate.go)  what the server runs before and after      *)
(*   startLeaderServices  (cmd/hitkeep.go)  the order of the three         *)
(*                                                                         *)
(* The two files are in two directories.  A rename or removal is seen at   *)
(* once, and survives a power failure for certain only after a sync of its *)
(* directory; it survives with all those before it in that directory, and  *)
(* a commit of a database forces them out.                                 *)
(*                                                                         *)
(* Simplifications.  A work file appears with its rows: one that is not    *)
(* complete is only ever removed.  A failing operation ends the start like *)
(* the end of the process, but for the two that undo a rename.  A file is  *)
(* what it holds: in the control file, the rows to be moved, the markers   *)
(* and whether the users, teams and sites are there, in a tenant file its  *)
(* rows.                                                                   *)
(***************************************************************************)
EXTENDS Integers, FiniteSets

CONSTANTS
    Callers,        \* who runs the split: "server", or "direct" as its tests do
    NoDatabase,     \* no such entry in the directory
    MaxRows,        \* bound: rows of analytics
    MaxUndone,      \* bound: failing syncs and renames in the swap
    DirLossKinds,   \* how that directory is lost: its "volume", or its own "entry"
    MaxDirLosses    \* bound: losses of the tenant's directory

TenantRows == SUBSET (1 .. MaxRows)
ControlFile == [home : BOOLEAN, rows : TenantRows, split : BOOLEAN, compacted : BOOLEAN]

ASSUME SplitAssumption ==
    /\ Callers \subseteq {"server", "direct"}
    /\ MaxRows \in Nat \ {0}
    /\ MaxUndone \in Nat
    /\ DirLossKinds \subseteq {"volume", "entry"}
    /\ MaxDirLosses \in Nat
    /\ \A rows \in TenantRows : rows # NoDatabase
    /\ \A file \in ControlFile : file # NoDatabase

VARIABLES
    splitStep,      \* what the start is about to do
    control,        \* directory of the control database: live, backup, work
    controlLeft,    \* what a power failure may leave of it
    tenant,         \* directory of the tenant: final, work, and the rows set aside
    tenantLeft,     \* what a power failure may leave of it
    stored,         \* rows 1 .. stored were written and acknowledged
    undone,         \* failing operations so far
    dirLosses       \* losses of the tenant's directory so far

splitVars == <<splitStep, control, controlLeft, tenant, tenantLeft, stored, undone, dirLosses>>

ControlNames == {"live", "backup", "work"}  \* hitkeep.db, .pre-compact, .compacting
TenantNames == {"final", "work", "stray"}   \* hitkeep.db, .split-work, all .stray-*

Live == control["live"]
HasControl(name) == control[name] # NoDatabase
HasTenant(name) == tenant[name] # NoDatabase
\* A control directory after a file is put, renamed or removed.
ControlWith(name, file) == [n \in ControlNames |-> IF n = name THEN file ELSE control[n]]
ControlMoved(from, to) == [n \in ControlNames |->
    IF n = to THEN control[from] ELSE IF n = from THEN NoDatabase ELSE control[n]]
ControlWithout(names) == [n \in ControlNames |-> IF n \in names THEN NoDatabase ELSE control[n]]
\* A tenant's directory.
TenantDir(final, work, stray) == [n \in TenantNames |->
    IF n = "final" THEN final ELSE IF n = "work" THEN work ELSE stray]

\* A change of one of the directories, its fsync (or a commit), and none.
ControlChange(dir) == control' = dir /\ controlLeft' = controlLeft \cup {dir}
ControlSynced(dir) == control' = dir /\ controlLeft' = {dir}
SameControl == UNCHANGED <<control, controlLeft>>
TenantChange(dir) == tenant' = dir /\ tenantLeft' = tenantLeft \cup {dir}
TenantSynced(dir) == tenant' = dir /\ tenantLeft' = {dir}
SameTenant == UNCHANGED <<tenant, tenantLeft>>

SplitGoto(from, to) == splitStep = from /\ splitStep' = to
SameCounts == UNCHANGED <<stored, undone, dirLosses>>

BeforeSplit == [home |-> TRUE, rows |-> {1}, split |-> FALSE, compacted |-> FALSE]
EmptyControl == [home |-> FALSE, rows |-> {}, split |-> FALSE, compacted |-> FALSE]
NoTenantFiles == TenantDir(NoDatabase, NoDatabase, {})

SplitInit ==
    /\ splitStep = "down"
    /\ control = [n \in ControlNames |-> IF n = "live" THEN BeforeSplit ELSE NoDatabase]
    /\ controlLeft = {control}
    /\ tenant = NoTenantFiles
    /\ tenantLeft = {tenant}
    /\ stored = 1
    /\ undone = 0
    /\ dirLosses = 0

-----------------------------------------------------------------------------
(* OpenDefaultSplitControlStore: the server opens the live file first.     *)

StartSplit(caller) ==
    /\ SplitGoto("down", IF caller = "server" THEN "first" ELSE "swap")
    /\ SameControl /\ SameTenant /\ SameCounts

\* Opening creates the file when there is none, and the migrations give it a
\* default tenant with a new id, and so a directory of its own: the files of
\* the old one stay where they are.
Orphaned(dir) == TenantDir(NoDatabase, NoDatabase,
    dir["stray"] \cup (IF dir["final"] = NoDatabase THEN {} ELSE dir["final"]))

OpenFirst ==
    /\ SplitGoto("first", "migrated")
    /\ IF HasControl("live")
       THEN SameControl /\ SameTenant
       ELSE /\ ControlSynced(ControlWith("live", EmptyControl))
            /\ tenant' = Orphaned(tenant)
            /\ tenantLeft' = {Orphaned(dir) : dir \in tenantLeft}
    /\ SameCounts

\* OpenMigratedStore, which runs recoverCompactionSwap: a backup beside a live
\* file is taken for a leftover.
OpenMigrated(from, to) ==
    /\ SplitGoto(from, to)
    /\ IF HasControl("backup") THEN ControlSynced(ControlWithout({"backup"})) ELSE SameControl
    /\ SameTenant /\ SameCounts

\* A file whose last migrations are left to the rewrite is published as it is,
\* without that recovery.  (Which installations are like that is not kept.)
OpenLegacy ==
    /\ SplitGoto("migrated", "check")
    /\ Live.home /\ ~Live.split
    /\ SameControl /\ SameTenant /\ SameCounts

\* Mutant: the first marker is taken for both.
CheckSplitOnly ==
    /\ SplitGoto("check", IF Live.split THEN "serve" ELSE "swap")
    /\ SameControl /\ SameTenant /\ SameCounts

\* DefaultTenantSplitComplete.
CheckComplete ==
    /\ SplitGoto("check", IF Live.split /\ Live.compacted THEN "serve" ELSE "swap")
    /\ SameControl /\ SameTenant /\ SameCounts

-----------------------------------------------------------------------------
(* RunDefaultTenantSplit, up to its decision.                              *)

\* recoverInterruptedSplitControlSwap.
RestoreInterrupted ==
    /\ SplitGoto("swap", "syncRestored")
    /\ ~HasControl("live") /\ HasControl("backup")
    /\ ControlChange(ControlMoved("backup", "live"))
    /\ SameTenant /\ SameCounts

SyncInterrupted ==
    /\ SplitGoto("syncRestored", "read")
    /\ ControlSynced(control)
    /\ SameTenant /\ SameCounts

NothingInterrupted ==
    /\ SplitGoto("swap", "read")
    /\ HasControl("live")
    /\ SameControl /\ SameTenant /\ SameCounts

\* readDefaultTenantSplitState: split or resume.
ReadSplitState ==
    /\ SplitGoto("read", IF ~Live.split THEN "prepare"
                         ELSE IF Live.compacted THEN "reopen" ELSE "rewrite")
    /\ Live.split => HasTenant("final")
    /\ SameControl /\ SameTenant /\ SameCounts

\* restoreSplitControlBackupForMissingTenantFile, and once more from the top.
RestoreForMissingTenant ==
    /\ SplitGoto("read", "syncForMissing")
    /\ Live.split /\ ~HasTenant("final") /\ HasControl("backup")
    /\ ControlChange(ControlMoved("backup", "live"))
    /\ SameTenant /\ SameCounts

SyncForMissing ==
    /\ SplitGoto("syncForMissing", "swap")
    /\ ControlSynced(control)
    /\ SameTenant /\ SameCounts

\* errMissingSplitTenantFile: the operator has to decide.
RefuseMissingTenant ==
    /\ \/ /\ SplitGoto("read", "down")
          /\ Live.split /\ ~HasControl("backup")
       \/ SplitGoto("serve", "down")
    /\ ~HasTenant("final")
    /\ SameControl /\ SameTenant /\ SameCounts

-----------------------------------------------------------------------------
(* prepareDefaultTenantFile.                                               *)

\* A tenant file that no marker vouches for is set aside, never reused.
SetStrayAside ==
    /\ SplitGoto("prepare", "syncStray")
    /\ HasTenant("final")
    /\ TenantChange(TenantDir(NoDatabase, NoDatabase, tenant["stray"] \cup tenant["final"]))
    /\ SameControl /\ SameCounts

SyncStray ==
    /\ SplitGoto("syncStray", "copyRows")
    /\ TenantSynced(tenant)
    /\ SameControl /\ SameCounts

NothingSetAside ==
    /\ SplitGoto("prepare", "copyRows")
    /\ ~HasTenant("final")
    /\ IF HasTenant("work") THEN TenantChange(TenantDir(NoDatabase, NoDatabase, tenant["stray"]))
                            ELSE SameTenant
    /\ SameControl /\ SameCounts

\* Every table is copied, compared with its source and checkpointed.
CopyTenantRows ==
    /\ SplitGoto("copyRows", "publishTenant")
    /\ TenantChange(TenantDir(tenant["final"], Live.rows, tenant["stray"]))
    /\ SameControl /\ SameCounts

PublishTenant ==
    /\ SplitGoto("publishTenant", "syncTenant")
    /\ TenantChange(TenantDir(tenant["work"], NoDatabase, tenant["stray"]))
    /\ SameControl /\ SameCounts

\* Mutant: the directory is not synced before the rows are left out elsewhere.
SkipSyncTenant ==
    /\ SplitGoto("syncTenant", "rewrite")
    /\ SameControl /\ SameTenant /\ SameCounts

SyncTenant ==
    /\ SplitGoto("syncTenant", "rewrite")
    /\ TenantSynced(tenant)
    /\ SameControl /\ SameCounts

-----------------------------------------------------------------------------
(* rewriteSplitControlDatabase.                                            *)

DropStale ==
    /\ SplitGoto("rewrite", "fill")
    /\ IF HasControl("work") \/ HasControl("backup")
       THEN ControlChange(ControlWithout({"work", "backup"}))
       ELSE SameControl
    /\ SameTenant /\ SameCounts

\* All tables but the rows to be moved, and the markers that were there, with
\* the first marker.
FillWork ==
    /\ SplitGoto("fill", "moveAside")
    /\ ControlChange(ControlWith("work",
           [home |-> Live.home, rows |-> {}, split |-> TRUE, compacted |-> FALSE]))
    /\ SameTenant /\ SameCounts

MoveControlAside ==
    /\ SplitGoto("moveAside", "syncAside")
    /\ ControlChange(ControlMoved("live", "backup"))
    /\ SameTenant /\ SameCounts

SyncControlAside ==
    /\ SplitGoto("syncAside", "publishControl")
    /\ ControlSynced(control)
    /\ SameTenant /\ SameCounts

PublishControl ==
    /\ SplitGoto("publishControl", "syncControl")
    /\ ControlChange(ControlMoved("work", "live"))
    /\ SameTenant /\ SameCounts

SyncControl ==
    /\ SplitGoto("syncControl", "dropBackup")
    /\ ControlSynced(control)
    /\ SameTenant /\ SameCounts

DropControlBackup ==
    /\ SplitGoto("dropBackup", "mark")
    /\ ControlChange(ControlWithout({"backup"}))
    /\ SameTenant /\ SameCounts

\* verifyDefaultScopedRowsEmpty, then the second marker and a checkpoint.
MarkCompacted ==
    /\ SplitGoto("mark", "reopen")
    /\ Live.rows = {}
    /\ ControlSynced(ControlWith("live",
           [home |-> Live.home, rows |-> {}, split |-> Live.split, compacted |-> TRUE]))
    /\ SameTenant /\ SameCounts

-----------------------------------------------------------------------------
(* Service.                                                                *)

\* openDefaultTenantStore: the tenant's file is never created here.
ServeSplit ==
    /\ SplitGoto("serve", "up")
    /\ HasTenant("final")
    /\ SameControl /\ SameTenant /\ SameCounts

StoreRow ==
    /\ splitStep = "up" /\ UNCHANGED splitStep
    /\ stored < MaxRows
    /\ stored' = stored + 1
    /\ TenantSynced(TenantDir(tenant["final"] \cup {stored + 1}, tenant["work"], tenant["stray"]))
    /\ SameControl /\ UNCHANGED <<undone, dirLosses>>

-----------------------------------------------------------------------------
(* Faults.                                                                 *)

\* The sync after the first rename fails, or the second rename: the first is
\* undone, if that goes, and the start is given up.
SwapUndone(restored) ==
    /\ undone < MaxUndone
    /\ undone' = undone + 1
    /\ splitStep \in {"syncAside", "publishControl"} /\ splitStep' = "down"
    /\ IF restored THEN ControlChange(ControlMoved("backup", "live")) ELSE SameControl
    /\ SameTenant /\ UNCHANGED <<stored, dirLosses>>

KillSplit ==
    /\ splitStep # "down" /\ splitStep' = "down"
    /\ SameControl /\ SameTenant /\ SameCounts

SplitPowerFails ==
    /\ splitStep' = "down"
    /\ control' \in controlLeft /\ controlLeft' = {control'}
    /\ tenant' \in tenantLeft /\ tenantLeft' = {tenant'}
    /\ SameCounts

\* The tenant's directory was on no persistent storage.  Only the window that
\* the code means to cover: both control files are there.
LoseTenantDir ==
    /\ "volume" \in DirLossKinds
    /\ splitStep = "down" /\ UNCHANGED splitStep
    /\ dirLosses < MaxDirLosses
    /\ dirLosses' = dirLosses + 1
    /\ HasControl("live") /\ HasControl("backup") /\ Live.split
    /\ TenantSynced(NoTenantFiles)
    /\ SameControl /\ UNCHANGED <<stored, undone>>

\* MkdirAll makes the directory, and nothing syncs the one that has its entry:
\* until the file system writes that of its own accord, a power failure may
\* take the directory with all that was synced in it.
PowerTakesTenantDir ==
    /\ "entry" \in DirLossKinds
    /\ splitStep' = "down"
    /\ dirLosses < MaxDirLosses
    /\ dirLosses' = dirLosses + 1
    /\ control' \in controlLeft /\ controlLeft' = {control'}
    /\ TenantSynced(NoTenantFiles)
    /\ UNCHANGED <<stored, undone>>

-----------------------------------------------------------------------------
SplitNext ==
    \/ \E caller \in Callers : StartSplit(caller)
    \/ OpenFirst \/ OpenMigrated("migrated", "check") \/ OpenLegacy \/ CheckComplete
    \/ RestoreInterrupted \/ SyncInterrupted \/ NothingInterrupted \/ ReadSplitState
    \/ RestoreForMissingTenant \/ SyncForMissing \/ RefuseMissingTenant
    \/ SetStrayAside \/ SyncStray \/ NothingSetAside
    \/ CopyTenantRows \/ PublishTenant \/ SyncTenant
    \/ DropStale \/ FillWork \/ MoveControlAside \/ SyncControlAside \/ PublishControl
    \/ SyncControl \/ DropControlBackup \/ MarkCompacted
    \/ OpenMigrated("reopen", "serve") \/ ServeSplit \/ StoreRow
    \/ \E restored \in BOOLEAN : SwapUndone(restored)
    \/ KillSplit \/ SplitPowerFails \/ LoseTenantDir \/ PowerTakesTenantDir

SplitSpec == SplitInit /\ [][SplitNext]_splitVars

-----------------------------------------------------------------------------
(* Properties.                                                             *)

SplitTypeOK ==
    /\ splitStep \in {"down", "first", "migrated", "check", "swap", "syncRestored", "read",
                      "syncForMissing", "prepare", "syncStray", "copyRows", "publishTenant",
                      "syncTenant", "rewrite", "fill", "moveAside", "syncAside",
                      "publishControl", "syncControl", "dropBackup", "mark", "reopen", "serve",
                      "up"}
    /\ controlLeft \subseteq [ControlNames -> ControlFile \cup {NoDatabase}]
    /\ control \in controlLeft
    /\ tenantLeft \subseteq [TenantNames -> TenantRows \cup {NoDatabase}]
    /\ tenant \in tenantLeft /\ \A dir \in tenantLeft : dir["stray"] # NoDatabase
    /\ stored \in 0 .. MaxRows
    /\ undone \in 0 .. MaxUndone
    /\ dirLosses \in 0 .. MaxDirLosses

\* The rows in the files of the two directories.
ControlRows(dir) == UNION {dir[n].rows : n \in {m \in ControlNames : dir[m] # NoDatabase}}
RowsOfTenant(dir) == UNION {dir[n] : n \in {m \in TenantNames \ {"work"} : dir[m] # NoDatabase}}
EveryRowLeft == \A c \in controlLeft, t \in tenantLeft :
    1 .. stored \subseteq ControlRows(c) \cup RowsOfTenant(t)

(* The rows leave the control file only after the tenant's file has them   *)
(* for good: whatever a kill, a failing rename or a power failure leaves   *)
(* of the two directories, together they have every row, be it in a file   *)
(* that was set aside.  Excepted is the loss of the tenant's directory     *)
(* itself: its entry is never synced, and a power failure after the split  *)
(* that takes it takes the only copy of the rows.                          *)
RowsSurvive == dirLosses = 0 => EveryRowLeft

(* "the backup still holds every pre-split row, so restoring it and        *)
(* re-running the whole split loses nothing"                               *)
(* (database/split_default_tenant.go:196-197): a loss of the tenant's      *)
(* directory, in the window in which the backup is there, loses no row.    *)
RestoreLosesNothing == EveryRowLeft

(* A server that runs on the installation's control database has one       *)
(* authority for the default tenant's rows: the tenant's file has them     *)
(* all, the control file has none, and both markers are set, however the   *)
(* starts before were interrupted.                                         *)
OneAuthority == splitStep = "up" /\ Live.home =>
    /\ tenant["final"] = 1 .. stored
    /\ Live.rows = {} /\ Live.split /\ Live.compacted
=============================================================================
