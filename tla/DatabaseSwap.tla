------------------------------ MODULE DatabaseSwap ------------------------------
(***************************************************************************)
(* How a start of the server replaces a database file by a smaller copy,   *)
(* and what it does when an earlier start was interrupted on the way.      *)
(*                                                                         *)
(*   MaybeCompactDatabase, recoverCompactionSwap  (database/compact.go)    *)
(*       copy the rows to a work file, move the live file aside, publish   *)
(*       the work file, remove the backup, and repair an interrupted swap  *)
(*   openStore  (cmd/hitkeep.go)  the control database: opened before the  *)
(*       first recovery, and recovered again after the compaction, done or *)
(*       failed                                                            *)
(*   openDefaultTenantStore, openTenantStore                               *)
(*       (database/tenant_store_manager.go)  a tenant's database: recovered*)
(*       first, and opened right after the compaction, done or failed      *)
(*                                                                         *)
(* A rename or removal is seen by the process at once, but survives a      *)
(* power failure for certain only after the directory was synced.  The     *)
(* file system has a journal: a change survives with all those before it,  *)
(* and a commit of the database, which syncs its log, forces them out.     *)
(*                                                                         *)
(* Simplifications.  The file is open or being compacted, never both: the  *)
(* database locks it.  Its write-ahead log is part of the file: closing    *)
(* the database after the measurement merges the two.                      *)
(***************************************************************************)
EXTENDS Integers, FiniteSets

CONSTANTS
    File,               \* identities of files
    NoFile,             \* no such entry in the directory
    MaxWrites,          \* bound: rows that are written
    Database,           \* the kinds of databases: "control", "tenant", or both
    MaxSwapFaults       \* bound: failing file operations

ASSUME SwapAssumption ==
    /\ File # {}
    /\ NoFile \notin File
    /\ MaxWrites \in Nat \ {0}
    /\ Database \subseteq {"control", "tenant"}
    /\ MaxSwapFaults \in Nat

VARIABLES
    swapStep,       \* what the start is about to do
    wanted,         \* is the compaction still to be done in this start
    entry,          \* the directory: the file of each name
    survivors,      \* the directories a power failure may leave
    rowsIn,         \* the rows of each file
    acked,          \* rows 1 .. acked were written and acknowledged
    database,       \* the one that is looked at
    leftAside,      \* ghost: what has ever left the live file aside
    swapFaults

swapVars == <<swapStep, wanted, entry, survivors, rowsIn, acked, database, leftAside, swapFaults>>

Names == {"live", "backup", "work"}     \* path, .pre-compact, .compacting
Exists(name) == entry[name] # NoFile
Moved(from, to) == [entry EXCEPT ![to] = entry[from], ![from] = NoFile]
Only(file) == [n \in Names |-> IF n = "live" THEN file ELSE NoFile]
Without(names) == [n \in Names |-> IF n \in names THEN NoFile ELSE entry[n]]
\* A new file (any will do: nothing tells one from another).
Unused == File \ {d[n] : d \in survivors, n \in Names}
NewFile == CHOOSE f \in Unused : TRUE
FirstFile == CHOOSE f \in File : TRUE

\* A change of the directory, none, and fsync of the directory.
Change(dir) == entry' = dir /\ survivors' = survivors \cup {dir}
Keep == UNCHANGED <<entry, survivors>>
Sync == survivors' = {entry} /\ UNCHANGED entry

SwapInit ==
    /\ swapStep = "down"
    /\ wanted = FALSE
    /\ entry = Only(FirstFile)
    /\ survivors = {entry}
    /\ rowsIn = [f \in File |-> IF f = FirstFile THEN {1} ELSE {}]
    /\ acked = 1
    /\ database \in Database
    /\ leftAside = {}
    /\ swapFaults = 0

Goto(from, to) == swapStep = from /\ swapStep' = to
RestKept == UNCHANGED <<acked, database, leftAside, swapFaults>>
Same == UNCHANGED <<wanted, rowsIn>> /\ RestKept

\* There is no live file after the step, which ended the process or the compaction.
LeavesAside(how) == leftAside' = IF entry'["live"] = NoFile THEN leftAside \cup {how} ELSE leftAside

-----------------------------------------------------------------------------
(* recoverCompactionSwap.                                                  *)

Recovered == IF wanted THEN "clean" ELSE "open"

\* Connect opens the live file, and creates it when there is none.
Connect ==
    IF Exists("live")
    THEN Keep /\ UNCHANGED rowsIn
    ELSE /\ Unused # {}
         /\ Change([entry EXCEPT !["live"] = NewFile])
         /\ rowsIn' = [rowsIn EXCEPT ![NewFile] = {}]

\* The process starts, with -db-compact-on-start or without.  For the control
\* database, OpenDefaultSplitControlStore looks for the markers of the split
\* before OpenMigratedStore recovers.
StartDatabase(compacts) ==
    /\ Goto("down", "recover")
    /\ wanted' = compacts
    /\ IF database = "control" THEN Connect ELSE Keep /\ UNCHANGED rowsIn
    /\ RestKept

\* Mutant: only a start that compacts looks for what an earlier one left.
RecoverOnlyToCompact ==
    /\ Goto("recover", Recovered)
    /\ Exists("backup") => ~wanted
    /\ Keep /\ Same

\* The live file is missing: the backup is it.
RestoreBackup ==
    /\ Goto("recover", "restored")
    /\ ~Exists("live") /\ Exists("backup")
    /\ Change(Moved("backup", "live"))
    /\ Same

SyncRestored ==
    /\ Goto("restored", "dropWork")
    /\ Sync
    /\ Same

DropWork ==
    /\ Goto("dropWork", Recovered)
    /\ IF Exists("work") THEN Change(Without({"work"})) ELSE Keep
    /\ Same

\* Both are there: the live file was published.
RemoveBackup ==
    /\ Goto("recover", "removed")
    /\ Exists("live") /\ Exists("backup")
    /\ Change(Without({"backup"}))
    /\ Same

SyncRemoved ==
    /\ Goto("removed", Recovered)
    /\ Sync
    /\ Same

NothingToRecover ==
    /\ Goto("recover", Recovered)
    /\ ~Exists("backup")
    /\ Keep /\ Same

-----------------------------------------------------------------------------
(* MaybeCompactDatabase.                                                   *)

\* What the caller does after the compaction, done or failed: only the control
\* database is recovered again before it is opened.
AfterCompaction == IF database = "control" THEN "recover" ELSE "open"

RemoveStaleFiles ==
    /\ Goto("clean", "measure")
    /\ Exists("live")
    /\ IF Exists("work") \/ Exists("backup") THEN Change(Without({"work", "backup"})) ELSE Keep
    /\ Same

\* Not enough to gain.
NotWorthwhile ==
    /\ Goto("measure", AfterCompaction)
    /\ wanted' = FALSE
    /\ Keep /\ UNCHANGED rowsIn /\ RestKept

\* rewriteDatabaseFile: the schema first, then the rows of every table.
CreateWork ==
    /\ Goto("measure", "copy")
    /\ Unused # {}
    /\ Change([entry EXCEPT !["work"] = NewFile])
    /\ rowsIn' = [rowsIn EXCEPT ![NewFile] = {}]
    /\ UNCHANGED wanted /\ RestKept

CopyAllRows ==
    /\ Goto("copy", "aside")
    /\ rowsIn' = [rowsIn EXCEPT ![entry["work"]] = rowsIn[entry["live"]]]
    /\ Keep /\ UNCHANGED wanted /\ RestKept

MoveAside ==
    /\ Goto("aside", "syncAside")
    /\ Change(Moved("live", "backup"))
    /\ Same

SyncAside ==
    /\ Goto("syncAside", "publish")
    /\ Sync
    /\ Same

PublishWork ==
    /\ Goto("publish", "syncPublish")
    /\ Change(Moved("work", "live"))
    /\ Same

SyncPublish ==
    /\ Goto("syncPublish", "drop")
    /\ Sync
    /\ Same

DropBackup ==
    /\ Goto("drop", AfterCompaction)
    /\ Change(Without({"backup"}))
    /\ wanted' = FALSE
    /\ UNCHANGED rowsIn /\ RestKept

-----------------------------------------------------------------------------
(* Service.                                                                *)

OpenDatabase ==
    /\ Goto("open", "up")
    /\ Connect
    /\ UNCHANGED wanted /\ RestKept

\* A row is committed, which syncs the file's log.
WriteRow ==
    /\ swapStep = "up"
    /\ acked < MaxWrites
    /\ acked' = acked + 1
    /\ rowsIn' = [rowsIn EXCEPT ![entry["live"]] = @ \cup {acked + 1}]
    /\ Sync /\ UNCHANGED <<swapStep, wanted, database, leftAside, swapFaults>>

-----------------------------------------------------------------------------
(* Faults.                                                                 *)

SwapFault == /\ swapFaults < MaxSwapFaults
             /\ swapFaults' = swapFaults + 1
             /\ UNCHANGED <<rowsIn, acked, database>>

\* A rename, removal or sync of the recovery fails: the start is given up.
RecoveryFails ==
    /\ SwapFault
    /\ swapStep \in {"recover", "restored", "dropWork", "removed"} /\ swapStep' = "down"
    /\ Keep /\ UNCHANGED wanted
    /\ LeavesAside("ended")

\* The compaction fails, and its caller goes on.  The rewrite removes its
\* file; a failing sync, of either rename, leaves everything as it is.
CompactionFails ==
    /\ SwapFault
    /\ swapStep \in {"clean", "measure", "copy", "aside", "syncAside", "syncPublish", "drop"}
    /\ swapStep' = AfterCompaction
    /\ wanted' = FALSE
    /\ IF swapStep \in {"copy", "aside"} THEN Change(Without({"work"})) ELSE Keep
    /\ LeavesAside("failed")

\* The work file cannot be published: the backup is moved back, if that goes.
PublishFails(restored) ==
    /\ SwapFault
    /\ Goto("publish", AfterCompaction)
    /\ wanted' = FALSE
    /\ IF restored THEN Change(Only(entry["backup"]))
                   ELSE Keep
    /\ LeavesAside("failed")

\* The process is killed; the directory is as it saw it.
KillProcess ==
    /\ swapStep # "down" /\ swapStep' = "down"
    /\ wanted' = FALSE
    /\ Keep /\ LeavesAside("ended")
    /\ UNCHANGED <<rowsIn, acked, database, swapFaults>>

PowerFails ==
    /\ swapStep' = "down"
    /\ wanted' = FALSE
    /\ entry' \in survivors
    /\ survivors' = {entry'}
    /\ LeavesAside("ended")
    /\ UNCHANGED <<rowsIn, acked, database, swapFaults>>

-----------------------------------------------------------------------------
SwapNext ==
    \/ \E compacts \in BOOLEAN : StartDatabase(compacts)
    \/ RestoreBackup \/ SyncRestored \/ DropWork
    \/ RemoveBackup \/ SyncRemoved \/ NothingToRecover
    \/ RemoveStaleFiles \/ NotWorthwhile \/ CreateWork \/ CopyAllRows
    \/ MoveAside \/ SyncAside \/ PublishWork \/ SyncPublish \/ DropBackup
    \/ OpenDatabase \/ WriteRow
    \/ RecoveryFails \/ CompactionFails
    \/ \E restored \in BOOLEAN : PublishFails(restored)
    \/ KillProcess \/ PowerFails

SwapSpec == SwapInit /\ [][SwapNext]_swapVars

-----------------------------------------------------------------------------
(* Properties.                                                             *)

SwapTypeOK ==
    /\ swapStep \in {"down", "recover", "restored", "dropWork", "removed", "clean", "measure",
                     "copy", "aside", "syncAside", "publish", "syncPublish", "drop", "open", "up"}
    /\ wanted \in BOOLEAN
    /\ entry \in [Names -> File \cup {NoFile}]
    /\ survivors \subseteq [Names -> File \cup {NoFile}] /\ entry \in survivors
    /\ rowsIn \in [File -> SUBSET (1 .. MaxWrites)]
    /\ acked \in 0 .. MaxWrites
    /\ database \in Database
    /\ leftAside \subseteq {"ended", "failed"}
    /\ swapFaults \in 0 .. MaxSwapFaults

\* The file a start would open.
NextLive == IF Exists("live") THEN entry["live"] ELSE entry["backup"]

\* What the caller survives: a tenant's database is recovered before every
\* opening but the one after a compaction, the control database before every
\* opening but the first of a start.
Tolerated == IF database = "control" THEN "ended" \notin leftAside ELSE "failed" \notin leftAside

(* Whenever the server is killed, the power fails and undoes what was not  *)
(* synced, or an operation fails, the file that is opened next has every   *)
(* row that was acknowledged.  Each caller of compact.go has one fault     *)
(* that it does not survive, and it is the only one.  A tenant's: the      *)
(* compaction gives up with the live file aside (compact.go:122, or 125-129*)
(* if the restore fails too), its error is logged                          *)
(* (tenant_store_manager.go:597, 640), and an empty file is opened.  The   *)
(* control database's: the process ends with the file aside, and the next  *)
(* start opens it before the recovery (migrate.go:63).                     *)
NothingLost == Tolerated => NextLive # NoFile /\ rowsIn[NextLive] = 1 .. acked

(* "If a process dies after moving the live file aside but before          *)
(* publishing the replacement, restore the original before any caller can  *)
(* create a new empty database at the live path."                          *)
(* (database/compact.go:153-156): a database that is open has every row.   *)
NoEmptyDatabase == swapStep = "up" => rowsIn[entry["live"]] = 1 .. acked
=============================================================================
