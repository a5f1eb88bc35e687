-------------------------- MODULE DatabaseFiles_proofs --------------------------
(***************************************************************************)
(* Proofs about DatabaseSwap, TenantSplit and WalRecovery, for any files,  *)
(* and number of rows and faults in file operations.                       *)
(***************************************************************************)
EXTENDS DatabaseSwap, TenantSplit, WalRecovery, FiniteSetTheorems, TLAPS

-----------------------------------------------------------------------------
(* DatabaseSwap: types                                                     *)

Directory == [Names -> File \cup {NoFile}]

\* A function with one value at a point and another elsewhere.
LEMMA PointFunction ==
    ASSUME NEW D, NEW S, NEW point, NEW there \in S, NEW elsewhere \in S
    PROVE  [f \in D |-> IF f = point THEN there ELSE elsewhere] \in [D -> S]
    OBVIOUS

LEMMA SwapInitTypes == SwapInit => SwapTypeOK
    <1> SUFFICES ASSUME SwapInit PROVE SwapTypeOK
      OBVIOUS
    <1>1. FirstFile \in File
      BY SwapAssumption DEF FirstFile
    <1>2. entry \in Directory
      BY <1>1 DEF SwapInit, Only, Directory, Names
    <1>3. {1} \in SUBSET (1 .. MaxWrites) /\ 1 \in 0 .. MaxWrites
      BY SwapAssumption
    <1>4. rowsIn \in [File -> SUBSET (1 .. MaxWrites)]
      <2>1. {} \in SUBSET (1 .. MaxWrites)
        OBVIOUS
      <2>2. [f \in File |-> IF f = FirstFile THEN {1} ELSE {}] \in [File -> SUBSET (1 .. MaxWrites)]
        BY <1>3, <2>1, PointFunction, Zenon
      <2> QED
        BY <2>2, Zenon DEF SwapInit
    <1>5. acked \in 0 .. MaxWrites
      BY <1>3 DEF SwapInit
    <1>6. survivors \subseteq Directory /\ entry \in survivors
      BY <1>2 DEF SwapInit
    <1>7. swapStep = "down" /\ wanted = FALSE /\ swapFaults \in 0 .. MaxSwapFaults
      BY SwapAssumption DEF SwapInit
    <1>8. database \in Database /\ leftAside \subseteq {"ended", "failed"}
      BY DEF SwapInit
    <1> QED
      BY <1>2, <1>4, <1>5, <1>6, <1>7, <1>8 DEF SwapTypeOK, Directory

\* An unused name for a new file (CreateWork and OpenDatabase).
LEMMA NewFileType ==
    ASSUME Unused # {}
    PROVE  NewFile \in File /\ \A d \in survivors : \A n \in Names : d[n] # NewFile
    <1>1. NewFile \in Unused
      BY DEF NewFile
    <1> QED
      BY <1>1 DEF Unused

\* The changes of the directory that the steps make.
LEMMA ChangeTypes ==
    ASSUME SwapTypeOK
    PROVE  /\ \A from, to \in Names : Moved(from, to) \in Directory
           /\ \A names : Without(names) \in Directory
           /\ \A n \in Names : Only(entry[n]) \in Directory
           /\ \A f \in File : \A n \in Names : [entry EXCEPT ![n] = f] \in Directory
    BY DEF SwapTypeOK, Moved, Without, Only, Directory, Names

\* A change that is a directory keeps the types of both.
LEMMA DirTypes ==
    ASSUME SwapTypeOK, (\E dir \in Directory : Change(dir)) \/ Keep \/ Sync
    PROVE  entry' \in Directory /\ survivors' \subseteq Directory /\ entry' \in survivors'
    BY DEF SwapTypeOK, Change, Keep, Sync, Directory

\* The steps of a start that change neither rows nor counts.
QuietStep ==
    \/ RestoreBackup \/ SyncRestored \/ DropWork
    \/ RemoveBackup \/ SyncRemoved \/ NothingToRecover
    \/ RemoveStaleFiles \/ NotWorthwhile
    \/ MoveAside \/ SyncAside \/ PublishWork \/ SyncPublish \/ DropBackup
    \/ KillProcess

FaultyStep == RecoveryFails \/ CompactionFails \/ \E restored \in BOOLEAN : PublishFails(restored)

LEMMA QuietDirs ==
    ASSUME SwapTypeOK, QuietStep \/ FaultyStep
    PROVE  (\E dir \in Directory : Change(dir)) \/ Keep \/ Sync
    <1> USE ChangeTypes
    <1>0. "live" \in Names /\ "backup" \in Names /\ "work" \in Names
      BY DEF Names
    <1>1. CASE QuietStep
      BY <1>0, <1>1 DEF QuietStep, RestoreBackup, SyncRestored, DropWork,
         RemoveBackup, SyncRemoved, NothingToRecover, RemoveStaleFiles, NotWorthwhile, MoveAside, SyncAside,
         PublishWork, SyncPublish, DropBackup, KillProcess
    <1>2. CASE FaultyStep
      BY <1>0, <1>2 DEF FaultyStep, RecoveryFails, CompactionFails, PublishFails
    <1> QED
      BY <1>1, <1>2

LEMMA QuietTypes ==
    ASSUME SwapTypeOK, QuietStep \/ FaultyStep
    PROVE  SwapTypeOK'
    <1>1. entry' \in Directory /\ survivors' \subseteq Directory /\ entry' \in survivors'
      BY QuietDirs, DirTypes
    <1>2. UNCHANGED <<rowsIn, acked, database>>
      BY DEF QuietStep, FaultyStep, SwapFault, RestKept, Same, RestoreBackup, SyncRestored,
         DropWork, RemoveBackup, SyncRemoved, NothingToRecover, RemoveStaleFiles, NotWorthwhile,
         MoveAside, SyncAside, PublishWork, SyncPublish, DropBackup, KillProcess,
         RecoveryFails, CompactionFails, PublishFails
    <1>3. swapFaults' \in 0 .. MaxSwapFaults
      <2>1. CASE QuietStep
        <3>1. swapFaults' = swapFaults
          BY <2>1 DEF QuietStep, RestKept, Same, RestoreBackup, SyncRestored,
             DropWork, RemoveBackup, SyncRemoved, NothingToRecover, RemoveStaleFiles, NotWorthwhile,
             MoveAside, SyncAside, PublishWork, SyncPublish, DropBackup, KillProcess
        <3> QED
          BY <3>1 DEF SwapTypeOK
      <2>2. CASE FaultyStep
        <3>1. swapFaults < MaxSwapFaults /\ swapFaults' = swapFaults + 1
          BY <2>2 DEF FaultyStep, SwapFault, RecoveryFails, CompactionFails, PublishFails
        <3> QED
          BY <3>1, SwapAssumption DEF SwapTypeOK
      <2> QED
        BY <2>1, <2>2
    <1>4. wanted' \in BOOLEAN
      BY DEF SwapTypeOK, QuietStep, FaultyStep, RestKept, Same, RestoreBackup, SyncRestored,
         DropWork, RemoveBackup, SyncRemoved, NothingToRecover, RemoveStaleFiles, NotWorthwhile,
         MoveAside, SyncAside, PublishWork, SyncPublish, DropBackup, KillProcess,
         RecoveryFails, CompactionFails, PublishFails
    <1>5. swapStep' \in {"down", "recover", "restored", "dropWork", "removed", "clean", "measure",
                "copy", "aside", "syncAside", "publish", "syncPublish", "drop", "open", "up"}
      BY DEF QuietStep, FaultyStep, Goto, Recovered, AfterCompaction, RestoreBackup,
         SyncRestored, DropWork, RemoveBackup, SyncRemoved, NothingToRecover, RemoveStaleFiles,
         NotWorthwhile, MoveAside, SyncAside, PublishWork, SyncPublish, DropBackup, KillProcess,
         RecoveryFails, CompactionFails, PublishFails
    <1>6. leftAside' \subseteq {"ended", "failed"}
      BY DEF SwapTypeOK, QuietStep, FaultyStep, RestKept, Same, LeavesAside, RestoreBackup, SyncRestored,
         DropWork, RemoveBackup, SyncRemoved, NothingToRecover, RemoveStaleFiles, NotWorthwhile,
         MoveAside, SyncAside, PublishWork, SyncPublish, DropBackup, KillProcess,
         RecoveryFails, CompactionFails, PublishFails
    <1> QED
      BY <1>1, <1>2, <1>3, <1>4, <1>5, <1>6 DEF SwapTypeOK, Directory

LEMMA CreateTypes == SwapTypeOK /\ CreateWork => SwapTypeOK'
    <1> SUFFICES ASSUME SwapTypeOK, CreateWork PROVE SwapTypeOK'
      OBVIOUS
    <1>1. NewFile \in File
      BY NewFileType DEF CreateWork
    <1>2. entry' \in Directory /\ survivors' \subseteq Directory /\ entry' \in survivors'
      BY <1>1, ChangeTypes, DirTypes DEF CreateWork, Names
    <1> QED
      BY <1>1, <1>2 DEF SwapTypeOK, CreateWork, RestKept, Goto, Directory

LEMMA CopyTypes == SwapTypeOK /\ CopyAllRows /\ Exists("live") => SwapTypeOK'
    <1> SUFFICES ASSUME SwapTypeOK, CopyAllRows, Exists("live") PROVE SwapTypeOK'
      OBVIOUS
    <1>1. entry' \in Directory /\ survivors' \subseteq Directory /\ entry' \in survivors'
      BY DirTypes DEF CopyAllRows
    <1>2. entry["live"] \in File
      BY DEF SwapTypeOK, Exists, Names
    <1>3. rowsIn' \in [File -> SUBSET (1 .. MaxWrites)]
      BY <1>2 DEF SwapTypeOK, CopyAllRows
    <1> QED
      BY <1>1, <1>3 DEF SwapTypeOK, CopyAllRows, RestKept, Goto, Directory

\* Opening a file, which may be a new one.
LEMMA ConnectTypes ==
    ASSUME SwapTypeOK, Connect
    PROVE  /\ entry' \in Directory /\ survivors' \subseteq Directory /\ entry' \in survivors'
           /\ rowsIn' \in [File -> SUBSET (1 .. MaxWrites)]
    <1>1. CASE Exists("live")
      <2>1. Keep /\ UNCHANGED rowsIn
        BY <1>1 DEF Connect
      <2> QED
        BY <2>1, DirTypes DEF SwapTypeOK
    <1>2. CASE ~Exists("live")
      <2>1. NewFile \in File
        BY <1>2, NewFileType DEF Connect
      <2>2. entry' \in Directory /\ survivors' \subseteq Directory /\ entry' \in survivors'
        BY <1>2, <2>1, ChangeTypes, DirTypes DEF Connect, Names
      <2>3. rowsIn' \in [File -> SUBSET (1 .. MaxWrites)]
        BY <1>2, <2>1 DEF SwapTypeOK, Connect
      <2> QED
        BY <2>2, <2>3
    <1> QED
      BY <1>1, <1>2

LEMMA OpenTypes ==
    ASSUME SwapTypeOK, OpenDatabase \/ \E compacts \in BOOLEAN : StartDatabase(compacts)
    PROVE  SwapTypeOK'
    <1>1. /\ entry' \in Directory /\ survivors' \subseteq Directory /\ entry' \in survivors'
          /\ rowsIn' \in [File -> SUBSET (1 .. MaxWrites)]
      <2>1. CASE Connect
        BY <2>1, ConnectTypes
      <2>2. CASE Keep /\ UNCHANGED rowsIn
        BY <2>2, DirTypes DEF SwapTypeOK
      <2> QED
        BY <2>1, <2>2 DEF OpenDatabase, StartDatabase
    <1>2. wanted' \in BOOLEAN /\ swapStep' \in {"up", "recover"} /\ RestKept
      BY DEF SwapTypeOK, OpenDatabase, StartDatabase, Goto
    <1> QED
      BY <1>1, <1>2 DEF SwapTypeOK, RestKept, Directory

LEMMA WriteTypes == SwapTypeOK /\ WriteRow => SwapTypeOK'
    <1> SUFFICES ASSUME SwapTypeOK, WriteRow PROVE SwapTypeOK'
      OBVIOUS
    <1>1. entry' \in Directory /\ survivors' \subseteq Directory /\ entry' \in survivors'
      BY DirTypes DEF WriteRow
    <1>2. acked + 1 \in 1 .. MaxWrites /\ acked' \in 0 .. MaxWrites
      BY SwapAssumption DEF SwapTypeOK, WriteRow
    <1>3. rowsIn' \in [File -> SUBSET (1 .. MaxWrites)]
      BY <1>2 DEF SwapTypeOK, WriteRow
    <1> QED
      BY <1>1, <1>2, <1>3 DEF SwapTypeOK, WriteRow, Directory

LEMMA PowerTypes == SwapTypeOK /\ PowerFails => SwapTypeOK'
    <1> SUFFICES ASSUME SwapTypeOK, PowerFails PROVE SwapTypeOK'
      OBVIOUS
    <1>1. entry' \in Directory /\ survivors' \subseteq Directory /\ entry' \in survivors'
      BY DEF PowerFails, SwapTypeOK, Directory
    <1> QED
      BY <1>1 DEF SwapTypeOK, PowerFails, LeavesAside, Directory

-----------------------------------------------------------------------------
(* DatabaseSwap: no row is lost                                            *)

\* What a start would open, of any directory, has every acknowledged row.
LiveOf(dir) == IF dir["live"] # NoFile THEN dir["live"] ELSE dir["backup"]
Whole(dir) == LiveOf(dir) # NoFile /\ rowsIn[LiveOf(dir)] = 1 .. acked

\* The steps in which the live file is known to be there, or not to be.
WithLive == {"restored", "dropWork", "removed", "clean", "measure", "copy", "aside", "syncPublish",
             "drop", "open", "up"}
WithoutLive == {"syncAside", "publish"}

\* As long as nothing has happened that the caller does not survive.
SwapInv ==
    /\ \A dir \in survivors : Whole(dir)
    /\ database = "control" /\ swapStep = "down" => Exists("live")
    /\ swapStep \in WithLive => Exists("live")
    /\ swapStep \in WithoutLive => ~Exists("live")
    /\ swapStep \in {"copy", "aside", "syncAside", "publish"} => Exists("work")
    /\ swapStep \in {"aside", "syncAside", "publish"} => rowsIn[entry["work"]] = 1 .. acked

LEMMA SwapInitInv == SwapInit => SwapInv
    <1> SUFFICES ASSUME SwapInit PROVE SwapInv
      OBVIOUS
    <1>1. FirstFile \in File
      BY SwapAssumption DEF FirstFile
    <1>2. entry["live"] = FirstFile /\ FirstFile # NoFile /\ rowsIn[FirstFile] = {1}
      BY <1>1, SwapAssumption DEF SwapInit, Only, Names
    <1>3. {1} = 1 .. acked
      BY DEF SwapInit
    <1> QED
      BY <1>2, <1>3 DEF SwapInit, SwapInv, Exists, Whole, LiveOf, WithLive, WithoutLive

\* What is not survived is not forgotten, and a step that ends the process or
\* the compaction is survived only if the caller finds the file it opens next.
LEMMA ToleranceLasts ==
    ASSUME [SwapNext]_swapVars, Tolerated'
    PROVE  Tolerated
    BY DEF swapVars, SwapNext, Tolerated, RestKept, Same, SwapFault, LeavesAside, StartDatabase, RestoreBackup,
       SyncRestored, DropWork, RemoveBackup, SyncRemoved, NothingToRecover, RemoveStaleFiles,
       NotWorthwhile, CreateWork, CopyAllRows, MoveAside, SyncAside, PublishWork, SyncPublish,
       DropBackup, OpenDatabase, WriteRow, RecoveryFails, CompactionFails, PublishFails, KillProcess,
       PowerFails

LEMMA EndedSurvived ==
    ASSUME LeavesAside("ended"), Tolerated', database' = database
    PROVE  database = "control" => Exists("live")'
    BY DEF LeavesAside, Tolerated, Exists

LEMMA FailedSurvived ==
    ASSUME LeavesAside("failed"), Tolerated', database' = database
    PROVE  database = "control" \/ Exists("live")'
    BY DEF LeavesAside, Tolerated, Exists

\* What the directory at hand, which is one of the survivors, says.
LEMMA EntryWhole ==
    ASSUME SwapTypeOK, SwapInv
    PROVE  /\ Whole(entry)
           /\ entry["live"] \in File \cup {NoFile}
           /\ entry["backup"] \in File \cup {NoFile}
           /\ entry["work"] \in File \cup {NoFile}
    BY DEF SwapTypeOK, SwapInv, Names

\* A change to a directory that is whole, none, and a sync, while no row is
\* written.
LEMMA WholeStays ==
    ASSUME SwapTypeOK, SwapInv, UNCHANGED <<rowsIn, acked>>,
           (\E dir \in Directory : Whole(dir) /\ Change(dir)) \/ Keep \/ Sync
    PROVE  \A dir \in survivors' : Whole(dir)'
    BY EntryWhole DEF SwapInv, Whole, LiveOf, Change, Keep, Sync

\* One step after the other.  The changes of the directory leave what would
\* be opened, or put a file with the same rows in its place.
LEMMA RecoveryInv ==
    ASSUME SwapTypeOK, SwapInv, Tolerated',
           \/ \E compacts \in BOOLEAN : StartDatabase(compacts)
           \/ RestoreBackup \/ SyncRestored \/ DropWork
           \/ RemoveBackup \/ SyncRemoved \/ NothingToRecover
           \/ RecoveryFails \/ KillProcess
    PROVE  SwapInv'
    <1> USE EntryWhole, WholeStays, ChangeTypes
    <1>0. "live" \in Names /\ "backup" \in Names /\ "work" \in Names
      BY DEF Names
    <1>1. CASE \E compacts \in BOOLEAN : StartDatabase(compacts)
      <2>1. swapStep = "down" /\ swapStep' = "recover" /\ UNCHANGED acked
        BY <1>1 DEF StartDatabase, Goto, RestKept
      <2>2. database = "control" => Exists("live")
        BY <2>1 DEF SwapInv
      <2>3. Keep /\ UNCHANGED rowsIn
        BY <1>1, <2>2 DEF StartDatabase, Connect
      <2>4. \A dir \in survivors' : Whole(dir)'
        BY <2>1, <2>3
      <2> QED
        BY <2>1, <2>4 DEF SwapInv, WithLive, WithoutLive
    <1>2. CASE RestoreBackup
      <2>1. Moved("backup", "live") \in Directory
        BY <1>0
      <2>2. Whole(Moved("backup", "live"))
        BY <1>0, <1>2 DEF RestoreBackup, Exists, Whole, LiveOf, Moved, SwapTypeOK
      <2>3. \A dir \in survivors' : Whole(dir)'
        BY <1>2, <2>1, <2>2 DEF RestoreBackup, Same, RestKept
      <2>4. Exists("live")'
        BY <1>0, <1>2 DEF RestoreBackup, Exists, Moved, Change, SwapTypeOK
      <2> QED
        BY <1>2, <2>3, <2>4 DEF RestoreBackup, Goto, SwapInv, WithLive, WithoutLive
    <1>3. CASE SyncRestored
      <2>1. \A dir \in survivors' : Whole(dir)'
        BY <1>3 DEF SyncRestored, Same, RestKept
      <2> QED
        BY <1>3, <2>1 DEF SyncRestored, Goto, SwapInv, Sync, Exists, WithLive, WithoutLive
    <1>4. CASE DropWork
      <2>1. Without({"work"}) \in Directory /\ Whole(Without({"work"}))
        BY <1>0 DEF Whole, LiveOf, Without
      <2>2. \A dir \in survivors' : Whole(dir)'
        BY <1>4, <2>1 DEF DropWork, Same, RestKept
      <2>3. Exists("live")'
        BY <1>0, <1>4 DEF DropWork, Goto, SwapInv, Exists, Change, Keep, Without, WithLive
      <2> QED
        BY <1>4, <2>2, <2>3 DEF DropWork, Goto, Recovered, SwapInv, WithLive, WithoutLive
    <1>5. CASE RemoveBackup
      <2>1. Without({"backup"}) \in Directory /\ Whole(Without({"backup"}))
        BY <1>0, <1>5 DEF RemoveBackup, Exists, Whole, LiveOf, Without
      <2>2. \A dir \in survivors' : Whole(dir)'
        BY <1>5, <2>1 DEF RemoveBackup, Same, RestKept
      <2>3. Exists("live")'
        BY <1>0, <1>5 DEF RemoveBackup, Exists, Change, Without
      <2> QED
        BY <1>5, <2>2, <2>3 DEF RemoveBackup, Goto, SwapInv, WithLive, WithoutLive
    <1>6. CASE SyncRemoved
      <2>1. \A dir \in survivors' : Whole(dir)'
        BY <1>6 DEF SyncRemoved, Same, RestKept
      <2>2. Exists("live")'
        BY <1>6 DEF SyncRemoved, Goto, SwapInv, Exists, Sync, WithLive
      <2> QED
        BY <1>6, <2>1, <2>2 DEF SyncRemoved, Goto, Recovered, SwapInv, WithLive, WithoutLive
    <1>7. CASE NothingToRecover
      <2>1. \A dir \in survivors' : Whole(dir)'
        BY <1>7 DEF NothingToRecover, Same, RestKept
      <2>2. Exists("live")'
        BY <1>7 DEF NothingToRecover, Exists, Keep, Whole, LiveOf
      <2> QED
        BY <1>7, <2>1, <2>2 DEF NothingToRecover, Goto, Recovered, SwapInv, WithLive, WithoutLive
    <1>8. CASE RecoveryFails
      <2>1. database = "control" => Exists("live")'
        BY <1>8, EndedSurvived DEF RecoveryFails, SwapFault
      <2>2. \A dir \in survivors' : Whole(dir)'
        BY <1>8 DEF RecoveryFails, SwapFault
      <2>3. swapStep' = "down" /\ UNCHANGED database
        BY <1>8 DEF RecoveryFails, SwapFault
      <2> QED
        BY <2>1, <2>2, <2>3 DEF SwapInv, WithLive, WithoutLive
    <1>9. CASE KillProcess
      <2>1. database = "control" => Exists("live")'
        BY <1>9, EndedSurvived DEF KillProcess
      <2>2. \A dir \in survivors' : Whole(dir)'
        BY <1>9 DEF KillProcess
      <2>3. swapStep' = "down" /\ UNCHANGED database
        BY <1>9 DEF KillProcess
      <2> QED
        BY <2>1, <2>2, <2>3 DEF SwapInv, WithLive, WithoutLive
    <1> QED
      BY <1>1, <1>2, <1>3, <1>4, <1>5, <1>6, <1>7, <1>8, <1>9

\* The callers recover again, or open the file at once.
LEMMA Afterwards == AfterCompaction \in {"recover", "open"}
                    /\ (database = "control" => AfterCompaction = "recover")
    BY DEF AfterCompaction

LEMMA CompactionInv ==
    ASSUME SwapTypeOK, SwapInv, Tolerated',
           \/ RemoveStaleFiles \/ NotWorthwhile \/ MoveAside \/ SyncAside \/ PublishWork
           \/ SyncPublish \/ DropBackup \/ CompactionFails
           \/ \E restored \in BOOLEAN : PublishFails(restored)
    PROVE  SwapInv'
    <1> USE EntryWhole, WholeStays, ChangeTypes, Afterwards
    <1>0. "live" \in Names /\ "backup" \in Names /\ "work" \in Names
      BY DEF Names
    <1>1. CASE RemoveStaleFiles
      <2>1. Without({"work", "backup"}) \in Directory /\ Whole(Without({"work", "backup"}))
        BY <1>0, <1>1 DEF RemoveStaleFiles, Exists, Whole, LiveOf, Without
      <2>2. \A dir \in survivors' : Whole(dir)'
        BY <1>1, <2>1 DEF RemoveStaleFiles, Same, RestKept
      <2>3. Exists("live")'
        BY <1>0, <1>1 DEF RemoveStaleFiles, Exists, Change, Keep, Without
      <2> QED
        BY <1>1, <2>2, <2>3 DEF RemoveStaleFiles, Goto, SwapInv, WithLive, WithoutLive
    <1>2. CASE NotWorthwhile
      BY <1>2 DEF NotWorthwhile, RestKept, Goto, SwapInv, Keep, Exists, Whole, LiveOf, WithLive, WithoutLive
    <1>3. CASE MoveAside
      <2>0. Exists("live") /\ Exists("work") /\ rowsIn[entry["work"]] = 1 .. acked
        BY <1>3 DEF MoveAside, Goto, SwapInv, WithLive
      <2>1. Moved("live", "backup") \in Directory
        BY <1>0
      <2>2. Whole(Moved("live", "backup"))
        BY <1>0, <2>0 DEF Exists, Whole, LiveOf, Moved, SwapTypeOK
      <2>3. \A dir \in survivors' : Whole(dir)'
        BY <1>3, <2>1, <2>2 DEF MoveAside, Same, RestKept
      <2>4. entry'["live"] = NoFile /\ entry'["work"] = entry["work"]
        BY <1>0, <1>3 DEF MoveAside, Moved, Change, SwapTypeOK
      <2> QED
        BY <1>3, <2>0, <2>3, <2>4
        DEF MoveAside, Goto, Same, RestKept, SwapInv, Exists, WithLive, WithoutLive
    <1>4. CASE SyncAside
      <2>1. \A dir \in survivors' : Whole(dir)'
        BY <1>4 DEF SyncAside, Same, RestKept
      <2> QED
        BY <1>4, <2>1 DEF SyncAside, Goto, Same, RestKept, SwapInv, Sync, Exists, WithLive, WithoutLive
    <1>5. CASE PublishWork
      <2>0. Exists("work") /\ rowsIn[entry["work"]] = 1 .. acked
        BY <1>5 DEF PublishWork, Goto, SwapInv
      <2>1. Moved("work", "live") \in Directory
        BY <1>0
      <2>2. Whole(Moved("work", "live"))
        BY <1>0, <2>0 DEF Exists, Whole, LiveOf, Moved, SwapTypeOK
      <2>3. \A dir \in survivors' : Whole(dir)'
        BY <1>5, <2>1, <2>2 DEF PublishWork, Same, RestKept
      <2>4. Exists("live")'
        BY <1>0, <1>5, <2>0 DEF PublishWork, Exists, Moved, Change, SwapTypeOK
      <2> QED
        BY <1>5, <2>3, <2>4 DEF PublishWork, Goto, SwapInv, WithLive, WithoutLive
    <1>6. CASE SyncPublish
      <2>1. \A dir \in survivors' : Whole(dir)'
        BY <1>6 DEF SyncPublish, Same, RestKept
      <2> QED
        BY <1>6, <2>1 DEF SyncPublish, Goto, SwapInv, Sync, Exists, WithLive, WithoutLive
    <1>7. CASE DropBackup
      <2>1. Without({"backup"}) \in Directory /\ Whole(Without({"backup"}))
        BY <1>0, <1>7 DEF DropBackup, Goto, SwapInv, Exists, Whole, LiveOf, Without, WithLive
      <2>2. \A dir \in survivors' : Whole(dir)'
        BY <1>7, <2>1 DEF DropBackup, RestKept
      <2>3. Exists("live")'
        BY <1>0, <1>7 DEF DropBackup, Goto, SwapInv, Exists, Change, Without, WithLive
      <2> QED
        BY <1>7, <2>2, <2>3 DEF DropBackup, Goto, SwapInv, WithLive, WithoutLive
    <1>8. CASE CompactionFails
      <2>1. Without({"work"}) \in Directory /\ Whole(Without({"work"}))
        BY <1>0 DEF Whole, LiveOf, Without
      <2>2. \A dir \in survivors' : Whole(dir)'
        BY <1>8, <2>1 DEF CompactionFails, SwapFault
      <2>3. database = "control" \/ Exists("live")'
        BY <1>8, FailedSurvived DEF CompactionFails, SwapFault
      <2> QED
        BY <1>8, <2>2, <2>3 DEF CompactionFails, SwapInv, WithLive, WithoutLive
    <1>9. ASSUME NEW restored \in BOOLEAN, PublishFails(restored) PROVE SwapInv'
      <2>1. entry["live"] = NoFile
        BY <1>9 DEF PublishFails, Goto, SwapInv, Exists, WithoutLive
      <2>2. Only(entry["backup"]) \in Directory /\ Whole(Only(entry["backup"]))
        BY <1>0, <2>1 DEF Whole, LiveOf, Only
      <2>3. \A dir \in survivors' : Whole(dir)'
        BY <1>9, <2>2 DEF PublishFails, SwapFault
      <2>4. database = "control" \/ Exists("live")'
        BY <1>9, FailedSurvived DEF PublishFails, SwapFault
      <2> QED
        BY <1>9, <2>3, <2>4 DEF PublishFails, Goto, SwapInv, WithLive, WithoutLive
    <1> QED
      BY <1>1, <1>2, <1>3, <1>4, <1>5, <1>6, <1>7, <1>8, <1>9

\* A new file is none of those that a survivor would open.
LEMMA NewFileUnopened ==
    ASSUME SwapTypeOK, SwapInv, Unused # {}, NEW dir \in survivors
    PROVE  LiveOf(dir) \in File /\ LiveOf(dir) # NewFile
    <1>1. dir["live"] \in File \cup {NoFile} /\ dir["backup"] \in File \cup {NoFile}
      BY DEF SwapTypeOK, Names
    <1>2. dir["live"] # NewFile /\ dir["backup"] # NewFile
      BY NewFileType DEF Names
    <1> QED
      BY <1>1, <1>2 DEF SwapInv, Whole, LiveOf

LEMMA CreateInv == SwapTypeOK /\ SwapInv /\ CreateWork => SwapInv'
    <1> SUFFICES ASSUME SwapTypeOK, SwapInv, CreateWork PROVE SwapInv'
      OBVIOUS
    <1>0. NewFile \in File /\ NewFile # NoFile /\ entry \in survivors
      BY NewFileType, SwapAssumption DEF CreateWork, SwapTypeOK
    <1>1. /\ entry'["live"] = entry["live"] /\ entry'["backup"] = entry["backup"]
          /\ entry'["work"] = NewFile
      BY DEF CreateWork, Change, SwapTypeOK, Names
    <1>2. ASSUME NEW f \in File, f # NewFile PROVE rowsIn'[f] = rowsIn[f]
      BY <1>2 DEF CreateWork, SwapTypeOK
    <1>3. LiveOf(entry') = LiveOf(entry)
      BY <1>1 DEF LiveOf
    <1>4. \A dir \in survivors : LiveOf(dir) # NoFile /\ rowsIn'[LiveOf(dir)] = 1 .. acked
      BY <1>2, NewFileUnopened DEF CreateWork, SwapInv, Whole
    <1>5. \A dir \in survivors' : LiveOf(dir) # NoFile /\ rowsIn'[LiveOf(dir)] = 1 .. acked
      BY <1>0, <1>3, <1>4 DEF CreateWork, Change
    <1>6. \A dir \in survivors' : Whole(dir)'
      BY <1>5 DEF Whole, LiveOf, CreateWork, RestKept
    <1> QED
      BY <1>0, <1>1, <1>6 DEF CreateWork, Goto, RestKept, SwapInv, Exists, WithLive, WithoutLive

LEMMA CopyInv == SwapTypeOK /\ SwapInv /\ CopyAllRows => SwapInv'
    <1> SUFFICES ASSUME SwapTypeOK, SwapInv, CopyAllRows PROVE SwapInv'
      OBVIOUS
    <1>1. Exists("live") /\ Exists("work") /\ entry["work"] \in File /\ entry["live"] \in File
      BY EntryWhole DEF CopyAllRows, Goto, SwapInv, Exists, WithLive
    <1>2. rowsIn[entry["live"]] = 1 .. acked
      BY <1>1, EntryWhole DEF Whole, LiveOf, Exists
    <1>3. rowsIn'[entry["work"]] = 1 .. acked
      BY <1>1, <1>2 DEF CopyAllRows, SwapTypeOK
    <1>4. ASSUME NEW f \in File, f # entry["work"] PROVE rowsIn'[f] = rowsIn[f]
      BY <1>4 DEF CopyAllRows, SwapTypeOK
    <1>5. ASSUME NEW dir \in survivors PROVE LiveOf(dir) # NoFile /\ rowsIn'[LiveOf(dir)] = 1 .. acked
      <2>1. LiveOf(dir) \in File
        BY DEF SwapTypeOK, SwapInv, Whole, LiveOf, Names
      <2> QED
        BY <1>3, <1>4, <2>1 DEF SwapInv, Whole
    <1>6. \A dir \in survivors' : Whole(dir)'
      BY <1>5 DEF Whole, LiveOf, CopyAllRows, Keep, RestKept
    <1> QED
      BY <1>1, <1>3, <1>6 DEF CopyAllRows, Goto, Keep, RestKept, SwapInv, Exists, WithLive, WithoutLive

LEMMA OpenInv == SwapTypeOK /\ SwapInv /\ OpenDatabase => SwapInv'
    <1> SUFFICES ASSUME SwapTypeOK, SwapInv, OpenDatabase PROVE SwapInv'
      OBVIOUS
    <1>1. Exists("live")
      BY DEF OpenDatabase, Goto, SwapInv, WithLive
    <1>2. Keep /\ UNCHANGED <<rowsIn, acked>>
      BY <1>1 DEF OpenDatabase, Connect, RestKept
    <1> QED
      BY <1>1, <1>2
      DEF OpenDatabase, Connect, Goto, Keep, SwapInv, Whole, LiveOf, Exists, WithLive, WithoutLive

LEMMA WriteInv == SwapTypeOK /\ SwapInv /\ WriteRow => SwapInv'
    <1> SUFFICES ASSUME SwapTypeOK, SwapInv, WriteRow PROVE SwapInv'
      OBVIOUS
    <1>1. entry["live"] # NoFile /\ entry["live"] \in File
      BY EntryWhole DEF WriteRow, SwapInv, Exists, WithLive
    <1>2. rowsIn[entry["live"]] = 1 .. acked
      BY <1>1, EntryWhole DEF Whole, LiveOf
    <1>3. rowsIn'[entry["live"]] = (1 .. acked) \cup {acked + 1}
      BY <1>1, <1>2 DEF WriteRow, SwapTypeOK
    <1>4. acked \in Nat /\ acked' = acked + 1
      BY SwapAssumption DEF WriteRow, SwapTypeOK
    <1>5. (1 .. acked) \cup {acked + 1} = 1 .. acked'
      BY <1>4
    <1>6. survivors' = {entry} /\ entry' = entry
      BY DEF WriteRow, Sync
    <1>7. \A dir \in survivors' : Whole(dir)'
      BY <1>1, <1>3, <1>5, <1>6 DEF Whole, LiveOf
    <1> QED
      BY <1>1, <1>6, <1>7 DEF WriteRow, SwapInv, Exists, WithLive, WithoutLive

LEMMA PowerInv == SwapTypeOK /\ SwapInv /\ Tolerated' /\ PowerFails => SwapInv'
    BY EndedSurvived DEF SwapTypeOK, SwapInv, PowerFails, Whole, LiveOf, WithLive, WithoutLive

LEMMA StutterInv == SwapTypeOK /\ SwapInv /\ UNCHANGED swapVars => SwapTypeOK' /\ SwapInv'
    BY DEF swapVars, SwapTypeOK, SwapInv, Whole, LiveOf, Exists

\* A copy reads a live file that is there, whatever happened before.
CopiesFromLive == swapStep \in {"measure", "copy"} => Exists("live")

\* What always holds, and what holds as long as everything was survived.
SwapSound == SwapTypeOK /\ CopiesFromLive /\ (Tolerated => SwapInv)

LEMMA CopiesNext ==
    ASSUME SwapTypeOK, CopiesFromLive, SwapNext
    PROVE  CopiesFromLive'
    <1>0. "live" \in Names /\ "backup" \in Names /\ "work" \in Names
      BY DEF Names
    <1>1. CASE RemoveStaleFiles
      BY <1>0, <1>1 DEF RemoveStaleFiles, CopiesFromLive, Exists, Change, Keep, Without
    <1>2. CASE CreateWork
      BY <1>0, <1>2 DEF CreateWork, Goto, CopiesFromLive, Exists, Change, SwapTypeOK
    <1>3. CASE ~(RemoveStaleFiles \/ CreateWork)
      <2>1. swapStep' \notin {"measure", "copy"}
        BY <1>3, Afterwards
        DEF SwapNext, Goto, Recovered, StartDatabase, RestoreBackup, SyncRestored, DropWork,
            RemoveBackup, SyncRemoved, NothingToRecover, NotWorthwhile, CopyAllRows, MoveAside,
            SyncAside, PublishWork, SyncPublish, DropBackup, OpenDatabase, WriteRow, RecoveryFails,
            CompactionFails, PublishFails, KillProcess, PowerFails
      <2> QED
        BY <2>1 DEF CopiesFromLive
    <1> QED
      BY <1>1, <1>2, <1>3

LEMMA SwapNextInv == SwapSound /\ [SwapNext]_swapVars => SwapSound'
    <1> SUFFICES ASSUME SwapSound, [SwapNext]_swapVars PROVE SwapSound'
      OBVIOUS
    <1> USE DEF SwapSound
    <1>1. CASE UNCHANGED swapVars
      <2>1. CopiesFromLive' /\ (Tolerated' => Tolerated)
        BY <1>1 DEF swapVars, CopiesFromLive, Exists, Tolerated
      <2> QED
        BY <1>1, <2>1, StutterInv DEF swapVars, SwapTypeOK
    <1>2. CASE SwapNext
      <2>1. SwapTypeOK'
        <3>1. CopyAllRows => Exists("live")
          BY DEF CopyAllRows, Goto, CopiesFromLive
        <3> QED
          BY <1>2, <3>1, QuietTypes, CreateTypes, CopyTypes, OpenTypes, WriteTypes, PowerTypes
          DEF SwapNext, QuietStep, FaultyStep
      <2>2. CopiesFromLive'
        BY <1>2, CopiesNext
      <2>3. ASSUME Tolerated' PROVE SwapInv'
        <3>1. SwapInv
          BY <2>3, ToleranceLasts
        <3> QED
          BY <1>2, <2>3, <3>1, RecoveryInv, CompactionInv, CreateInv, CopyInv, OpenInv, WriteInv, PowerInv
          DEF SwapNext
      <2> QED
        BY <2>1, <2>2, <2>3
    <1> QED
      BY <1>1, <1>2

LEMMA WholeNextLive == SwapSound => NothingLost /\ (Tolerated => NoEmptyDatabase)
    <1> SUFFICES ASSUME SwapSound, Tolerated PROVE NothingLost /\ NoEmptyDatabase
      BY DEF NothingLost
    <1>1. SwapTypeOK /\ SwapInv
      BY DEF SwapSound
    <1>2. Whole(entry)
      BY <1>1, EntryWhole
    <1> QED
      BY <1>1, <1>2 DEF SwapInv, Whole, LiveOf, Exists, NextLive, NothingLost, NoEmptyDatabase, WithLive

LEMMA SwapInitSound == SwapInit => SwapSound
    <1>1. SwapInit => CopiesFromLive
      BY DEF SwapInit, CopiesFromLive
    <1> QED
      BY <1>1, SwapInitTypes, SwapInitInv DEF SwapSound

LEMMA AlwaysSound == SwapSpec => []SwapSound
    <1> QED
      BY SwapInitSound, SwapNextInv, PTL DEF SwapSpec

\* Every variable keeps its type, in particular a file is copied only from
\* one that is there, whatever fails.
THEOREM SwapTypes == SwapSpec => []SwapTypeOK
    <1>1. SwapSound => SwapTypeOK
      BY DEF SwapSound
    <1> QED
      BY <1>1, AlwaysSound, PTL

\* Whatever operation fails and whenever the process is killed or the power
\* fails, the next start finds every acknowledged row, unless the one fault
\* happened that the caller does not survive.
THEOREM NothingIsLost == SwapSpec => []NothingLost
    BY AlwaysSound, WholeNextLive, PTL

\* A database that is open has them all, up to that fault: no caller creates
\* an empty one in the place of a file that a survived fault left aside.
THEOREM NeverOpenedEmpty == SwapSpec => [](Tolerated => NoEmptyDatabase)
    BY AlwaysSound, WholeNextLive, PTL

-----------------------------------------------------------------------------
(* TenantSplit: types                                                      *)

ControlDirs == [ControlNames -> ControlFile \cup {NoDatabase}]
TenantDirs == [TenantNames -> TenantRows \cup {NoDatabase}]

LEMMA ControlNamed == "live" \in ControlNames /\ "backup" \in ControlNames /\ "work" \in ControlNames
    BY DEF ControlNames

LEMMA TenantNamed == "final" \in TenantNames /\ "work" \in TenantNames /\ "stray" \in TenantNames
    BY DEF TenantNames

LEMMA FilesAreNone == NoDatabase \notin ControlFile /\ NoDatabase \notin TenantRows
    BY SplitAssumption

\* The files that the code makes.
LEMMA NewControlFiles ==
    /\ BeforeSplit \in ControlFile /\ EmptyControl \in ControlFile
    /\ \A h, s, m \in BOOLEAN :
        [home |-> h, rows |-> {}, split |-> s, compacted |-> m] \in ControlFile
    <1>1. {} \in TenantRows /\ {1} \in TenantRows
      BY SplitAssumption DEF TenantRows
    <1> QED
      BY <1>1 DEF BeforeSplit, EmptyControl, ControlFile

\* The directories that the steps make of one.
LEMMA ControlDirTypes ==
    ASSUME control \in ControlDirs
    PROVE  /\ \A from, to \in ControlNames : ControlMoved(from, to) \in ControlDirs
           /\ \A names : ControlWithout(names) \in ControlDirs
           /\ \A name, file : file \in ControlFile => ControlWith(name, file) \in ControlDirs
    BY DEF ControlDirs, ControlMoved, ControlWithout, ControlWith

LEMMA TenantDirTypes ==
    ASSUME NEW final \in TenantRows \cup {NoDatabase}, NEW work \in TenantRows \cup {NoDatabase},
           NEW stray \in TenantRows
    PROVE  /\ TenantDir(final, work, stray) \in TenantDirs
           /\ TenantDir(final, work, stray)["final"] = final
           /\ TenantDir(final, work, stray)["work"] = work
           /\ TenantDir(final, work, stray)["stray"] = stray /\ stray # NoDatabase
           /\ final = NoDatabase => RowsOfTenant(TenantDir(final, work, stray)) = stray
           /\ final # NoDatabase => RowsOfTenant(TenantDir(final, work, stray)) = stray \cup final
    <1>1. TenantDir(final, work, stray) \in TenantDirs
      BY DEF TenantDirs, TenantDir
    <1>2. /\ TenantDir(final, work, stray)["final"] = final
          /\ TenantDir(final, work, stray)["work"] = work
          /\ TenantDir(final, work, stray)["stray"] = stray
      BY DEF TenantDir, TenantNames
    <1>3. stray # NoDatabase
      BY FilesAreNone
    <1>4. TenantNames \ {"work"} = {"final", "stray"}
      BY DEF TenantNames
    <1> DEFINE dir == TenantDir(final, work, stray)
    <1> HIDE DEF dir
    <1>5. /\ final = NoDatabase => RowsOfTenant(dir) = stray
          /\ final # NoDatabase => RowsOfTenant(dir) = stray \cup final
      <2>1. dir["final"] = final /\ dir["stray"] = stray
        BY <1>2 DEF dir
      <2> QED
        BY <2>1, <1>3, <1>4 DEF RowsOfTenant
    <1> QED
      BY <1>1, <1>2, <1>3, <1>5 DEF dir

\* What a directory of the tenant says of its rows.
LEMMA TenantDirRows ==
    ASSUME NEW dir \in TenantDirs, dir["stray"] # NoDatabase
    PROVE  /\ dir["stray"] \in TenantRows
           /\ dir["final"] \in TenantRows \cup {NoDatabase}
           /\ dir["work"] \in TenantRows \cup {NoDatabase}
           /\ dir["final"] = NoDatabase => RowsOfTenant(dir) = dir["stray"]
           /\ dir["final"] # NoDatabase => RowsOfTenant(dir) = dir["stray"] \cup dir["final"]
    <1>1. TenantNames \ {"work"} = {"final", "stray"}
      BY DEF TenantNames
    <1> QED
      BY <1>1, TenantNamed DEF RowsOfTenant, TenantDirs

LEMMA RowsUnite == \A r, s \in TenantRows : r \cup s \in TenantRows
    BY DEF TenantRows

LEMMA OrphanedDir ==
    ASSUME NEW dir \in TenantDirs, dir["stray"] # NoDatabase
    PROVE  /\ Orphaned(dir) \in TenantDirs
           /\ Orphaned(dir)["stray"] # NoDatabase
           /\ RowsOfTenant(Orphaned(dir)) = RowsOfTenant(dir)
    <1> DEFINE rows == dir["stray"] \cup (IF dir["final"] = NoDatabase THEN {} ELSE dir["final"])
    <1>1. rows \in TenantRows /\ RowsOfTenant(dir) = rows
      <2>1. CASE dir["final"] = NoDatabase
        <3>1. rows = dir["stray"] \cup {}
          BY <2>1
        <3> QED
          BY <2>1, <3>1, TenantDirRows
      <2>2. CASE dir["final"] # NoDatabase
        <3>1. rows = dir["stray"] \cup dir["final"]
          BY <2>2
        <3> QED
          BY <2>2, <3>1, TenantDirRows, RowsUnite
      <2> QED
        BY <2>1, <2>2
    <1>2. Orphaned(dir) = TenantDir(NoDatabase, NoDatabase, rows)
      BY DEF Orphaned
    <1> HIDE DEF rows
    <1> QED
      BY <1>1, <1>2, TenantDirTypes

\* The types, with the directories named.
LEMMA SplitTypesMean ==
    SplitTypeOK <=>
        /\ splitStep \in {"down", "first", "migrated", "check", "swap", "syncRestored", "read",
                      "syncForMissing", "prepare", "syncStray", "copyRows", "publishTenant",
                      "syncTenant", "rewrite", "fill", "moveAside", "syncAside",
                      "publishControl", "syncControl", "dropBackup", "mark", "reopen", "serve",
                      "up"}
        /\ controlLeft \subseteq ControlDirs /\ control \in controlLeft
        /\ tenantLeft \subseteq TenantDirs /\ tenant \in tenantLeft
        /\ \A dir \in tenantLeft : dir["stray"] # NoDatabase
        /\ stored \in 0 .. MaxRows
        /\ undone \in 0 .. MaxUndone
        /\ dirLosses \in 0 .. MaxDirLosses
    BY DEF SplitTypeOK, ControlDirs, TenantDirs

LEMMA SplitInitTypes == SplitInit => SplitTypeOK
    <1> SUFFICES ASSUME SplitInit PROVE SplitTypeOK
      OBVIOUS
    <1>1. control \in ControlDirs
      BY NewControlFiles DEF SplitInit, ControlDirs
    <1>2. {} \in TenantRows
      BY DEF TenantRows
    <1>3. tenant \in TenantDirs /\ tenant["stray"] # NoDatabase
      BY <1>2, TenantDirTypes DEF SplitInit, NoTenantFiles
    <1> QED
      BY <1>1, <1>3, SplitTypesMean, SplitAssumption DEF SplitInit

-----------------------------------------------------------------------------
(* TenantSplit: one authority, and every row left                          *)

\* The rows are in the tenant's directory for good, or none has left the
\* control file.
Durable == \A t \in tenantLeft : 1 .. stored \subseteq RowsOfTenant(t)
AllBefore == \A c \in controlLeft :
    c["live"] # NoDatabase /\ c["live"].rows = 1 .. stored /\ ~c["live"].split
AfterSync == {"rewrite", "fill", "moveAside", "syncAside", "publishControl", "syncControl",
              "dropBackup", "mark", "reopen", "serve", "up"}
Kept == dirLosses = 0 => Durable \/ (AllBefore /\ splitStep \notin AfterSync)

\* What the start knows at each step.
Copying == {"prepare", "syncStray", "copyRows", "publishTenant", "syncTenant"}
Aside == {"syncAside", "publishControl"}
Published == {"syncControl", "dropBackup", "mark"}
Opening == {"migrated", "check", "read", "syncRestored", "syncForMissing", "rewrite", "fill",
           "moveAside", "reopen", "serve", "up"} \cup Copying \cup Published
Home(dir) == IF dir["live"] # NoDatabase THEN dir["live"].home
             ELSE dir["backup"] # NoDatabase /\ dir["backup"].home
StepsControl ==
    /\ splitStep \in Opening => HasControl("live")
    /\ splitStep \in Aside => ~HasControl("live") /\ HasControl("backup")
    /\ splitStep \in Aside \cup {"moveAside"} =>
           HasControl("work") /\ (control["work"].home <=> Home(control))
    /\ splitStep \in Copying => ~Live.split
    /\ splitStep \in {"rewrite", "fill", "moveAside"} \cup Copying \cup Published => ~Live.compacted
    /\ splitStep \in {"fill", "moveAside", "mark"} => ~HasControl("backup")
    /\ splitStep \in Published => Live.split
    /\ splitStep \in {"reopen", "serve", "up"} => Live.split /\ Live.compacted
StepsTenant ==
    /\ splitStep \in {"syncStray", "copyRows", "publishTenant"} => ~HasTenant("final")
    /\ splitStep = "publishTenant" => tenant["work"] = Live.rows
    /\ splitStep = "syncTenant" => tenant["final"] = Live.rows
    /\ splitStep = "up" => HasTenant("final")

\* What a control directory may hold.
GoodFile(file) ==
    /\ file.home /\ ~file.split => file.rows = 1 .. stored
    /\ file.split => file.rows = {}
Compacted(dir) == dir["live"] # NoDatabase /\ dir["live"].compacted
GoodDir(dir) ==
    /\ dir["live"] # NoDatabase => GoodFile(dir["live"])
    /\ dir["backup"] # NoDatabase => GoodFile(dir["backup"]) /\ ~dir["backup"].compacted
    /\ dir["work"] # NoDatabase =>
           GoodFile(dir["work"]) /\ ~dir["work"].compacted /\ dir["work"].split
    /\ dir["live"] # NoDatabase /\ dir["live"].split /\ dir["backup"] # NoDatabase =>
           (dir["backup"].home <=> dir["live"].home)
    /\ Compacted(dir) => dir["backup"] = NoDatabase /\ dir["live"].split
Files == \A c \in controlLeft :
    GoodDir(c) /\ (Home(c) <=> Home(control)) /\ (Compacted(c) => controlLeft = {c})
Finals == Home(control) => \A t \in tenantLeft : t["final"] \in {NoDatabase, 1 .. stored}

SplitInv == Kept /\ StepsControl /\ StepsTenant /\ Files /\ Finals

\* The directories at hand.
LEMMA AtHand ==
    ASSUME SplitTypeOK
    PROVE  /\ control \in controlLeft /\ control \in ControlDirs
           /\ tenant \in tenantLeft /\ tenant \in TenantDirs /\ tenant["stray"] # NoDatabase
           /\ control["live"] \in ControlFile \cup {NoDatabase}
           /\ control["backup"] \in ControlFile \cup {NoDatabase}
           /\ control["work"] \in ControlFile \cup {NoDatabase}
           /\ HasControl("live") => /\ Live \in ControlFile /\ Live.home \in BOOLEAN
                                    /\ Live.split \in BOOLEAN /\ Live.compacted \in BOOLEAN
                                    /\ Live.rows \in TenantRows
    <1>1. control \in controlLeft /\ control \in ControlDirs
      BY SplitTypesMean
    <1>2. tenant \in tenantLeft /\ tenant \in TenantDirs /\ tenant["stray"] # NoDatabase
      BY SplitTypesMean
    <1>3. /\ control["live"] \in ControlFile \cup {NoDatabase}
          /\ control["backup"] \in ControlFile \cup {NoDatabase}
          /\ control["work"] \in ControlFile \cup {NoDatabase}
      BY <1>1, ControlNamed DEF ControlDirs
    <1>4. HasControl("live") => Live \in ControlFile
      BY <1>3 DEF HasControl, Live
    <1> QED
      BY <1>1, <1>2, <1>3, <1>4 DEF ControlFile

LEMMA SplitInitInv == SplitInit => SplitInv
    <1> SUFFICES ASSUME SplitInit PROVE SplitInv
      OBVIOUS
    <1>1. /\ control["live"] = BeforeSplit /\ control["backup"] = NoDatabase
          /\ control["work"] = NoDatabase
      BY ControlNamed DEF SplitInit
    <1>2. BeforeSplit # NoDatabase
      BY NewControlFiles, FilesAreNone
    <1>3. /\ BeforeSplit.rows = 1 .. stored /\ BeforeSplit.home /\ ~BeforeSplit.split
          /\ ~BeforeSplit.compacted
      BY DEF SplitInit, BeforeSplit
    <1>4. Files /\ AllBefore
      BY <1>1, <1>2, <1>3 DEF SplitInit, Files, AllBefore, GoodDir, GoodFile, Compacted
    <1>5. tenant["final"] = NoDatabase
      BY TenantNamed DEF SplitInit, NoTenantFiles, TenantDir
    <1> QED
      BY <1>4, <1>5
      DEF SplitInit, SplitInv, Kept, AfterSync, StepsControl, StepsTenant, Finals, Opening, Aside,
          Copying, Published

\* A change of the control directory, or a sync with one, to a directory that
\* is good and as much a home as the one before.
LEMMA ControlStep ==
    ASSUME SplitTypeOK, Files, Finals, SameTenant, UNCHANGED stored,
           NEW dir \in ControlDirs, GoodDir(dir), Home(dir) <=> Home(control),
           \/ ControlChange(dir) /\ ~Compacted(control) /\ ~Compacted(dir)
           \/ ControlSynced(dir)
    PROVE  Files' /\ Finals'
    <1>1. \A c \in controlLeft : GoodDir(c) /\ (Home(c) <=> Home(control))
      BY DEF Files
    <1>2. control' = dir
      BY DEF ControlChange, ControlSynced
    <1>3. ASSUME NEW c \in controlLeft' PROVE (GoodDir(c) /\ (Home(c) <=> Home(control)))'
      <2>1. c \in controlLeft \/ c = dir
        BY DEF ControlChange, ControlSynced
      <2>2. GoodDir(c) /\ (Home(c) <=> Home(dir))
        BY <1>1, <2>1
      <2> QED
        BY <1>2, <2>2 DEF GoodDir, GoodFile, Home, Compacted
    <1>4. ASSUME NEW c \in controlLeft', Compacted(c) PROVE controlLeft' = {c}
      <2>1. CASE ControlSynced(dir)
        BY <2>1 DEF ControlSynced
      <2>2. CASE ControlChange(dir) /\ ~Compacted(control) /\ ~Compacted(dir)
        <3>1. c \in controlLeft
          BY <1>4, <2>2 DEF ControlChange
        <3>2. controlLeft = {c} /\ control \in controlLeft
          BY <1>4, <3>1, AtHand DEF Files
        <3> QED
          BY <1>4, <2>2, <3>2
      <2> QED
        BY <2>1, <2>2
    <1>5. Files'
      BY <1>3, <1>4 DEF Files, Compacted
    <1>6. Finals'
      BY <1>2 DEF Finals, SameTenant, Home
    <1> QED
      BY <1>5, <1>6

\* A step that leaves the control directory alone.
LEMMA ControlAlone ==
    ASSUME Files, SameControl, UNCHANGED stored
    PROVE  Files'
    BY DEF Files, SameControl, GoodDir, GoodFile, Compacted, Home

\* A step that leaves the tenant's alone: what is durable stays so.
LEMMA DurableStays ==
    ASSUME SameTenant, UNCHANGED stored, Durable
    PROVE  Durable'
    BY DEF SameTenant, Durable, RowsOfTenant

\* A step of a start that has the rows for good, or is not so far and leaves
\* both directories alone.
LEMMA KeptStays ==
    ASSUME Kept, SameTenant, UNCHANGED <<stored, dirLosses>>,
           \/ dirLosses = 0 => Durable
           \/ SameControl /\ (splitStep' \in AfterSync => splitStep \in AfterSync)
    PROVE  Kept'
    BY DurableStays DEF Kept, AllBefore, SameControl, AfterSync

\* The rows are in the tenant's directory once the control file is split, or
\* missing from its place.
LEMMA DurableNow ==
    ASSUME SplitTypeOK, Kept, dirLosses = 0,
           ~HasControl("live") \/ Live.split \/ splitStep \in AfterSync
    PROVE  Durable
    BY AtHand DEF Kept, AllBefore, HasControl, Live

\* The steps that only decide: both directories stay.
LEMMA DecisionInv ==
    ASSUME SplitTypeOK, SplitInv,
           \/ \E caller \in Callers : StartSplit(caller)
           \/ OpenLegacy \/ CheckComplete \/ NothingInterrupted \/ ReadSplitState \/ RefuseMissingTenant
           \/ ServeSplit \/ KillSplit
    PROVE  SplitInv'
    <1>1. SameControl /\ SameTenant /\ UNCHANGED <<stored, dirLosses>>
      BY DEF StartSplit, OpenLegacy, CheckComplete, NothingInterrupted, ReadSplitState, RefuseMissingTenant,
         ServeSplit, KillSplit, SameCounts
    <1>2. Files' /\ Finals'
      BY <1>1, ControlAlone DEF SplitInv, Finals, SameControl, SameTenant, Home
    <1>3. CASE \E caller \in Callers : StartSplit(caller)
      <2>1. splitStep' \in {"first", "swap"}
        BY <1>3 DEF StartSplit, SplitGoto
      <2>2. Kept'
        BY <1>1, <2>1, KeptStays DEF SplitInv, AfterSync
      <2> QED
        BY <1>2, <2>1, <2>2
        DEF SplitInv, StepsControl, StepsTenant, Opening, Copying, Aside, Published
    <1>4. CASE OpenLegacy
      <2>1. splitStep = "migrated" /\ splitStep' = "check"
        BY <1>4 DEF OpenLegacy, SplitGoto
      <2>2. Kept'
        BY <1>1, <2>1, KeptStays DEF SplitInv, AfterSync
      <2>3. HasControl("live")
        BY <2>1 DEF SplitInv, StepsControl, Opening
      <2> QED
        BY <1>1, <1>2, <2>1, <2>2, <2>3
        DEF SplitInv, StepsControl, StepsTenant, Opening, Copying, Aside, Published, SameControl,
            HasControl
    <1>5. CASE CheckComplete
      <2>1. \/ splitStep' = "serve" /\ Live.split /\ Live.compacted
            \/ splitStep' = "swap"
        BY <1>5 DEF CheckComplete, SplitGoto
      <2>2. Kept'
        BY <1>1, <2>1, KeptStays, DurableNow DEF SplitInv, AfterSync
      <2>3. HasControl("live")
        BY <1>5 DEF SplitInv, StepsControl, Opening, CheckComplete, SplitGoto
      <2> QED
        BY <1>1, <1>2, <2>1, <2>2, <2>3
        DEF SplitInv, StepsControl, StepsTenant, Opening, Copying, Aside, Published, SameControl,
            Live, HasControl
    <1>6. CASE NothingInterrupted
      <2>1. splitStep' = "read" /\ HasControl("live")
        BY <1>6 DEF NothingInterrupted, SplitGoto
      <2>2. Kept'
        BY <1>1, <2>1, KeptStays DEF SplitInv, AfterSync
      <2> QED
        BY <1>1, <1>2, <2>1, <2>2
        DEF SplitInv, StepsControl, StepsTenant, Opening, Copying, Aside, Published, SameControl,
            HasControl
    <1>7. CASE ReadSplitState
      <2>1. HasControl("live")
        BY <1>7 DEF SplitInv, StepsControl, Opening, ReadSplitState, SplitGoto
      <2>2. Live.compacted => Live.split
        BY <2>1, AtHand DEF SplitInv, Files, GoodDir, Compacted, HasControl, Live
      <2>3. \/ splitStep' = "prepare" /\ ~Live.split
            \/ splitStep' = "reopen" /\ Live.split /\ Live.compacted
            \/ splitStep' = "rewrite" /\ Live.split /\ ~Live.compacted
        BY <1>7 DEF ReadSplitState, SplitGoto
      <2>4. Kept'
        BY <1>1, <2>3, KeptStays, DurableNow DEF SplitInv, AfterSync
      <2> QED
        BY <1>1, <1>2, <2>1, <2>2, <2>3, <2>4
        DEF SplitInv, StepsControl, StepsTenant, Opening, Copying, Aside, Published, SameControl,
            Live, HasControl
    <1>8. CASE RefuseMissingTenant \/ KillSplit
      <2>1. splitStep' = "down"
        BY <1>8 DEF RefuseMissingTenant, KillSplit, SplitGoto
      <2>2. Kept'
        BY <1>1, <2>1, KeptStays DEF SplitInv, AfterSync
      <2> QED
        BY <1>2, <2>1, <2>2
        DEF SplitInv, StepsControl, StepsTenant, Opening, Copying, Aside, Published
    <1>9. CASE ServeSplit
      <2>1. splitStep = "serve" /\ splitStep' = "up" /\ HasTenant("final")
        BY <1>9 DEF ServeSplit, SplitGoto
      <2>2. Kept'
        BY <1>1, <2>1, KeptStays DEF SplitInv, AfterSync
      <2>3. HasControl("live") /\ Live.split /\ Live.compacted
        BY <2>1 DEF SplitInv, StepsControl, Opening
      <2> QED
        BY <1>1, <1>2, <2>1, <2>2, <2>3
        DEF SplitInv, StepsControl, StepsTenant, Opening, Copying, Aside, Published, SameControl,
            SameTenant, Live, HasControl, HasTenant
    <1> QED
      BY <1>3, <1>4, <1>5, <1>6, <1>7, <1>8, <1>9

\* The steps that open or recover the control file.
LEMMA ControlValues ==
    ASSUME NEW from \in ControlNames, NEW to \in ControlNames
    PROVE  /\ ControlMoved(from, to)[to] = control[from]
           /\ from # to => ControlMoved(from, to)[from] = NoDatabase
           /\ \A n \in ControlNames \ {from, to} : ControlMoved(from, to)[n] = control[n]
    BY DEF ControlMoved

LEMMA OpenFirstInv == SplitTypeOK /\ SplitInv /\ OpenFirst => SplitTypeOK' /\ SplitInv'
    <1> SUFFICES ASSUME SplitTypeOK, SplitInv, OpenFirst PROVE SplitTypeOK' /\ SplitInv'
      OBVIOUS
    <1>0. splitStep = "first" /\ splitStep' = "migrated" /\ SameCounts
      BY DEF OpenFirst, SplitGoto
    <1>1. CASE HasControl("live")
      <2>1. SameControl /\ SameTenant
        BY <1>1 DEF OpenFirst
      <2>2. SplitTypeOK'
        BY <1>0, <2>1, SplitTypesMean, Zenon DEF SplitTypeOK, SameControl, SameTenant, SameCounts
      <2>3. Files' /\ Finals'
        BY <1>0, <2>1, ControlAlone
        DEF SplitInv, Finals, SameControl, SameTenant, Home, SameCounts
      <2>4. Kept'
        BY <1>0, <2>1, KeptStays DEF SplitInv, AfterSync, SameCounts
      <2> QED
        BY <1>0, <1>1, <2>1, <2>2, <2>3, <2>4
        DEF SplitInv, StepsControl, StepsTenant, Opening, Copying, Aside, Published, SameControl,
            HasControl
    <1>2. CASE ~HasControl("live")
      <2> DEFINE dir == ControlWith("live", EmptyControl)
      <2>1. ControlSynced(dir) /\ tenant' = Orphaned(tenant)
            /\ tenantLeft' = {Orphaned(t) : t \in tenantLeft}
        BY <1>2 DEF OpenFirst
      <2>2. dir \in ControlDirs
        BY NewControlFiles, ControlDirTypes, AtHand
      <2>3. /\ dir["live"] = EmptyControl /\ dir["backup"] = control["backup"]
            /\ dir["work"] = control["work"]
        BY ControlNamed DEF ControlWith
      <2>4. EmptyControl # NoDatabase /\ ~EmptyControl.home /\ EmptyControl.rows = {}
            /\ ~EmptyControl.split /\ ~EmptyControl.compacted
        BY NewControlFiles, FilesAreNone DEF EmptyControl
      <2> HIDE DEF dir
      <2>5. control' = dir /\ controlLeft' = {dir}
        BY <2>1 DEF ControlSynced
      <2>6. SplitTypeOK'
        <3>1. tenantLeft' \subseteq TenantDirs /\ \A t \in tenantLeft' : t["stray"] # NoDatabase
          BY <2>1, OrphanedDir, SplitTypesMean
        <3>2. tenant' \in tenantLeft'
          BY <2>1, AtHand
        <3>3. SplitTypeOK
          OBVIOUS
        <3>4. controlLeft' \subseteq ControlDirs /\ control' \in controlLeft'
          BY <2>2, <2>5
        <3> QED
          BY <1>0, <3>1, <3>2, <3>3, <3>4 DEF SplitTypeOK, SameCounts, ControlDirs, TenantDirs
      <2>7. GoodDir(dir)
        BY <2>3, <2>4, AtHand DEF SplitInv, Files, GoodDir, GoodFile, Compacted
      <2>8. ~Home(dir)
        BY <2>3, <2>4 DEF Home
      <2>9. Files' /\ Finals'
        BY <1>0, <2>5, <2>7, <2>8
        DEF Files, Finals, GoodDir, GoodFile, Compacted, Home, SameCounts
      <2>10. Kept'
        <3>1. dirLosses = 0 => Durable
          BY <1>2, DurableNow DEF SplitInv
        <3>2. Durable => Durable'
          BY <1>0, <2>1, OrphanedDir, SplitTypesMean DEF Durable, SameCounts, RowsOfTenant
        <3> QED
          BY <1>0, <3>1, <3>2 DEF Kept, SameCounts
      <2> QED
        BY <1>0, <2>3, <2>4, <2>5, <2>6, <2>9, <2>10
        DEF SplitInv, StepsControl, StepsTenant, Opening, Copying, Aside, Published, HasControl
    <1> QED
      BY <1>1, <1>2

\* The steps that change the control directory and no other, each with the
\* directory it leaves.
ControlSteps ==
    \/ OpenMigrated("migrated", "check") \/ OpenMigrated("reopen", "serve")
    \/ RestoreInterrupted \/ SyncInterrupted \/ RestoreForMissingTenant \/ SyncForMissing
    \/ DropStale \/ FillWork \/ MoveControlAside \/ SyncControlAside \/ PublishControl
    \/ SyncControl \/ DropControlBackup \/ MarkCompacted
    \/ \E restored \in BOOLEAN : SwapUndone(restored)

LEMMA ControlStepFrame ==
    ASSUME ControlSteps
    PROVE  /\ SameTenant /\ UNCHANGED <<stored, dirLosses>>
           /\ splitStep' \in AfterSync =>
                  splitStep \in AfterSync
    BY DEF ControlSteps, OpenMigrated, RestoreInterrupted, SyncInterrupted,
       RestoreForMissingTenant, SyncForMissing, DropStale, FillWork, MoveControlAside,
       SyncControlAside, PublishControl, SyncControl, DropControlBackup, MarkCompacted,
       SwapUndone, SameCounts, SplitGoto, AfterSync

LEMMA ControlStepTypes == SplitTypeOK /\ SplitInv /\ ControlSteps => SplitTypeOK'
    <1> SUFFICES ASSUME SplitTypeOK, SplitInv, ControlSteps PROVE SplitTypeOK'
      OBVIOUS
    <1>1. /\ \A from, to \in ControlNames : ControlMoved(from, to) \in ControlDirs
          /\ \A names : ControlWithout(names) \in ControlDirs
          /\ \A name, file : file \in ControlFile => ControlWith(name, file) \in ControlDirs
          /\ control \in ControlDirs
      BY AtHand, ControlDirTypes
    <1>2. controlLeft' \subseteq ControlDirs /\ control' \in controlLeft'
      <2>1. (\E dir \in ControlDirs : ControlChange(dir) \/ ControlSynced(dir)) \/ SameControl
        <3>1. CASE FillWork
          <4>1. HasControl("live")
            BY <3>1 DEF SplitInv, StepsControl, Opening, FillWork, SplitGoto
          <4> QED
            BY <1>1, <3>1, <4>1, AtHand, NewControlFiles DEF FillWork
        <3>2. CASE MarkCompacted
          <4>1. HasControl("live")
            BY <3>2 DEF SplitInv, StepsControl, Opening, Published, MarkCompacted, SplitGoto
          <4> QED
            BY <1>1, <3>2, <4>1, AtHand, NewControlFiles DEF MarkCompacted
        <3> QED
          BY <1>1, <3>1, <3>2, ControlNamed
          DEF ControlSteps, OpenMigrated, RestoreInterrupted, SyncInterrupted,
              RestoreForMissingTenant, SyncForMissing, DropStale, MoveControlAside,
              SyncControlAside, PublishControl, SyncControl, DropControlBackup, SwapUndone
      <2> QED
        BY <2>1, SplitTypesMean DEF ControlChange, ControlSynced, SameControl
    <1>3. tenantLeft' = tenantLeft /\ tenant' = tenant /\ stored' = stored /\ dirLosses' = dirLosses
      BY ControlStepFrame DEF SameTenant
    <1>4. undone' \in 0 .. MaxUndone
      <2>1. undone' = undone \/ (undone < MaxUndone /\ undone' = undone + 1)
        BY DEF ControlSteps, OpenMigrated, RestoreInterrupted, SyncInterrupted,
           RestoreForMissingTenant, SyncForMissing, DropStale, FillWork, MoveControlAside,
           SyncControlAside, PublishControl, SyncControl, DropControlBackup, MarkCompacted,
           SwapUndone, SameCounts
      <2> QED
        BY <2>1, SplitAssumption DEF SplitTypeOK
    <1>5. splitStep' \in {"check", "serve", "syncRestored", "read", "syncForMissing", "swap",
                          "fill", "moveAside", "syncAside", "publishControl", "syncControl",
                          "dropBackup", "mark", "reopen", "down"}
      BY DEF ControlSteps, OpenMigrated, RestoreInterrupted, SyncInterrupted,
         RestoreForMissingTenant, SyncForMissing, DropStale, FillWork, MoveControlAside,
         SyncControlAside, PublishControl, SyncControl, DropControlBackup, MarkCompacted,
         SwapUndone, SplitGoto
    <1> QED
      BY <1>2, <1>3, <1>4, <1>5 DEF SplitTypeOK, ControlDirs

\* Opening and syncing: the live file stays, a backup may go.
LEMMA OpenMigratedInv ==
    ASSUME SplitTypeOK, SplitInv,
           OpenMigrated("migrated", "check") \/ OpenMigrated("reopen", "serve")
    PROVE  SplitInv'
    <1>0. SameTenant /\ UNCHANGED <<stored, dirLosses>> /\ HasControl("live")
      BY DEF SplitInv, StepsControl, Opening, OpenMigrated, SplitGoto, SameCounts
    <1>1. \/ splitStep = "migrated" /\ splitStep' = "check"
          \/ splitStep = "reopen" /\ splitStep' = "serve"
      BY DEF OpenMigrated, SplitGoto
    <1>2. CASE SameControl
      <2>1. Files' /\ Finals'
        BY <1>0, <1>2, ControlAlone DEF SplitInv, Finals, SameControl, SameTenant, Home
      <2>2. Kept'
        BY <1>0, <1>1, <1>2, KeptStays DEF SplitInv, AfterSync
      <2> QED
        BY <1>0, <1>1, <1>2, <2>1, <2>2
        DEF SplitInv, StepsControl, StepsTenant, Opening, Copying, Aside, Published, SameControl,
            HasControl, Live
    <1>3. CASE ControlSynced(ControlWithout({"backup"}))
      <2> DEFINE dir == ControlWithout({"backup"})
      <2>1. dir \in ControlDirs
        BY AtHand, ControlDirTypes
      <2>2. dir["live"] = Live /\ dir["backup"] = NoDatabase /\ dir["work"] = control["work"]
        BY ControlNamed DEF ControlWithout, Live
      <2> HIDE DEF dir
      <2>3. ControlSynced(dir) /\ control' = dir /\ controlLeft' = {dir}
        BY <1>3 DEF ControlSynced, dir
      <2>4. GoodDir(dir) /\ (Home(dir) <=> Home(control))
        BY <1>0, <2>2, AtHand
        DEF SplitInv, Files, GoodDir, GoodFile, Compacted, Home, HasControl, Live
      <2>5. Files' /\ Finals'
        BY <1>0, <2>1, <2>3, <2>4, ControlStep DEF SplitInv
      <2>6. Kept'
        <3>1. Durable => Durable'
          BY <1>0, DurableStays
        <3>2. AllBefore => AllBefore'
          BY <1>0, <2>2, <2>3, AtHand DEF AllBefore, Live
        <3> QED
          BY <1>0, <1>1, <3>1, <3>2 DEF SplitInv, Kept, AfterSync
      <2> QED
        BY <1>0, <1>1, <2>2, <2>3, <2>5, <2>6
        DEF SplitInv, StepsControl, StepsTenant, Opening, Copying, Aside, Published, HasControl, Live
    <1> QED
      BY <1>2, <1>3 DEF OpenMigrated

LEMMA SyncInv ==
    ASSUME SplitTypeOK, SplitInv,
           SyncInterrupted \/ SyncForMissing \/ SyncControlAside \/ SyncControl
    PROVE  SplitInv'
    <1>0. SameTenant /\ UNCHANGED <<stored, dirLosses>> /\ ControlSynced(control)
      BY DEF SyncInterrupted, SyncForMissing, SyncControlAside, SyncControl, SameCounts
    <1>1. \/ splitStep = "syncRestored" /\ splitStep' = "read"
          \/ splitStep = "syncForMissing" /\ splitStep' = "swap"
          \/ splitStep = "syncAside" /\ splitStep' = "publishControl"
          \/ splitStep = "syncControl" /\ splitStep' = "dropBackup"
      BY DEF SyncInterrupted, SyncForMissing, SyncControlAside, SyncControl, SplitGoto
    <1>2. control' = control /\ controlLeft' = {control}
      BY <1>0 DEF ControlSynced
    <1>3. Files' /\ Finals'
      <2>1. GoodDir(control)
        BY AtHand DEF SplitInv, Files
      <2> QED
        BY <1>0, <2>1, AtHand, ControlStep DEF SplitInv
    <1>4. Kept'
      <2>1. Durable => Durable'
        BY <1>0, DurableStays
      <2>2. AllBefore => AllBefore'
        BY <1>0, <1>2, AtHand DEF AllBefore
      <2> QED
        BY <1>0, <1>1, <2>1, <2>2 DEF SplitInv, Kept, AfterSync
    <1> QED
      BY <1>0, <1>1, <1>2, <1>3, <1>4
      DEF SplitInv, StepsControl, StepsTenant, Opening, Copying, Aside, Published, HasControl,
          Live, Home

\* The backup goes back to its place: at a start, for a lost tenant file, and
\* when the swap fails.
LEMMA BackupBack ==
    ASSUME SplitTypeOK, Files, Finals, SameTenant, UNCHANGED stored, HasControl("backup"),
           ~HasControl("live") \/ (Live.split /\ HasControl("live")),
           ControlChange(ControlMoved("backup", "live"))
    PROVE  Files' /\ Finals' /\ HasControl("live")'
    <1> DEFINE dir == ControlMoved("backup", "live")
    <1>1. dir \in ControlDirs
      BY AtHand, ControlDirTypes, ControlNamed
    <1>2. /\ dir["live"] = control["backup"] /\ dir["backup"] = NoDatabase
          /\ dir["work"] = control["work"]
      BY DEF ControlMoved, ControlNames
    <1> HIDE DEF dir
    <1>3. ControlChange(dir)
      BY DEF dir
    <1>4. GoodDir(control)
      BY AtHand DEF Files
    <1>5. GoodDir(dir) /\ ~Compacted(dir)
      BY <1>2, <1>4 DEF GoodDir, HasControl, Compacted
    <1>6. Home(dir) <=> Home(control)
      BY <1>2, <1>4 DEF GoodDir, Home, HasControl, Live
    <1>7. ~Compacted(control)
      BY <1>4 DEF GoodDir, HasControl
    <1>8. Files' /\ Finals'
      BY <1>1, <1>3, <1>5, <1>6, <1>7, ControlStep
    <1> QED
      BY <1>2, <1>3, <1>8 DEF HasControl, ControlChange

LEMMA RestoreInv ==
    ASSUME SplitTypeOK, SplitInv, RestoreInterrupted \/ RestoreForMissingTenant
    PROVE  SplitInv'
    <1>0. /\ SameTenant /\ UNCHANGED <<stored, dirLosses>>
          /\ ControlChange(ControlMoved("backup", "live")) /\ HasControl("backup")
      BY DEF RestoreInterrupted, RestoreForMissingTenant, SameCounts
    <1>1. ~HasControl("live") \/ (Live.split /\ HasControl("live"))
      BY DEF RestoreInterrupted, RestoreForMissingTenant, SplitInv, StepsControl, Opening, SplitGoto
    <1>2. splitStep' \in {"syncRestored", "syncForMissing"}
      BY DEF RestoreInterrupted, RestoreForMissingTenant, SplitGoto
    <1>3. Files' /\ Finals' /\ HasControl("live")'
      BY <1>0, <1>1, BackupBack DEF SplitInv
    <1>4. Kept'
      BY <1>0, <1>1, DurableNow, KeptStays DEF SplitInv
    <1> QED
      BY <1>2, <1>3, <1>4
      DEF SplitInv, StepsControl, StepsTenant, Opening, Copying, Aside, Published

LEMMA UndoneInv ==
    ASSUME SplitTypeOK, SplitInv, NEW restored \in BOOLEAN, SwapUndone(restored)
    PROVE  SplitInv'
    <1>0. /\ SameTenant /\ UNCHANGED <<stored, dirLosses>>
          /\ splitStep \in Aside /\ splitStep' = "down"
      BY DEF SwapUndone, Aside
    <1>1. Files' /\ Finals'
      <2>1. CASE restored
        <3>1. ~HasControl("live") /\ HasControl("backup")
          BY <1>0 DEF SplitInv, StepsControl
        <3>2. ControlChange(ControlMoved("backup", "live"))
          BY <2>1 DEF SwapUndone
        <3> QED
          BY <1>0, <3>1, <3>2, BackupBack DEF SplitInv
      <2>2. CASE ~restored
        BY <1>0, <2>2, ControlAlone
        DEF SplitInv, SwapUndone, Finals, SameControl, SameTenant, Home
      <2> QED
        BY <2>1, <2>2
    <1>2. Kept'
      BY <1>0, DurableNow, KeptStays DEF SplitInv, AfterSync, Aside
    <1> QED
      BY <1>0, <1>1, <1>2
      DEF SplitInv, StepsControl, StepsTenant, Opening, Copying, Aside, Published

\* rewriteSplitControlDatabase: the rows are durable from its first step on.
RewriteSteps == {"rewrite", "fill", "moveAside", "publishControl", "dropBackup", "mark"}

LEMMA RewriteFrame ==
    ASSUME SplitTypeOK, SplitInv, splitStep \in RewriteSteps,
           SameTenant, UNCHANGED <<stored, dirLosses>>
    PROVE  Kept' /\ (splitStep # "publishControl" => HasControl("live") /\ ~Live.compacted)
    <1>1. Kept'
      BY DurableNow, KeptStays DEF SplitInv, RewriteSteps, AfterSync
    <1>2. splitStep # "publishControl" => HasControl("live") /\ ~Live.compacted
      BY DEF SplitInv, StepsControl, RewriteSteps, Opening, Published
    <1> QED
      BY <1>1, <1>2

LEMMA DropInv ==
    ASSUME SplitTypeOK, SplitInv, DropStale \/ DropControlBackup
    PROVE  SplitInv'
    <1>0. SameTenant /\ UNCHANGED <<stored, dirLosses>>
      BY DEF DropStale, DropControlBackup, SameCounts
    <1>1. \/ splitStep = "rewrite" /\ splitStep' = "fill"
          \/ splitStep = "dropBackup" /\ splitStep' = "mark"
      BY DEF DropStale, DropControlBackup, SplitGoto
    <1>2. Kept' /\ HasControl("live") /\ ~Live.compacted
      BY <1>0, <1>1, RewriteFrame DEF RewriteSteps
    <1>3. CASE SameControl
      <2>1. ~HasControl("backup")
        BY <1>3, ControlNamed
        DEF DropStale, DropControlBackup, SameControl, ControlChange, ControlWithout, HasControl
      <2>2. Files' /\ Finals'
        BY <1>0, <1>3, ControlAlone DEF SplitInv, Finals, SameControl, SameTenant, Home
      <2> QED
        BY <1>1, <1>2, <1>3, <2>1, <2>2
        DEF SplitInv, StepsControl, StepsTenant, Opening, Copying, Aside, Published, SameControl,
            HasControl, Live
    <1>4. ASSUME NEW names, names = {"work", "backup"} \/ names = {"backup"},
                 ControlChange(ControlWithout(names))
          PROVE  SplitInv'
      <2> DEFINE dir == ControlWithout(names)
      <2>1. dir \in ControlDirs
        BY AtHand, ControlDirTypes
      <2>2. /\ dir["live"] = Live /\ dir["backup"] = NoDatabase
            /\ dir["work"] \in {control["work"], NoDatabase}
        BY <1>4, ControlNamed DEF ControlWithout, Live
      <2> HIDE DEF dir
      <2>3. ControlChange(dir) /\ control' = dir
        BY <1>4 DEF ControlChange, dir
      <2>4. /\ GoodDir(dir) /\ (Home(dir) <=> Home(control))
            /\ ~Compacted(control) /\ ~Compacted(dir)
        BY <1>2, <2>2, AtHand
        DEF SplitInv, Files, GoodDir, GoodFile, Compacted, Home, HasControl, Live
      <2>5. Files' /\ Finals'
        BY <1>0, <2>1, <2>3, <2>4, ControlStep DEF SplitInv
      <2> QED
        BY <1>1, <1>2, <2>2, <2>3, <2>5
        DEF SplitInv, StepsControl, StepsTenant, Opening, Copying, Aside, Published, HasControl, Live
    <1> QED
      BY <1>3, <1>4 DEF DropStale, DropControlBackup

LEMMA FillInv ==
    ASSUME SplitTypeOK, SplitInv, FillWork
    PROVE  SplitInv'
    <1>0. /\ SameTenant /\ UNCHANGED <<stored, dirLosses>>
          /\ splitStep = "fill" /\ splitStep' = "moveAside"
      BY DEF FillWork, SameCounts, SplitGoto
    <1>1. Kept' /\ HasControl("live") /\ ~Live.compacted /\ ~HasControl("backup")
      BY <1>0, RewriteFrame DEF RewriteSteps, SplitInv, StepsControl
    <1> DEFINE file == [home |-> Live.home, rows |-> {}, split |-> TRUE, compacted |-> FALSE]
               dir == ControlWith("work", file)
    <1>2. /\ file \in ControlFile /\ file # NoDatabase /\ file.home = Live.home
          /\ file.rows = {} /\ file.split /\ ~file.compacted
      BY <1>1, AtHand, NewControlFiles, FilesAreNone
    <1>3. dir \in ControlDirs
      BY <1>2, AtHand, ControlDirTypes
    <1>4. dir["live"] = Live /\ dir["backup"] = control["backup"] /\ dir["work"] = file
      BY ControlNamed DEF ControlWith, Live
    <1>5. ControlChange(dir)
      BY DEF FillWork
    <1> HIDE DEF dir, file
    <1>6. control' = dir
      BY <1>5 DEF ControlChange
    <1>7. /\ GoodDir(dir) /\ (Home(dir) <=> Home(control))
          /\ ~Compacted(control) /\ ~Compacted(dir)
      BY <1>1, <1>2, <1>4, AtHand
      DEF SplitInv, Files, GoodDir, GoodFile, Compacted, Home, HasControl, Live
    <1>8. Files' /\ Finals'
      BY <1>0, <1>3, <1>5, <1>7, ControlStep DEF SplitInv
    <1>9. Home(dir) = Live.home
      BY <1>1, <1>4 DEF Home, HasControl, Live
    <1> QED
      BY <1>0, <1>1, <1>2, <1>4, <1>6, <1>8, <1>9
      DEF SplitInv, StepsControl, StepsTenant, Opening, Copying, Aside, Published, HasControl, Live

LEMMA AsideInv ==
    ASSUME SplitTypeOK, SplitInv, MoveControlAside
    PROVE  SplitInv'
    <1>0. /\ SameTenant /\ UNCHANGED <<stored, dirLosses>>
          /\ splitStep = "moveAside" /\ splitStep' = "syncAside"
      BY DEF MoveControlAside, SameCounts, SplitGoto
    <1>1. /\ Kept' /\ HasControl("live") /\ ~Live.compacted /\ HasControl("work")
          /\ (control["work"].home <=> Home(control))
      BY <1>0, RewriteFrame DEF RewriteSteps, SplitInv, StepsControl
    <1> DEFINE dir == ControlMoved("live", "backup")
    <1>2. dir \in ControlDirs
      BY AtHand, ControlDirTypes, ControlNamed
    <1>3. dir["live"] = NoDatabase /\ dir["backup"] = Live /\ dir["work"] = control["work"]
      BY DEF ControlMoved, ControlNames, Live
    <1>4. ControlChange(dir)
      BY DEF MoveControlAside
    <1> HIDE DEF dir
    <1>5. control' = dir
      BY <1>4 DEF ControlChange
    <1>6. /\ GoodDir(dir) /\ (Home(dir) <=> Home(control))
          /\ ~Compacted(control) /\ ~Compacted(dir)
      BY <1>1, <1>3, AtHand
      DEF SplitInv, Files, GoodDir, GoodFile, Compacted, Home, HasControl, Live
    <1>7. Files' /\ Finals'
      BY <1>0, <1>2, <1>4, <1>6, ControlStep DEF SplitInv
    <1>8. (Home(control)' <=> Home(dir)) /\ control'["work"] = control["work"]
      BY <1>3, <1>5 DEF Home
    <1>9. /\ control'["work"] # NoDatabase /\ (control'["work"].home <=> Home(control)')
          /\ control'["live"] = NoDatabase /\ control'["backup"] # NoDatabase
      BY <1>1, <1>3, <1>5, <1>6, <1>8 DEF HasControl, Live
    <1>10. StepsControl'
      BY <1>0, <1>9 DEF StepsControl, Opening, Copying, Aside, Published, HasControl
    <1> QED
      BY <1>0, <1>1, <1>7, <1>10 DEF SplitInv, StepsTenant

LEMMA PublishInv ==
    ASSUME SplitTypeOK, SplitInv, PublishControl
    PROVE  SplitInv'
    <1>0. /\ SameTenant /\ UNCHANGED <<stored, dirLosses>>
          /\ splitStep = "publishControl" /\ splitStep' = "syncControl"
      BY DEF PublishControl, SameCounts, SplitGoto
    <1>1. /\ Kept' /\ ~HasControl("live") /\ HasControl("work")
          /\ (control["work"].home <=> Home(control))
      BY <1>0, RewriteFrame DEF RewriteSteps, SplitInv, StepsControl, Aside
    <1> DEFINE dir == ControlMoved("work", "live")
    <1>2. dir \in ControlDirs
      BY AtHand, ControlDirTypes, ControlNamed
    <1>3. /\ dir["live"] = control["work"] /\ dir["backup"] = control["backup"]
          /\ dir["work"] = NoDatabase
      BY DEF ControlMoved, ControlNames
    <1>4. ControlChange(dir)
      BY DEF PublishControl
    <1> HIDE DEF dir
    <1>5. control' = dir
      BY <1>4 DEF ControlChange
    <1>6. GoodDir(control)
      BY AtHand DEF SplitInv, Files
    <1>7. (Home(dir) <=> Home(control)) /\ ~Compacted(control) /\ ~Compacted(dir)
      BY <1>1, <1>3, <1>6 DEF GoodDir, Compacted, Home, HasControl
    <1>8. GoodDir(dir)
      BY <1>1, <1>3, <1>6, <1>7 DEF GoodDir, Home, HasControl
    <1>9. Files' /\ Finals'
      BY <1>0, <1>2, <1>4, <1>7, <1>8, ControlStep DEF SplitInv
    <1> QED
      BY <1>0, <1>1, <1>3, <1>5, <1>6, <1>9
      DEF SplitInv, StepsControl, StepsTenant, Opening, Copying, Aside, Published, HasControl,
          Live, GoodDir

LEMMA MarkInv ==
    ASSUME SplitTypeOK, SplitInv, MarkCompacted
    PROVE  SplitInv'
    <1>0. /\ SameTenant /\ UNCHANGED <<stored, dirLosses>>
          /\ splitStep = "mark" /\ splitStep' = "reopen"
      BY DEF MarkCompacted, SameCounts, SplitGoto
    <1>1. Kept' /\ HasControl("live") /\ ~HasControl("backup") /\ Live.split
      BY <1>0, RewriteFrame DEF RewriteSteps, SplitInv, StepsControl, Published
    <1> DEFINE file == [home |-> Live.home, rows |-> {}, split |-> Live.split, compacted |-> TRUE]
               dir == ControlWith("live", file)
    <1>2. /\ file \in ControlFile /\ file # NoDatabase /\ file.home = Live.home
          /\ file.rows = {} /\ file.split /\ file.compacted
      BY <1>1, AtHand, NewControlFiles, FilesAreNone
    <1>3. dir \in ControlDirs
      BY <1>2, AtHand, ControlDirTypes
    <1>4. /\ dir["live"] = file /\ dir["backup"] = control["backup"]
          /\ dir["work"] = control["work"]
      BY ControlNamed DEF ControlWith
    <1>5. ControlSynced(dir)
      BY DEF MarkCompacted
    <1> HIDE DEF dir, file
    <1>6. control' = dir
      BY <1>5 DEF ControlSynced
    <1>7. GoodDir(dir) /\ (Home(dir) <=> Home(control))
      BY <1>1, <1>2, <1>4, AtHand
      DEF SplitInv, Files, GoodDir, GoodFile, Compacted, Home, HasControl, Live
    <1>8. Files' /\ Finals'
      BY <1>0, <1>3, <1>5, <1>7, ControlStep DEF SplitInv
    <1> QED
      BY <1>0, <1>1, <1>2, <1>4, <1>6, <1>8
      DEF SplitInv, StepsControl, StepsTenant, Opening, Copying, Aside, Published, HasControl, Live

\* The steps that change the tenant's directory, all but the loss of it.
TenantSteps == SetStrayAside \/ SyncStray \/ NothingSetAside \/ CopyTenantRows \/ PublishTenant \/ SyncTenant

\* A tenant directory that is as good as the one before, for types, rows and
\* the final file.
GoodTenant(dir) ==
    /\ dir \in TenantDirs /\ dir["stray"] # NoDatabase
    /\ RowsOfTenant(tenant) \subseteq RowsOfTenant(dir)
    /\ Home(control) => dir["final"] \in {NoDatabase, 1 .. stored}

LEMMA TenantStep ==
    ASSUME SplitTypeOK, SplitInv, SameControl, SameCounts,
           NEW dir, GoodTenant(dir), TenantChange(dir) \/ TenantSynced(dir)
    PROVE  /\ tenantLeft' \subseteq TenantDirs /\ tenant' \in tenantLeft'
           /\ \A t \in tenantLeft' : t["stray"] # NoDatabase
           /\ Files' /\ Finals'
           /\ (dirLosses = 0 /\ Durable => Durable') /\ (AllBefore => AllBefore')
    <1>1. /\ tenantLeft' \subseteq TenantDirs /\ tenant' \in tenantLeft'
          /\ \A t \in tenantLeft' : t["stray"] # NoDatabase
      BY SplitTypesMean DEF TenantChange, TenantSynced, GoodTenant
    <1>2. Files'
      BY ControlAlone DEF SplitInv, SameCounts
    <1>3. Finals'
      BY DEF SplitInv, Finals, SameControl, SameCounts, Home, TenantChange, TenantSynced, GoodTenant
    <1>4. Durable => Durable'
      <2>1. \A t \in tenantLeft' : t \in tenantLeft \/ t = dir
        BY DEF TenantChange, TenantSynced
      <2>2. Durable => 1 .. stored \subseteq RowsOfTenant(dir)
        BY AtHand DEF Durable, GoodTenant
      <2>3. Durable => \A t \in tenantLeft' : 1 .. stored \subseteq RowsOfTenant(t)
        BY <2>1, <2>2 DEF Durable
      <2> QED
        BY <2>3 DEF Durable, SameCounts, RowsOfTenant
    <1>5. AllBefore => AllBefore'
      BY DEF AllBefore, SameControl, SameCounts
    <1> QED
      BY <1>1, <1>2, <1>3, <1>4, <1>5

LEMMA TenantStepsInv ==
    ASSUME SplitTypeOK, SplitInv, TenantSteps
    PROVE  SplitTypeOK' /\ SplitInv'
    <1>0. SameControl /\ SameCounts
      BY DEF TenantSteps, SetStrayAside, SyncStray, NothingSetAside, CopyTenantRows,
         PublishTenant, SyncTenant
    <1>1. /\ splitStep \in Copying
          /\ splitStep' \in {"syncStray", "copyRows", "publishTenant", "syncTenant", "rewrite"}
          /\ splitStep' = "rewrite" => splitStep = "syncTenant"
      BY DEF TenantSteps, SetStrayAside, SyncStray, NothingSetAside, CopyTenantRows,
         PublishTenant, SyncTenant, SplitGoto, Copying
    <1>2. HasControl("live") /\ ~Live.split /\ ~Live.compacted /\ Live.rows \in TenantRows
      BY <1>1, AtHand DEF SplitInv, StepsControl, Opening
    <1>3. Home(control) => Live.rows = 1 .. stored
      BY <1>2, AtHand DEF SplitInv, Files, GoodDir, GoodFile, Home, HasControl, Live
    <1>4. /\ tenant["stray"] \in TenantRows
          /\ tenant["final"] \in TenantRows \cup {NoDatabase}
          /\ tenant["work"] \in TenantRows \cup {NoDatabase}
          /\ tenant["final"] = NoDatabase => RowsOfTenant(tenant) = tenant["stray"]
          /\ tenant["final"] # NoDatabase => RowsOfTenant(tenant) = tenant["stray"] \cup tenant["final"]
      BY AtHand, TenantDirRows
    <1>5. Home(control) => tenant["final"] \in {NoDatabase, 1 .. stored}
      BY AtHand DEF SplitInv, Finals
    <1>6. StepsControl'
      BY <1>0, <1>1, <1>2
      DEF StepsControl, Opening, Copying, Aside, Published, SameControl, HasControl, Live
    <1>7. SUFFICES ASSUME NEW dir, GoodTenant(dir),
                          TenantChange(dir) \/ TenantSynced(dir) \/ (SameTenant /\ dir = tenant),
                          StepsTenant', splitStep = "syncTenant" => TenantSynced(dir)
                   PROVE  SplitTypeOK' /\ SplitInv'
      <2>1. CASE SetStrayAside
        <3> DEFINE dir == TenantDir(NoDatabase, NoDatabase, tenant["stray"] \cup tenant["final"])
        <3>1. tenant["final"] # NoDatabase /\ tenant["stray"] \cup tenant["final"] \in TenantRows
          BY <1>4, <2>1, RowsUnite DEF SetStrayAside, HasTenant
        <3>2. GoodTenant(dir) /\ dir["final"] = NoDatabase
          <4> DEFINE kept == tenant["stray"] \cup tenant["final"]
          <4> HIDE DEF kept
          <4>0. dir = TenantDir(NoDatabase, NoDatabase, kept) /\ kept \in TenantRows
            BY <3>1 DEF kept
          <4> HIDE DEF dir
          <4>1. /\ dir \in TenantDirs /\ dir["final"] = NoDatabase /\ dir["stray"] # NoDatabase
                /\ RowsOfTenant(dir) = kept
            BY <4>0, TenantDirTypes
          <4> QED
            BY <1>4, <3>1, <4>1 DEF GoodTenant, kept
        <3>3. TenantChange(dir) /\ splitStep' = "syncStray" /\ splitStep = "prepare"
          BY <2>1 DEF SetStrayAside, SplitGoto
        <3> HIDE DEF dir
        <3>4. StepsTenant'
          BY <3>2, <3>3 DEF StepsTenant, HasTenant, TenantChange
        <3> QED
          BY <1>7, <3>2, <3>3, <3>4
      <2>2. CASE SyncStray
        <3>1. TenantSynced(tenant) /\ splitStep = "syncStray" /\ splitStep' = "copyRows"
          BY <2>2 DEF SyncStray, SplitGoto
        <3>2. GoodTenant(tenant)
          BY <1>5, AtHand DEF GoodTenant
        <3>3. StepsTenant'
          BY <3>1 DEF SplitInv, StepsTenant, HasTenant, TenantSynced
        <3> QED
          BY <1>7, <3>1, <3>2, <3>3
      <2>3. CASE NothingSetAside
        <3>1. splitStep = "prepare" /\ splitStep' = "copyRows" /\ tenant["final"] = NoDatabase
          BY <2>3 DEF NothingSetAside, SplitGoto, HasTenant
        <3>2. CASE SameTenant
          <4>1. GoodTenant(tenant)
            BY <1>5, AtHand DEF GoodTenant
          <4>2. StepsTenant'
            BY <3>1, <3>2 DEF StepsTenant, HasTenant, SameTenant
          <4> QED
            BY <1>7, <3>1, <3>2, <4>1, <4>2
        <3>3. CASE TenantChange(TenantDir(NoDatabase, NoDatabase, tenant["stray"]))
          <4> DEFINE dir == TenantDir(NoDatabase, NoDatabase, tenant["stray"])
          <4>1. GoodTenant(dir) /\ dir["final"] = NoDatabase
            <5>1. /\ dir \in TenantDirs /\ dir["final"] = NoDatabase /\ dir["stray"] # NoDatabase
                  /\ RowsOfTenant(dir) = tenant["stray"]
              BY <1>4, TenantDirTypes
            <5> HIDE DEF dir
            <5> QED
              BY <1>4, <3>1, <5>1 DEF GoodTenant
          <4>2. TenantChange(dir)
            BY <3>3
          <4> HIDE DEF dir
          <4>3. StepsTenant'
            BY <3>1, <4>1, <4>2 DEF StepsTenant, HasTenant, TenantChange
          <4> QED
            BY <1>7, <3>1, <4>1, <4>2, <4>3
        <3> QED
          BY <2>3, <3>2, <3>3 DEF NothingSetAside
      <2>4. CASE CopyTenantRows
        <3> DEFINE dir == TenantDir(tenant["final"], Live.rows, tenant["stray"])
        <3>1. splitStep = "copyRows" /\ splitStep' = "publishTenant" /\ TenantChange(dir)
          BY <2>4 DEF CopyTenantRows, SplitGoto
        <3>2. tenant["final"] = NoDatabase
          BY <3>1 DEF SplitInv, StepsTenant, HasTenant
        <3>3. GoodTenant(dir) /\ dir["final"] = NoDatabase /\ dir["work"] = Live.rows
          <4> DEFINE rows == Live.rows
                     kept == tenant["stray"]
          <4>0. dir = TenantDir(NoDatabase, rows, kept) /\ rows \in TenantRows /\ kept \in TenantRows
            BY <1>2, <1>4, <3>2
          <4> HIDE DEF dir, rows, kept
          <4>1. /\ dir \in TenantDirs /\ dir["final"] = NoDatabase /\ dir["stray"] # NoDatabase
                /\ dir["work"] = Live.rows /\ RowsOfTenant(dir) = tenant["stray"]
            BY <4>0, TenantDirTypes DEF rows, kept
          <4> QED
            BY <1>4, <3>2, <4>1 DEF GoodTenant
        <3> HIDE DEF dir
        <3>4. StepsTenant'
          BY <1>0, <3>1, <3>3 DEF StepsTenant, HasTenant, TenantChange, SameControl, Live
        <3> QED
          BY <1>7, <3>1, <3>3, <3>4
      <2>5. CASE PublishTenant
        <3> DEFINE dir == TenantDir(tenant["work"], NoDatabase, tenant["stray"])
        <3>1. splitStep = "publishTenant" /\ splitStep' = "syncTenant" /\ TenantChange(dir)
          BY <2>5 DEF PublishTenant, SplitGoto
        <3>2. tenant["final"] = NoDatabase /\ tenant["work"] = Live.rows
          BY <3>1 DEF SplitInv, StepsTenant, HasTenant
        <3>3. GoodTenant(dir) /\ dir["final"] = Live.rows
          BY <1>2, <1>3, <1>4, <3>2, TenantDirTypes, FilesAreNone DEF GoodTenant
        <3> HIDE DEF dir
        <3>4. StepsTenant'
          BY <1>0, <3>1, <3>3 DEF StepsTenant, HasTenant, TenantChange, SameControl, Live
        <3> QED
          BY <1>7, <3>1, <3>3, <3>4
      <2>6. CASE SyncTenant
        <3>1. TenantSynced(tenant) /\ splitStep = "syncTenant" /\ splitStep' = "rewrite"
          BY <2>6 DEF SyncTenant, SplitGoto
        <3>2. GoodTenant(tenant)
          BY <1>5, AtHand DEF GoodTenant
        <3>3. StepsTenant'
          BY <3>1 DEF StepsTenant
        <3> QED
          BY <1>7, <3>1, <3>2, <3>3
      <2> QED
        BY <2>1, <2>2, <2>3, <2>4, <2>5, <2>6 DEF TenantSteps
    <1>8. /\ tenantLeft' \subseteq TenantDirs /\ tenant' \in tenantLeft'
          /\ \A t \in tenantLeft' : t["stray"] # NoDatabase
          /\ Files' /\ Finals'
          /\ (dirLosses = 0 /\ Durable => Durable') /\ (AllBefore => AllBefore')
      <2>1. CASE TenantChange(dir) \/ TenantSynced(dir)
        BY <1>0, <1>7, <2>1, TenantStep
      <2>2. CASE SameTenant
        <3>1. Files' /\ Finals'
          BY <1>0, <2>2, ControlAlone
          DEF SplitInv, Finals, SameControl, SameTenant, SameCounts, Home
        <3>2. (Durable => Durable') /\ (AllBefore => AllBefore')
          BY <1>0, <2>2, DurableStays DEF AllBefore, SameControl, SameCounts
        <3> QED
          BY <2>2, <3>1, <3>2, SplitTypesMean DEF SameTenant
      <2> QED
        BY <1>7, <2>1, <2>2
    <1>9. SplitTypeOK'
      BY <1>0, <1>1, <1>8 DEF SplitTypeOK, SameControl, SameCounts, TenantDirs
    <1>10. Kept'
      <2>1. dirLosses = 0 /\ AllBefore /\ splitStep' = "rewrite" => Durable'
        <3>1. splitStep' = "rewrite" => tenant["final"] = Live.rows /\ TenantSynced(dir)
          BY <1>1, <1>7 DEF SplitInv, StepsTenant
        <3>2. AllBefore => Live.rows = 1 .. stored
          BY AtHand DEF AllBefore, Live
        <3>3. splitStep' = "rewrite" /\ AllBefore => 1 .. stored \subseteq RowsOfTenant(tenant)
          BY <1>2, <1>4, <3>1, <3>2, FilesAreNone
        <3>4. RowsOfTenant(tenant) \subseteq RowsOfTenant(dir)
          BY <1>7 DEF GoodTenant
        <3>5. splitStep' = "rewrite" => tenantLeft' = {dir}
          BY <3>1 DEF TenantSynced
        <3> QED
          BY <1>0, <3>3, <3>4, <3>5 DEF Durable, SameCounts, RowsOfTenant
      <2> QED
        BY <1>0, <1>1, <1>8, <2>1 DEF SplitInv, Kept, AfterSync, SameCounts
    <1> QED
      BY <1>6, <1>7, <1>8, <1>9, <1>10 DEF SplitInv

\* A row is stored: the two control files that could be a home for it are
\* gone, and the tenant's file has all rows so far.
LEMMA StoreRowInv == SplitTypeOK /\ SplitInv /\ StoreRow => SplitTypeOK' /\ SplitInv'
    <1> SUFFICES ASSUME SplitTypeOK, SplitInv, StoreRow PROVE SplitTypeOK' /\ SplitInv'
      OBVIOUS
    <1>0. /\ splitStep = "up" /\ splitStep' = "up" /\ SameControl
          /\ stored < MaxRows /\ stored' = stored + 1 /\ UNCHANGED <<undone, dirLosses>>
      BY DEF StoreRow
    <1>1. HasControl("live") /\ Live.split /\ Live.compacted /\ HasTenant("final")
      BY <1>0 DEF SplitInv, StepsControl, StepsTenant, Opening
    <1>2. /\ tenant["stray"] \in TenantRows /\ tenant["final"] \in TenantRows
          /\ tenant["work"] \in TenantRows \cup {NoDatabase}
          /\ RowsOfTenant(tenant) = tenant["stray"] \cup tenant["final"]
      BY <1>1, AtHand, TenantDirRows DEF HasTenant
    <1>3. stored \in Nat /\ 1 .. stored + 1 = (1 .. stored) \cup {stored + 1} /\ stored + 1 \in 1 .. MaxRows
      BY <1>0, SplitAssumption DEF SplitTypeOK
    <1> DEFINE final == tenant["final"] \cup {stored + 1}
               dir == TenantDir(final, tenant["work"], tenant["stray"])
    <1>4. final \in TenantRows
      BY <1>2, <1>3 DEF TenantRows
    <1>5. final # NoDatabase
      BY <1>4, FilesAreNone
    <1>6. TenantSynced(dir)
      BY DEF StoreRow
    <1> HIDE DEF final
    <1>7. /\ dir \in TenantDirs /\ dir["final"] = final /\ dir["stray"] # NoDatabase
          /\ RowsOfTenant(dir) = tenant["stray"] \cup final
      <2> DEFINE work == tenant["work"]
                 kept == tenant["stray"]
      <2>1. /\ dir = TenantDir(final, work, kept) /\ kept \in TenantRows
            /\ work \in TenantRows \cup {NoDatabase}
        BY <1>2
      <2> HIDE DEF dir, work, kept
      <2> QED
        BY <1>4, <1>5, <2>1, TenantDirTypes DEF kept
    <1> HIDE DEF dir
    <1>8. tenant' = dir /\ tenantLeft' = {dir}
      BY <1>6 DEF TenantSynced
    <1>9. SplitTypeOK'
      BY <1>0, <1>3, <1>7, <1>8, SplitAssumption DEF SplitTypeOK, SameControl, TenantDirs
    <1>10. controlLeft = {control} /\ control["backup"] = NoDatabase
           /\ GoodDir(control)
      BY <1>1, AtHand DEF SplitInv, Files, Compacted, HasControl, Live, GoodDir
    <1>11. GoodDir(control)'
      BY <1>0, <1>1, <1>10
      DEF GoodDir, GoodFile, Compacted, SameControl, HasControl, Live
    <1>12. Files'
      BY <1>0, <1>10, <1>11 DEF Files, SameControl
    <1>13. Home(control)' <=> Home(control)
      BY <1>0 DEF Home, SameControl
    <1>14. Home(control) => tenant["final"] = 1 .. stored
      BY <1>1, AtHand DEF SplitInv, Finals, HasTenant
    <1>15. Finals'
      BY <1>0, <1>3, <1>7, <1>8, <1>13, <1>14 DEF Finals, final
    <1>16. Kept'
      <2>1. dirLosses = 0 => 1 .. stored \subseteq RowsOfTenant(tenant)
        BY <1>0, AtHand, DurableNow DEF SplitInv, AfterSync, Durable
      <2>2. dirLosses = 0 => 1 .. stored + 1 \subseteq RowsOfTenant(dir)
        BY <1>2, <1>3, <1>7, <2>1 DEF final
      <2>3. dirLosses = 0 => Durable'
        BY <1>0, <1>8, <2>2 DEF Durable, RowsOfTenant
      <2> QED
        BY <1>0, <2>3 DEF Kept
    <1> QED
      BY <1>0, <1>1, <1>5, <1>7, <1>8, <1>9, <1>12, <1>15, <1>16
      DEF SplitInv, StepsControl, StepsTenant, Opening, Copying, Aside, Published, SameControl,
          HasControl, HasTenant, Live

\* The power fails, and the tenant's directory is lost: no step is under way.
LEMMA FailuresInv == SplitTypeOK /\ SplitInv /\ (SplitPowerFails \/ LoseTenantDir \/ PowerTakesTenantDir)
                     => SplitTypeOK' /\ SplitInv'
    <1> SUFFICES ASSUME SplitTypeOK, SplitInv,
                        SplitPowerFails \/ LoseTenantDir \/ PowerTakesTenantDir
                 PROVE  SplitTypeOK' /\ SplitInv'
      OBVIOUS
    <1>0. splitStep' = "down"
      BY DEF SplitPowerFails, LoseTenantDir, PowerTakesTenantDir
    <1>1. StepsControl' /\ StepsTenant'
      BY <1>0 DEF StepsControl, StepsTenant, Opening, Copying, Aside, Published
    <1>2. CASE SplitPowerFails
      <2>1. /\ control' \in controlLeft /\ controlLeft' = {control'}
            /\ tenant' \in tenantLeft /\ tenantLeft' = {tenant'}
            /\ SameCounts
        BY <1>2 DEF SplitPowerFails
      <2>2. SplitTypeOK'
        BY <1>0, <2>1 DEF SplitTypeOK, SameCounts
      <2>3. GoodDir(control') /\ (Home(control') <=> Home(control))
        BY <2>1 DEF SplitInv, Files
      <2>4. Files'
        BY <2>1, <2>3 DEF Files, GoodDir, GoodFile, Compacted, Home, SameCounts
      <2>5. Finals'
        BY <2>1, <2>3 DEF SplitInv, Finals, Home, SameCounts
      <2>6. Durable => Durable'
        BY <2>1 DEF Durable, SameCounts, RowsOfTenant
      <2>7. AllBefore => AllBefore'
        BY <2>1 DEF AllBefore, SameCounts
      <2> QED
        BY <1>0, <1>1, <2>1, <2>2, <2>4, <2>5, <2>6, <2>7
        DEF SplitInv, Kept, AfterSync, SameCounts
    <1>3. CASE LoseTenantDir
      <2>1. /\ SameControl /\ UNCHANGED <<stored, undone>>
            /\ dirLosses < MaxDirLosses /\ dirLosses' = dirLosses + 1
            /\ tenant' = NoTenantFiles /\ tenantLeft' = {NoTenantFiles}
        BY <1>3 DEF LoseTenantDir, TenantSynced
      <2>2. {} \in TenantRows
        BY DEF TenantRows
      <2>3. /\ NoTenantFiles \in TenantDirs /\ NoTenantFiles["stray"] # NoDatabase
            /\ NoTenantFiles["final"] = NoDatabase
        BY <2>2, TenantDirTypes DEF NoTenantFiles
      <2>4. SplitTypeOK' /\ dirLosses' # 0
        BY <1>0, <2>1, <2>3, SplitAssumption DEF SplitTypeOK, SameControl, TenantDirs
      <2>5. Files'
        BY <2>1, ControlAlone DEF SplitInv
      <2>6. Finals'
        BY <2>1, <2>3 DEF Finals
      <2> QED
        BY <1>1, <2>4, <2>5, <2>6 DEF SplitInv, Kept
    <1>4. CASE PowerTakesTenantDir
      <2>1. /\ control' \in controlLeft /\ controlLeft' = {control'}
            /\ UNCHANGED <<stored, undone>>
            /\ dirLosses < MaxDirLosses /\ dirLosses' = dirLosses + 1
            /\ tenant' = NoTenantFiles /\ tenantLeft' = {NoTenantFiles}
        BY <1>4 DEF PowerTakesTenantDir, TenantSynced
      <2>2. {} \in TenantRows
        BY DEF TenantRows
      <2>3. /\ NoTenantFiles \in TenantDirs /\ NoTenantFiles["stray"] # NoDatabase
            /\ NoTenantFiles["final"] = NoDatabase
        BY <2>2, TenantDirTypes DEF NoTenantFiles
      <2>4. SplitTypeOK' /\ dirLosses' # 0
        BY <1>0, <2>1, <2>3, SplitAssumption DEF SplitTypeOK, TenantDirs
      <2>5. GoodDir(control') /\ (Home(control') <=> Home(control))
        BY <2>1 DEF SplitInv, Files
      <2>6. Files'
        BY <2>1, <2>5 DEF Files, GoodDir, GoodFile, Compacted, Home
      <2>7. Finals'
        BY <2>1, <2>3 DEF Finals
      <2> QED
        BY <1>1, <2>4, <2>6, <2>7 DEF SplitInv, Kept
    <1> QED
      BY <1>2, <1>3, <1>4

LEMMA DecisionTypes ==
    ASSUME SplitTypeOK,
           \/ \E caller \in Callers : StartSplit(caller)
           \/ OpenLegacy \/ CheckComplete \/ NothingInterrupted \/ ReadSplitState \/ RefuseMissingTenant
           \/ ServeSplit \/ KillSplit
    PROVE  SplitTypeOK'
    <1>1. SameControl /\ SameTenant /\ SameCounts
      BY DEF StartSplit, OpenLegacy, CheckComplete, NothingInterrupted, ReadSplitState, RefuseMissingTenant,
         ServeSplit, KillSplit
    <1>2. splitStep' \in {"first", "swap", "serve", "read", "prepare", "reopen", "rewrite", "down",
                          "up", "check"}
      BY DEF StartSplit, OpenLegacy, CheckComplete, NothingInterrupted, ReadSplitState, RefuseMissingTenant,
         ServeSplit, KillSplit, SplitGoto
    <1> QED
      BY <1>1, <1>2 DEF SplitTypeOK, SameControl, SameTenant, SameCounts

LEMMA SplitStutter == SplitTypeOK /\ SplitInv /\ UNCHANGED splitVars => SplitTypeOK' /\ SplitInv'
    <1> SUFFICES ASSUME SplitTypeOK, SplitInv, UNCHANGED splitVars PROVE SplitTypeOK' /\ SplitInv'
      OBVIOUS
    <1>1. SameControl /\ SameTenant /\ SameCounts /\ splitStep' = splitStep
      BY DEF splitVars, SameControl, SameTenant, SameCounts
    <1>2. SplitTypeOK'
      BY <1>1 DEF SplitTypeOK, SameControl, SameTenant, SameCounts
    <1>3. Files' /\ Finals'
      BY <1>1, ControlAlone
      DEF SplitInv, Finals, SameControl, SameTenant, SameCounts, Home
    <1>4. Kept'
      BY <1>1, KeptStays DEF SplitInv, SameCounts
    <1>5. StepsControl'
      BY <1>1 DEF SplitInv, StepsControl, SameControl, HasControl, Live, Home
    <1>6. StepsTenant'
      BY <1>1 DEF SplitInv, StepsTenant, SameControl, SameTenant, HasTenant, Live
    <1> QED
      BY <1>2, <1>3, <1>4, <1>5, <1>6 DEF SplitInv

LEMMA SplitNextInv == SplitTypeOK /\ SplitInv /\ [SplitNext]_splitVars => SplitTypeOK' /\ SplitInv'
    <1> SUFFICES ASSUME SplitTypeOK, SplitInv, [SplitNext]_splitVars
                 PROVE  SplitTypeOK' /\ SplitInv'
      OBVIOUS
    <1>1. CASE UNCHANGED splitVars
      BY <1>1, SplitStutter
    <1>2. CASE \/ \E caller \in Callers : StartSplit(caller)
               \/ OpenLegacy \/ CheckComplete \/ NothingInterrupted \/ ReadSplitState \/ RefuseMissingTenant
               \/ ServeSplit \/ KillSplit
      BY <1>2, DecisionTypes, DecisionInv
    <1>3. CASE ControlSteps
      <2>1. SplitTypeOK'
        BY <1>3, ControlStepTypes
      <2>2. SplitInv'
        BY <1>3, OpenMigratedInv, SyncInv, RestoreInv, UndoneInv, DropInv, FillInv, AsideInv,
           PublishInv, MarkInv
        DEF ControlSteps
      <2> QED
        BY <2>1, <2>2
    <1>4. CASE TenantSteps
      BY <1>4, TenantStepsInv
    <1>5. CASE OpenFirst \/ StoreRow \/ SplitPowerFails \/ LoseTenantDir \/ PowerTakesTenantDir
      BY <1>5, OpenFirstInv, StoreRowInv, FailuresInv
    <1> QED
      BY <1>1, <1>2, <1>3, <1>4, <1>5 DEF SplitNext, ControlSteps, TenantSteps

LEMMA SplitInvMeans == SplitTypeOK /\ SplitInv => RowsSurvive /\ OneAuthority
    <1> SUFFICES ASSUME SplitTypeOK, SplitInv PROVE RowsSurvive /\ OneAuthority
      OBVIOUS
    <1>1. RowsSurvive
      <2>1. Durable => EveryRowLeft
        BY DEF Durable, EveryRowLeft
      <2>2. AllBefore => EveryRowLeft
        <3>1. ASSUME NEW c \in controlLeft, c["live"] # NoDatabase
              PROVE  c["live"].rows \subseteq ControlRows(c)
          BY <3>1, ControlNamed DEF ControlRows
        <3> QED
          BY <3>1 DEF AllBefore, EveryRowLeft
      <2> QED
        BY <2>1, <2>2 DEF SplitInv, Kept, RowsSurvive
    <1>2. OneAuthority
      <2> SUFFICES ASSUME splitStep = "up", Live.home
                   PROVE  /\ tenant["final"] = 1 .. stored
                          /\ Live.rows = {} /\ Live.split /\ Live.compacted
        BY DEF OneAuthority
      <2>1. HasControl("live") /\ Live.split /\ Live.compacted /\ HasTenant("final")
        BY DEF SplitInv, StepsControl, StepsTenant, Opening
      <2>2. Home(control) /\ Live.rows = {}
        BY <2>1, AtHand DEF SplitInv, Files, GoodDir, GoodFile, Home, HasControl, Live
      <2> QED
        BY <2>1, <2>2, AtHand DEF SplitInv, Finals, HasTenant
    <1> QED
      BY <1>1, <1>2

LEMMA SplitAlways == SplitSpec => [](SplitTypeOK /\ SplitInv)
    <1>1. SplitInit => SplitTypeOK /\ SplitInv
      BY SplitInitTypes, SplitInitInv
    <1> QED
      BY <1>1, SplitNextInv, PTL DEF SplitSpec

\* The directories of the split hold what they are meant to, for any callers
\* and any number of rows and faults.
THEOREM SplitTypes == SplitSpec => []SplitTypeOK
    BY SplitAlways, PTL

\* The rows that leave the control file are in the tenant's directory for
\* good: no kill, failing rename or power failure costs one.
THEOREM RowsAlwaysSurvive == SplitSpec => []RowsSurvive
    BY SplitAlways, SplitInvMeans, PTL

\* A server that runs on the installation's control database finds the
\* default tenant's rows in the tenant's file, all of them, and nowhere else.
THEOREM AlwaysOneAuthority == SplitSpec => []OneAuthority
    BY SplitAlways, SplitInvMeans, PTL

-----------------------------------------------------------------------------
(* WalRecovery: types, and the invariant.                                  *)

AtMostOne(contents) == contents = {} \/ \E c \in Content : contents = {c}

\* The contents of the operator's copy.
Copies == UNION {{k.file} \cup k.log : k \in copy}
Contents == {dbFile} \cup dbLog \cup logAside \cup Copies

WalTypes ==
    /\ dbFile \in Content /\ AtMostOne(dbLog) /\ AtMostOne(logAside)
    /\ guard \in Guard /\ pristine \in BOOLEAN /\ marker \in Marker
    /\ bundled \subseteq 1 .. MaxWritten
    /\ wpc \in {"down", "resume", "movedBack", "bypassed", "open", "bundled",
                "checkpointed", "migrate", "token", "guard", "apply", "applied", "migrated",
                "complete", "up"}
    /\ loaded \in Guard /\ preserving \in BOOLEAN
    /\ copy \subseteq [file : Content, log : SUBSET Content]
    /\ \A k \in copy : AtMostOne(k.log)
    /\ released \in 0 .. MaxReleases /\ tokens \in 0 .. MaxTokens /\ restores \in 0 .. MaxRestores
    /\ written \in 0 .. MaxWritten
    /\ discarded \subseteq 1 .. MaxWritten /\ reverted \subseteq 1 .. MaxWritten

\* A migration that is applied is there.
StepsLeft == wpc \in {"token", "guard", "apply"} => Mem.steps < released

Exempt == discarded \cup reverted
Elsewhere == bundled \cup CopiedRows

\* Where the process may be while a bypass is under way, and what it has read.
Bypassing == {"down", "resume", "movedBack", "bypassed"}
Reading == {"resume", "movedBack", "bypassed", "open", "bundled"}

Phases ==
    /\ marker.phase # "none" => wpc \in Bypassing
    /\ marker.phase = "none" => wpc \notin {"movedBack", "bypassed"}
    /\ logAside # {} => marker.phase \in {"move", "bypass", "cleanup"} /\ dbLog = {}
    /\ marker.migration => marker.phase # "none"
    /\ wpc = "bypassed" => marker.phase = "bypass"
    /\ wpc = "movedBack" => marker.phase = "bypass" /\ logAside = {}

Guarded ==
    /\ wpc \in Reading => loaded = guard
    /\ marker.migration => marker.proof = guard /\ guard.kind # "none"
    /\ guard.kind # "none" => wpc \notin {"up", "token", "guard"}

\* A log holds all that its file holds.
LogsExtend ==
    /\ \A c \in dbLog \cup logAside : dbFile.rows \subseteq c.rows
    /\ \A k \in copy : \A c \in k.log : k.file.rows \subseteq c.rows

\* A token is in no content that lacks what was there when it was given.
TokensTell ==
    /\ \A c \in Contents : c.token <= tokens
    /\ wpc \in {"token", "guard"} =>
         /\ Mem.token = tokens
         /\ \A c \in Contents : c.token = tokens => Mem.rows \subseteq c.rows
    /\ guard.kind = "token" =>
         \A c \in Contents : c.token = guard.of.token => guard.of.rows \subseteq c.rows

\* What the guard is of has every write.
GuardsTell ==
    /\ guard.kind # "none" => 1 .. written \subseteq guard.of.rows \cup Exempt
    /\ guard.kind = "sum" /\ pristine =>
         dbFile = guard.of /\ RowsOf(dbLog) \subseteq dbFile.rows \cup Elsewhere

\* What a bypass may drop is kept elsewhere, or is not needed.
BypassKeeps ==
    /\ marker.phase # "none" \/ wpc = "bundled" =>
         RowsOf(dbLog \cup logAside) \subseteq dbFile.rows \cup Elsewhere
    /\ (wpc = "bypassed" \/ marker.phase = "cleanup") /\ marker.migration =>
         1 .. written \subseteq dbFile.rows \cup Exempt

AllKept ==
    /\ 1 .. written \subseteq dbFile.rows \cup RowsOf(dbLog \cup logAside) \cup Exempt
    /\ discarded \subseteq Elsewhere

WalInv == Phases /\ Guarded /\ LogsExtend /\ TokensTell /\ GuardsTell /\ BypassKeeps /\ AllKept

LEMMA OnlyOne == \A c : (CHOOSE x \in {c} : TRUE) = c
    OBVIOUS

\* What the open database holds is in its log, if it has one.
LEMMA MemFacts ==
    ASSUME WalTypes
    PROVE  /\ Mem \in Content
           /\ dbLog = {} => Mem = dbFile
           /\ dbLog # {} => dbLog = {Mem}
    BY OnlyOne DEF WalTypes, AtMostOne, Mem

\* The same, after a step.
LEMMA MemNext ==
    /\ \A c : Commits(c) => Mem' = c
    /\ dbLog' = {} => Mem' = dbFile'
    /\ dbFile' = dbFile /\ dbLog' = dbLog => Mem' = Mem
    <1>1. ASSUME NEW c, Commits(c) PROVE Mem' = c
      <2>1. dbLog' = {c}
        BY <1>1 DEF Commits
      <2>2. Mem' = CHOOSE x \in dbLog' : TRUE
        BY <2>1 DEF Mem
      <2> QED
        BY <2>1, <2>2, OnlyOne
    <1>2. dbLog' = {} => Mem' = dbFile'
      BY DEF Mem
    <1>3. dbFile' = dbFile /\ dbLog' = dbLog => Mem' = Mem
      BY DEF Mem
    <1> QED
      BY <1>1, <1>2, <1>3

\* Contents, guards and markers that the steps make.
LEMMA WalValues ==
    /\ NoContent \in Content /\ NoGuard \in Guard /\ NoMarker \in Marker
    /\ \A c \in Content : /\ [kind |-> "sum", of |-> c] \in Guard
                          /\ [kind |-> "token", of |-> c] \in Guard
                          /\ \A r \in 1 .. MaxWritten : [c EXCEPT !.rows = @ \cup {r}] \in Content
                          /\ \A n \in 0 .. MaxTokens : [c EXCEPT !.token = n] \in Content
                          /\ c.steps < MaxReleases => [c EXCEPT !.steps = @ + 1] \in Content
                          /\ c.rows \subseteq 1 .. MaxWritten
    /\ \A m \in Marker :
         /\ \A p \in {"awaiting", "move", "bypass", "cleanup"} : [m EXCEPT !.phase = p] \in Marker
         /\ [m EXCEPT !.migration = FALSE, !.proof = NoGuard] \in Marker
    /\ \A b \in BOOLEAN, g \in Guard : [phase |-> "awaiting", migration |-> b, proof |-> g] \in Marker
    <1>1. NoContent \in Content
      BY WalAssumption DEF Content, NoContent
    <1>2. NoGuard \in Guard
      BY <1>1 DEF Guard, NoGuard
    <1>3. NoMarker \in Marker
      BY <1>2 DEF Marker, NoMarker
    <1>4. ASSUME NEW c \in Content PROVE c.rows \subseteq 1 .. MaxWritten
      BY DEF Content
    <1>5. ASSUME NEW c \in Content
          PROVE  [kind |-> "sum", of |-> c] \in Guard /\ [kind |-> "token", of |-> c] \in Guard
      BY DEF Guard
    <1>6. ASSUME NEW c \in Content, NEW r \in 1 .. MaxWritten PROVE [c EXCEPT !.rows = @ \cup {r}] \in Content
      BY DEF Content
    <1>7. ASSUME NEW c \in Content, NEW n \in 0 .. MaxTokens PROVE [c EXCEPT !.token = n] \in Content
      BY DEF Content
    <1>8. ASSUME NEW c \in Content, c.steps < MaxReleases PROVE [c EXCEPT !.steps = @ + 1] \in Content
      BY <1>8, WalAssumption DEF Content
    <1>9. ASSUME NEW m \in Marker, NEW p \in {"awaiting", "move", "bypass", "cleanup"}
          PROVE  [m EXCEPT !.phase = p] \in Marker
      BY DEF Marker
    <1>10. ASSUME NEW m \in Marker PROVE [m EXCEPT !.migration = FALSE, !.proof = NoGuard] \in Marker
      BY <1>2 DEF Marker
    <1>11. ASSUME NEW b \in BOOLEAN, NEW g \in Guard PROVE [phase |-> "awaiting", migration |-> b, proof |-> g] \in Marker
      BY DEF Marker
    <1> QED
      BY <1>1, <1>2, <1>3, <1>4, <1>5, <1>6, <1>7, <1>8, <1>9, <1>10, <1>11

LEMMA RowsTyped == \A S : S \subseteq Content => RowsOf(S) \subseteq 1 .. MaxWritten
    BY DEF RowsOf, Content

-----------------------------------------------------------------------------
(* WalRecovery: every step keeps each part.                                *)

LEMMA TypesStep == WalTypes /\ StepsLeft /\ WalNext => WalTypes'
    <1> SUFFICES ASSUME WalTypes, StepsLeft, WalNext PROVE WalTypes'
      OBVIOUS
    <1>a. Mem \in Content /\ (dbLog = {} => Mem = dbFile) /\ (dbLog # {} => dbLog = {Mem})
      BY MemFacts
    <1>u. MaxWritten \in Nat /\ MaxReleases \in Nat /\ MaxTokens \in Nat /\ MaxRestores \in Nat
      BY WalAssumption
    <1>v. NoGuard \in Guard /\ NoMarker \in Marker
      BY WalValues
    <1> USE DEF WalTypes, AtMostOne, GoesTo, ConnectEnds, diskVars, connectVars, worldVars
    <1>1. CASE NothingToResume \/ LogRemovedByOperator \/ RefuseUnasked \/ RefuseRecovery
      BY <1>1, <1>a, <1>u, <1>v DEF NothingToResume, LogRemovedByOperator, EndRecovery,
        RefuseUnasked, Stops, RefuseRecovery, Refused
    <1>2. CASE AuthorizeBypass \/ MoveLogAside \/ LogMoved \/ ProofWaived
      <2>1. marker' \in Marker
        BY <1>2, WalValues DEF AuthorizeBypass, MarkPhase, MoveLogAside, LogMoved, ProofWaived
      <2>2. CASE AuthorizeBypass \/ LogMoved \/ ProofWaived
        BY <2>1, <2>2 DEF AuthorizeBypass, LogMoved, ProofWaived, MarkPhase
      <2>3. CASE MoveLogAside
        BY <2>3 DEF MoveLogAside
      <2> QED
        BY <1>2, <2>2, <2>3
    <1>3. CASE RemoveAside
      <2>1. logAside \subseteq Content
        OBVIOUS
      <2>2. RowsOf(logAside) \subseteq 1 .. MaxWritten
        BY <2>1, RowsTyped
      <2>3. discarded' \subseteq 1 .. MaxWritten
        BY <1>3, <2>2 DEF RemoveAside
      <2> QED
        BY <1>3, <2>3 DEF RemoveAside
    <1>4. CASE MoveLogBack \/ RejectProof \/ CheckpointWithoutLog \/ MarkBypassed \/ CompleteBypass
      <2>1. marker' \in Marker
        BY <1>4, <1>v, WalValues DEF MoveLogBack, RejectProof, CheckpointWithoutLog, MarkBypassed,
          MarkPhase, CompleteBypass, EndRecovery
      <2>2. CASE MoveLogBack
        BY <2>2 DEF MoveLogBack
      <2>3. CASE RejectProof
        BY <2>1, <2>3, <1>v DEF RejectProof, Stops
      <2>4. CASE CheckpointWithoutLog
        BY <2>4, <1>a DEF CheckpointWithoutLog, Checkpoints
      <2>5. CASE MarkBypassed \/ CompleteBypass
        BY <2>1, <2>5 DEF MarkBypassed, MarkPhase, CompleteBypass, EndRecovery
      <2> QED
        BY <1>4, <2>2, <2>3, <2>4, <2>5
    <1>5. CASE KeepBundle
      <2>1. RowsOf({dbFile} \cup dbLog) \subseteq 1 .. MaxWritten
        BY RowsTyped
      <2> QED
        BY <1>5, <2>1, <1>u DEF KeepBundle
    <1>6. CASE RefuseChanged \/ BeginBypass \/ Opened \/ OpenedGuarded \/ ClearRecoveredGuard
      <2>1. CASE RefuseChanged \/ Opened
        BY <2>1, <1>v DEF RefuseChanged, Stops, Opened
      <2>2. CASE BeginBypass
        <3>1. marker' \in Marker
          BY <2>2, WalValues DEF BeginBypass
        <3> QED
          BY <2>2, <3>1 DEF BeginBypass
      <2>3. CASE OpenedGuarded
        BY <2>3, <1>a, <1>v DEF OpenedGuarded, Checkpoints
      <2>4. CASE ClearRecoveredGuard
        BY <2>4, <1>v DEF ClearRecoveredGuard, ClearGuard
      <2> QED
        BY <1>6, <2>1, <2>2, <2>3, <2>4
    <1>7. CASE CommitToken
      <2>1. tokens + 1 \in 0 .. MaxTokens
        BY <1>7, <1>u DEF CommitToken
      <2>2. [Mem EXCEPT !.token = tokens + 1] \in Content
        BY <2>1, <1>a, WalValues
      <2> QED
        BY <1>7, <2>1, <2>2, <1>u DEF CommitToken, Commits
    <1>8. CASE UpToDate \/ KeepGuard \/ GuardByChecksum \/ CheckpointToken \/ GuardByToken
      <2>1. guard' \in Guard
        BY <1>8, <1>a, WalValues DEF UpToDate, KeepGuard, GuardByChecksum, CheckpointToken, GuardByToken
      <2>2. CASE UpToDate \/ KeepGuard
        BY <2>2 DEF UpToDate, KeepGuard, Unmigrated
      <2>3. CASE GuardByChecksum \/ GuardByToken
        BY <2>1, <2>3 DEF GuardByChecksum, GuardByToken, Unmigrated
      <2>4. CASE CheckpointToken
        BY <2>4, <1>a DEF CheckpointToken, Checkpoints
      <2> QED
        BY <1>8, <2>2, <2>3, <2>4
    <1>9. CASE ApplyStep
      <2>1. [Mem EXCEPT !.steps = @ + 1] \in Content
        <3>1. Mem.steps \in 0 .. MaxReleases
          BY <1>a DEF Content
        <3>2. Mem.steps < MaxReleases
          BY <1>9, <3>1, <1>u DEF ApplyStep, StepsLeft
        <3> QED
          BY <3>2, <1>a, WalValues
      <2> QED
        BY <1>9, <2>1, <1>u DEF ApplyStep, Commits
    <1>10. CASE CheckpointStep \/ ReopenAfterStep \/ CheckpointMigrated \/ ClearMigrationGuard
      BY <1>10, <1>a, <1>u, <1>v DEF CheckpointStep, Checkpoints, ReopenAfterStep,
        CheckpointMigrated, ClearMigrationGuard, ClearGuard
    <1>11. CASE CommitWrite
      <2>1. written + 1 \in 0 .. MaxWritten /\ written + 1 \in 1 .. MaxWritten
        BY <1>11, <1>u DEF CommitWrite
      <2>2. [Mem EXCEPT !.rows = @ \cup {written + 1}] \in Content
        BY <2>1, <1>a, WalValues
      <2> QED
        BY <1>11, <2>1, <2>2, <1>u DEF CommitWrite, Commits
    <1>12. CASE CheckpointInUse
      BY <1>12, <1>a, <1>u, <1>v DEF CheckpointInUse, Checkpoints
    <1>13. CASE RemoveLog
      <2>1. RowsOf(dbLog) \subseteq 1 .. MaxWritten
        BY RowsTyped
      <2> QED
        BY <1>13, <2>1, <1>u DEF RemoveLog
    <1>14. CASE TakeCopy
      BY <1>14, <1>a, <1>u, <1>v DEF TakeCopy
    <1>15. CASE RestoreCopy
      <2>1. PICK k \in copy : /\ dbFile' = k.file /\ dbLog' = k.log
                            /\ pristine' = (guard.kind = "sum" /\ k.file = guard.of)
                            /\ reverted' = reverted \cup ((1 .. written) \ RowsOf({k.file} \cup k.log))
        BY <1>15 DEF RestoreCopy
      <2>2. k.file \in Content /\ AtMostOne(k.log)
        OBVIOUS
      <2>3. reverted' \subseteq 1 .. MaxWritten
        <3>1. 1 .. written \subseteq 1 .. MaxWritten
          BY <1>u
        <3>2. reverted' \subseteq reverted \cup 1 .. written
          BY <2>1
        <3> QED
          BY <3>1, <3>2
      <2>4. restores' \in 0 .. MaxRestores
        BY <1>15, <1>u DEF RestoreCopy
      <2>5. pristine' \in BOOLEAN
        BY <2>1
      <2> QED
        BY <1>15, <2>1, <2>2, <2>3, <2>4, <2>5 DEF RestoreCopy
    <1>16. CASE Start \/ Kill
      BY <1>16, <1>a, <1>u, <1>v DEF Start, Kill, Stops
    <1>17. CASE Upgrade
      BY <1>17, <1>a, <1>u, <1>v DEF Upgrade
    <1> QED
      BY <1>1, <1>2, <1>3, <1>4, <1>5, <1>6, <1>7, <1>8, <1>9, <1>10, <1>11, <1>12, <1>13, <1>14,
        <1>15, <1>16, <1>17 DEF WalNext, RecoveryStep, MigrationStep

LEMMA StepsStep == WalTypes /\ StepsLeft /\ WalNext => StepsLeft'
    <1> SUFFICES ASSUME WalTypes, StepsLeft, WalNext PROVE StepsLeft'
      OBVIOUS
    <1>a. Mem \in Content /\ (dbLog = {} => Mem = dbFile) /\ (dbLog # {} => dbLog = {Mem})
      BY MemFacts
    <1>b. ASSUME NEW c, Commits(c) PROVE Mem' = c
      BY <1>b, MemNext
    <1>c. dbLog' = {} => Mem' = dbFile'
      BY MemNext
    <1>d. dbFile' = dbFile /\ dbLog' = dbLog => Mem' = Mem
      BY MemNext
    <1> USE DEF StepsLeft, GoesTo, Stops, ConnectEnds, diskVars, connectVars, worldVars
    <1>1. CASE NothingToResume \/ LogRemovedByOperator \/ RefuseUnasked \/ RefuseRecovery
      BY <1>1, <1>c, <1>d DEF NothingToResume, LogRemovedByOperator, EndRecovery, RefuseUnasked,
        RefuseRecovery, Refused
    <1>2. CASE AuthorizeBypass \/ MoveLogAside \/ LogMoved \/ ProofWaived
      BY <1>2, <1>c, <1>d DEF AuthorizeBypass, InPhase, MarkPhase, MoveLogAside, LogMoved,
        ProofWaived, Proves
    <1>3. CASE MoveLogBack \/ RejectProof \/ CheckpointWithoutLog \/ MarkBypassed \/ RemoveAside \/
      CompleteBypass
      BY <1>3, <1>c, <1>d DEF MoveLogBack, InPhase, Proves, RejectProof, CheckpointWithoutLog,
        Checkpoints, MarkBypassed, MarkPhase, RemoveAside, CompleteBypass, EndRecovery
    <1>4. CASE RefuseChanged \/ KeepBundle \/ BeginBypass \/ Opened \/ OpenedGuarded \/
      ClearRecoveredGuard
      BY <1>4, <1>c, <1>d DEF RefuseChanged, KeepBundle, BeginBypass, Opened, OpenedGuarded,
        Checkpoints, ClearRecoveredGuard, ClearGuard
    <1>5. CASE CommitToken
      <2>1. Mem' = [Mem EXCEPT !.token = tokens + 1]
        BY <1>5, <1>b DEF CommitToken
      <2>2. Mem'.steps = Mem.steps
        BY <2>1, <1>a DEF Content
      <2> QED
        BY <1>5, <2>2 DEF CommitToken, Unmigrated
    <1>6. CASE UpToDate \/ KeepGuard \/ GuardByChecksum \/ CheckpointToken \/ GuardByToken
      BY <1>6, <1>c, <1>d DEF UpToDate, KeepGuard, Unmigrated, GuardByChecksum, CheckpointToken,
        Checkpoints, GuardByToken
    <1>7. CASE ApplyStep \/ CheckpointStep \/ ReopenAfterStep \/ CheckpointMigrated \/
      ClearMigrationGuard
      BY <1>7, <1>c, <1>d DEF ApplyStep, Commits, CheckpointStep, Checkpoints, ReopenAfterStep,
        CheckpointMigrated, ClearMigrationGuard, ClearGuard
    <1>8. CASE Start \/ Kill \/ Upgrade
      BY <1>8, <1>c, <1>d DEF Start, Kill, Upgrade
    <1>9. CASE CommitWrite \/ CheckpointInUse
      BY <1>9, <1>c, <1>d DEF CommitWrite, Commits, CheckpointInUse, Checkpoints
    <1>10. CASE RemoveLog
      BY <1>10, <1>c, <1>d DEF RemoveLog
    <1>11. CASE TakeCopy
      BY <1>11, <1>c, <1>d DEF TakeCopy
    <1>12. CASE RestoreCopy
      BY <1>12, <1>c, <1>d DEF RestoreCopy
    <1> QED
      BY <1>1, <1>2, <1>3, <1>4, <1>5, <1>6, <1>7, <1>8, <1>9, <1>10, <1>11, <1>12 DEF WalNext,
        RecoveryStep, MigrationStep

LEMMA PhasesStep == WalTypes /\ Phases /\ WalNext => Phases'
    <1> SUFFICES ASSUME WalTypes, Phases, WalNext PROVE Phases'
      OBVIOUS
    <1> USE DEF WalTypes, AtMostOne, Phases, Bypassing, diskVars, connectVars, worldVars, GoesTo,
      ConnectEnds, NoMarker, Marker
    <1>1. CASE NothingToResume \/ LogRemovedByOperator \/ RefuseUnasked \/ RefuseRecovery
      BY <1>1 DEF NothingToResume, LogRemovedByOperator, EndRecovery, RefuseUnasked, Stops,
        RefuseRecovery, Refused
    <1>2. CASE AuthorizeBypass \/ MoveLogAside \/ LogMoved \/ ProofWaived
      BY <1>2 DEF AuthorizeBypass, InPhase, MarkPhase, MoveLogAside, LogMoved, ProofWaived, Proves
    <1>3. CASE MoveLogBack \/ RejectProof \/ CheckpointWithoutLog \/ MarkBypassed \/ RemoveAside \/
      CompleteBypass
      BY <1>3 DEF MoveLogBack, InPhase, Proves, RejectProof, Stops, CheckpointWithoutLog,
        Checkpoints, MarkBypassed, MarkPhase, RemoveAside, CompleteBypass, EndRecovery
    <1>4. CASE RefuseChanged \/ KeepBundle \/ BeginBypass \/ Opened \/ OpenedGuarded \/
      ClearRecoveredGuard
      BY <1>4 DEF RefuseChanged, Stops, KeepBundle, BeginBypass, Opened, OpenedGuarded, Checkpoints,
        ClearRecoveredGuard, ClearGuard
    <1>5. CASE UpToDate \/ KeepGuard \/ GuardByChecksum \/ CommitToken \/ CheckpointToken \/
      GuardByToken
      BY <1>5 DEF UpToDate, KeepGuard, Unmigrated, GuardByChecksum, CommitToken, Commits,
        CheckpointToken, Checkpoints, GuardByToken
    <1>6. CASE ApplyStep \/ CheckpointStep \/ ReopenAfterStep \/ CheckpointMigrated \/
      ClearMigrationGuard
      BY <1>6 DEF ApplyStep, Commits, CheckpointStep, Checkpoints, ReopenAfterStep,
        CheckpointMigrated, ClearMigrationGuard, ClearGuard
    <1>7. CASE Start \/ Kill \/ Upgrade
      BY <1>7 DEF Start, Kill, Stops, Upgrade
    <1>8. CASE CommitWrite \/ CheckpointInUse
      BY <1>8 DEF CommitWrite, Commits, CheckpointInUse, Checkpoints
    <1>9. CASE RemoveLog
      BY <1>9 DEF RemoveLog
    <1>10. CASE TakeCopy
      BY <1>10 DEF TakeCopy
    <1>11. CASE RestoreCopy
      BY <1>11 DEF RestoreCopy
    <1> QED
      BY <1>1, <1>2, <1>3, <1>4, <1>5, <1>6, <1>7, <1>8, <1>9, <1>10, <1>11 DEF WalNext,
        RecoveryStep, MigrationStep

LEMMA GuardedStep == WalTypes /\ Phases /\ Guarded /\ WalNext => Guarded'
    <1> SUFFICES ASSUME WalTypes, Phases, Guarded, WalNext PROVE Guarded'
      OBVIOUS
    <1> USE DEF WalTypes, AtMostOne, Phases, Guarded, Bypassing, Reading, diskVars, connectVars,
      worldVars, GoesTo, ConnectEnds, NoMarker, NoGuard, Marker, Guard
    <1>1. CASE NothingToResume \/ LogRemovedByOperator \/ RefuseUnasked \/ RefuseRecovery
      BY <1>1 DEF NothingToResume, LogRemovedByOperator, EndRecovery, RefuseUnasked, Stops,
        RefuseRecovery, Refused
    <1>2. CASE AuthorizeBypass \/ MoveLogAside \/ LogMoved \/ ProofWaived
      BY <1>2 DEF AuthorizeBypass, InPhase, MarkPhase, MoveLogAside, LogMoved, ProofWaived, Proves
    <1>3. CASE MoveLogBack \/ RejectProof \/ CheckpointWithoutLog \/ MarkBypassed \/ RemoveAside \/
      CompleteBypass
      BY <1>3 DEF MoveLogBack, InPhase, Proves, RejectProof, Stops, CheckpointWithoutLog,
        Checkpoints, MarkBypassed, MarkPhase, RemoveAside, CompleteBypass, EndRecovery
    <1>4. CASE RefuseChanged \/ KeepBundle \/ BeginBypass \/ Opened \/ OpenedGuarded \/
      ClearRecoveredGuard
      BY <1>4 DEF RefuseChanged, Stops, KeepBundle, BeginBypass, Opened, OpenedGuarded, Checkpoints,
        ClearRecoveredGuard, ClearGuard
    <1>5. CASE UpToDate \/ KeepGuard \/ GuardByChecksum \/ CommitToken \/ CheckpointToken \/
      GuardByToken
      BY <1>5 DEF UpToDate, KeepGuard, Unmigrated, GuardByChecksum, CommitToken, Commits,
        CheckpointToken, Checkpoints, GuardByToken
    <1>6. CASE ApplyStep \/ CheckpointStep \/ ReopenAfterStep \/ CheckpointMigrated \/
      ClearMigrationGuard
      BY <1>6 DEF ApplyStep, Commits, CheckpointStep, Checkpoints, ReopenAfterStep,
        CheckpointMigrated, ClearMigrationGuard, ClearGuard
    <1>7. CASE Start \/ Kill \/ Upgrade
      BY <1>7 DEF Start, Kill, Stops, Upgrade
    <1>8. CASE CommitWrite \/ CheckpointInUse
      BY <1>8 DEF CommitWrite, Commits, CheckpointInUse, Checkpoints
    <1>9. CASE RemoveLog
      BY <1>9 DEF RemoveLog
    <1>10. CASE TakeCopy
      BY <1>10 DEF TakeCopy
    <1>11. CASE RestoreCopy
      BY <1>11 DEF RestoreCopy
    <1> QED
      BY <1>1, <1>2, <1>3, <1>4, <1>5, <1>6, <1>7, <1>8, <1>9, <1>10, <1>11 DEF WalNext,
        RecoveryStep, MigrationStep

LEMMA LogsStep == WalTypes /\ Phases /\ LogsExtend /\ WalNext => LogsExtend'
    <1> SUFFICES ASSUME WalTypes, Phases, LogsExtend, WalNext PROVE LogsExtend'
      OBVIOUS
    <1>a. Mem \in Content /\ (dbLog = {} => Mem = dbFile) /\ (dbLog # {} => dbLog = {Mem})
      BY MemFacts
    <1> USE DEF WalTypes, AtMostOne, Phases, Bypassing, LogsExtend, Content, diskVars, connectVars,
      worldVars
    <1>1. CASE NothingToResume \/ LogRemovedByOperator \/ RefuseUnasked \/ RefuseRecovery
      BY <1>1, <1>a DEF NothingToResume, LogRemovedByOperator, EndRecovery, RefuseUnasked, Stops,
        RefuseRecovery, Refused
    <1>2. CASE AuthorizeBypass \/ MoveLogAside \/ LogMoved \/ ProofWaived
      BY <1>2, <1>a DEF AuthorizeBypass, InPhase, MarkPhase, MoveLogAside, LogMoved, ProofWaived,
        Proves
    <1>3. CASE MoveLogBack \/ RejectProof \/ CheckpointWithoutLog \/ MarkBypassed \/ RemoveAside \/
      CompleteBypass
      BY <1>3, <1>a DEF MoveLogBack, InPhase, Proves, RejectProof, Stops, CheckpointWithoutLog,
        Checkpoints, MarkBypassed, MarkPhase, RemoveAside, CompleteBypass, EndRecovery
    <1>4. CASE RefuseChanged \/ KeepBundle \/ BeginBypass \/ Opened \/ OpenedGuarded \/
      ClearRecoveredGuard
      BY <1>4, <1>a DEF RefuseChanged, Stops, KeepBundle, BeginBypass, Opened, OpenedGuarded,
        Checkpoints, ClearRecoveredGuard, ClearGuard
    <1>5. CASE UpToDate \/ KeepGuard \/ GuardByChecksum \/ CommitToken \/ CheckpointToken \/
      GuardByToken
      BY <1>5, <1>a DEF UpToDate, KeepGuard, Unmigrated, GuardByChecksum, CommitToken, Commits,
        CheckpointToken, Checkpoints, GuardByToken
    <1>6. CASE ApplyStep \/ CheckpointStep \/ ReopenAfterStep \/ CheckpointMigrated \/
      ClearMigrationGuard
      BY <1>6, <1>a DEF ApplyStep, Commits, CheckpointStep, Checkpoints, ReopenAfterStep,
        CheckpointMigrated, ClearMigrationGuard, ClearGuard
    <1>7. CASE Start \/ Kill \/ Upgrade
      BY <1>7, <1>a DEF Start, Kill, Stops, Upgrade
    <1>8. CASE CommitWrite \/ CheckpointInUse
      BY <1>8, <1>a DEF CommitWrite, Commits, CheckpointInUse, Checkpoints
    <1>9. CASE RemoveLog
      BY <1>9, <1>a DEF RemoveLog
    <1>10. CASE TakeCopy
      BY <1>10, <1>a DEF TakeCopy
    <1>11. CASE RestoreCopy
      BY <1>11, <1>a DEF RestoreCopy
    <1> QED
      BY <1>1, <1>2, <1>3, <1>4, <1>5, <1>6, <1>7, <1>8, <1>9, <1>10, <1>11 DEF WalNext,
        RecoveryStep, MigrationStep

LEMMA TokensStep == WalTypes /\ Phases /\ Guarded /\ TokensTell /\ WalNext => TokensTell'
    <1> SUFFICES ASSUME WalTypes, Phases, Guarded, TokensTell, WalNext PROVE TokensTell'
      OBVIOUS
    <1>a. Mem \in Content /\ (dbLog = {} => Mem = dbFile) /\ (dbLog # {} => dbLog = {Mem})
      BY MemFacts
    <1>b. ASSUME NEW c, Commits(c) PROVE Mem' = c
      BY <1>b, MemNext
    <1>c. dbLog' = {} => Mem' = dbFile'
      BY MemNext
    <1>d. dbFile' = dbFile /\ dbLog' = dbLog => Mem' = Mem
      BY MemNext
    <1> USE DEF WalTypes, AtMostOne, Phases, Guarded, Bypassing, TokensTell, Contents, Copies,
      Content, Guard, NoGuard, GoesTo, diskVars, connectVars, worldVars
    <1>1. CASE NothingToResume \/ LogRemovedByOperator \/ RefuseUnasked \/ RefuseRecovery
      BY <1>1, <1>a, <1>c, <1>d DEF NothingToResume, LogRemovedByOperator, EndRecovery,
        RefuseUnasked, Stops, RefuseRecovery, Refused
    <1>2. CASE AuthorizeBypass \/ MoveLogAside \/ LogMoved \/ ProofWaived
      BY <1>2, <1>a, <1>c, <1>d DEF AuthorizeBypass, InPhase, MarkPhase, MoveLogAside, LogMoved,
        ProofWaived, Proves
    <1>3. CASE MoveLogBack \/ RejectProof \/ CheckpointWithoutLog \/ MarkBypassed \/ RemoveAside \/
      CompleteBypass
      BY <1>3, <1>a, <1>c, <1>d DEF MoveLogBack, InPhase, Proves, RejectProof, Stops,
        CheckpointWithoutLog, Checkpoints, MarkBypassed, MarkPhase, RemoveAside, CompleteBypass,
        EndRecovery
    <1>4. CASE RefuseChanged \/ KeepBundle \/ BeginBypass \/ Opened \/ OpenedGuarded \/
      ClearRecoveredGuard
      BY <1>4, <1>a, <1>c, <1>d DEF RefuseChanged, Stops, KeepBundle, BeginBypass, Opened,
        OpenedGuarded, Checkpoints, ClearRecoveredGuard, ClearGuard
    <1>5. CASE CommitToken
      <2>1. Mem' = [Mem EXCEPT !.token = tokens + 1] /\ dbLog' = {Mem'}
        BY <1>5, <1>b DEF CommitToken, Commits
      <2>2. Mem'.token = tokens + 1 /\ Mem'.rows = Mem.rows
        BY <2>1, <1>a
      <2>3. Contents' \subseteq Contents \cup {Mem'} /\ Mem' \in Contents'
        BY <1>5, <2>1 DEF CommitToken
      <2>4. \A c \in Contents : c.token <= tokens /\ c.token \in Nat
        OBVIOUS
      <2>5. guard' = guard /\ guard.kind = "none" /\ tokens' = tokens + 1 /\ tokens \in Nat
        BY <1>5 DEF CommitToken, Unmigrated
      <2> HIDE DEF Contents
      <2> QED
        BY <2>2, <2>3, <2>4, <2>5
    <1>6. CASE CheckpointToken
      <2>1. dbFile' = Mem /\ dbLog' = {} /\ Mem' = Mem
        BY <1>6, <1>c DEF CheckpointToken, Checkpoints
      <2>2. Contents' \subseteq Contents
        BY <1>6, <2>1, <1>a DEF CheckpointToken
      <2>3. guard' = guard /\ guard.kind = "none" /\ tokens' = tokens /\ wpc = "token"
        BY <1>6 DEF CheckpointToken
      <2> HIDE DEF Contents
      <2> QED
        BY <2>1, <2>2, <2>3
    <1>7. CASE UpToDate \/ KeepGuard \/ GuardByChecksum \/ GuardByToken
      BY <1>7, <1>a, <1>c, <1>d DEF UpToDate, KeepGuard, Unmigrated, GuardByChecksum, GuardByToken
    <1>8. CASE ApplyStep \/ CheckpointStep \/ ReopenAfterStep \/ CheckpointMigrated \/
      ClearMigrationGuard
      BY <1>8, <1>a, <1>c, <1>d DEF ApplyStep, Commits, CheckpointStep, Checkpoints,
        ReopenAfterStep, CheckpointMigrated, ClearMigrationGuard, ClearGuard
    <1>9. CASE Start \/ Kill \/ Upgrade
      BY <1>9, <1>a, <1>c, <1>d DEF Start, Kill, Stops, Upgrade
    <1>10. CASE CommitWrite \/ CheckpointInUse
      BY <1>10, <1>a, <1>c, <1>d DEF CommitWrite, Commits, CheckpointInUse, Checkpoints
    <1>11. CASE RemoveLog
      BY <1>11, <1>a, <1>c, <1>d DEF RemoveLog
    <1>12. CASE TakeCopy
      BY <1>12, <1>a, <1>c, <1>d DEF TakeCopy
    <1>13. CASE RestoreCopy
      BY <1>13, <1>a, <1>c, <1>d DEF RestoreCopy
    <1> QED
      BY <1>1, <1>2, <1>3, <1>4, <1>5, <1>6, <1>7, <1>8, <1>9, <1>10, <1>11, <1>12, <1>13 DEF
        WalNext, RecoveryStep, MigrationStep

LEMMA GuardsStep == WalTypes /\ WalInv /\ WalNext => GuardsTell'
    <1> SUFFICES ASSUME WalTypes, WalInv, WalNext PROVE GuardsTell'
      OBVIOUS
    <1>a. Mem \in Content /\ (dbLog = {} => Mem = dbFile) /\ (dbLog # {} => dbLog = {Mem})
      BY MemFacts
    <1> USE DEF WalTypes, AtMostOne, WalInv, Phases, Guarded, Bypassing, LogsExtend, GuardsTell,
      AllKept, Exempt, Elsewhere, CopiedRows, RowsOf, Content, Guard, NoGuard, GoesTo, diskVars,
      connectVars, worldVars
    <1>1. CASE NothingToResume \/ LogRemovedByOperator \/ RefuseUnasked \/ RefuseRecovery
      BY <1>1, <1>a DEF NothingToResume, LogRemovedByOperator, EndRecovery, RefuseUnasked, Stops,
        RefuseRecovery, Refused
    <1>2. CASE AuthorizeBypass \/ MoveLogAside \/ LogMoved \/ ProofWaived
      BY <1>2, <1>a DEF AuthorizeBypass, InPhase, MarkPhase, MoveLogAside, LogMoved, ProofWaived,
        Proves
    <1>3. CASE MoveLogBack \/ RejectProof \/ CheckpointWithoutLog \/ MarkBypassed \/ RemoveAside \/
      CompleteBypass
      BY <1>3, <1>a DEF MoveLogBack, InPhase, Proves, RejectProof, Stops, CheckpointWithoutLog,
        Checkpoints, MarkBypassed, MarkPhase, RemoveAside, CompleteBypass, EndRecovery
    <1>4. CASE RefuseChanged \/ KeepBundle \/ BeginBypass \/ Opened \/ OpenedGuarded \/
      ClearRecoveredGuard
      BY <1>4, <1>a DEF RefuseChanged, Stops, KeepBundle, BeginBypass, Opened, OpenedGuarded,
        Checkpoints, ClearRecoveredGuard, ClearGuard
    <1>5. CASE UpToDate \/ KeepGuard \/ GuardByChecksum \/ CommitToken \/ CheckpointToken \/
      GuardByToken
      BY <1>5, <1>a DEF UpToDate, KeepGuard, Unmigrated, GuardByChecksum, CommitToken, Commits,
        CheckpointToken, Checkpoints, GuardByToken
    <1>6. CASE ApplyStep \/ CheckpointStep \/ ReopenAfterStep \/ CheckpointMigrated \/
      ClearMigrationGuard
      BY <1>6, <1>a DEF ApplyStep, Commits, CheckpointStep, Checkpoints, ReopenAfterStep,
        CheckpointMigrated, ClearMigrationGuard, ClearGuard
    <1>7. CASE Start \/ Kill \/ Upgrade
      BY <1>7, <1>a DEF Start, Kill, Stops, Upgrade
    <1>8. CASE CommitWrite \/ CheckpointInUse
      BY <1>8, <1>a DEF CommitWrite, Commits, CheckpointInUse, Checkpoints
    <1>9. CASE RemoveLog
      BY <1>9, <1>a DEF RemoveLog
    <1>10. CASE TakeCopy
      BY <1>10, <1>a DEF TakeCopy
    <1>11. CASE RestoreCopy
      <2>1. PICK k \in copy : /\ dbFile' = k.file /\ dbLog' = k.log
                            /\ pristine' = (guard.kind = "sum" /\ k.file = guard.of)
                            /\ reverted' = reverted \cup ((1 .. written) \ RowsOf({k.file} \cup k.log))
        BY <1>11 DEF RestoreCopy
      <2>2. /\ guard' = guard /\ written' = written /\ discarded' = discarded
            /\ copy' = copy /\ bundled' = bundled
        BY <1>11 DEF RestoreCopy
      <2>3. Exempt \subseteq Exempt'
        BY <2>1, <2>2
      <2>4. RowsOf(dbLog') \subseteq Elsewhere'
        BY <2>1, <2>2
      <2> HIDE DEF Exempt, Elsewhere, CopiedRows, RowsOf
      <2> QED
        BY <2>1, <2>2, <2>3, <2>4
    <1> QED
      BY <1>1, <1>2, <1>3, <1>4, <1>5, <1>6, <1>7, <1>8, <1>9, <1>10, <1>11 DEF WalNext,
        RecoveryStep, MigrationStep

LEMMA BypassStep == WalTypes /\ WalInv /\ WalNext => BypassKeeps'
    <1> SUFFICES ASSUME WalTypes, WalInv, WalNext PROVE BypassKeeps'
      OBVIOUS
    <1>a. Mem \in Content /\ (dbLog = {} => Mem = dbFile) /\ (dbLog # {} => dbLog = {Mem})
      BY MemFacts
    <1> USE DEF WalTypes, AtMostOne, WalInv, Phases, Guarded, Reading, Bypassing, LogsExtend,
      TokensTell, Contents, GuardsTell, BypassKeeps, AllKept, Exempt, Elsewhere, CopiedRows, RowsOf,
      Content, Guard, Marker, NoMarker, NoGuard, GoesTo, diskVars, connectVars, worldVars
    <1>1. CASE NothingToResume \/ LogRemovedByOperator \/ RefuseUnasked \/ RefuseRecovery
      BY <1>1, <1>a DEF NothingToResume, LogRemovedByOperator, EndRecovery, RefuseUnasked, Stops,
        RefuseRecovery, Refused
    <1>2. CASE AuthorizeBypass
      BY <1>2, <1>a DEF AuthorizeBypass, InPhase, MarkPhase
    <1>3. CASE MoveLogAside
      BY <1>3, <1>a DEF MoveLogAside, InPhase
    <1>4. CASE LogMoved
      BY <1>4, <1>a DEF LogMoved, InPhase, MarkPhase
    <1>5. CASE ProofWaived
      BY <1>5, <1>a DEF ProofWaived, InPhase, Proves
    <1>6. CASE MoveLogBack \/ RejectProof \/ CheckpointWithoutLog \/ MarkBypassed \/ RemoveAside \/
      CompleteBypass
      BY <1>6, <1>a DEF MoveLogBack, InPhase, Proves, RejectProof, Stops, CheckpointWithoutLog,
        Checkpoints, MarkBypassed, MarkPhase, RemoveAside, CompleteBypass, EndRecovery
    <1>7. CASE RefuseChanged \/ KeepBundle \/ BeginBypass \/ Opened \/ OpenedGuarded \/
      ClearRecoveredGuard
      BY <1>7, <1>a DEF RefuseChanged, Stops, KeepBundle, BeginBypass, Opened, OpenedGuarded,
        Checkpoints, ClearRecoveredGuard, ClearGuard
    <1>8. CASE UpToDate \/ KeepGuard \/ GuardByChecksum \/ CommitToken \/ CheckpointToken \/
      GuardByToken
      BY <1>8, <1>a DEF UpToDate, KeepGuard, Unmigrated, GuardByChecksum, CommitToken, Commits,
        CheckpointToken, Checkpoints, GuardByToken
    <1>9. CASE ApplyStep \/ CheckpointStep \/ ReopenAfterStep \/ CheckpointMigrated \/
      ClearMigrationGuard
      BY <1>9, <1>a DEF ApplyStep, Commits, CheckpointStep, Checkpoints, ReopenAfterStep,
        CheckpointMigrated, ClearMigrationGuard, ClearGuard
    <1>10. CASE Start \/ Kill \/ Upgrade
      BY <1>10, <1>a DEF Start, Kill, Stops, Upgrade
    <1>11. CASE CommitWrite \/ CheckpointInUse
      BY <1>11, <1>a DEF CommitWrite, Commits, CheckpointInUse, Checkpoints
    <1>12. CASE RemoveLog
      BY <1>12, <1>a DEF RemoveLog
    <1>13. CASE TakeCopy
      BY <1>13, <1>a DEF TakeCopy
    <1>14. CASE RestoreCopy
      BY <1>14, <1>a DEF RestoreCopy
    <1> QED
      BY <1>1, <1>2, <1>3, <1>4, <1>5, <1>6, <1>7, <1>8, <1>9, <1>10, <1>11, <1>12, <1>13, <1>14 DEF
        WalNext, RecoveryStep, MigrationStep

LEMMA KeptStep == WalTypes /\ WalInv /\ WalNext => AllKept'
    <1> SUFFICES ASSUME WalTypes, WalInv, WalNext PROVE AllKept'
      OBVIOUS
    <1>a. Mem \in Content /\ (dbLog = {} => Mem = dbFile) /\ (dbLog # {} => dbLog = {Mem})
      BY MemFacts
    <1>g. logAside = {} => RowsOf(dbLog \cup logAside) \cup dbFile.rows = Mem.rows
      BY <1>a DEF WalInv, LogsExtend, RowsOf
    <1> USE DEF WalTypes, AtMostOne, WalInv, Phases, Bypassing, LogsExtend, BypassKeeps, AllKept,
      Exempt, Elsewhere, CopiedRows, RowsOf, Content, diskVars, connectVars, worldVars
    <1>1. CASE NothingToResume \/ LogRemovedByOperator \/ RefuseUnasked \/ RefuseRecovery
      BY <1>1, <1>a DEF NothingToResume, LogRemovedByOperator, EndRecovery, RefuseUnasked, Stops,
        RefuseRecovery, Refused
    <1>2. CASE AuthorizeBypass \/ MoveLogAside \/ LogMoved \/ ProofWaived
      BY <1>2, <1>a DEF AuthorizeBypass, InPhase, MarkPhase, MoveLogAside, LogMoved, ProofWaived,
        Proves
    <1>3. CASE MoveLogBack
      <2>1. dbLog' \cup logAside' = dbLog \cup logAside
        BY <1>3 DEF MoveLogBack, InPhase, Refused
      <2>2. UNCHANGED <<dbFile, written, discarded, reverted, bundled, copy>>
        BY <1>3 DEF MoveLogBack
      <2> HIDE DEF RowsOf, CopiedRows
      <2> QED
        BY <2>1, <2>2 DEF CopiedRows
    <1>4. CASE CheckpointWithoutLog
      <2>1. dbFile' = dbFile /\ dbLog' \cup logAside' = dbLog \cup logAside
        BY <1>4 DEF CheckpointWithoutLog, InPhase, Refused, Checkpoints
      <2>2. UNCHANGED <<written, discarded, reverted, bundled, copy>>
        BY <1>4 DEF CheckpointWithoutLog
      <2> HIDE DEF RowsOf, CopiedRows
      <2> QED
        BY <2>1, <2>2 DEF CopiedRows
    <1>5. CASE RemoveAside
      <2>1. /\ dbFile' = dbFile /\ dbLog = {} /\ dbLog' = {} /\ logAside' = {}
            /\ written' = written /\ reverted' = reverted
            /\ bundled' = bundled /\ copy' = copy
            /\ discarded' = IF marker.migration THEN discarded
                            ELSE discarded \cup (RowsOf(logAside) \ dbFile.rows)
        BY <1>5 DEF RemoveAside, InPhase
      <2>2. dbLog \cup logAside = logAside
        BY <2>1
      <2>3. marker.phase = "cleanup"
        BY <1>5 DEF RemoveAside, InPhase
      <2>4. CopiedRows' = CopiedRows
        BY <2>1
      <2> HIDE DEF RowsOf, CopiedRows
      <2>5. CASE marker.migration
        BY <2>1, <2>3, <2>4, <2>5
      <2>6. CASE ~marker.migration
        BY <2>1, <2>2, <2>3, <2>4, <2>6
      <2> QED
        BY <2>5, <2>6
    <1>6. CASE RejectProof \/ MarkBypassed \/ CompleteBypass
      BY <1>6, <1>a DEF RejectProof, Stops, MarkBypassed, MarkPhase, CompleteBypass, EndRecovery,
        InPhase
    <1>7. CASE RefuseChanged
      BY <1>7, <1>a DEF RefuseChanged, Stops
    <1>8. CASE KeepBundle
      BY <1>8, <1>a DEF KeepBundle
    <1>9. CASE BeginBypass
      BY <1>9, <1>a DEF BeginBypass
    <1>10. CASE Opened
      BY <1>10, <1>a DEF Opened
    <1>11. CASE OpenedGuarded
      BY <1>11, <1>a DEF OpenedGuarded, Checkpoints
    <1>12. CASE ClearRecoveredGuard
      BY <1>12, <1>a DEF ClearRecoveredGuard, ClearGuard
    <1>13. CASE UpToDate
      BY <1>13, <1>a DEF UpToDate
    <1>14. CASE KeepGuard
      BY <1>14, <1>a DEF KeepGuard, Unmigrated
    <1>15. CASE GuardByChecksum
      BY <1>15, <1>a DEF GuardByChecksum, Unmigrated
    <1>16. CASE CommitToken
      <2>1. logAside = {} /\ logAside' = {} /\ dbLog' = {[Mem EXCEPT !.token = tokens + 1]}
        BY <1>16 DEF CommitToken, Unmigrated, Commits
      <2>2. RowsOf(dbLog' \cup logAside') = Mem.rows
        BY <2>1, <1>a
      <2>3. UNCHANGED <<dbFile, written, discarded, reverted, bundled, copy>>
        BY <1>16 DEF CommitToken
      <2>5. CopiedRows' = CopiedRows
        BY <2>3
      <2> HIDE DEF RowsOf, CopiedRows
      <2> QED
        BY <2>1, <2>2, <2>3, <1>g, <2>5
    <1>17. CASE CheckpointToken
      BY <1>17, <1>a DEF CheckpointToken, Checkpoints
    <1>18. CASE GuardByToken
      BY <1>18, <1>a DEF GuardByToken
    <1>19. CASE ApplyStep
      <2>1. logAside = {} /\ logAside' = {} /\ dbLog' = {[Mem EXCEPT !.steps = @ + 1]}
        BY <1>19 DEF ApplyStep, Commits
      <2>2. RowsOf(dbLog' \cup logAside') = Mem.rows
        BY <2>1, <1>a
      <2>3. UNCHANGED <<dbFile, written, discarded, reverted, bundled, copy>>
        BY <1>19 DEF ApplyStep
      <2>5. CopiedRows' = CopiedRows
        BY <2>3
      <2> HIDE DEF RowsOf, CopiedRows
      <2> QED
        BY <2>1, <2>2, <2>3, <1>g, <2>5
    <1>20. CASE CheckpointStep
      BY <1>20, <1>a DEF CheckpointStep, Checkpoints
    <1>21. CASE ReopenAfterStep
      BY <1>21, <1>a DEF ReopenAfterStep, Checkpoints
    <1>22. CASE CheckpointMigrated
      BY <1>22, <1>a DEF CheckpointMigrated, Checkpoints
    <1>23. CASE ClearMigrationGuard
      BY <1>23, <1>a DEF ClearMigrationGuard, ClearGuard
    <1>24. CASE Start \/ Kill \/ Upgrade
      BY <1>24, <1>a DEF Start, Kill, Stops, Upgrade
    <1>25. CASE CommitWrite
      <2>1. logAside = {} /\ logAside' = {} /\ dbLog' = {[Mem EXCEPT !.rows = @ \cup {written + 1}]}
        BY <1>25 DEF CommitWrite, Commits
      <2>2. RowsOf(dbLog' \cup logAside') = Mem.rows \cup {written + 1}
        BY <2>1, <1>a
      <2>3. UNCHANGED <<dbFile, discarded, reverted, bundled, copy>>
        BY <1>25 DEF CommitWrite
      <2>4. 1 .. written' \subseteq 1 .. written \cup {written + 1}
        BY <1>25 DEF CommitWrite
      <2>5. CopiedRows' = CopiedRows
        BY <2>3
      <2> HIDE DEF RowsOf, CopiedRows
      <2> QED
        BY <2>1, <2>2, <2>3, <2>4, <1>g, <2>5
    <1>26. CASE CheckpointInUse
      BY <1>26, <1>a DEF CheckpointInUse, Checkpoints
    <1>27. CASE RemoveLog
      <2>1. /\ logAside = {} /\ logAside' = {} /\ dbLog' = {}
            /\ dbFile' = dbFile /\ written' = written /\ reverted' = reverted
            /\ bundled' = bundled /\ copy' = copy
            /\ discarded' = discarded \cup (RowsOf(dbLog) \ dbFile.rows)
        BY <1>27 DEF RemoveLog
      <2>2. dbLog \cup logAside = dbLog /\ marker.phase # "none"
        BY <1>27, <2>1 DEF RemoveLog
      <2>3. CopiedRows' = CopiedRows
        BY <2>1
      <2> HIDE DEF RowsOf, CopiedRows
      <2> QED
        BY <2>1, <2>2, <2>3
    <1>28. CASE TakeCopy
      BY <1>28, <1>a DEF TakeCopy
    <1>29. CASE RestoreCopy
      BY <1>29, <1>a DEF RestoreCopy
    <1> QED
      BY <1>1, <1>2, <1>3, <1>4, <1>5, <1>6, <1>7, <1>8, <1>9, <1>10, <1>11, <1>12, <1>13, <1>14,
        <1>15, <1>16, <1>17, <1>18, <1>19, <1>20, <1>21, <1>22, <1>23, <1>24, <1>25, <1>26, <1>27,
        <1>28, <1>29 DEF WalNext, RecoveryStep, MigrationStep

LEMMA WalInitInv == WalInit => WalTypes /\ StepsLeft /\ WalInv
    <1> SUFFICES ASSUME WalInit PROVE WalTypes /\ StepsLeft /\ WalInv
      OBVIOUS
    <1> USE WalAssumption DEF WalInit
    <1>1. WalTypes
      <2>1. NoContent \in Content /\ NoGuard \in Guard /\ NoMarker \in Marker
        BY WalValues
      <2> QED
        <3>1. /\ dbFile \in Content /\ AtMostOne(dbLog) /\ AtMostOne(logAside)
              /\ guard \in Guard /\ loaded \in Guard /\ marker \in Marker
          BY <2>1 DEF AtMostOne
        <3>2. pristine \in BOOLEAN /\ preserving \in BOOLEAN
          OBVIOUS
        <3>3. /\ released \in 0 .. MaxReleases /\ tokens \in 0 .. MaxTokens
              /\ restores \in 0 .. MaxRestores /\ written \in 0 .. MaxWritten
          OBVIOUS
        <3> QED
          BY <3>1, <3>2, <3>3 DEF WalTypes
    <1>2. StepsLeft /\ Phases /\ Guarded /\ LogsExtend
      BY DEF StepsLeft, Phases, Guarded, LogsExtend, NoMarker, NoGuard, Bypassing, Reading
    <1>3. TokensTell
      BY DEF TokensTell, Contents, Copies, NoGuard, NoContent
    <1>4. GuardsTell /\ BypassKeeps /\ AllKept
      BY DEF GuardsTell, BypassKeeps, AllKept, NoGuard, NoMarker
    <1> QED
      BY <1>1, <1>2, <1>3, <1>4 DEF WalInv

LEMMA WalStutter ==
    WalTypes /\ StepsLeft /\ WalInv /\ UNCHANGED walVars => (WalTypes /\ StepsLeft /\ WalInv)'
    <1> SUFFICES ASSUME WalTypes, StepsLeft, WalInv, UNCHANGED walVars
                 PROVE  (WalTypes /\ StepsLeft /\ WalInv)'
      OBVIOUS
    <1> USE DEF walVars
    <1>1. WalTypes'
      BY DEF WalTypes
    <1>2. Mem' = Mem /\ StepsLeft'
      BY DEF Mem, StepsLeft
    <1>3. Phases' /\ Guarded' /\ LogsExtend'
      BY DEF WalInv, Phases, Guarded, LogsExtend
    <1>4. TokensTell'
      BY <1>2 DEF WalInv, TokensTell, Contents, Copies
    <1>5. GuardsTell' /\ BypassKeeps' /\ AllKept'
      BY DEF WalInv, GuardsTell, BypassKeeps, AllKept, Exempt, Elsewhere, CopiedRows, RowsOf
    <1> QED
      BY <1>1, <1>2, <1>3, <1>4, <1>5 DEF WalInv

LEMMA WalNextInv ==
    ASSUME WalTypes, StepsLeft, WalInv, [WalNext]_walVars
    PROVE  WalTypes' /\ StepsLeft' /\ WalInv'
    <1>1. CASE WalNext
      BY <1>1, TypesStep, StepsStep, PhasesStep, GuardedStep, LogsStep, TokensStep, GuardsStep, BypassStep,
         KeptStep DEF WalInv
    <1> QED
      BY <1>1, WalStutter

LEMMA WalAlways == WalSpec => [](WalTypes /\ StepsLeft /\ WalInv)
    BY WalInitInv, WalNextInv, PTL DEF WalSpec

LEMMA WalTypesMean == WalTypes => WalTypeOK
    <1>1. \A S : AtMostOne(S) => Cardinality(S) <= 1 /\ S \subseteq Content
      <2>1. Cardinality({}) = 0
        BY FS_EmptySet
      <2>2. \A c : Cardinality({c}) = 1
        BY FS_Singleton
      <2>3. ASSUME NEW S, AtMostOne(S) PROVE Cardinality(S) <= 1 /\ S \subseteq Content
        <3>1. CASE S = {}
          BY <2>1, <3>1
        <3>2. CASE \E c \in Content : S = {c}
          BY <2>2, <3>2
        <3> QED
          BY <2>3, <3>1, <3>2 DEF AtMostOne
      <2> QED
        BY <2>3
    <1> SUFFICES ASSUME WalTypes PROVE WalTypeOK
      OBVIOUS
    <1>2. AtMostOne(dbLog) /\ AtMostOne(logAside)
      BY DEF WalTypes
    <1>3. /\ Cardinality(dbLog) <= 1 /\ dbLog \subseteq Content
          /\ Cardinality(logAside) <= 1 /\ logAside \subseteq Content
      BY <1>1, <1>2
    <1> QED
      BY <1>3 DEF WalTypes, WalTypeOK

LEMMA WalInvMeans == WalTypes /\ WalInv => WritesKept
    <1> SUFFICES ASSUME WalTypes, WalInv PROVE WritesKept
      OBVIOUS
    <1>1. /\ 1 .. written \subseteq dbFile.rows \cup RowsOf(dbLog \cup logAside) \cup discarded \cup reverted
          /\ discarded \subseteq bundled \cup CopiedRows
      BY DEF WalInv, AllKept, Exempt, Elsewhere
    <1>2. ASSUME wpc = "up" PROVE 1 .. written \subseteq Mem.rows \cup discarded \cup reverted
      <2>1. logAside = {}
        BY <1>2 DEF WalInv, Phases, Bypassing
      <2>2. dbFile.rows \cup RowsOf(dbLog \cup logAside) \subseteq Mem.rows
        BY <2>1, MemFacts DEF WalInv, LogsExtend, RowsOf
      <2> QED
        BY <1>1, <2>2
    <1> QED
      BY <1>1, <1>2 DEF WritesKept

(* Every variable keeps its type.                                          *)
THEOREM RecoveryTypes == WalSpec => []WalTypeOK
    BY WalAlways, WalTypesMean, PTL

(* No committed write is dropped by a recovery, wherever the process is    *)
(* killed, unless the operator agreed, and then a bundle or a copy has it. *)
THEOREM WritesAreKept == WalSpec => []WritesKept
    BY WalAlways, WalInvMeans, PTL
=============================================================================
