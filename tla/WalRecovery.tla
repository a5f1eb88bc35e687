------------------------------ MODULE WalRecovery ------------------------------
(***************************************************************************)
(* How a database is opened (database/store.go Connect, migrate.go),       *)
(* what is done when DuckDB cannot replay its write-ahead log              *)
(* (recovery.go), and the guard by which the log of an interrupted         *)
(* migration is told from one that holds writes (migration_guard.go).      *)
(* Everything between two steps on the disk is a place where the process   *)
(* may be killed.                                                          *)
(*                                                                         *)
(* DuckDB is external.  A commit is in the log until a checkpoint has put  *)
(* it into the file; a log is modelled by what the database holds once it  *)
(* is replayed.  Any log may be one that cannot be replayed: which ones    *)
(* are depends on the version of DuckDB.  Closing a database checkpoints   *)
(* it, or fails to.                                                        *)
(*                                                                         *)
(* The option automaticWALRecovery may be set at each start: where the     *)
(* code reads it, both ways are open.  No start reads it twice.            *)
(*                                                                         *)
(* Simplifications.  The migrations are counted, in their order, and are   *)
(* rows of nobody.  The operator does not touch the files of a bypass      *)
(* under way, and restores at most one copy.  The repair of indexes, and   *)
(* errors of the file system, on which a start is refused, are left out.   *)
(***************************************************************************)
EXTENDS Naturals, FiniteSets

CONSTANTS
    MaxWritten,         \* bound: committed writes
    MaxReleases,        \* bound: migrations that releases add
    MaxTokens,          \* bound: checkpoint tokens
    MaxRestores         \* bound: copies restored

ASSUME WalAssumption ==
    /\ MaxWritten \in Nat /\ MaxReleases \in Nat
    /\ MaxTokens \in Nat /\ MaxRestores \in Nat

VARIABLES
    dbFile,             \* the database file
    dbLog,              \* its log: none, or one content
    logAside,           \* the log moved aside
    guard,              \* the migration guard
    pristine,           \* whether the file's checksum is the one of the guard
    marker,             \* the recovery marker
    bundled,            \* the writes in retained bundles
    wpc,                \* how far the process has come
    loaded,             \* the guard that Connect has read
    preserving,         \* Store.preserveMigrationGuardOnConnect, while it connects
    released,           \* the migrations of the program
    tokens,             \* tokens given so far
    copy, restores,     \* the operator's copy of the file and its log
    written,            \* ghost: the writes that were committed
    discarded,          \* ghost: those that the operator agreed to lose
    reverted            \* ghost: those that a restored copy lacks

walVars == <<dbFile, dbLog, logAside, guard, pristine, marker, bundled, wpc, loaded,
             preserving, released, tokens, copy, restores, written, discarded, reverted>>

diskVars == <<dbFile, dbLog, logAside, guard, pristine, marker, bundled>>
connectVars == <<loaded, preserving>>
worldVars == <<released, tokens, copy, restores, written, discarded, reverted>>

Content == [rows : SUBSET (1 .. MaxWritten), steps : 0 .. MaxReleases, token : 0 .. MaxTokens]
NoContent == [rows |-> {}, steps |-> 0, token |-> 0]
Guard == [kind : {"none", "token", "sum"}, of : Content]
NoGuard == [kind |-> "none", of |-> NoContent]
Marker == [phase : {"none", "awaiting", "move", "bypass", "cleanup"}, migration : BOOLEAN, proof : Guard]
NoMarker == [phase |-> "none", migration |-> FALSE, proof |-> NoGuard]

RowsOf(contents) == UNION {c.rows : c \in contents}

WalInit ==
    /\ dbFile = NoContent /\ dbLog = {} /\ logAside = {}
    /\ guard = NoGuard /\ pristine = FALSE /\ marker = NoMarker /\ bundled = {}
    /\ wpc = "down" /\ loaded = NoGuard /\ preserving = FALSE
    /\ released = 0 /\ tokens = 0 /\ copy = {} /\ restores = 0
    /\ written = 0 /\ discarded = {} /\ reverted = {}

GoesTo(p) == wpc' = p
Commits(c) == dbLog' = {c}

\* What the open database holds.
Mem == IF dbLog = {} THEN dbFile ELSE CHOOSE c \in dbLog : TRUE

\* A CHECKPOINT that finds nothing to write may leave the file's bytes alone.
Checkpoints(c) ==
    /\ dbFile' = c
    /\ dbLog' = {}
    /\ pristine' \in {b \in BOOLEAN : b => (pristine /\ c = dbFile)}

ConnectEnds == loaded' = NoGuard /\ preserving' = FALSE

\* The process is gone, with its memory.
Stops == GoesTo("down") /\ ConnectEnds

-----------------------------------------------------------------------------
(* Connect: the guard is read, and a recovery that was begun is resumed.   *)

Start ==
    /\ wpc = "down"
    /\ GoesTo("resume")
    /\ loaded' = guard
    /\ UNCHANGED <<preserving, diskVars, worldVars>>

NothingToResume ==
    /\ wpc = "resume" /\ marker.phase = "none"
    /\ GoesTo("open")
    /\ UNCHANGED <<diskVars, connectVars, worldVars>>

\* complete
EndRecovery ==
    /\ marker' = NoMarker
    /\ GoesTo("open")
    /\ UNCHANGED <<dbFile, dbLog, logAside, guard, pristine, bundled, connectVars, worldVars>>

LogRemovedByOperator ==
    /\ wpc = "resume" /\ marker.phase = "awaiting" /\ dbLog = {}
    /\ EndRecovery

\* A log that is not proven a migration's is left where it is without the
\* operator's consent: the option automaticWALRecovery, on or off.
RefuseUnasked ==
    /\ wpc = "resume" /\ marker.phase = "awaiting" /\ dbLog # {} /\ ~marker.migration
    /\ Stops
    /\ UNCHANGED <<diskVars, worldVars>>

\* The files are not those that the phase left.
Refused ==
    \/ marker.phase = "move" /\ (dbLog = {}) = (logAside = {})
    \/ marker.phase = "bypass" /\ logAside = {}

RefuseRecovery ==
    /\ wpc = "resume" /\ Refused
    /\ Stops
    /\ UNCHANGED <<diskVars, worldVars>>

InPhase(p) == wpc = "resume" /\ marker.phase = p /\ ~Refused

\* writeMarker
MarkPhase(p) ==
    /\ marker' = [marker EXCEPT !.phase = p]
    /\ UNCHANGED <<dbFile, dbLog, logAside, guard, pristine, bundled, connectVars, worldVars>>

AuthorizeBypass ==
    /\ InPhase("awaiting") /\ dbLog # {}
    /\ MarkPhase("move") /\ UNCHANGED wpc

MoveLogAside ==
    /\ InPhase("move") /\ dbLog # {}
    /\ logAside' = dbLog /\ dbLog' = {}
    /\ UNCHANGED <<wpc, dbFile, guard, pristine, marker, bundled, connectVars, worldVars>>

LogMoved ==
    /\ InPhase("move") /\ dbLog = {}
    /\ MarkPhase("bypass") /\ UNCHANGED wpc

\* verifyMigrationCheckpoint, or the checksum
Proves(proof) ==
    \/ proof.kind = "token" /\ dbFile.token = proof.of.token
    \/ proof.kind = "sum" /\ pristine

\* With the option on, the operator's consent stands in for the proof.
ProofWaived ==
    /\ InPhase("bypass") /\ marker.migration /\ ~Proves(marker.proof)
    /\ marker' = [marker EXCEPT !.migration = FALSE, !.proof = NoGuard]
    /\ UNCHANGED <<wpc, dbFile, dbLog, logAside, guard, pristine, bundled, connectVars, worldVars>>

\* restoreUnverifiedMigrationWAL, with the option off: the log is moved back, then the marker says so.
MoveLogBack ==
    /\ InPhase("bypass") /\ marker.migration /\ ~Proves(marker.proof)
    /\ dbLog' = logAside /\ logAside' = {}
    /\ GoesTo("movedBack")
    /\ UNCHANGED <<dbFile, guard, pristine, marker, bundled, connectVars, worldVars>>

RejectProof ==
    /\ wpc = "movedBack"
    /\ marker' = [phase |-> "awaiting", migration |-> FALSE, proof |-> NoGuard]
    /\ Stops
    /\ UNCHANGED <<dbFile, dbLog, logAside, guard, pristine, bundled, worldVars>>

CheckpointWithoutLog ==
    /\ InPhase("bypass") /\ (marker.migration => Proves(marker.proof))
    /\ Checkpoints(dbFile)
    /\ GoesTo("bypassed")
    /\ UNCHANGED <<logAside, guard, marker, bundled, connectVars, worldVars>>

MarkBypassed ==
    /\ wpc = "bypassed"
    /\ MarkPhase("cleanup") /\ GoesTo("resume")

\* What a proven log held needs nobody's consent.
RemoveAside ==
    /\ InPhase("cleanup") /\ logAside # {}
    /\ logAside' = {}
    /\ discarded' = IF marker.migration THEN discarded
                    ELSE discarded \cup (RowsOf(logAside) \ dbFile.rows)
    /\ UNCHANGED <<wpc, dbFile, dbLog, guard, pristine, marker, bundled, connectVars,
                   released, tokens, copy, restores, written, reverted>>

CompleteBypass ==
    /\ InPhase("cleanup") /\ logAside = {}
    /\ EndRecovery

-----------------------------------------------------------------------------
(* Connect: the database is opened, its log replayed or not.               *)

\* A checksum that does not match is refused whatever the operator's consent.
RefuseChanged ==
    /\ wpc = "open" /\ dbLog # {}
    /\ loaded.kind = "sum" /\ ~pristine
    /\ Stops
    /\ UNCHANGED <<diskVars, worldVars>>

\* createBundle, unless the checksum shows that the log is the migration's.
KeepBundle ==
    /\ wpc = "open" /\ dbLog # {}
    /\ loaded.kind = "sum" => pristine
    /\ bundled' = IF loaded.kind = "sum" THEN bundled
                  ELSE bundled \cup RowsOf({dbFile} \cup dbLog)
    /\ GoesTo("bundled")
    /\ UNCHANGED <<dbFile, dbLog, logAside, guard, pristine, marker, connectVars, worldVars>>

BeginBypass ==
    /\ wpc = "bundled"
    /\ marker' = [phase |-> "awaiting", migration |-> loaded.kind # "none", proof |-> loaded]
    /\ GoesTo("resume")
    /\ UNCHANGED <<dbFile, dbLog, logAside, guard, pristine, bundled, connectVars, worldVars>>

\* The database opens, its log replayed.  Without a guard that is all.
Opened ==
    /\ wpc = "open" /\ loaded.kind = "none"
    /\ GoesTo("migrate") /\ ConnectEnds
    /\ UNCHANGED <<diskVars, worldVars>>

\* With one, checkpointMigrationGuard.
OpenedGuarded ==
    /\ wpc = "open" /\ loaded.kind # "none"
    /\ Checkpoints(Mem)
    /\ GoesTo(IF preserving THEN "migrate" ELSE "checkpointed") /\ ConnectEnds
    /\ UNCHANGED <<logAside, guard, marker, bundled, worldVars>>

\* clearMigrationGuard
ClearGuard(p) ==
    /\ guard' = NoGuard
    /\ GoesTo(p)
    /\ UNCHANGED <<dbFile, dbLog, logAside, pristine, marker, bundled, connectVars, worldVars>>

ClearRecoveredGuard ==
    /\ wpc = "checkpointed"
    /\ ClearGuard("migrate")

-----------------------------------------------------------------------------
(* migrate, on a store that nobody writes to yet.                          *)

UpToDate ==
    /\ wpc = "migrate" /\ Mem.steps = released
    /\ GoesTo(IF guard.kind = "none" THEN "up" ELSE "migrated")
    /\ UNCHANGED <<diskVars, connectVars, worldVars>>

Unmigrated == wpc = "migrate" /\ Mem.steps < released

\* prepareGuardedMigration: a guard that is there is kept.
KeepGuard ==
    /\ Unmigrated /\ guard.kind # "none"
    /\ GoesTo("apply")
    /\ UNCHANGED <<diskVars, connectVars, worldVars>>

\* Without a log the file's checksum is the guard.
GuardByChecksum ==
    /\ Unmigrated /\ guard.kind = "none" /\ dbLog = {}
    /\ guard' = [kind |-> "sum", of |-> dbFile]
    /\ pristine' = TRUE
    /\ GoesTo("apply")
    /\ UNCHANGED <<dbFile, dbLog, logAside, marker, bundled, connectVars, worldVars>>

\* With one, a token that is committed, checkpointed, and then made the guard.
CommitToken ==
    /\ Unmigrated /\ guard.kind = "none" /\ dbLog # {}
    /\ tokens < MaxTokens
    /\ tokens' = tokens + 1
    /\ Commits([Mem EXCEPT !.token = tokens + 1])
    /\ GoesTo("token")
    /\ UNCHANGED <<dbFile, logAside, guard, pristine, marker, bundled, connectVars,
                   released, copy, restores, written, discarded, reverted>>

CheckpointToken ==
    /\ wpc = "token"
    /\ Checkpoints(Mem)
    /\ GoesTo("guard")
    /\ UNCHANGED <<logAside, guard, marker, bundled, connectVars, worldVars>>

GuardByToken ==
    /\ wpc = "guard"
    /\ guard' = [kind |-> "token", of |-> Mem]
    /\ pristine' = FALSE
    /\ GoesTo("apply")
    /\ UNCHANGED <<dbFile, dbLog, logAside, marker, bundled, connectVars, worldVars>>

\* runMigrationStep
ApplyStep ==
    /\ wpc = "apply"
    /\ Commits([Mem EXCEPT !.steps = @ + 1])
    /\ GoesTo("applied")
    /\ UNCHANGED <<dbFile, logAside, guard, pristine, marker, bundled, connectVars,
                   worldVars>>

CheckpointStep ==
    /\ wpc = "applied"
    /\ Checkpoints(Mem)
    /\ GoesTo(IF Mem.steps < released THEN "apply" ELSE "migrated")
    /\ UNCHANGED <<logAside, guard, marker, bundled, connectVars, worldVars>>

\* After a heavy migration OpenMigratedStore connects anew, under the same guard.
ReopenAfterStep ==
    /\ wpc = "applied"
    /\ Checkpoints(Mem) \/ UNCHANGED <<dbFile, dbLog, pristine>>
    /\ GoesTo("resume")
    /\ loaded' = guard /\ preserving' = TRUE
    /\ UNCHANGED <<logAside, guard, marker, bundled, worldVars>>

\* completeGuardedMigration
CheckpointMigrated ==
    /\ wpc = "migrated"
    /\ Checkpoints(Mem)
    /\ GoesTo("complete")
    /\ UNCHANGED <<logAside, guard, marker, bundled, connectVars, worldVars>>

\* Mutant: the guard is left to the next start.
LeaveMigrationGuard ==
    /\ wpc = "complete"
    /\ GoesTo("up")
    /\ UNCHANGED <<diskVars, connectVars, worldVars>>

ClearMigrationGuard ==
    /\ wpc = "complete"
    /\ ClearGuard("up")

-----------------------------------------------------------------------------
(* The database in use, and the world around it.                           *)

CommitWrite ==
    /\ wpc = "up" /\ written < MaxWritten
    /\ written' = written + 1
    /\ Commits([Mem EXCEPT !.rows = @ \cup {written + 1}])
    /\ UNCHANGED <<wpc, dbFile, logAside, guard, pristine, marker, bundled, connectVars,
                   released, tokens, copy, restores, discarded, reverted>>

\* Periodic, automatic, and at a shutdown.
CheckpointInUse ==
    /\ wpc = "up"
    /\ Checkpoints(Mem)
    /\ UNCHANGED <<wpc, logAside, guard, marker, bundled, connectVars, worldVars>>

Kill ==
    /\ wpc # "down"
    /\ Stops
    /\ UNCHANGED <<diskVars, worldVars>>

\* A release with one more migration is installed.
Upgrade ==
    /\ wpc = "down" /\ released < MaxReleases
    /\ released' = released + 1
    /\ UNCHANGED <<wpc, diskVars, connectVars, tokens, copy, restores, written, discarded, reverted>>

\* The operator does as the refused start says.
RemoveLog ==
    /\ wpc = "down" /\ marker.phase = "awaiting" /\ dbLog # {}
    /\ dbLog' = {}
    /\ discarded' = discarded \cup (RowsOf(dbLog) \ dbFile.rows)
    /\ UNCHANGED <<wpc, dbFile, logAside, guard, pristine, marker, bundled, connectVars,
                   released, tokens, copy, restores, written, reverted>>

TakeCopy ==
    /\ wpc \in {"down", "up"} /\ copy = {}
    /\ copy' = {[file |-> dbFile, log |-> dbLog]}
    /\ UNCHANGED <<wpc, diskVars, connectVars, released, tokens, restores, written, discarded, reverted>>

RestoreCopy ==
    /\ wpc = "down" /\ marker.phase \in {"none", "awaiting"} /\ restores < MaxRestores
    /\ restores' = restores + 1
    /\ \E k \in copy : /\ dbFile' = k.file
                       /\ dbLog' = k.log
                       /\ pristine' = (guard.kind = "sum" /\ k.file = guard.of)
                       /\ reverted' = reverted \cup ((1 .. written) \ RowsOf({k.file} \cup k.log))
    /\ UNCHANGED <<wpc, logAside, guard, marker, bundled, connectVars,
                   released, tokens, copy, written, discarded>>

RecoveryStep ==
    \/ NothingToResume \/ LogRemovedByOperator \/ RefuseUnasked \/ RefuseRecovery
    \/ AuthorizeBypass \/ MoveLogAside \/ LogMoved \/ ProofWaived \/ MoveLogBack \/ RejectProof
    \/ CheckpointWithoutLog \/ MarkBypassed \/ RemoveAside \/ CompleteBypass
    \/ RefuseChanged \/ KeepBundle \/ BeginBypass \/ Opened \/ OpenedGuarded \/ ClearRecoveredGuard

MigrationStep ==
    \/ UpToDate \/ KeepGuard \/ GuardByChecksum
    \/ CommitToken \/ CheckpointToken \/ GuardByToken
    \/ ApplyStep \/ CheckpointStep \/ ReopenAfterStep
    \/ CheckpointMigrated \/ ClearMigrationGuard

WalNext ==
    \/ Start \/ RecoveryStep \/ MigrationStep
    \/ CommitWrite \/ CheckpointInUse \/ Kill
    \/ Upgrade \/ RemoveLog \/ TakeCopy \/ RestoreCopy

WalSpec == WalInit /\ [][WalNext]_walVars

-----------------------------------------------------------------------------
(* Every variable keeps its type.                                          *)
WalTypeOK ==
    /\ dbFile \in Content /\ dbLog \subseteq Content /\ logAside \subseteq Content
    /\ Cardinality(dbLog) <= 1 /\ Cardinality(logAside) <= 1
    /\ guard \in Guard /\ pristine \in BOOLEAN /\ marker \in Marker
    /\ bundled \subseteq 1 .. MaxWritten
    /\ wpc \in {"down", "resume", "movedBack", "bypassed", "open", "bundled",
                "checkpointed", "migrate", "token", "guard", "apply", "applied", "migrated",
                "complete", "up"}
    /\ loaded \in Guard /\ preserving \in BOOLEAN
    /\ copy \subseteq [file : Content, log : SUBSET Content]
    /\ released \in 0 .. MaxReleases /\ tokens \in 0 .. MaxTokens /\ restores \in 0 .. MaxRestores
    /\ written \in 0 .. MaxWritten
    /\ discarded \subseteq 1 .. MaxWritten /\ reverted \subseteq 1 .. MaxWritten

CopiedRows == UNION {RowsOf({k.file} \cup k.log) : k \in copy}

(* No committed write is lost by a recovery: wherever the process is       *)
(* killed, each is in the file, in its log, or in the log set aside, but   *)
(* for what the operator agreed to lose, which a bundle keeps, or went     *)
(* back behind.  A database in use shows them all.                         *)
WritesKept ==
    /\ 1 .. written \subseteq dbFile.rows \cup RowsOf(dbLog \cup logAside) \cup discarded \cup reverted
    /\ discarded \subseteq bundled \cup CopiedRows
    /\ wpc = "up" => 1 .. written \subseteq Mem.rows \cup discarded \cup reverted
=============================================================================
