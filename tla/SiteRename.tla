------------------------------- MODULE SiteRename -------------------------------
(***************************************************************************)
(* How a site gets another domain while its hits are being stored.         *)
(* DuckDB refuses to change the domain of a row that is referenced, so     *)
(* UpdateSiteDomain (database/store_site.go) moves every reference to a    *)
(* shadow site, changes the domain, and moves them back, in transactions   *)
(* of their own.  The row of site_tenants, which says whose database the   *)
(* site's analytics are in, is one of these references; for a site without *)
(* such a row GetSiteTenantID answers the default team.                    *)
(*                                                                         *)
(* Simplifications.  The site belongs to a team that is not the default    *)
(* one, and is not transferred meanwhile.  The domain itself is left out:  *)
(* one transaction changes it.  A batch is one hit.                        *)
(***************************************************************************)
EXTENDS Naturals, FiniteSets

CONSTANTS
    Visit,              \* the hits of the site
    MaxRenames,         \* bound: requests that rename the site
    MaxRenameFaults     \* bound: failing transactions and restarts

ASSUME RenameAssumption ==
    /\ MaxRenames \in Nat
    /\ MaxRenameFaults \in Nat

VARIABLES
    refsAt,         \* the site that the mapping refers to: 0, or a shadow
    shadows,        \* the shadow sites that exist
    lateRef,        \* a row that refers to the site was added since the move
    renameStep,     \* the transaction that UpdateSiteDomain comes to next
    renames,        \* renames begun: the number of the latest is its shadow's
    ownerCache,     \* the cached answer of GetSiteTenantID
    ownerQuery,     \* what the running query of GetSiteTenantID has read
    visitAt,        \* the goroutine that stores each hit: its step and its store
    visitsIn,       \* the hits in the database of each team
    stranded,       \* ghost: the references stay parked: the rollback failed, or a restart
    renameFaults

routingVars == <<ownerCache, ownerQuery, visitAt, visitsIn>>
renameVars == <<refsAt, shadows, lateRef, renameStep, renames, routingVars, stranded,
                renameFaults>>

Answers == {"owner", "default"}
RenameSteps == {"idle", "shadow", "park", "update", "undo", "undoDelete", "delete"}

RenameInit ==
    /\ refsAt = 0
    /\ shadows = {}
    /\ lateRef = FALSE
    /\ renameStep = "idle"
    /\ renames = 0
    /\ ownerCache = "none"
    /\ ownerQuery = "none"
    /\ visitAt = [v \in Visit |-> [step |-> "waiting", team |-> "none"]]
    /\ visitsIn = [a \in Answers |-> {}]
    /\ stranded = FALSE
    /\ renameFaults = 0

-----------------------------------------------------------------------------
(* The mapping and ingest, as in SiteTransfer.                             *)

\* querySiteTenantID: no mapping means the default team.
QueryOwner ==
    /\ ownerCache = "none" /\ ownerQuery = "none"
    /\ ownerQuery' = IF refsAt = 0 THEN "owner" ELSE "default"
    /\ UNCHANGED <<refsAt, shadows, lateRef, renameStep, renames, ownerCache, visitAt,
                   visitsIn, stranded, renameFaults>>

CacheOwner ==
    /\ ownerQuery # "none"
    /\ ownerCache' = ownerQuery
    /\ ownerQuery' = "none"
    /\ UNCHANGED <<refsAt, shadows, lateRef, renameStep, renames, visitAt, visitsIn,
                   stranded, renameFaults>>

ExpireOwner ==
    /\ ownerCache # "none"
    /\ ownerCache' = "none"
    /\ UNCHANGED <<refsAt, shadows, lateRef, renameStep, renames, ownerQuery, visitAt,
                   visitsIn, stranded, renameFaults>>

ResolveVisit(v) ==
    /\ visitAt[v].step = "waiting"
    /\ ownerCache # "none"
    /\ visitAt' = [visitAt EXCEPT ![v] = [step |-> "resolved", team |-> ownerCache]]
    /\ UNCHANGED <<refsAt, shadows, lateRef, renameStep, renames, ownerCache, ownerQuery,
                   visitsIn, stranded, renameFaults>>

StoreVisit(v) ==
    /\ visitAt[v].step = "resolved"
    /\ visitAt' = [visitAt EXCEPT ![v].step = "stored"]
    /\ visitsIn' = [visitsIn EXCEPT ![visitAt[v].team] = @ \cup {v}]
    /\ UNCHANGED <<refsAt, shadows, lateRef, renameStep, renames, ownerCache, ownerQuery,
                   stranded, renameFaults>>

\* Another request stores a row that refers to the site, a goal for instance.
AddReference ==
    /\ ~lateRef
    /\ renameStep \in {"park", "update"}
    /\ lateRef' = TRUE
    /\ UNCHANGED <<refsAt, shadows, renameStep, renames, routingVars, stranded, renameFaults>>

-----------------------------------------------------------------------------
(* UpdateSiteDomain, one transaction after the other.                      *)

RenameGoes(from, to) ==
    /\ renameStep = from
    /\ renameStep' = to
    /\ UNCHANGED routingVars

\* moveSiteForeignKeys moves all that refers to the one site to the other.
RefsMoved(from, to) == refsAt' = IF refsAt = from THEN to ELSE refsAt

BeginRename ==
    /\ renames < MaxRenames
    /\ RenameGoes("idle", "shadow")
    /\ renames' = renames + 1
    /\ UNCHANGED <<refsAt, shadows, lateRef, stranded, renameFaults>>

InsertShadow ==
    /\ RenameGoes("shadow", "park")
    /\ shadows' = shadows \cup {renames}
    /\ UNCHANGED <<refsAt, lateRef, renames, stranded, renameFaults>>

ParkReferences ==
    /\ RenameGoes("park", "update")
    /\ RefsMoved(0, renames)
    /\ lateRef' = FALSE
    /\ UNCHANGED <<shadows, renames, stranded, renameFaults>>

\* The new domain, and the references back.
UpdateDomain ==
    /\ RenameGoes("update", "delete")
    /\ ~lateRef
    /\ RefsMoved(renames, 0)
    /\ UNCHANGED <<shadows, lateRef, renames, stranded, renameFaults>>

\* DuckDB rejects the new domain of a site that is referred to again.
UpdateRejected ==
    /\ RenameGoes("update", "undo")
    /\ lateRef
    /\ UNCHANGED <<refsAt, shadows, lateRef, renames, stranded, renameFaults>>

\* Mutant: the rollback only deletes the shadow.
UndoNothing ==
    /\ RenameGoes("undo", "undoDelete")
    /\ UNCHANGED <<refsAt, shadows, lateRef, renames, stranded, renameFaults>>

\* The rollback, whose errors are dropped.
UndoMove ==
    /\ RenameGoes("undo", "undoDelete")
    /\ RefsMoved(renames, 0)
    /\ UNCHANGED <<shadows, lateRef, renames, stranded, renameFaults>>

\* The shadow goes, unless it is referred to.
DeleteShadow ==
    /\ renameStep \in {"delete", "undoDelete"}
    /\ RenameGoes(renameStep, "idle")
    /\ shadows' = IF refsAt = renames THEN shadows ELSE shadows \ {renames}
    /\ UNCHANGED <<refsAt, lateRef, renames, stranded, renameFaults>>

-----------------------------------------------------------------------------
(* Faults.                                                                 *)

RenameFault == /\ renameFaults < MaxRenameFaults
               /\ renameFaults' = renameFaults + 1
               /\ UNCHANGED <<refsAt, shadows, lateRef, renames>>

\* Where UpdateSiteDomain goes when the transaction at hand fails.
AfterFailure == [shadow |-> "idle", park |-> "undo", update |-> "undo", delete |-> "idle",
                 undo |-> "undoDelete", undoDelete |-> "idle"]

TransactionFails ==
    /\ RenameFault
    /\ renameStep # "idle"
    /\ RenameGoes(renameStep, AfterFailure[renameStep])
    /\ stranded' = (stranded \/ (renameStep = "undo" /\ refsAt # 0))

\* The process restarts: no other part of the code knows of shadow sites.
RenameRestart ==
    /\ RenameFault
    /\ renameStep' = "idle"
    /\ ownerCache' = "none"
    /\ ownerQuery' = "none"
    /\ visitAt' = [v \in Visit |-> IF visitAt[v].step = "stored" THEN visitAt[v]
                                   ELSE [step |-> "waiting", team |-> "none"]]
    /\ stranded' = (stranded \/ refsAt # 0)
    /\ UNCHANGED visitsIn

-----------------------------------------------------------------------------
RenameStep == \/ InsertShadow \/ ParkReferences \/ UpdateDomain \/ UpdateRejected
              \/ UndoMove \/ DeleteShadow

RenameNext ==
    \/ QueryOwner \/ CacheOwner \/ ExpireOwner
    \/ \E v \in Visit : ResolveVisit(v) \/ StoreVisit(v)
    \/ AddReference
    \/ BeginRename \/ RenameStep
    \/ TransactionFails \/ RenameRestart

\* The request goes on, a query returns, and the cache keeps its time to live.
RenameFairness ==
    /\ WF_renameVars(RenameStep)
    /\ WF_renameVars(CacheOwner)
    /\ WF_renameVars(ExpireOwner)

RenameSpec == RenameInit /\ [][RenameNext]_renameVars /\ RenameFairness

-----------------------------------------------------------------------------
(* Properties.                                                             *)

RenameTypeOK ==
    /\ refsAt \in {0} \cup shadows
    /\ shadows \subseteq 1 .. renames
    /\ lateRef \in BOOLEAN
    /\ renameStep \in RenameSteps
    /\ renames \in 0 .. MaxRenames
    /\ ownerCache \in Answers \cup {"none"}
    /\ ownerQuery \in Answers \cup {"none"}
    /\ visitAt \in [Visit -> [step : {"waiting", "resolved", "stored"},
                              team : Answers \cup {"none"}]]
    /\ visitsIn \in [Answers -> SUBSET Visit]
    /\ stranded \in BOOLEAN
    /\ renameFaults \in 0 .. MaxRenameFaults

(* "Best-effort rollback to keep references on the original site if the    *)
(* update sequence fails." (database/store_site.go:493): whichever of its  *)
(* transactions is rejected or fails, if the rollback itself goes through  *)
(* and the process goes on, hits are routed to the site's own team again   *)
(* once the rename is over, and for ever.                                  *)
RenameRoutesBack == []~stranded => <>[](ownerCache \in {"owner", "none"})

(* "GetSiteTenantID resolves the owning tenant for a site."                *)
(* (database/store_tenant.go:104): hits are stored in the database of the  *)
(* team that owns the site, and nowhere else.                              *)
HitsStayHome == visitsIn["default"] = {}
=============================================================================
