------------------------------ MODULE SiteTransfer ------------------------------
(***************************************************************************)
(* How a site's analytics follow it to another team, while hits of the     *)
(* site are being stored.  Every team has its own database; the control    *)
(* database maps the site to a team (site_tenants), and everybody asks for *)
(* that mapping through a cache.                                           *)
(*                                                                         *)
(*   TransferSiteWithQuota  (database/tenant_store_manager.go)  copies the *)
(*       site's rows, deletes them at the source, then changes the mapping *)
(*   ResolveSiteStore, GetSiteTenantID  (the cache, with one query at a    *)
(*       time through singleflight)                                        *)
(*   processMessage and the batcher  (ingest/)  resolve a hit's store, and *)
(*       persist the hit there up to seconds later                         *)
(*                                                                         *)
(* Simplifications.  One site, and one table of its rows: the tables are   *)
(* copied one after the other in the way this one is, and deleted in one   *)
(* transaction.  The mirrored sites row, goals and funnels are left out,   *)
(* and so are the permission and audit checks, which change no row that    *)
(* the properties speak of.  The size of a batch is one hit.               *)
(***************************************************************************)
EXTENDS Naturals, FiniteSets

CONSTANTS
    Team,               \* the teams, each with a database of its own
    HomeTeam,           \* the team the site was created in
    NoTeam,             \* no entry in the cache, nothing read
    Hit,                \* the hits of the site
    MaxTransfers,       \* bound: requests that transfer the site
    MaxTransferFaults   \* bound: failing statements and restarts

ASSUME TransferAssumption ==
    /\ HomeTeam \in Team
    /\ NoTeam \notin Team
    /\ MaxTransfers \in Nat
    /\ MaxTransferFaults \in Nat

VARIABLES
    siteTeam,       \* the site's row of site_tenants
    siteRows,       \* the site's rows in each team's database
    teamCache,      \* the cached answer of GetSiteTenantID
    teamQuery,      \* what the running query of GetSiteTenantID has read
    hitAt,          \* the goroutine that stores each hit: its step and its store
    transfer,       \* the request that holds siteQuotaMu: its step and its stores
    copying,        \* rows its SELECT returned and that are not inserted yet
    carried,        \* ghost: the rows that any transfer's SELECT ever returned
    route,          \* ghost: how the transfers went from team to team
    transferred,    \* how the last transfer ended
    transferCount, transferFaults

mapVars == <<siteTeam, teamCache, teamQuery>>
moveVars == <<transfer, copying, carried, route, transferred>>
transferVars == <<siteTeam, siteRows, teamCache, teamQuery, hitAt, transfer,
                  copying, carried, route, transferred, transferCount, transferFaults>>

TransferSteps == {"idle", "clear", "select", "insert", "delete", "map", "forget"}
Idle == [step |-> "idle", from |-> HomeTeam, to |-> HomeTeam]
StoredHits == {h \in Hit : hitAt[h].step = "stored"}
RowsAnywhere == UNION {siteRows[t] : t \in Team}

\* "cut": a transfer ended between its deletion at the source and its change
\* of the mapping, so that the rows are with a team the site does not belong to.
EndsAt(step) == route' = IF step = "map" /\ route = "sound" THEN "cut" ELSE route
\* "astray": another one has begun since, or one has begun at a team that only
\* a stale answer of the cache still named.
BeginsAt(team) == route' = IF team = siteTeam THEN IF route = "cut" THEN "astray" ELSE route
                           ELSE "astray"

TransferInit ==
    /\ siteTeam = HomeTeam
    /\ siteRows = [t \in Team |-> {}]
    /\ teamCache = NoTeam
    /\ teamQuery = NoTeam
    /\ hitAt = [h \in Hit |-> [step |-> "waiting", team |-> NoTeam]]
    /\ transfer = Idle
    /\ copying = {}
    /\ carried = {}
    /\ route = "sound"
    /\ transferred = "never"
    /\ transferCount = 0
    /\ transferFaults = 0

-----------------------------------------------------------------------------
(* The mapping is asked for by every request about the site, through the   *)
(* cache.                                                                  *)

\* A miss: querySiteTenantID, one query for all callers.
QueryTeam ==
    /\ teamCache = NoTeam
    /\ teamQuery = NoTeam
    /\ teamQuery' = siteTeam
    /\ UNCHANGED <<siteTeam, siteRows, teamCache, hitAt, moveVars, transferCount, transferFaults>>

\* Its answer is cached, whatever happened to the mapping since the read.
CacheTeam ==
    /\ teamQuery # NoTeam
    /\ teamCache' = teamQuery
    /\ teamQuery' = NoTeam
    /\ UNCHANGED <<siteTeam, siteRows, hitAt, moveVars, transferCount, transferFaults>>

\* Mutant: an answer that is in use does not expire.
ExpireUnusedTeam ==
    /\ teamCache \notin {hitAt[h].team : h \in {g \in Hit : hitAt[g].step = "resolved"}}
    /\ teamCache # NoTeam
    /\ teamCache' = NoTeam
    /\ UNCHANGED <<siteTeam, siteRows, teamQuery, hitAt, moveVars, transferCount, transferFaults>>

\* siteTenantTTL has passed.
ExpireTeam ==
    /\ teamCache # NoTeam
    /\ teamCache' = NoTeam
    /\ UNCHANGED <<siteTeam, siteRows, teamQuery, hitAt, moveVars, transferCount, transferFaults>>

-----------------------------------------------------------------------------
(* Ingest.                                                                 *)

\* The consumer resolves the hit's store and hands both to the batcher.
ResolveHit(h) ==
    /\ hitAt[h].step = "waiting"
    /\ teamCache # NoTeam
    /\ hitAt' = [hitAt EXCEPT ![h] = [step |-> "resolved", team |-> teamCache]]
    /\ UNCHANGED <<mapVars, siteRows, moveVars, transferCount, transferFaults>>

\* The batch is flushed to that store, and the message acknowledged.
StoreHit(h) ==
    /\ hitAt[h].step = "resolved"
    /\ siteRows' = [siteRows EXCEPT ![hitAt[h].team] = @ \cup {h}]
    /\ hitAt' = [hitAt EXCEPT ![h].step = "stored"]
    /\ UNCHANGED <<mapVars, moveVars, transferCount, transferFaults>>

-----------------------------------------------------------------------------
(* TransferSiteWithQuota: one at a time, under siteQuotaMu.                *)

\* The source is the team the cache names.
BeginTransfer(to) ==
    /\ transfer.step = "idle"
    /\ transferCount < MaxTransfers
    /\ teamCache \notin {NoTeam, to}
    /\ transfer' = [step |-> "clear", from |-> teamCache, to |-> to]
    /\ copying' = {}
    /\ BeginsAt(teamCache)
    /\ transferred' = "running"
    /\ transferCount' = transferCount + 1
    /\ UNCHANGED <<mapVars, siteRows, hitAt, carried, transferFaults>>

\* The site belongs to that team already, says the cache.
TransferToSame(to) ==
    /\ transfer.step = "idle"
    /\ transferCount < MaxTransfers
    /\ teamCache = to
    /\ copying' = {}
    /\ BeginsAt(to)
    /\ transferred' = "ok"
    /\ transferCount' = transferCount + 1
    /\ UNCHANGED <<mapVars, siteRows, hitAt, transfer, carried, transferFaults>>

\* copySiteAnalyticsTable replaces the destination's rows wholesale.
ClearDestination ==
    /\ transfer.step = "clear"
    /\ siteRows' = [siteRows EXCEPT ![transfer.to] = {}]
    /\ transfer' = [transfer EXCEPT !.step = "select"]
    /\ UNCHANGED <<mapVars, hitAt, copying, carried, route, transferred, transferCount, transferFaults>>

SelectRows ==
    /\ transfer.step = "select"
    /\ copying' = siteRows[transfer.from]
    /\ carried' = carried \cup siteRows[transfer.from]
    /\ transfer' = [transfer EXCEPT !.step = "insert"]
    /\ UNCHANGED <<mapVars, siteRows, hitAt, route, transferred, transferCount, transferFaults>>

\* One INSERT for each row.
InsertRow(h) ==
    /\ transfer.step = "insert"
    /\ h \in copying
    /\ siteRows' = [siteRows EXCEPT ![transfer.to] = @ \cup {h}]
    /\ copying' = copying \ {h}
    /\ UNCHANGED <<mapVars, hitAt, transfer, carried, route, transferred,
                   transferCount, transferFaults>>

\* Mutant: the source is cleared before the last row is inserted.
CopyAlmostDone ==
    /\ transfer.step = "insert"
    /\ Cardinality(copying) <= 1
    /\ copying' = {}
    /\ transfer' = [transfer EXCEPT !.step = "delete"]
    /\ UNCHANGED <<mapVars, siteRows, hitAt, carried, route, transferred,
                   transferCount, transferFaults>>

CopyDone ==
    /\ transfer.step = "insert"
    /\ copying = {}
    /\ transfer' = [transfer EXCEPT !.step = "delete"]
    /\ UNCHANGED <<mapVars, siteRows, hitAt, copying, carried, route, transferred,
                   transferCount, transferFaults>>

\* deleteSiteAnalyticsOnly: every row of the site, in one transaction.
DeleteAtSource ==
    /\ transfer.step = "delete"
    /\ siteRows' = [siteRows EXCEPT ![transfer.from] = {}]
    /\ transfer' = [transfer EXCEPT !.step = "map"]
    /\ UNCHANGED <<mapVars, hitAt, copying, carried, route, transferred, transferCount, transferFaults>>

\* TransferSiteTeamWithAudit commits.
ChangeMapping ==
    /\ transfer.step = "map"
    /\ siteTeam' = transfer.to
    /\ transfer' = [transfer EXCEPT !.step = "forget"]
    /\ UNCHANGED <<siteRows, teamCache, teamQuery, hitAt, copying, carried, route, transferred,
                   transferCount, transferFaults>>

\* Its deferred invalidateSiteTenantID.  SyncSite then asks for the mapping
\* like everybody else; if it succeeds the transfer has.
ForgetMapping ==
    /\ transfer.step = "forget"
    /\ teamCache' = NoTeam
    /\ transfer' = Idle
    /\ transferred' = "ok"
    /\ UNCHANGED <<siteTeam, siteRows, teamQuery, hitAt, copying, carried, route,
                   transferCount, transferFaults>>

-----------------------------------------------------------------------------
(* Faults.                                                                 *)

\* A statement of the transfer fails, or SyncSite after it: what was done
\* stays done, and the invalidation is deferred whether the mapping changed
\* or not.
TransferFails ==
    /\ transfer.step # "idle"
    /\ transferFaults < MaxTransferFaults
    /\ teamCache' = IF transfer.step \in {"map", "forget"} THEN NoTeam ELSE teamCache
    /\ EndsAt(transfer.step)
    /\ transfer' = Idle
    /\ copying' = {}
    /\ transferred' = "failed"
    /\ transferFaults' = transferFaults + 1
    /\ UNCHANGED <<siteTeam, siteRows, teamQuery, hitAt, carried, transferCount>>

\* The process restarts: hits that are not acknowledged come again.
TransferRestart ==
    /\ transferFaults < MaxTransferFaults
    /\ teamCache' = NoTeam
    /\ teamQuery' = NoTeam
    /\ hitAt' = [h \in Hit |-> IF hitAt[h].step = "stored" THEN hitAt[h]
                               ELSE [step |-> "waiting", team |-> NoTeam]]
    /\ transfer' = Idle
    /\ copying' = {}
    /\ EndsAt(transfer.step)
    /\ transferred' = IF transfer.step = "idle" THEN transferred ELSE "failed"
    /\ transferFaults' = transferFaults + 1
    /\ UNCHANGED <<siteTeam, siteRows, carried, transferCount>>

-----------------------------------------------------------------------------
TransferStep == \/ ClearDestination \/ SelectRows \/ CopyDone \/ DeleteAtSource
                \/ ChangeMapping \/ ForgetMapping
                \/ \E h \in Hit : InsertRow(h)

TransferNext ==
    \/ QueryTeam \/ CacheTeam \/ ExpireTeam
    \/ \E h \in Hit : ResolveHit(h) \/ StoreHit(h)
    \/ \E t \in Team : BeginTransfer(t) \/ TransferToSame(t)
    \/ TransferStep
    \/ TransferFails \/ TransferRestart

\* The request goes on, a query returns, and the cache keeps its time to live.
TransferFairness ==
    /\ WF_transferVars(TransferStep)
    /\ WF_transferVars(CacheTeam)
    /\ WF_transferVars(ExpireTeam)

TransferSpec == TransferInit /\ [][TransferNext]_transferVars /\ TransferFairness

-----------------------------------------------------------------------------
(* Properties.                                                             *)

TransferTypeOK ==
    /\ siteTeam \in Team
    /\ siteRows \in [Team -> SUBSET Hit]
    /\ teamCache \in Team \cup {NoTeam}
    /\ teamQuery \in Team \cup {NoTeam}
    /\ hitAt \in [Hit -> [step : {"waiting", "resolved", "stored"}, team : Team \cup {NoTeam}]]
    /\ transfer \in [step : TransferSteps, from : Team, to : Team]
    /\ copying \in SUBSET Hit
    /\ carried \in SUBSET Hit
    /\ route \in {"sound", "cut", "astray"}
    /\ transferred \in {"never", "running", "ok", "failed"}
    /\ transferCount \in 0 .. MaxTransfers
    /\ transferFaults \in 0 .. MaxTransferFaults

(* Whichever step of a transfer fails or is the last before a restart, and *)
(* however many transfers follow one another, every row that one has read  *)
(* is in some team's database, and after a success it is where the site    *)
(* now belongs: the order of copy, deletion and mapping in transferSite    *)
(* (lines 475-485).  This ends where the code itself ends it.  A transfer  *)
(* that failed between deletion and mapping leaves the rows at the         *)
(* destination and the site with the source: they are kept, but the retry  *)
(* starts from the empty source, and its first statement, the DELETE at    *)
(* the destination (lines 821-823), clears the only copy.  So does a       *)
(* transfer to the team that has the rows, begun while the cache still     *)
(* names the one it came from.                                             *)
CarriedRowsKept ==
    route # "astray" =>
        /\ carried \subseteq RowsAnywhere
        /\ transferred = "ok" => carried \subseteq siteRows[siteTeam]

(* However lookups, their cache and a transfer interleave, from some time  *)
(* on hits go to the team the site belongs to: a stale answer that was     *)
(* cached after the invalidation expires.                                  *)
RoutingSettles == <>[](teamCache \in {NoTeam, siteTeam})

(* "Moves a site into another team the caller can administer and migrates  *)
(* analytics data to the destination tenant store"                         *)
(* (server/system/api_docs_paths_site.go:550): after a success every hit   *)
(* that was acknowledged is in some store.                                 *)
AnalyticsMigrated == transferred = "ok" => StoredHits \subseteq RowsAnywhere
=============================================================================
