-------------------------- MODULE SiteData_proofs ---------------------------
(***************************************************************************)
(* Proofs about what happens to a site's analytics: SiteTransfer, for any  *)
(* teams, hits, and number of transfers and faults; SiteRename, for any    *)
(* hits and number of renames and faults; and RollupDirty, for any batches *)
(* of hits, refreshers and number of faults.  They share no variable.      *)
(***************************************************************************)
EXTENDS SiteTransfer, SiteRename, RollupDirty, TLAPS

-----------------------------------------------------------------------------
(* SiteTransfer: types                                                     *)

LEMMA TransferInitTypes == TransferInit => TransferTypeOK
    BY TransferAssumption DEF TransferInit, TransferTypeOK, Idle, TransferSteps

\* Storing a hit in a team's database keeps the type of the databases.
LEMMA StoreTypes ==
    ASSUME siteRows \in [Team -> SUBSET Hit], NEW t \in Team, NEW hits \in SUBSET Hit
    PROVE  [siteRows EXCEPT ![t] = hits] \in [Team -> SUBSET Hit]
    OBVIOUS

\* A fault is counted (TransferFails and TransferRestart).
LEMMA FaultTypes ==
    ASSUME TransferTypeOK, transferFaults < MaxTransferFaults,
           transferFaults' = transferFaults + 1
    PROVE  transferFaults' \in 0 .. MaxTransferFaults
    BY TransferAssumption DEF TransferTypeOK

\* So is a transfer (BeginTransfer and TransferToSame).
LEMMA CountTypes ==
    ASSUME TransferTypeOK, transferCount < MaxTransfers, transferCount' = transferCount + 1
    PROVE  transferCount' \in 0 .. MaxTransfers
    BY TransferAssumption DEF TransferTypeOK

\* Every action keeps the types.
LEMMA TransferNextTypes == TransferTypeOK /\ [TransferNext]_transferVars => TransferTypeOK'
    <1> SUFFICES ASSUME TransferTypeOK, [TransferNext]_transferVars PROVE TransferTypeOK'
      OBVIOUS
    <1>0. Idle \in [step : TransferSteps, from : Team, to : Team]
      BY TransferAssumption DEF Idle, TransferSteps
    <1>1. CASE UNCHANGED transferVars
      BY <1>1 DEF TransferTypeOK, transferVars
    <1>2. CASE QueryTeam \/ CacheTeam \/ ExpireTeam
      BY <1>2 DEF TransferTypeOK, QueryTeam, CacheTeam, ExpireTeam, moveVars
    <1>3. ASSUME NEW h \in Hit, ResolveHit(h) PROVE TransferTypeOK'
      <2>1. hitAt' \in [Hit -> [step : {"waiting", "resolved", "stored"}, team : Team \cup {NoTeam}]]
        BY <1>3 DEF TransferTypeOK, ResolveHit
      <2> QED
        BY <1>3, <2>1 DEF TransferTypeOK, ResolveHit, mapVars, moveVars
    <1>4. ASSUME NEW h \in Hit, StoreHit(h) PROVE TransferTypeOK'
      <2>1. hitAt' \in [Hit -> [step : {"waiting", "resolved", "stored"}, team : Team \cup {NoTeam}]]
        BY <1>4 DEF TransferTypeOK, StoreHit
      <2>2. siteRows' \in [Team -> SUBSET Hit]
        BY <1>4 DEF TransferTypeOK, StoreHit
      <2> QED
        BY <1>4, <2>1, <2>2 DEF TransferTypeOK, StoreHit, mapVars, moveVars
    <1>5. ASSUME NEW t \in Team, BeginTransfer(t) PROVE TransferTypeOK'
      <2>1. transferCount' \in 0 .. MaxTransfers
        BY <1>5, CountTypes DEF BeginTransfer
      <2>2. transfer' \in [step : TransferSteps, from : Team, to : Team]
        BY <1>5 DEF TransferTypeOK, BeginTransfer, TransferSteps
      <2> QED
        BY <1>5, <2>1, <2>2 DEF TransferTypeOK, BeginTransfer, BeginsAt, mapVars
    <1>6. ASSUME NEW t \in Team, TransferToSame(t) PROVE TransferTypeOK'
      <2>1. transferCount' \in 0 .. MaxTransfers
        BY <1>6, CountTypes DEF TransferToSame
      <2> QED
        BY <1>6, <2>1 DEF TransferTypeOK, TransferToSame, BeginsAt, mapVars
    <1>7. CASE TransferStep
      <2>1. transfer.from \in Team /\ transfer.to \in Team
        BY DEF TransferTypeOK
      <2>2. siteRows' \in [Team -> SUBSET Hit]
        BY <1>7, <2>1 DEF TransferTypeOK, TransferStep, ClearDestination, SelectRows, CopyDone,
                          DeleteAtSource, ChangeMapping, ForgetMapping, InsertRow
      <2>3. transfer' \in [step : TransferSteps, from : Team, to : Team]
        BY <1>0, <1>7 DEF TransferTypeOK, TransferStep, ClearDestination, SelectRows, CopyDone,
                          DeleteAtSource, ChangeMapping, ForgetMapping, InsertRow, TransferSteps
      <2>4. copying' \in SUBSET Hit /\ carried' \in SUBSET Hit
        BY <1>7, <2>1 DEF TransferTypeOK, TransferStep, ClearDestination, SelectRows, CopyDone,
                          DeleteAtSource, ChangeMapping, ForgetMapping, InsertRow
      <2> QED
        BY <1>7, <2>1, <2>2, <2>3, <2>4
        DEF TransferTypeOK, TransferStep, ClearDestination, SelectRows, CopyDone,
            DeleteAtSource, ChangeMapping, ForgetMapping, InsertRow, mapVars
    <1>8. CASE TransferFails
      <2>1. transferFaults' \in 0 .. MaxTransferFaults
        BY <1>8, FaultTypes DEF TransferFails
      <2> QED
        BY <1>0, <1>8, <2>1 DEF TransferTypeOK, TransferFails, EndsAt
    <1>9. CASE TransferRestart
      <2>1. transferFaults' \in 0 .. MaxTransferFaults
        BY <1>9, FaultTypes DEF TransferRestart
      <2>2. hitAt' \in [Hit -> [step : {"waiting", "resolved", "stored"}, team : Team \cup {NoTeam}]]
        BY <1>9 DEF TransferTypeOK, TransferRestart
      <2> QED
        BY <1>0, <1>9, <2>1, <2>2 DEF TransferTypeOK, TransferRestart, EndsAt
    <1> QED
      BY <1>1, <1>2, <1>3, <1>4, <1>5, <1>6, <1>7, <1>8, <1>9 DEF TransferNext

\* Every variable of the transfer keeps its type.
THEOREM TransferTypes == TransferSpec => []TransferTypeOK
    BY TransferInitTypes, TransferNextTypes, PTL DEF TransferSpec

-----------------------------------------------------------------------------
(* SiteTransfer: what a transfer has read is kept                          *)

\* h is in some team's database.
InSomeStore(h) == \E t \in Team : h \in siteRows[t]

\* Where the rows are that were ever read: at the source until the copy is
\* done, and from then on at the destination.
Underway ==
    /\ transfer.step # "idle" => transfer.from # transfer.to /\ route = "sound"
    /\ transfer.step \in {"clear", "select", "insert", "delete"} =>
           transfer.from = siteTeam /\ carried \subseteq siteRows[transfer.from]
    /\ transfer.step = "insert" => carried \ copying \subseteq siteRows[transfer.to]
    /\ transfer.step \in {"delete", "map", "forget"} => carried \subseteq siteRows[transfer.to]
    /\ transfer.step = "forget" => siteTeam = transfer.to

\* And when it is over: with the site's team, unless it was cut short.
RowsSettled ==
    /\ transfer.step = "idle" => \A h \in carried : InSomeStore(h)
    /\ transfer.step = "idle" /\ route = "sound" => carried \subseteq siteRows[siteTeam]
    /\ transferred = "ok" => transfer.step = "idle" /\ route = "sound"

CarriedInv == route # "astray" => Underway /\ RowsSettled

\* In every step the rows that were read are somewhere.
LEMMA CarriedSomewhere ==
    ASSUME TransferTypeOK, CarriedInv, route # "astray", NEW h \in carried
    PROVE  InSomeStore(h)
    <1>1. transfer.from \in Team /\ transfer.to \in Team /\ transfer.step \in TransferSteps
      BY DEF TransferTypeOK
    <1> QED
      BY <1>1 DEF CarriedInv, Underway, RowsSettled, InSomeStore, TransferSteps

\* CarriedInv is enough for CarriedRowsKept.
LEMMA CarriedSuffices == TransferTypeOK /\ CarriedInv => CarriedRowsKept
    <1> SUFFICES ASSUME TransferTypeOK, CarriedInv, route # "astray"
                 PROVE  /\ carried \subseteq RowsAnywhere
                        /\ transferred = "ok" => carried \subseteq siteRows[siteTeam]
      BY DEF CarriedRowsKept
    <1>1. ASSUME NEW h \in carried PROVE h \in RowsAnywhere
      BY CarriedSomewhere DEF InSomeStore, RowsAnywhere
    <1> QED
      BY <1>1 DEF CarriedInv, RowsSettled

LEMMA InitCarried == TransferInit => CarriedInv
    BY DEF TransferInit, CarriedInv, Underway, RowsSettled, Idle

\* Rows that only grow, in steps that leave the transfer alone, keep it all.
LEMMA CarriedStay ==
    ASSUME TransferTypeOK, CarriedInv,
           \A t \in Team : siteRows[t] \subseteq siteRows'[t],
           UNCHANGED <<moveVars, siteTeam>>
    PROVE  CarriedInv'
    <1> SUFFICES ASSUME route' # "astray" PROVE CarriedInv'
      BY DEF CarriedInv
    <1>0. /\ transfer' = transfer /\ copying' = copying /\ carried' = carried /\ route' = route
          /\ transferred' = transferred /\ siteTeam' = siteTeam
      BY DEF moveVars
    <1>1. transfer.from \in Team /\ transfer.to \in Team /\ siteTeam \in Team
      BY DEF TransferTypeOK
    <1>2. Underway /\ RowsSettled
      BY <1>0 DEF CarriedInv
    <1>3. Underway'
      BY <1>0, <1>1, <1>2 DEF Underway
    <1>4. RowsSettled'
      BY <1>0, <1>1, <1>2 DEF RowsSettled, InSomeStore
    <1> QED
      BY <1>3, <1>4 DEF CarriedInv

\* The steps of ingest and of the cache.
LEMMA IngestCarried ==
    ASSUME TransferTypeOK, CarriedInv,
           \/ QueryTeam \/ CacheTeam \/ ExpireTeam
           \/ \E h \in Hit : ResolveHit(h) \/ StoreHit(h)
    PROVE  CarriedInv'
    <1>1. CASE \E h \in Hit : StoreHit(h)
      <2>1. PICK h \in Hit : StoreHit(h)
        BY <1>1
      <2>2. \A t \in Team : siteRows[t] \subseteq siteRows'[t]
        BY <2>1 DEF StoreHit, TransferTypeOK
      <2> QED
        BY <2>1, <2>2, CarriedStay DEF StoreHit, mapVars
    <1>2. CASE \/ QueryTeam \/ CacheTeam \/ ExpireTeam
               \/ \E h \in Hit : ResolveHit(h)
      <2>1. siteRows' = siteRows /\ UNCHANGED <<moveVars, siteTeam>>
        BY <1>2 DEF QueryTeam, CacheTeam, ExpireTeam, ResolveHit, mapVars
      <2> QED
        BY <2>1, CarriedStay
    <1> QED
      BY <1>1, <1>2

\* A transfer begins (TransferSiteWithQuota, up to the copy): at the team the
\* site belongs to, which has the rows, or it leads astray.
LEMMA BeginCarried ==
    ASSUME TransferTypeOK, CarriedInv, NEW t \in Team, BeginTransfer(t) \/ TransferToSame(t)
    PROVE  CarriedInv'
    <1> SUFFICES ASSUME route' # "astray" PROVE CarriedInv'
      BY DEF CarriedInv
    <1>1. teamCache = siteTeam /\ route = "sound" /\ route' = "sound"
      BY DEF BeginTransfer, TransferToSame, BeginsAt, TransferTypeOK
    <1>2. transfer.step = "idle" /\ carried \subseteq siteRows[siteTeam]
          /\ \A h \in carried : InSomeStore(h)
      BY <1>1 DEF BeginTransfer, TransferToSame, CarriedInv, RowsSettled
    <1>3. CASE BeginTransfer(t)
      BY <1>1, <1>2, <1>3 DEF BeginTransfer, mapVars, CarriedInv, Underway, RowsSettled
    <1>4. CASE TransferToSame(t)
      BY <1>1, <1>2, <1>4 DEF TransferToSame, mapVars, CarriedInv, Underway, RowsSettled, InSomeStore
    <1> QED
      BY <1>3, <1>4

\* Each statement of the transfer.
LEMMA StepCarried ==
    ASSUME TransferTypeOK, CarriedInv, TransferStep
    PROVE  CarriedInv'
    <1> SUFFICES ASSUME route' # "astray" PROVE CarriedInv'
      BY DEF CarriedInv
    <1>0. /\ transfer.from \in Team /\ transfer.to \in Team
          /\ transfer \in [step : TransferSteps, from : Team, to : Team]
          /\ siteRows \in [Team -> SUBSET Hit]
      BY DEF TransferTypeOK
    <1>9. Underway /\ RowsSettled /\ transfer.step # "idle" /\ route' = route
      BY DEF TransferStep, ClearDestination, SelectRows, CopyDone, DeleteAtSource, ChangeMapping,
             ForgetMapping, InsertRow, CarriedInv
    <1>1. CASE ClearDestination
      BY <1>0, <1>9, <1>1 DEF ClearDestination, mapVars, CarriedInv, Underway, RowsSettled
    <1>2. CASE SelectRows
      BY <1>0, <1>9, <1>2 DEF SelectRows, mapVars, CarriedInv, Underway, RowsSettled
    <1>3. ASSUME NEW h \in Hit, InsertRow(h) PROVE CarriedInv'
      <2>1. siteRows'[transfer.to] = siteRows[transfer.to] \cup {h}
            /\ siteRows'[transfer.from] = siteRows[transfer.from]
        BY <1>0, <1>9, <1>3 DEF InsertRow, CarriedInv, Underway
      <2> QED
        BY <1>9, <1>3, <2>1 DEF InsertRow, mapVars, CarriedInv, Underway, RowsSettled
    <1>4. CASE CopyDone
      BY <1>0, <1>9, <1>4 DEF CopyDone, mapVars, CarriedInv, Underway, RowsSettled
    <1>5. CASE DeleteAtSource
      <2>1. siteRows'[transfer.to] = siteRows[transfer.to]
        BY <1>0, <1>9, <1>5 DEF DeleteAtSource, CarriedInv, Underway
      <2> QED
        BY <1>0, <1>9, <1>5, <2>1 DEF DeleteAtSource, mapVars, CarriedInv, Underway, RowsSettled
    <1>6. CASE ChangeMapping
      BY <1>0, <1>9, <1>6 DEF ChangeMapping, CarriedInv, Underway, RowsSettled
    <1>7. CASE ForgetMapping
      <2>1. carried \subseteq siteRows[siteTeam] /\ siteTeam \in Team
        BY <1>0, <1>9, <1>7 DEF ForgetMapping, CarriedInv, Underway
      <2> QED
        BY <1>9, <1>7, <2>1 DEF ForgetMapping, CarriedInv, Underway, RowsSettled, InSomeStore, Idle
    <1> QED
      BY <1>1, <1>2, <1>3, <1>4, <1>5, <1>6, <1>7 DEF TransferStep

\* And its end by a failure or a restart: after the deletion the rows stay at
\* the destination, before it at the source, which the site still belongs to.
LEMMA FaultCarried ==
    ASSUME TransferTypeOK, CarriedInv, TransferFails \/ TransferRestart
    PROVE  CarriedInv'
    <1> SUFFICES ASSUME route' # "astray" PROVE CarriedInv'
      BY DEF CarriedInv
    <1>1. /\ transfer' = Idle /\ UNCHANGED <<siteTeam, siteRows, carried>>
          /\ EndsAt(transfer.step) /\ route # "astray"
          /\ transferred' = "ok" => transferred = "ok" /\ transfer.step = "idle"
      BY DEF TransferFails, TransferRestart, EndsAt
    <1>2. \A h \in carried : InSomeStore(h)
      BY <1>1, CarriedSomewhere
    <1>3. transfer.step \in TransferSteps /\ transfer.from \in Team /\ transfer.to \in Team
      BY DEF TransferTypeOK
    <1>4. route' = "sound" => route = "sound" /\ carried \subseteq siteRows[siteTeam]
      BY <1>1, <1>3 DEF EndsAt, CarriedInv, Underway, RowsSettled, TransferSteps
    <1>5. transferred' = "ok" => route' = "sound"
      BY <1>1 DEF EndsAt, CarriedInv, RowsSettled
    <1> QED
      BY <1>1, <1>2, <1>4, <1>5 DEF CarriedInv, Underway, RowsSettled, InSomeStore, Idle

LEMMA NextCarried == TransferTypeOK /\ CarriedInv /\ [TransferNext]_transferVars => CarriedInv'
    <1> SUFFICES ASSUME TransferTypeOK, CarriedInv, [TransferNext]_transferVars
                 PROVE  CarriedInv'
      OBVIOUS
    <1>1. CASE UNCHANGED transferVars
      <2>1. siteRows' = siteRows /\ UNCHANGED <<moveVars, siteTeam>>
        BY <1>1 DEF transferVars, moveVars
      <2> QED
        BY <2>1, CarriedStay
    <1> QED
      BY <1>1, IngestCarried, BeginCarried, StepCarried, FaultCarried DEF TransferNext

\* Whichever statement of a transfer fails or is the last before a restart,
\* and whatever transfers follow, every row that one has read is in some
\* database, and after a success where the site now belongs, until a transfer
\* begins at a team whose rows an earlier one has taken away.
THEOREM CarriedRowsAreKept == TransferSpec => []CarriedRowsKept
    BY TransferTypes, InitCarried, NextCarried, CarriedSuffices, PTL DEF TransferSpec

-----------------------------------------------------------------------------
(* SiteRename: where the references are                                    *)

\* The references are with the site, or with the shadow of the rename that is
\* under way, unless that rename could not take them back.
ParkedMeanwhile ==
    refsAt # 0 => \/ stranded
                  \/ refsAt = renames /\ renameStep \in {"update", "undo"}

\* The shadow of a rename that has parked its references exists, and every
\* rename has a number of its own.
ShadowThere ==
    /\ renameStep # "idle" => renames > 0
    /\ renameStep \notin {"idle", "shadow"} => renames \in shadows

RenameInv == RenameTypeOK /\ ParkedMeanwhile /\ ShadowThere

LEMMA RenameInitInv == RenameInit => RenameInv
    <1> SUFFICES ASSUME RenameInit PROVE RenameInv
      OBVIOUS
    <1>1. /\ visitAt \in [Visit -> [step : {"waiting", "resolved", "stored"},
                                   team : Answers \cup {"none"}]]
          /\ visitsIn \in [Answers -> SUBSET Visit]
      BY DEF RenameInit
    <1>2. renames \in 0 .. MaxRenames /\ renameFaults \in 0 .. MaxRenameFaults
      BY RenameAssumption DEF RenameInit
    <1> QED
      BY <1>1, <1>2 DEF RenameInit, RenameInv, RenameTypeOK, ParkedMeanwhile, ShadowThere, RenameSteps

\* What ingest and its cache do is no concern of the rename.
LEMMA RoutingTypes ==
    ASSUME RenameTypeOK,
           \/ QueryOwner \/ CacheOwner \/ ExpireOwner
           \/ \E v \in Visit : ResolveVisit(v) \/ StoreVisit(v)
    PROVE  /\ ownerCache' \in Answers \cup {"none"} /\ ownerQuery' \in Answers \cup {"none"}
           /\ visitAt' \in [Visit -> [step : {"waiting", "resolved", "stored"},
                                      team : Answers \cup {"none"}]]
           /\ visitsIn' \in [Answers -> SUBSET Visit]
           /\ UNCHANGED <<refsAt, shadows, lateRef, renameStep, renames, stranded, renameFaults>>
    <1>1. CASE QueryOwner \/ CacheOwner \/ ExpireOwner
      BY <1>1 DEF QueryOwner, CacheOwner, ExpireOwner, RenameTypeOK, Answers
    <1>2. ASSUME NEW v \in Visit, ResolveVisit(v)
          PROVE  visitAt' \in [Visit -> [step : {"waiting", "resolved", "stored"},
                                         team : Answers \cup {"none"}]]
      <2>1. [step |-> "resolved", team |-> ownerCache]
              \in [step : {"waiting", "resolved", "stored"}, team : Answers \cup {"none"}]
        BY DEF RenameTypeOK
      <2> QED
        BY <1>2, <2>1 DEF ResolveVisit, RenameTypeOK
    <1>3. ASSUME NEW v \in Visit, StoreVisit(v)
          PROVE  /\ visitAt' \in [Visit -> [step : {"waiting", "resolved", "stored"},
                                            team : Answers \cup {"none"}]]
                 /\ visitsIn' \in [Answers -> SUBSET Visit]
      <2>1. /\ visitAt[v] \in [step : {"waiting", "resolved", "stored"}, team : Answers \cup {"none"}]
            /\ [visitAt[v] EXCEPT !.step = "stored"]
                 \in [step : {"waiting", "resolved", "stored"}, team : Answers \cup {"none"}]
        BY DEF RenameTypeOK
      <2>2. visitsIn' = [visitsIn EXCEPT ![visitAt[v].team] = visitsIn[visitAt[v].team] \cup {v}]
        BY <1>3 DEF StoreVisit
      <2>3. visitsIn' \in [Answers -> SUBSET Visit]
        BY <2>2 DEF RenameTypeOK
      <2>4. visitAt' = [visitAt EXCEPT ![v] = [visitAt[v] EXCEPT !.step = "stored"]]
        BY <1>3 DEF StoreVisit
      <2>5. visitAt' \in [Visit -> [step : {"waiting", "resolved", "stored"},
                                    team : Answers \cup {"none"}]]
        BY <2>1, <2>4 DEF RenameTypeOK
      <2> QED
        BY <2>3, <2>5
    <1> QED
      BY <1>1, <1>2, <1>3 DEF ResolveVisit, StoreVisit, RenameTypeOK

LEMMA RenameStepInv ==
    ASSUME RenameInv, BeginRename \/ RenameStep
    PROVE  RenameInv'
    <1> USE DEF RenameInv, ParkedMeanwhile, ShadowThere, RenameTypeOK, RenameGoes, RefsMoved, RenameSteps
    <1>1. MaxRenames \in Nat /\ renames \in Nat
      BY RenameAssumption
    <1>2. CASE BeginRename
      BY <1>1, <1>2 DEF BeginRename, routingVars
    <1>3. CASE InsertShadow
      BY <1>1, <1>3 DEF InsertShadow, routingVars
    <1>4. CASE ParkReferences
      BY <1>1, <1>4 DEF ParkReferences, routingVars
    <1>5. CASE UpdateDomain
      BY <1>1, <1>5 DEF UpdateDomain, routingVars
    <1>6. CASE UpdateRejected
      BY <1>1, <1>6 DEF UpdateRejected, routingVars
    <1>7. CASE UndoMove
      BY <1>1, <1>7 DEF UndoMove, routingVars
    <1>8. CASE DeleteShadow
      BY <1>1, <1>8 DEF DeleteShadow, routingVars
    <1> QED
      BY <1>2, <1>3, <1>4, <1>5, <1>6, <1>7, <1>8 DEF RenameStep

LEMMA RenameFaultInv ==
    ASSUME RenameInv, TransactionFails \/ RenameRestart
    PROVE  RenameInv'
    <1> USE DEF RenameInv, ParkedMeanwhile, ShadowThere, RenameTypeOK, RenameFault, RenameSteps
    <1>1. renameFaults' \in 0 .. MaxRenameFaults /\ UNCHANGED <<refsAt, shadows, lateRef, renames>>
      BY RenameAssumption DEF TransactionFails, RenameRestart
    <1>2. CASE TransactionFails
      <2>1. /\ renameStep # "idle" /\ renameStep' = AfterFailure[renameStep] /\ UNCHANGED routingVars
            /\ stranded' = (stranded \/ (renameStep = "undo" /\ refsAt # 0))
        BY <1>2 DEF TransactionFails, RenameGoes
      <2>2. /\ renameStep = "shadow" => renameStep' = "idle"
            /\ renameStep \in {"park", "update"} => renameStep' = "undo"
            /\ renameStep = "delete" => renameStep' = "idle"
            /\ renameStep = "undo" => renameStep' = "undoDelete"
            /\ renameStep = "undoDelete" => renameStep' = "idle"
        BY <2>1 DEF AfterFailure
      <2> QED
        BY <1>1, <2>1, <2>2 DEF routingVars
    <1>3. CASE RenameRestart
      <2>1. visitAt' \in [Visit -> [step : {"waiting", "resolved", "stored"},
                                    team : Answers \cup {"none"}]]
        BY <1>3 DEF RenameRestart
      <2> QED
        BY <1>1, <1>3, <2>1 DEF RenameRestart
    <1> QED
      BY <1>2, <1>3

LEMMA RenameNextInv == RenameInv /\ [RenameNext]_renameVars => RenameInv'
    <1> SUFFICES ASSUME RenameInv, [RenameNext]_renameVars PROVE RenameInv'
      OBVIOUS
    <1>1. CASE UNCHANGED renameVars
      BY <1>1 DEF renameVars, routingVars, RenameInv, RenameTypeOK, ParkedMeanwhile, ShadowThere
    <1>2. CASE \/ QueryOwner \/ CacheOwner \/ ExpireOwner
               \/ \E v \in Visit : ResolveVisit(v) \/ StoreVisit(v)
      BY <1>2, RoutingTypes DEF RenameInv, RenameTypeOK, ParkedMeanwhile, ShadowThere
    <1>3. CASE AddReference
      BY <1>3 DEF AddReference, routingVars, RenameInv, RenameTypeOK, ParkedMeanwhile, ShadowThere
    <1> QED
      BY <1>1, <1>2, <1>3, RenameStepInv, RenameFaultInv DEF RenameNext

\* Every variable of a rename keeps its type: in particular the mapping refers
\* to the site or to a shadow site that exists.
THEOREM RenameTypes == RenameSpec => []RenameTypeOK
    <1>1. RenameInv => RenameTypeOK
      BY DEF RenameInv
    <1> QED
      BY <1>1, RenameInitInv, RenameNextInv, PTL DEF RenameSpec

\* Whichever transactions of UpdateSiteDomain are rejected or fail, the mapping
\* is the site's own again once it is over, unless the rollback failed too or
\* the process was restarted meanwhile: what RenameRoutesBack rests on.
THEOREM ReferencesComeHome ==
    RenameSpec => [](renameStep = "idle" => refsAt = 0 \/ stranded)
    <1>1. RenameInv => (renameStep = "idle" => refsAt = 0 \/ stranded)
      BY DEF RenameInv, ParkedMeanwhile
    <1> QED
      BY <1>1, RenameInitInv, RenameNextInv, PTL DEF RenameSpec

-----------------------------------------------------------------------------
(* RollupDirty                                                             *)

\* What is counted has been stored.
CountsStored == tally \subseteq Appended

LEMMA RollupInitInv == RollupInit => RollupTypeOK /\ CountsStored
    BY RollupAssumption DEF RollupInit, RollupTypeOK, NotRefreshing, CountsStored

\* A batch that has been stored stays so, whatever becomes of the others.
LEMMA StoredStays ==
    ASSUME RollupTypeOK, [RollupNext]_rollupVars
    PROVE  Appended \subseteq Appended'
    <1>1. ASSUME NEW b \in Batch, TakeTime(b) \/ MarkDirty(b) \/ AppendHits(b) \/ BatchFails(b)
          PROVE  Appended \subseteq Appended'
      <2>1. batchAt[b] # "appended" /\ \A c \in Batch \ {b} : batchAt'[c] = batchAt[c]
        BY <1>1 DEF TakeTime, MarkDirty, AppendHits, BatchFails, BatchGoes, RollupTypeOK
      <2> QED
        BY <2>1 DEF Appended
    <1>2. CASE RollupRestart
      BY <1>2 DEF RollupRestart, Appended
    <1>3. CASE UNCHANGED batchAt
      BY <1>3 DEF Appended
    <1> QED
      BY <1>1, <1>2, <1>3
      DEF RollupNext, RefreshStep, BeginRefresh, ListDirty, CountBucket, ClearMark, RefreshFails,
          Backfill, BeginBackfill, BackfillBucket, BackfillFails, rollupVars

LEMMA RollupNextTypes ==
    ASSUME RollupTypeOK, [RollupNext]_rollupVars
    PROVE  RollupTypeOK'
    <1> DEFINE Refresh == [step : {"idle", "list", "count", "clear"}, since : SUBSET Batch]
    <1>1. /\ RollupFault => rollupFaults' \in 0 .. MaxRollupFaults
          /\ NotRefreshing \in Refresh /\ Timed \in SUBSET Batch /\ Appended \in SUBSET Batch
          /\ refresh \in [Refresher -> Refresh]
      BY RollupAssumption DEF RollupFault, RollupTypeOK, NotRefreshing, Timed, Appended
    <1>2. ASSUME NEW b \in Batch, TakeTime(b) \/ MarkDirty(b) \/ AppendHits(b) \/ BatchFails(b)
          PROVE  RollupTypeOK'
      BY <1>1, <1>2 DEF TakeTime, MarkDirty, AppendHits, BatchFails, BatchGoes, RollupFault, RollupTypeOK
    <1>3. ASSUME NEW r \in Refresher, RefreshStep(r) \/ RefreshFails(r)
          PROVE  refresh' \in [Refresher -> Refresh]
      <2>1. refresh[r] \in Refresh
        BY <1>1
      <2>2. PICK new \in Refresh : refresh' = [refresh EXCEPT ![r] = new]
        <3>1. CASE BeginRefresh(r)
          BY <1>1, <3>1 DEF BeginRefresh
        <3>2. CASE ListDirty(r)
          BY <1>1, <2>1, <3>2 DEF ListDirty
        <3>3. CASE CountBucket(r)
          <4>1. [refresh[r] EXCEPT !.step = "clear"] \in Refresh
            BY <2>1
          <4> QED
            BY <3>3, <4>1 DEF CountBucket
        <3>4. CASE ClearMark(r) \/ RefreshFails(r)
          BY <1>1, <3>4 DEF ClearMark, RefreshFails
        <3> QED
          BY <1>3, <3>1, <3>2, <3>3, <3>4 DEF RefreshStep
      <2> HIDE DEF Refresh
      <2> QED
        BY <1>1, <2>2
    <1>4. ASSUME NEW r \in Refresher, RefreshStep(r) \/ RefreshFails(r)
          PROVE  RollupTypeOK'
      BY <1>1, <1>3, <1>4
      DEF RefreshStep, BeginRefresh, ListDirty, CountBucket, ClearMark, RefreshFails, RollupFault,
          RollupTypeOK
    <1>5. CASE Backfill \/ BackfillFails
      BY <1>1, <1>5 DEF Backfill, BeginBackfill, BackfillBucket, BackfillFails, RollupFault, RollupTypeOK
    <1>6. CASE RollupRestart
      <2>1. /\ batchAt' \in [Batch -> {"new", "timed", "marked", "appended", "failed"}]
            /\ refresh' \in [Refresher -> Refresh]
        BY <1>1, <1>6 DEF RollupRestart, RollupTypeOK
      <2> QED
        BY <1>1, <1>6, <2>1 DEF RollupRestart, RollupFault, RollupTypeOK
    <1>7. CASE UNCHANGED rollupVars
      BY <1>7 DEF rollupVars, RollupTypeOK
    <1> QED
      BY <1>2, <1>4, <1>5, <1>6, <1>7 DEF RollupNext

LEMMA CountsGrow ==
    ASSUME RollupTypeOK, CountsStored, [RollupNext]_rollupVars
    PROVE  CountsStored' /\ tally \subseteq tally'
    <1>1. tally' = tally \/ (tally' = Appended /\ UNCHANGED batchAt)
      BY DEF RollupNext, TakeTime, MarkDirty, AppendHits, RefreshStep, BeginRefresh, ListDirty, CountBucket,
             ClearMark, RefreshFails, Backfill, BeginBackfill, BackfillBucket, BackfillFails, BatchFails,
             RollupRestart, RollupFault, rollupVars
    <1> QED
      BY <1>1, StoredStays DEF CountsStored

LEMMA RollupAlways == RollupSpec => [](RollupTypeOK /\ CountsStored)
    <1>1. RollupTypeOK /\ CountsStored /\ [RollupNext]_rollupVars => (RollupTypeOK /\ CountsStored)'
      BY RollupNextTypes, CountsGrow
    <1> QED
      BY <1>1, RollupInitInv, PTL DEF RollupSpec

\* Every variable of a bucket keeps its type.
THEOREM RollupTypes == RollupSpec => []RollupTypeOK
    BY RollupAlways, PTL

\* However refreshes and the backfill overlap, a batch that is once counted
\* stays counted, and none is counted that was not stored: the part of
\* EveryHitCounted that does not depend on the backfill being run.
THEOREM CountsStand == RollupSpec => []CountsStored /\ [][tally \subseteq tally']_rollupVars
    <1>1. RollupTypeOK /\ CountsStored /\ [RollupNext]_rollupVars => [tally \subseteq tally']_rollupVars
      BY CountsGrow
    <1> QED
      BY <1>1, RollupAlways, PTL DEF RollupSpec
=============================================================================
