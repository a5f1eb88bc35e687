-------------------------------- MODULE MCUpkeep --------------------------------
(***************************************************************************)
(* The machines that keep databases, reports, grants and nodes in order,   *)
(* in one run: the initial state chooses one of them, and the others stay  *)
(* as they were at their start, with one kind of database.                 *)
(***************************************************************************)
EXTENDS SiteTransfer, SiteRename, RollupDirty, DatabaseSwap, TenantSplit,
        ReconnectingConnector, ReportDelivery, OAuthGrants, ClusterLeader,
        RealtimeBroker, WalRecovery

VARIABLE machine    \* the one that runs

upkeepVars == <<transferVars, renameVars, rollupVars, swapVars, splitVars, connectorVars,
                reportVars, oauthVars, clusterVars, realtimeVars, walVars, machine>>

UpkeepInit ==
    /\ machine \in {"transfer", "rename", "rollup", "swap", "split", "connector",
                   "report", "oauth", "cluster", "realtime", "recovery"}
    /\ TransferInit /\ RenameInit /\ RollupInit /\ SwapInit /\ SplitInit
    /\ ConnectorInit /\ ReportInit /\ OAuthInit /\ ClusterInit
    /\ RealtimeInit /\ WalInit
    /\ machine = "swap" \/ database = CHOOSE d \in Database : TRUE

\* A step of one of them is none of the others.
InTransfer(A) ==
    /\ machine = "transfer" /\ A
    /\ UNCHANGED <<machine, renameVars, rollupVars, swapVars, splitVars,
                   connectorVars, reportVars, oauthVars, clusterVars,
                   realtimeVars, walVars>>
InRename(A) ==
    /\ machine = "rename" /\ A
    /\ UNCHANGED <<machine, transferVars, rollupVars, swapVars, splitVars,
                   connectorVars, reportVars, oauthVars, clusterVars,
                   realtimeVars, walVars>>
InRollup(A) ==
    /\ machine = "rollup" /\ A
    /\ UNCHANGED <<machine, transferVars, renameVars, swapVars, splitVars,
                   connectorVars, reportVars, oauthVars, clusterVars,
                   realtimeVars, walVars>>
InSwap(A) ==
    /\ machine = "swap" /\ A
    /\ UNCHANGED <<machine, transferVars, renameVars, rollupVars, splitVars,
                   connectorVars, reportVars, oauthVars, clusterVars,
                   realtimeVars, walVars>>
InSplit(A) ==
    /\ machine = "split" /\ A
    /\ UNCHANGED <<machine, transferVars, renameVars, rollupVars, swapVars,
                   connectorVars, reportVars, oauthVars, clusterVars,
                   realtimeVars, walVars>>
InConnector(A) ==
    /\ machine = "connector" /\ A
    /\ UNCHANGED <<machine, transferVars, renameVars, rollupVars, swapVars,
                   splitVars, reportVars, oauthVars, clusterVars,
                   realtimeVars, walVars>>
InReport(A) ==
    /\ machine = "report" /\ A
    /\ UNCHANGED <<machine, transferVars, renameVars, rollupVars, swapVars,
                   splitVars, connectorVars, oauthVars, clusterVars,
                   realtimeVars, walVars>>
InOAuth(A) ==
    /\ machine = "oauth" /\ A
    /\ UNCHANGED <<machine, transferVars, renameVars, rollupVars, swapVars,
                   splitVars, connectorVars, reportVars, clusterVars,
                   realtimeVars, walVars>>
InCluster(A) ==
    /\ machine = "cluster" /\ A
    /\ UNCHANGED <<machine, transferVars, renameVars, rollupVars, swapVars,
                   splitVars, connectorVars, reportVars, oauthVars,
                   realtimeVars, walVars>>
InRealtime(A) ==
    /\ machine = "realtime" /\ A
    /\ UNCHANGED <<machine, transferVars, renameVars, rollupVars, swapVars,
                   splitVars, connectorVars, reportVars, oauthVars,
                   clusterVars, walVars>>
InRecovery(A) ==
    /\ machine = "recovery" /\ A
    /\ UNCHANGED <<machine, transferVars, renameVars, rollupVars, swapVars,
                   splitVars, connectorVars, reportVars, oauthVars,
                   clusterVars, realtimeVars>>

UpkeepNext ==
    \/ InTransfer(TransferNext) \/ InRename(RenameNext) \/ InRollup(RollupNext)
    \/ InSwap(SwapNext) \/ InSplit(SplitNext) \/ InConnector(ConnectorNext)
    \/ InReport(ReportNext) \/ InOAuth(OAuthNext) \/ InCluster(ClusterNext)
    \/ InRealtime(RealtimeNext) \/ InRecovery(WalNext)

\* The fairness of the machine that runs.
UpkeepFairness ==
    /\ WF_transferVars(InTransfer(TransferStep))
    /\ WF_transferVars(InTransfer(CacheTeam))
    /\ WF_transferVars(InTransfer(ExpireTeam))
    /\ WF_renameVars(InRename(RenameStep))
    /\ WF_renameVars(InRename(CacheOwner))
    /\ WF_renameVars(InRename(ExpireOwner))
    /\ WF_rollupVars(InRollup(Backfill))
    /\ WF_connectorVars(InConnector(\E c \in Client : RequestConn(c)))
    /\ \A c \in Client : WF_connectorVars(InConnector(ConnectStep(c)))
    /\ WF_connectorVars(InConnector(DrainTimeout))
    /\ WF_connectorVars(InConnector(RunWatchdog))
    /\ WF_reportVars(InReport(ScanStep))
    /\ \A d \in Mail : WF_reportVars(InReport(TimerElapses(d)))
    /\ WF_clusterVars(InCluster(Notify))
    /\ WF_clusterVars(InCluster(RequestStep))

UpkeepSpec == UpkeepInit /\ [][UpkeepNext]_upkeepVars /\ UpkeepFairness

(* Every variable of every machine keeps its type.                         *)
UpkeepTypeOK == TransferTypeOK /\ RenameTypeOK /\ RollupTypeOK /\ SwapTypeOK
                /\ SplitTypeOK /\ ConnectorTypeOK /\ ReportTypeOK /\ OAuthTypeOK /\ ClusterTypeOK
                /\ RealtimeTypeOK /\ WalTypeOK
=============================================================================
