--------------------------- MODULE Upkeep_proofs ----------------------------
(***************************************************************************)
(* Proofs about MCUpkeep, for any values of the machines' constants: the   *)
(* run that puts them side by side is a run of each of them, so that what  *)
(* is proved of a machine alone holds of it there.                         *)
(***************************************************************************)
EXTENDS MCUpkeep, SiteData_proofs, DatabaseFiles_proofs, ReportDelivery_proofs,
        ServerParts_proofs, TLAPS

-----------------------------------------------------------------------------
(* One machine runs                                                        *)

\* Whichever machine runs, each takes one of its steps or none.
LEMMA EachRunsAlone ==
    ASSUME [UpkeepNext]_upkeepVars
    PROVE  /\ [TransferNext]_transferVars /\ [RenameNext]_renameVars /\ [RollupNext]_rollupVars
           /\ [SwapNext]_swapVars /\ [SplitNext]_splitVars /\ [ConnectorNext]_connectorVars
           /\ [ReportNext]_reportVars /\ [OAuthNext]_oauthVars /\ [ClusterNext]_clusterVars
           /\ [RealtimeNext]_realtimeVars /\ [WalNext]_walVars
    <1>1. CASE UNCHANGED upkeepVars
      BY <1>1 DEF upkeepVars
    <1>2. CASE UpkeepNext
      BY <1>2 DEF UpkeepNext, InTransfer, InRename, InRollup, InSwap, InSplit, InConnector, InReport,
                  InOAuth, InCluster, InRealtime, InRecovery
    <1> QED
      BY <1>1, <1>2

-----------------------------------------------------------------------------
(* The invariants of all machines                                          *)

FilesInv == /\ SwapSound
            /\ SplitTypeOK /\ SplitInv
            /\ WalTypes /\ StepsLeft /\ WalInv
SitesInv == /\ TransferTypeOK /\ CarriedInv
            /\ RenameInv
            /\ RollupTypeOK /\ CountsStored
ServerInv == /\ ConnectorInv /\ ReportInv
             /\ OAuthTypeOK /\ PairInv /\ RefusalInv
             /\ ClusterTypeOK /\ HopInv
             /\ RealtimeInv
UpkeepInv == FilesInv /\ SitesInv /\ ServerInv

LEMMA UpkeepInitInv == UpkeepInit => UpkeepInv
    <1> SUFFICES ASSUME UpkeepInit PROVE UpkeepInv
      OBVIOUS
    <1>1. FilesInv
      BY SwapInitSound, SplitInitTypes, SplitInitInv, WalInitInv DEF UpkeepInit, FilesInv
    <1>2. SitesInv
      BY TransferInitTypes, InitCarried, RenameInitInv, RollupInitInv DEF UpkeepInit, SitesInv
    <1>3. ServerInv
      <2>1. OAuthTypeOK /\ PairInv /\ RefusalInv
        BY OAuthInitTypes, InitPair, InitRefusal DEF UpkeepInit
      <2>2. ClusterTypeOK /\ HopInv
        BY ClusterInitTypes, InitHop DEF UpkeepInit
      <2> QED
        BY <2>1, <2>2, ConnectorInitInv, ReportInitInv, RealtimeInvInit DEF UpkeepInit, ServerInv
    <1> QED
      BY <1>1, <1>2, <1>3 DEF UpkeepInv

LEMMA UpkeepNextInv ==
    ASSUME UpkeepInv, [UpkeepNext]_upkeepVars
    PROVE  UpkeepInv'
    <1>1. FilesInv'
      BY EachRunsAlone, SwapNextInv, SplitNextInv, WalNextInv DEF UpkeepInv, FilesInv
    <1>2. SitesInv'
      <2>1. RollupTypeOK' /\ CountsStored'
        BY EachRunsAlone, RollupNextTypes, CountsGrow DEF UpkeepInv, SitesInv
      <2> QED
        BY <2>1, EachRunsAlone, TransferNextTypes, NextCarried, RenameNextInv DEF UpkeepInv, SitesInv
    <1>3. ServerInv'
      <2>1. OAuthTypeOK' /\ PairInv' /\ RefusalInv'
        BY EachRunsAlone, OAuthNextTypes, NextPair, NextRefusal DEF UpkeepInv, ServerInv
      <2>2. ClusterTypeOK' /\ HopInv'
        BY EachRunsAlone, ClusterNextTypes, NextHop DEF UpkeepInv, ServerInv
      <2>3. ConnectorInv' /\ ReportInv' /\ RealtimeInv'
        BY EachRunsAlone, NextConnectorInv, NextReportInv, RealtimeInvNext DEF UpkeepInv, ServerInv
      <2> QED
        BY <2>1, <2>2, <2>3 DEF ServerInv
    <1> QED
      BY <1>1, <1>2, <1>3 DEF UpkeepInv

LEMMA UpkeepInvMeans ==
    ASSUME UpkeepInv
    PROVE  /\ UpkeepTypeOK
           /\ CarriedRowsKept /\ NothingLost /\ RowsSurvive /\ OneAuthority /\ WritesKept
           /\ OneInstance /\ GateAccounted /\ MailsAccountedFor /\ CompletedMeansDelivered
           /\ OneTokenPair /\ RefusalIsFinal /\ NoSilentGap
    <1>1. SwapTypeOK /\ NothingLost /\ SplitTypeOK /\ RowsSurvive /\ OneAuthority /\ WalTypeOK /\ WritesKept
      BY WholeNextLive, SplitInvMeans, WalTypesMean, WalInvMeans DEF UpkeepInv, FilesInv, SwapSound
    <1>2. TransferTypeOK /\ CarriedRowsKept /\ RenameTypeOK /\ RollupTypeOK
      BY CarriedSuffices DEF UpkeepInv, SitesInv, RenameInv
    <1>3. ConnectorTypeOK /\ OneInstance /\ GateAccounted
      BY PropertiesFollow DEF UpkeepInv, ServerInv
    <1>4. ReportTypeOK /\ MailsAccountedFor /\ CompletedMeansDelivered
      BY TypesFollow DEF UpkeepInv, ServerInv, ReportInv
    <1>5. OAuthTypeOK /\ OneTokenPair /\ RefusalIsFinal
      BY DEF UpkeepInv, ServerInv, PairInv, RefusalInv
    <1>6. ClusterTypeOK /\ RealtimeTypeOK /\ NoSilentGap
      BY RealtimeInvMeans DEF UpkeepInv, ServerInv
    <1> QED
      BY <1>1, <1>2, <1>3, <1>4, <1>5, <1>6 DEF UpkeepTypeOK

LEMMA UpkeepAlways == UpkeepSpec => []UpkeepInv
    BY UpkeepInitInv, UpkeepNextInv, PTL DEF UpkeepSpec

-----------------------------------------------------------------------------
(* The theorems                                                            *)

(* Every variable of every machine keeps its type, whichever machine runs. *)
THEOREM UpkeepTypes == UpkeepSpec => []UpkeepTypeOK
    BY UpkeepAlways, UpkeepInvMeans, PTL

(* What the run checks of each machine holds for every value of the        *)
(* constants: of transfers, compactions, the split of the default tenant,  *)
(* log recovery, connections, reports, grants and dashboards.              *)
THEOREM UpkeepIsSafe ==
    UpkeepSpec => [](/\ CarriedRowsKept /\ NothingLost /\ RowsSurvive /\ OneAuthority /\ WritesKept
                     /\ OneInstance /\ GateAccounted /\ MailsAccountedFor /\ CompletedMeansDelivered
                     /\ OneTokenPair /\ RefusalIsFinal /\ NoSilentGap)
    BY UpkeepAlways, UpkeepInvMeans, PTL
=============================================================================
