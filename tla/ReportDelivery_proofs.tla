------------------------- MODULE ReportDelivery_proofs -------------------------
(***************************************************************************)
(* Proofs about ReportDelivery, for any recipients and numbers of          *)
(* occurrences, attempts, edits and faults.                                *)
(***************************************************************************)
EXTENDS ReportDelivery, FiniteSetTheorems, TLAPS

MailStatus == {"none", "queued", "sending", "accepted", "failed", "skipped"}
Timer == {"unset", "running", "elapsed"}
MailRow == [status : MailStatus, attempts : 0 .. ReportAttempts, timer : Timer]
Outcome == {"accepted", "failed", "skipped"}
ScanSteps == {"idle", "schedule", "claimRun", "list", "next", "load", "send", "mark",
              "count", "retryable", "finish"}
AtMail == {"load", "send", "mark", "count", "retryable", "finish"}
Scan == [step : ScanSteps, todo : SUBSET Mail, to : SUBSET Recipient, upTo : 0 .. MaxOccurrences,
         mail : SUBSET Mail, outcome : Outcome \cup {"none"}, result : RunStatus]

-----------------------------------------------------------------------------
(* The inductive invariant.                                                *)

ScheduleTypes ==
    /\ occurrence \in 0 .. MaxOccurrences
    /\ claimedUpTo \in 0 .. MaxOccurrences
    /\ reportGone \in BOOLEAN
    /\ recipients \in SUBSET Recipient
    /\ optedOut \in SUBSET Recipient
MailTypes ==
    /\ reportRun \in [Occurrence -> RunStatus]
    /\ mailRow \in [Mail -> MailRow]
    /\ sent \in [Mail -> Nat]
    /\ unrecorded \in [Mail -> Nat]
ScanTypes == scan \in Scan
ReportTyping == ScheduleTypes /\ MailTypes /\ ScanTypes

\* Occurrences are claimed in order, the latest that fell due first of all.
InOrder ==
    /\ claimedUpTo <= occurrence
    /\ scan.step = "claimRun" => claimedUpTo < scan.upTo /\ scan.upTo <= occurrence

\* What is not claimed yet has no deliveries.
Untouched ==
    \A d \in Mail : claimedUpTo < d[1] =>
        mailRow[d] = NoRow /\ sent[d] = 0 /\ unrecorded[d] = 0

\* The scan is at one delivery, or at none.
AtOne ==
    /\ scan.step \in AtMail => \E d \in Mail : scan.mail = {d}
    /\ scan.step \notin AtMail => scan.mail = {}
    /\ \A d \in scan.mail : d[1] <= claimedUpTo

\* Nobody but the scan changes the row it is at, until it is deleted, and
\* what is to be marked is known.
Held ==
    /\ \A d \in scan.mail : scan.step \in {"load", "send", "mark"} =>
           mailRow[d].status \in {"sending", "none"}
    /\ scan.step = "mark" => scan.outcome \in Outcome

Settled(d) == mailRow[d].status \in {"none", "accepted", "skipped"}
\* What was counted as completed still is when that is written.
StillCompleted ==
    \A d \in scan.mail : scan.step \in {"retryable", "finish"} /\ scan.result = "completed" =>
        \A e \in Mail : e[1] = d[1] => Settled(e)

ReportInv == /\ ReportTyping /\ InOrder /\ Untouched /\ AtOne /\ Held /\ StillCompleted
             /\ MailsAccountedFor /\ CompletedMeansDelivered

-----------------------------------------------------------------------------
(* Facts about deliveries and about the one the scan is at.                *)

LEMMA MailFacts ==
    /\ Occurrence \subseteq Nat
    /\ \A d \in Mail : d[1] \in Occurrence /\ d[2] \in Recipient
    /\ \A n \in Occurrence : \A d : d \in Deliveries(n) <=> d \in Mail /\ d[1] = n
    BY ReportAssumption DEF Occurrence, Mail, Deliveries

LEMMA CountFacts ==
    ASSUME ReportTyping
    PROVE  /\ occurrence \in Nat /\ claimedUpTo \in Nat /\ scan.upTo \in Nat
           /\ \A d \in Mail : d[1] \in Nat
    <1>1. occurrence \in 0 .. MaxOccurrences /\ claimedUpTo \in 0 .. MaxOccurrences
          /\ scan.upTo \in 0 .. MaxOccurrences
      BY DEF ReportTyping, ScheduleTypes, ScanTypes, Scan
    <1>2. \A n \in 0 .. MaxOccurrences : n \in Nat
      BY ReportAssumption
    <1> QED
      BY <1>1, <1>2, MailFacts

LEMMA CurrentFacts ==
    ASSUME AtOne, scan.step \in AtMail
    PROVE  Current \in Mail /\ scan.mail = {Current} /\ Current[1] <= claimedUpTo
    <1>1. PICK d \in Mail : scan.mail = {d}
      BY DEF AtOne
    <1>2. Current = d
      BY <1>1 DEF Current
    <1> QED
      BY <1>1, <1>2 DEF AtOne

LEMMA MarkTypes ==
    ASSUME MailTypes, NEW d \in Mail, NEW status \in MailStatus, NEW timer \in Timer,
           Mark(d, status, timer)
    PROVE  /\ mailRow' \in [Mail -> MailRow]
           /\ \A e \in Mail : e # d => mailRow'[e] = mailRow[e]
           /\ mailRow'[d].status = IF mailRow[d].status = "none" THEN "none" ELSE status
           /\ mailRow[d].status = "none" => mailRow'[d] = mailRow[d]
    BY DEF MailTypes, MailRow, Mark

\* The mails of a delivery that are accounted for while the scan stays at it.
InHand(d) == d \in scan.mail /\ scan.step = "mark" /\ scan.outcome = "accepted"

-----------------------------------------------------------------------------
(* The initial state.                                                      *)

LEMMA ReportInitInv == ReportInit => ReportInv
    <1> SUFFICES ASSUME ReportInit PROVE ReportInv
      OBVIOUS
    <1>1. ReportTyping
      <2>0. 0 \in 0 .. MaxOccurrences
        BY ReportAssumption
      <2>1. ScheduleTypes
        BY <2>0, Zenon DEF ReportInit, ScheduleTypes
      <2>2. NoRow \in MailRow
        BY ReportAssumption DEF MailRow, MailStatus, NoRow, Timer
      <2>3. MailTypes
        BY <2>2 DEF ReportInit, MailTypes, RunStatus
      <2>4. ScanTypes
        BY ReportAssumption DEF ReportInit, ScanTypes, Scan, AsleepScan, ScanSteps, RunStatus
      <2> QED
        BY <2>1, <2>3, <2>4 DEF ReportTyping
    <1>2. InOrder /\ Untouched /\ AtOne /\ Held /\ StillCompleted
      BY MailFacts
      DEF ReportInit, AsleepScan, InOrder, Untouched, AtOne, AtMail, Held, StillCompleted
    <1>3. MailsAccountedFor /\ CompletedMeansDelivered
      BY MailFacts DEF ReportInit, AsleepScan, NoRow, MailsAccountedFor, CompletedMeansDelivered
    <1> QED
      BY <1>1, <1>2, <1>3 DEF ReportInv

-----------------------------------------------------------------------------
(* Steps that change neither a delivery nor the scan.                      *)

Quiet == UNCHANGED <<claimedUpTo, reportRun, mailRow, scan, sent, unrecorded>>

LEMMA QuietInv ==
    ASSUME ReportInv, Quiet, ScheduleTypes', occurrence <= occurrence'
    PROVE  ReportInv'
    <1>1. ReportTyping'
      BY DEF ReportInv, Quiet, ReportTyping, ScheduleTypes, MailTypes, ScanTypes
    <1>4. InOrder'
      <2>1. claimedUpTo \in Nat /\ occurrence \in Nat /\ scan.upTo \in Nat /\ occurrence' \in Nat
        <3>1. occurrence' \in Nat
          BY ReportAssumption DEF ScheduleTypes
        <3> QED
          BY <3>1, CountFacts DEF ReportInv
      <2> QED
        BY <2>1 DEF ReportInv, Quiet, InOrder
    <1>2. Untouched' /\ AtOne' /\ Held' /\ StillCompleted'
      BY DEF ReportInv, Quiet, Untouched, AtOne, Held, StillCompleted, Settled
    <1>3. MailsAccountedFor' /\ CompletedMeansDelivered'
      BY DEF ReportInv, Quiet, MailsAccountedFor, CompletedMeansDelivered
    <1> QED
      BY <1>1, <1>2, <1>3, <1>4 DEF ReportInv

LEMMA DueInv ==
    ASSUME ReportInv, ScheduleFallsDue
    PROVE  ReportInv'
    <1>1. ScheduleTypes' /\ occurrence <= occurrence'
      BY ReportAssumption
      DEF ReportInv, ReportTyping, ScheduleTypes, ScheduleFallsDue, userVars
    <1> QED
      BY <1>1, QuietInv DEF ScheduleFallsDue, Quiet, mailGhosts

LEMMA ConsentInv ==
    ASSUME ReportInv,
           \E r \in Recipient : Unsubscribe(r) \/ Resubscribe(r) \/ RemoveRecipient(r)
    PROVE  ReportInv'
    <1>1. ScheduleTypes' /\ occurrence <= occurrence'
      BY DEF ReportInv, ReportTyping, ScheduleTypes, Unsubscribe, Resubscribe, RemoveRecipient,
             Edit, scheduleVars
    <1> QED
      BY <1>1, QuietInv
      DEF Unsubscribe, Resubscribe, RemoveRecipient, Edit, Quiet, scheduleVars, mailGhosts

LEMMA StutterReport ==
    ASSUME ReportInv, UNCHANGED reportVars
    PROVE  ReportInv'
    <1>1. ScheduleTypes' /\ occurrence <= occurrence'
      BY DEF ReportInv, ReportTyping, ScheduleTypes, reportVars, scheduleVars, userVars
    <1> QED
      BY <1>1, QuietInv DEF reportVars, Quiet, scheduleVars, mailGhosts

-----------------------------------------------------------------------------
(* Steps of the scan that change nothing else.                             *)

LEMMA ScanOnlyInv ==
    ASSUME ReportInv,
           UNCHANGED <<scheduleVars, userVars, reportRun, mailRow, mailGhosts>>,
           scan' \in Scan, InOrder', AtOne', Held', StillCompleted',
           \A d \in Mail : InHand(d)' <=> InHand(d)
    PROVE  ReportInv'
    <1>1. ReportTyping' /\ Untouched'
      BY DEF ReportInv, ReportTyping, ScheduleTypes, MailTypes, ScanTypes, Untouched,
             scheduleVars, userVars, mailGhosts
    <1>2. MailsAccountedFor'
      BY DEF ReportInv, MailsAccountedFor, InHand, mailGhosts
    <1>3. CompletedMeansDelivered'
      BY DEF ReportInv, CompletedMeansDelivered
    <1> QED
      BY <1>1, <1>2, <1>3 DEF ReportInv

LEMMA ReadScheduleInv ==
    ASSUME ReportInv, ReadSchedule
    PROVE  ReportInv'
    <1>1. scan \in Scan /\ ScheduleTypes
      BY DEF ReportInv, ReportTyping, ScanTypes
    <1>2. scan' \in Scan
      BY <1>1 DEF ReadSchedule, Scan, ScanSteps, ScheduleTypes
    <1>3. scan.mail = {} /\ scan'.mail = {} /\ scan'.step \in {"list", "claimRun"}
      BY <1>1 DEF ReadSchedule, Scan, ReportInv, AtOne, AtMail
    <1>4. InOrder'
      BY <1>1 DEF ReadSchedule, Scan, ReportInv, InOrder, ScheduleTypes, scheduleVars
    <1>5. AtOne' /\ Held' /\ StillCompleted' /\ \A d \in Mail : InHand(d)' <=> InHand(d)
      BY <1>3 DEF AtOne, Held, StillCompleted, InHand, AtMail
    <1> QED
      BY <1>2, <1>4, <1>5, ScanOnlyInv DEF ReadSchedule

\* Steps that go from no delivery to none.
LEMMA BetweenInv ==
    ASSUME ReportInv, ListDueMail \/ EndScan \/ ScanFails \/ \E d \in Mail : ClaimFails(d)
    PROVE  ReportInv'
    <1>1. scan \in Scan
      BY DEF ReportInv, ReportTyping, ScanTypes
    <1>2. AsleepScan \in Scan /\ AsleepScan.mail = {} /\ AsleepScan.step = "idle"
      BY ReportAssumption DEF Scan, ScanSteps, AsleepScan, RunStatus
    <1>3. scan' \in Scan /\ scan'.mail = scan.mail /\ scan'.step \in {"next", "idle"}
          /\ scan.step \notin AtMail
      <2>1. CASE scan' = AsleepScan /\ scan.step \in {"next", "schedule", "claimRun", "list"}
        BY <1>1, <1>2, <2>1 DEF ReportInv, AtOne, AtMail
      <2>2. CASE ListDueMail
        BY <1>1, <2>2 DEF ListDueMail, Scan, ScanSteps, AtMail
      <2>3. CASE \E d \in Mail : ClaimFails(d)
        BY <1>1, <2>3 DEF ClaimFails, Scan, ScanSteps, AtMail
      <2> QED
        BY <2>1, <2>2, <2>3 DEF EndScan, ScanFails
    <1>6. scan.mail = {}
      BY <1>3 DEF ReportInv, AtOne
    <1>4. UNCHANGED <<scheduleVars, userVars, reportRun, mailRow, mailGhosts>>
      BY DEF ListDueMail, EndScan, ScanFails, ClaimFails, ReportFault, mailGhosts
    <1>5. InOrder' /\ AtOne' /\ Held' /\ StillCompleted' /\ \A d \in Mail : InHand(d)' <=> InHand(d)
      BY <1>3, <1>4, <1>6
      DEF ReportInv, InOrder, AtOne, Held, StillCompleted, InHand, AtMail, scheduleVars
    <1> QED
      BY <1>3, <1>4, <1>5, ScanOnlyInv

LEMMA CountInv ==
    ASSUME ReportInv, CountMail
    PROVE  ReportInv'
    <1> DEFINE Open == RowsWith(Current[1], "queued") \cup RowsWith(Current[1], "sending")
    <1>1. scan \in Scan /\ Current \in Mail /\ scan.mail = {Current} /\ Current[1] <= claimedUpTo
      BY CurrentFacts DEF ReportInv, ReportTyping, ScanTypes, CountMail, AtMail
    <1>2. SettledResult(Current[1]) \in RunStatus /\ "running" \in RunStatus
      BY DEF SettledResult, RunStatus
    <1>3. scan' \in Scan /\ scan'.mail = {Current} /\ scan'.step \in {"retryable", "finish"}
      BY <1>1, <1>2 DEF CountMail, Scan, ScanSteps
    <1>6. scan'.result = "completed" => Open = {} /\ SettledResult(Current[1]) = "completed"
      BY <1>1 DEF CountMail, Scan
    <1>4. StillCompleted'
      <2>1. ASSUME Open = {}, SettledResult(Current[1]) = "completed",
                   NEW e \in Mail, e[1] = Current[1]
            PROVE  Settled(e)
        <3>1. e \in Deliveries(Current[1])
          BY <1>1, <2>1, MailFacts
        <3>2. mailRow[e].status \in MailStatus
          BY DEF ReportInv, ReportTyping, MailTypes, MailRow
        <3>3. \A status \in {"queued", "sending", "failed"} : RowsWith(Current[1], status) = {}
          BY <2>1 DEF SettledResult
        <3> QED
          BY <3>1, <3>2, <3>3 DEF RowsWith, Settled, MailStatus
      <2> QED
        BY <1>3, <1>6, <2>1 DEF CountMail, StillCompleted, Settled
    <1>5. InOrder' /\ AtOne' /\ Held' /\ \A d \in Mail : InHand(d)' <=> InHand(d)
      BY <1>1, <1>3 DEF CountMail, ReportInv, InOrder, AtOne, Held, InHand, AtMail, scheduleVars
    <1> QED
      BY <1>3, <1>4, <1>5, ScanOnlyInv DEF CountMail

\* A result that is not "running" stays what it was counted as.
LEMMA CheckRetryableInv ==
    ASSUME ReportInv, CheckRetryable \/ CheckRetryableFails
    PROVE  ReportInv'
    <1>1. scan \in Scan /\ Current \in Mail /\ scan.mail = {Current} /\ Current[1] <= claimedUpTo
          /\ scan.step = "retryable"
      BY CurrentFacts
      DEF ReportInv, ReportTyping, ScanTypes, CheckRetryable, CheckRetryableFails, AtMail
    <1>2. "running" \in RunStatus
      BY DEF RunStatus
    <1>3. scan' \in Scan /\ scan'.mail = scan.mail /\ scan'.step = "finish"
          /\ scan'.result \in {scan.result, "running"}
      BY <1>1, <1>2 DEF CheckRetryable, CheckRetryableFails, Scan, ScanSteps
    <1>4. UNCHANGED <<scheduleVars, userVars, reportRun, mailRow, mailGhosts>>
      BY DEF CheckRetryable, CheckRetryableFails, ReportFault, mailGhosts
    <1>5. InOrder' /\ AtOne' /\ Held' /\ StillCompleted' /\ \A d \in Mail : InHand(d)' <=> InHand(d)
      BY <1>1, <1>3, <1>4
      DEF ReportInv, InOrder, AtOne, Held, StillCompleted, Settled, InHand, AtMail, scheduleVars
    <1> QED
      BY <1>3, <1>4, <1>5, ScanOnlyInv

-----------------------------------------------------------------------------
(* Steps that change deliveries that the scan is not at.                   *)

\* A row goes from one state that is not yet settled to another, or only its
\* timer changes.
LEMMA RowsOnlyInv ==
    ASSUME ReportInv,
           UNCHANGED <<scheduleVars, userVars, reportRun, mailGhosts>>,
           mailRow' \in [Mail -> MailRow], scan' \in Scan, scan'.mail = scan.mail,
           scan'.step = scan.step \/ {scan.step, scan'.step} \cap (AtMail \cup {"claimRun"}) = {},
           scan'.upTo = scan.upTo, scan'.outcome = scan.outcome, scan'.result = scan.result,
           \A d \in Mail : \/ mailRow'[d].status = mailRow[d].status
                           \/ /\ mailRow[d].status \in {"failed", "sending"}
                              /\ mailRow'[d].status \in {"failed", "queued"}
                              /\ scan.step \notin AtMail \/ mailRow[d].status = "failed",
           \A d \in Mail : mailRow[d] = NoRow => mailRow'[d] = NoRow
    PROVE  ReportInv'
    <1>1. scan \in Scan
      BY DEF ReportInv, ReportTyping, ScanTypes
    <1>2. ReportTyping'
      BY DEF ReportInv, ReportTyping, ScheduleTypes, MailTypes, ScanTypes,
             scheduleVars, userVars, mailGhosts
    <1>3. InOrder'
      BY DEF ReportInv, InOrder, scheduleVars
    <1>4. Untouched'
      BY DEF ReportInv, Untouched, scheduleVars, mailGhosts
    <1>5. AtOne'
      BY DEF ReportInv, AtOne, scheduleVars
    <1>6. Held'
      <2>1. ASSUME NEW d \in scan.mail, scan'.step \in {"load", "send", "mark"}
            PROVE  mailRow'[d].status \in {"sending", "none"}
        <3>1. scan.step = scan'.step /\ scan.step \in AtMail
          BY <2>1 DEF AtMail
        <3>2. d \in Mail /\ mailRow[d].status \in {"sending", "none"}
          BY <2>1, <3>1 DEF ReportInv, Held, AtOne
        <3> QED
          BY <3>1, <3>2
      <2>2. scan'.step = "mark" => scan'.outcome \in Outcome
        BY DEF ReportInv, Held, AtMail
      <2> QED
        BY <2>1, <2>2 DEF Held
    <1>7. StillCompleted'
      <2>1. SUFFICES ASSUME NEW d \in scan.mail, scan'.step \in {"retryable", "finish"},
                            scan.result = "completed",
                            NEW e \in Mail, e[1] = d[1]
                     PROVE  Settled(e)'
        BY DEF StillCompleted
      <2>2. scan.step \in {"retryable", "finish"}
        BY <2>1 DEF AtMail
      <2>3. Settled(e)
        BY <2>1, <2>2 DEF ReportInv, StillCompleted
      <2> QED
        BY <2>3 DEF Settled
    <1>8. MailsAccountedFor'
      <2>1. scan'.step = "mark" <=> scan.step = "mark"
        BY DEF AtMail
      <2>2. UNCHANGED <<sent, unrecorded>>
        BY DEF mailGhosts
      <2>3. \A d \in Mail : mailRow'[d].status = "accepted" <=> mailRow[d].status = "accepted"
        OBVIOUS
      <2>4. \A d \in Mail : mailRow'[d].status # "none" => mailRow[d].status # "none"
        OBVIOUS
      <2> QED
        BY <2>1, <2>2, <2>3, <2>4 DEF ReportInv, MailsAccountedFor
    <1>9. CompletedMeansDelivered'
      BY DEF ReportInv, CompletedMeansDelivered
    <1> QED
      BY <1>2, <1>3, <1>4, <1>5, <1>6, <1>7, <1>8, <1>9 DEF ReportInv

LEMMA TimerInv ==
    ASSUME ReportInv, NEW d \in Mail, TimerElapses(d)
    PROVE  ReportInv'
    <1>1. mailRow \in [Mail -> MailRow] /\ scan \in Scan
      BY DEF ReportInv, ReportTyping, MailTypes, ScanTypes
    <1>2. mailRow' \in [Mail -> MailRow]
      BY <1>1 DEF TimerElapses, MailRow, Timer
    <1>3. \A e \in Mail : mailRow'[e].status = mailRow[e].status
                         /\ (mailRow[e] = NoRow => mailRow'[e] = NoRow)
      BY <1>1 DEF TimerElapses, MailRow, NoRow
    <1> QED
      BY <1>1, <1>2, <1>3, RowsOnlyInv DEF TimerElapses

LEMMA BeginScanInv ==
    ASSUME ReportInv, BeginScan
    PROVE  ReportInv'
    <1>1. mailRow \in [Mail -> MailRow] /\ scan \in Scan
      BY DEF ReportInv, ReportTyping, MailTypes, ScanTypes
    <1>2. mailRow' \in [Mail -> MailRow]
      BY <1>1 DEF BeginScan, MailRow, MailStatus
    <1>3. scan' \in Scan /\ scan'.mail = scan.mail /\ scan.step = "idle" /\ scan'.step = "schedule"
          /\ scan'.upTo = scan.upTo /\ scan'.outcome = scan.outcome /\ scan'.result = scan.result
      BY <1>1 DEF BeginScan, Scan, ScanSteps
    <1>4. \A e \in Mail : \/ mailRow'[e] = mailRow[e]
                          \/ mailRow[e].status = "sending" /\ mailRow'[e].status = "failed"
      BY <1>1 DEF BeginScan, MailRow
    <1> QED
      BY <1>2, <1>3, <1>4, RowsOnlyInv DEF BeginScan, AtMail, NoRow

LEMMA RetryInv ==
    ASSUME ReportInv, NEW n \in Occurrence, RetryReportRun(n)
    PROVE  ReportInv'
    <1>1. mailRow \in [Mail -> MailRow] /\ scan \in Scan
      BY DEF ReportInv, ReportTyping, MailTypes, ScanTypes
    <1>2. QueuedRow \in MailRow
      BY ReportAssumption DEF QueuedRow, MailRow, MailStatus, Timer
    <1>3. mailRow' \in [Mail -> MailRow]
      BY <1>1, <1>2 DEF RetryReportRun
    <1>4. \A e \in Mail : \/ mailRow'[e] = mailRow[e]
                          \/ mailRow[e].status = "failed" /\ mailRow'[e].status = "queued"
      BY <1>1 DEF RetryReportRun, RowsWith, QueuedRow
    <1>5. UNCHANGED <<scheduleVars, userVars, reportRun, mailGhosts, scan>>
      BY DEF RetryReportRun, Edit
    <1> QED
      BY <1>1, <1>3, <1>4, <1>5, RowsOnlyInv DEF NoRow

LEMMA ClaimRunInv ==
    ASSUME ReportInv, NEW late \in BOOLEAN, ClaimRun(late)
    PROVE  ReportInv'
    <1>1. scan \in Scan /\ ScheduleTypes /\ MailTypes
      BY DEF ReportInv, ReportTyping, ScanTypes
    <1>2. scan.mail = {} /\ claimedUpTo < scan.upTo /\ scan.upTo \in Occurrence
          /\ scan.to \subseteq Recipient
      BY <1>1 DEF ClaimRun, ReportInv, AtOne, AtMail, InOrder, Scan, ScheduleTypes, Occurrence
    <1>3. scan' \in Scan /\ scan'.mail = {} /\ scan'.step = "list"
      <2>1. 0 \in 0 .. MaxOccurrences
        BY ReportAssumption
      <2>2. scan' = [scan EXCEPT !.step = "list", !.to = {}, !.upTo = 0]
        BY DEF ClaimRun
      <2> QED
        BY <1>1, <1>2, <2>1, <2>2 DEF Scan, ScanSteps
    <1>4. QueuedRow \in MailRow /\ QueuedRow.status = "queued"
      BY ReportAssumption DEF QueuedRow, MailRow, MailStatus, Timer
    <1>5. MailTypes'
      BY <1>1, <1>4 DEF ClaimRun, MailTypes, RunStatus, mailGhosts
    <1>6. \A d \in Mail : \/ mailRow'[d] = mailRow[d]
                          \/ mailRow'[d] = QueuedRow /\ d[1] = scan.upTo /\ mailRow[d] = NoRow
                             /\ sent[d] = 0 /\ unrecorded[d] = 0 /\ claimedUpTo' = scan.upTo
                             /\ reportRun'[d[1]] = "queued"
      BY <1>1, <1>2 DEF ClaimRun, MailTypes, ReportInv, Untouched
    <1>7. \A n \in Occurrence : reportRun'[n] = "completed" => reportRun[n] = "completed"
      BY <1>1 DEF ClaimRun, MailTypes
    <1>8. claimedUpTo' \in {claimedUpTo, scan.upTo} /\ UNCHANGED <<occurrence, userVars, mailGhosts>>
      BY DEF ClaimRun
    <1>9. ReportTyping'
      BY <1>1, <1>3, <1>5, <1>8 DEF ReportTyping, ScheduleTypes, ScanTypes, userVars, Scan
    <1>10. InOrder'
      <2>1. scan.upTo <= occurrence
        BY DEF ReportInv, InOrder, ClaimRun
      <2> QED
        BY <1>3, <1>8, <2>1 DEF ReportInv, InOrder
    <1>11. Untouched'
      <2>1. SUFFICES ASSUME NEW d \in Mail, claimedUpTo' < d[1]
                     PROVE  mailRow'[d] = NoRow /\ sent'[d] = 0 /\ unrecorded'[d] = 0
        BY DEF Untouched
      <2>2. d[1] \in Nat /\ claimedUpTo \in Nat /\ scan.upTo \in Nat
        BY CountFacts DEF ReportInv
      <2>3. claimedUpTo < d[1] /\ mailRow'[d] = mailRow[d]
        BY <1>2, <1>6, <1>8, <2>1, <2>2
      <2> QED
        BY <1>8, <2>3 DEF ReportInv, Untouched, mailGhosts
    <1>12. AtOne' /\ Held' /\ StillCompleted'
      BY <1>3 DEF AtOne, Held, StillCompleted, AtMail
    <1>13. MailsAccountedFor'
      BY <1>2, <1>3, <1>4, <1>6, <1>8 DEF ReportInv, MailsAccountedFor, mailGhosts
    <1>14. CompletedMeansDelivered'
      BY <1>6, <1>7, MailFacts DEF ReportInv, CompletedMeansDelivered
    <1> QED
      BY <1>9, <1>10, <1>11, <1>12, <1>13, <1>14 DEF ReportInv

LEMMA DeleteInv ==
    ASSUME ReportInv, DeleteReport
    PROVE  ReportInv'
    <1>1. NoRow \in MailRow /\ NoRow.status = "none"
      BY ReportAssumption DEF NoRow, MailRow, MailStatus, Timer
    <1>2. MailTypes' /\ \A d \in Mail : mailRow'[d] = NoRow
      BY <1>1 DEF DeleteReport, ReportInv, ReportTyping, MailTypes, RunStatus, Edit, mailGhosts
    <1>3. ReportTyping'
      BY <1>2 DEF DeleteReport, ReportInv, ReportTyping, ScheduleTypes, ScanTypes, Edit, scheduleVars
    <1>4. InOrder' /\ Untouched' /\ AtOne'
      BY <1>2 DEF DeleteReport, ReportInv, InOrder, Untouched, AtOne, Edit, scheduleVars, mailGhosts
    <1>5. Held' /\ StillCompleted'
      <2>1. \A d \in scan.mail : d \in Mail
        BY DEF ReportInv, ReportTyping, ScanTypes, Scan
      <2>2. scan' = scan
        BY DEF DeleteReport, Edit
      <2>3. Held'
        BY <1>1, <1>2, <2>1, <2>2 DEF ReportInv, Held
      <2>4. StillCompleted'
        BY <1>1, <1>2 DEF StillCompleted, Settled
      <2> QED
        BY <2>3, <2>4
    <1>6. MailsAccountedFor' /\ CompletedMeansDelivered'
      BY <1>1, <1>2 DEF MailsAccountedFor, CompletedMeansDelivered
    <1> QED
      BY <1>3, <1>4, <1>5, <1>6 DEF ReportInv

-----------------------------------------------------------------------------
(* Steps of the scan at one delivery.                                      *)

\* Nothing but the delivery d and the scan changes.
LEMMA OneRowTypes ==
    ASSUME ReportInv, UNCHANGED <<scheduleVars, userVars>>,
           MailTypes', scan' \in Scan
    PROVE  ReportTyping'
    BY DEF ReportInv, ReportTyping, ScheduleTypes, ScanTypes, scheduleVars, userVars

LEMMA ClaimMailInv ==
    ASSUME ReportInv, NEW d \in Mail, ClaimMail(d)
    PROVE  ReportInv'
    <1>1. scan \in Scan /\ MailTypes /\ scan.mail = {}
      BY DEF ReportInv, ReportTyping, ScanTypes, ClaimMail, AtOne, AtMail
    <1>2. CASE ~MailDue(d)
      <2>1. scan' \in Scan /\ scan'.mail = {} /\ scan'.step = "next" /\ scan.step = "next"
        BY <1>1, <1>2 DEF ClaimMail, Scan
      <2>2. UNCHANGED <<scheduleVars, userVars, reportRun, mailRow, mailGhosts>>
        BY <1>2 DEF ClaimMail
      <2>3. InOrder' /\ AtOne' /\ Held' /\ StillCompleted' /\ \A e \in Mail : InHand(e)' <=> InHand(e)
        BY <1>1, <2>1, <2>2
        DEF ReportInv, InOrder, AtOne, Held, StillCompleted, InHand, AtMail, scheduleVars
      <2> QED
        BY <2>1, <2>2, <2>3, ScanOnlyInv
    <1>3. CASE MailDue(d)
      <2>1. mailRow[d].status \in {"queued", "failed"} /\ d[1] <= claimedUpTo
        <3>1. d[1] \in Nat /\ claimedUpTo \in Nat
          BY CountFacts DEF ReportInv
        <3>2. mailRow[d].status \in {"queued", "failed"}
          BY <1>3 DEF MailDue
        <3>3. ~(claimedUpTo < d[1])
          BY <3>2 DEF ReportInv, Untouched, NoRow
        <3> QED
          BY <3>1, <3>2, <3>3
      <2>2. mailRow[d].attempts + 1 \in 0 .. ReportAttempts
        BY <1>1, <1>3, ReportAssumption DEF MailDue, MailTypes, MailRow
      <2>3. mailRow' = [mailRow EXCEPT ![d] = [status |-> "sending", timer |-> "running",
                                               attempts |-> mailRow[d].attempts + 1]]
        BY <1>1, <1>3 DEF ClaimMail, MailTypes
      <2>4. mailRow' \in [Mail -> MailRow] /\ mailRow'[d].status = "sending"
            /\ \A e \in Mail : e # d => mailRow'[e] = mailRow[e]
        BY <1>1, <2>2, <2>3 DEF MailTypes, MailRow, MailStatus, Timer
      <2>5. scan' \in Scan /\ scan'.mail = {d} /\ scan'.step = "load"
        <3>1. scan' = [scan EXCEPT !.step = "load", !.todo = scan.todo \ {d}, !.mail = {d}]
          BY <1>1, <1>3 DEF ClaimMail, Scan
        <3> QED
          BY <1>1, <3>1 DEF Scan, ScanSteps
      <2>6. UNCHANGED <<scheduleVars, userVars, reportRun, mailGhosts>>
        BY DEF ClaimMail
      <2>7. ReportTyping'
        BY <1>1, <2>4, <2>5, <2>6, OneRowTypes DEF MailTypes, mailGhosts
      <2>8. InOrder' /\ AtOne' /\ Held' /\ StillCompleted'
        BY <2>1, <2>4, <2>5, <2>6
        DEF ReportInv, InOrder, AtOne, Held, StillCompleted, AtMail, scheduleVars
      <2>9. Untouched'
        BY <2>1, <2>4, <2>6 DEF ReportInv, Untouched, scheduleVars, mailGhosts, NoRow
      <2>10. MailsAccountedFor'
        BY <1>1, <2>1, <2>4, <2>5, <2>6 DEF ReportInv, MailsAccountedFor, mailGhosts
      <2>11. CompletedMeansDelivered'
        BY <2>1, <2>4, <2>6 DEF ReportInv, CompletedMeansDelivered
      <2> QED
        BY <2>7, <2>8, <2>9, <2>10, <2>11 DEF ReportInv
    <1> QED
      BY <1>2, <1>3

\* The row the scan is at goes from being sent to its outcome.
LEMMA RunMarkInv ==
    ASSUME ReportInv, scan.step \in {"load", "mark"},
           NEW status \in Outcome, NEW timer \in Timer, Mark(Current, status, timer),
           status = "accepted" <=> InHand(Current),
           UNCHANGED <<scheduleVars, userVars, reportRun, mailGhosts>>,
           scan' \in Scan,
           \/ scan'.step = "next" /\ scan'.mail = {}
           \/ scan'.step = "count" /\ scan'.mail = scan.mail
    PROVE  ReportInv'
    <1>1. MailTypes /\ Current \in Mail /\ scan.mail = {Current} /\ Current[1] <= claimedUpTo
      BY CurrentFacts DEF ReportInv, ReportTyping, AtMail
    <1>2. status \in MailStatus
      BY DEF Outcome, MailStatus
    <1>3. /\ mailRow' \in [Mail -> MailRow]
          /\ \A e \in Mail : e # Current => mailRow'[e] = mailRow[e]
          /\ mailRow'[Current].status = IF mailRow[Current].status = "none" THEN "none" ELSE status
          /\ mailRow[Current].status = "none" => mailRow'[Current] = mailRow[Current]
      BY <1>1, <1>2, MarkTypes
    <1>4. mailRow[Current].status \in {"sending", "none"}
      BY <1>1 DEF ReportInv, Held
    <1>5. ReportTyping'
      BY <1>1, <1>3, OneRowTypes DEF MailTypes, mailGhosts
    <1>6. InOrder' /\ AtOne' /\ Held' /\ StillCompleted'
      BY <1>1 DEF ReportInv, InOrder, AtOne, Held, StillCompleted, AtMail, scheduleVars
    <1>7. Untouched'
      BY <1>1, <1>3 DEF ReportInv, Untouched, scheduleVars, mailGhosts, NoRow
    <1>8. MailsAccountedFor'
      BY <1>1, <1>3, <1>4 DEF ReportInv, MailsAccountedFor, mailGhosts, MailTypes, InHand, Outcome
    <1>9. CompletedMeansDelivered'
      <2>1. SUFFICES ASSUME NEW d \in Mail, reportRun[d[1]] = "completed"
                     PROVE  mailRow'[d].status \in {"none", "accepted", "skipped"}
        BY DEF CompletedMeansDelivered
      <2>2. mailRow[d].status \in {"none", "accepted", "skipped"}
        BY <2>1 DEF ReportInv, CompletedMeansDelivered
      <2> QED
        BY <1>3, <1>4, <2>2
    <1> QED
      BY <1>5, <1>6, <1>7, <1>8, <1>9 DEF ReportInv

LEMMA LoadInv ==
    ASSUME ReportInv, LoadMail \/ LoadFails
    PROVE  ReportInv'
    <1>1. scan \in Scan /\ scan.step = "load" /\ scan.mail = {Current} /\ Current[1] <= claimedUpTo
      BY CurrentFacts DEF ReportInv, ReportTyping, ScanTypes, LoadMail, LoadFails, AtMail
    <1>2. CASE scan' = [scan EXCEPT !.step = "send"] /\ UNCHANGED mailRow /\ LoadMail
      <2>1. scan' \in Scan /\ scan'.step = "send" /\ scan'.mail = scan.mail
        BY <1>1, <1>2 DEF Scan, ScanSteps
      <2>2. UNCHANGED <<scheduleVars, userVars, reportRun, mailRow, mailGhosts>>
        BY <1>2 DEF LoadMail
      <2>3. InOrder' /\ AtOne' /\ Held' /\ StillCompleted' /\ \A d \in Mail : InHand(d)' <=> InHand(d)
        BY <1>1, <2>1, <2>2
        DEF ReportInv, InOrder, AtOne, Held, StillCompleted, InHand, AtMail, scheduleVars
      <2> QED
        BY <2>1, <2>2, <2>3, ScanOnlyInv
    <1>3. CASE scan' = NextMail /\ Mark(Current, "skipped", "unset")
      <2>1. scan' \in Scan /\ scan'.step = "next" /\ scan'.mail = {}
        BY <1>1, <1>3 DEF Scan, ScanSteps, NextMail, RunStatus
      <2>2. UNCHANGED <<scheduleVars, userVars, reportRun, mailGhosts>>
        BY DEF LoadMail, LoadFails, ReportFault, mailGhosts
      <2>3. ~InHand(Current) /\ "skipped" \in Outcome /\ "unset" \in Timer
        BY <1>1 DEF InHand, Outcome, Timer
      <2> QED
        BY <1>1, <1>3, <2>1, <2>2, <2>3, RunMarkInv
    <1> QED
      BY <1>2, <1>3 DEF LoadMail, LoadFails

LEMMA MarkMailInv ==
    ASSUME ReportInv, MarkMail
    PROVE  ReportInv'
    <1>1. scan \in Scan /\ scan.step = "mark" /\ scan.mail = {Current}
      BY CurrentFacts DEF ReportInv, ReportTyping, ScanTypes, MarkMail, AtMail
    <1>2. scan' \in Scan /\ scan'.step = "count" /\ scan'.mail = scan.mail
      BY <1>1 DEF MarkMail, Scan, ScanSteps
    <1>3. scan.outcome \in Outcome
      BY <1>1 DEF ReportInv, Held
    <1>4. scan.outcome = "accepted" <=> InHand(Current)
      BY <1>1 DEF InHand
    <1> DEFINE timer == IF scan.outcome = "failed" /\ mailRow[Current].attempts < ReportAttempts
                        THEN "running" ELSE "unset"
    <1>6. timer \in Timer /\ Mark(Current, scan.outcome, timer)
      BY DEF MarkMail, Timer
    <1> HIDE DEF timer
    <1>7. UNCHANGED <<scheduleVars, userVars, reportRun, mailGhosts>>
      BY DEF MarkMail
    <1> QED
      BY <1>1, <1>2, <1>3, <1>4, <1>6, <1>7, RunMarkInv

LEMMA SendInv ==
    ASSUME ReportInv, NEW outcome \in Outcome, SendMail(outcome)
    PROVE  ReportInv'
    <1>1. scan \in Scan /\ MailTypes /\ scan.step = "send" /\ Current \in Mail
          /\ scan.mail = {Current} /\ Current[1] <= claimedUpTo
      BY CurrentFacts DEF ReportInv, ReportTyping, ScanTypes, SendMail, AtMail
    <1>2. scan' \in Scan /\ scan'.step = "mark" /\ scan'.mail = {Current} /\ scan'.outcome = outcome
      BY <1>1 DEF SendMail, Scan, ScanSteps
    <1>3. UNCHANGED <<scheduleVars, userVars, reportRun, mailRow, unrecorded>>
      BY DEF SendMail
    <1>4. /\ sent' \in [Mail -> Nat]
          /\ \A d \in Mail : d # Current => sent'[d] = sent[d]
          /\ sent'[Current] = sent[Current] + (IF outcome = "accepted" THEN 1 ELSE 0)
      BY <1>1 DEF SendMail, MailTypes
    <1>5. ReportTyping'
      BY <1>1, <1>2, <1>3, <1>4, OneRowTypes DEF MailTypes
    <1>6. InOrder' /\ AtOne' /\ Held' /\ StillCompleted'
      BY <1>1, <1>2, <1>3
      DEF ReportInv, InOrder, AtOne, Held, StillCompleted, AtMail, scheduleVars
    <1>7. Untouched'
      <2>1. claimedUpTo \in Nat /\ \A d \in Mail : d[1] \in Nat
        BY CountFacts DEF ReportInv
      <2>2. ~(claimedUpTo < Current[1])
        BY <1>1, <2>1
      <2> QED
        BY <1>3, <1>4, <2>2 DEF ReportInv, Untouched, scheduleVars
    <1>8. MailsAccountedFor'
      <2>1. mailRow[Current].status \in {"sending", "none"}
        BY <1>1 DEF ReportInv, Held
      <2> QED
        BY <1>1, <1>2, <1>3, <1>4, <2>1 DEF ReportInv, MailsAccountedFor, MailTypes
    <1>9. CompletedMeansDelivered'
      BY <1>3 DEF ReportInv, CompletedMeansDelivered
    <1> QED
      BY <1>5, <1>6, <1>7, <1>8, <1>9 DEF ReportInv

LEMMA FinishInv ==
    ASSUME ReportInv, FinishRun
    PROVE  ReportInv'
    <1>1. scan \in Scan /\ MailTypes /\ scan.step = "finish" /\ Current \in Mail
          /\ scan.mail = {Current}
      BY CurrentFacts DEF ReportInv, ReportTyping, ScanTypes, FinishRun, AtMail
    <1>2. scan' \in Scan /\ scan'.step = "next" /\ scan'.mail = {}
      BY <1>1 DEF FinishRun, NextMail, Scan, ScanSteps, RunStatus
    <1>3. UNCHANGED <<scheduleVars, userVars, mailRow, mailGhosts>>
      BY DEF FinishRun
    <1>4. reportRun' = reportRun \/ reportRun' = [reportRun EXCEPT ![Current[1]] = scan.result]
      BY DEF FinishRun
    <1>5. ReportTyping'
      <2>1. scan.result \in RunStatus
        BY <1>1 DEF Scan
      <2> QED
        BY <1>1, <1>2, <1>3, <1>4, <2>1, OneRowTypes DEF MailTypes, mailGhosts
    <1>6. InOrder' /\ AtOne' /\ Held' /\ StillCompleted'
      BY <1>2, <1>3 DEF ReportInv, InOrder, AtOne, Held, StillCompleted, AtMail, scheduleVars
    <1>7. Untouched'
      BY <1>3 DEF ReportInv, Untouched, scheduleVars, mailGhosts
    <1>8. MailsAccountedFor'
      BY <1>1, <1>2, <1>3 DEF ReportInv, MailsAccountedFor, mailGhosts
    <1>9. CompletedMeansDelivered'
      <2>1. SUFFICES ASSUME NEW d \in Mail, reportRun'[d[1]] = "completed" PROVE Settled(d)
        BY <1>3 DEF CompletedMeansDelivered, Settled
      <2>2. CASE reportRun[d[1]] = "completed"
        BY <2>2 DEF ReportInv, CompletedMeansDelivered, Settled
      <2>3. CASE d[1] = Current[1] /\ scan.result = "completed"
        BY <1>1, <2>3 DEF ReportInv, StillCompleted
      <2> QED
        BY <1>1, <1>4, <2>1, <2>2, <2>3, MailFacts DEF MailTypes
    <1> QED
      BY <1>5, <1>6, <1>7, <1>8, <1>9 DEF ReportInv

\* The scan leaves the delivery it is at, or its mark, without a record.
LEMMA LostRecordInv ==
    ASSUME ReportInv, MarkFails \/ ReportRestart
    PROVE  ReportInv'
    <1>1. scan \in Scan /\ MailTypes
      BY DEF ReportInv, ReportTyping, ScanTypes
    <1>2. UNCHANGED <<scheduleVars, userVars, reportRun, mailRow, sent>> /\ LoseRecord
      BY DEF MarkFails, ReportRestart, ReportFault
    <1>3. /\ AsleepScan \in Scan /\ AsleepScan.step = "idle" /\ AsleepScan.mail = {}
          /\ NextMail \in Scan /\ NextMail.step = "next" /\ NextMail.mail = {}
      <2>1. AsleepScan \in Scan /\ AsleepScan.step = "idle" /\ AsleepScan.mail = {}
        BY ReportAssumption DEF Scan, ScanSteps, AsleepScan, RunStatus
      <2>2. NextMail \in Scan /\ NextMail.step = "next" /\ NextMail.mail = {}
        BY <1>1 DEF Scan, ScanSteps, NextMail, RunStatus
      <2> QED
        BY <2>1, <2>2
    <1>4. /\ scan' \in Scan
          /\ \/ scan'.step \in {"idle", "next"} /\ scan'.mail = {}
             \/ scan'.step = "count" /\ scan'.mail = scan.mail /\ scan.step = "mark"
      <2>1. CASE scan' = AsleepScan \/ scan' = NextMail
        BY <1>3, <2>1
      <2>2. CASE scan' = [scan EXCEPT !.step = "count"] /\ scan.step = "mark"
        BY <1>1, <2>2 DEF Scan, ScanSteps
      <2> QED
        BY <2>1, <2>2 DEF MarkFails, ReportRestart
    <1>5. /\ unrecorded' \in [Mail -> Nat]
          /\ \A d \in Mail : unrecorded'[d] = unrecorded[d] + (IF InHand(d) THEN 1 ELSE 0)
      <2>1. CASE scan.step = "mark" /\ scan.outcome = "accepted"
        <3>1. Current \in Mail /\ scan.mail = {Current}
          BY <2>1, CurrentFacts DEF ReportInv, AtMail
        <3>2. unrecorded' = [unrecorded EXCEPT ![Current] = unrecorded[Current] + 1]
          BY <1>1, <1>2, <2>1, <3>1 DEF LoseRecord, MailTypes
        <3> QED
          BY <1>1, <2>1, <3>1, <3>2 DEF MailTypes, InHand
      <2>2. CASE ~(scan.step = "mark" /\ scan.outcome = "accepted")
        BY <1>1, <1>2, <2>2 DEF LoseRecord, MailTypes, InHand
      <2> QED
        BY <2>1, <2>2
    <1>6. ReportTyping'
      BY <1>1, <1>2, <1>4, <1>5, OneRowTypes DEF MailTypes
    <1>7. InOrder' /\ AtOne' /\ Held' /\ StillCompleted'
      BY <1>2, <1>4 DEF ReportInv, InOrder, AtOne, Held, StillCompleted, AtMail, scheduleVars
    <1>8. Untouched'
      <2>1. claimedUpTo \in Nat /\ \A d \in Mail : d[1] \in Nat
        BY CountFacts DEF ReportInv
      <2>2. \A d \in Mail : claimedUpTo < d[1] => ~InHand(d)
        BY <2>1 DEF ReportInv, AtOne, InHand
      <2> QED
        BY <1>2, <1>5, <2>2 DEF ReportInv, Untouched, scheduleVars
    <1>9. MailsAccountedFor'
      <2>1. \A d \in Mail : InHand(d) => mailRow[d].status \in {"sending", "none"}
        BY DEF ReportInv, Held, InHand
      <2>2. \A d \in Mail : ~InHand(d)'
        BY <1>4 DEF InHand
      <2>3. ASSUME NEW d \in Mail, mailRow[d].status # "none"
            PROVE  sent[d] = unrecorded'[d] + (IF mailRow[d].status = "accepted" THEN 1 ELSE 0)
        <3>1. sent[d] = unrecorded[d] + (IF mailRow[d].status = "accepted" THEN 1 ELSE 0)
                                      + (IF InHand(d) THEN 1 ELSE 0)
          BY <2>3 DEF ReportInv, MailsAccountedFor, InHand
        <3>2. unrecorded[d] \in Nat
          BY <1>1 DEF MailTypes
        <3>3. CASE InHand(d)
          BY <1>5, <2>1, <3>1, <3>2, <3>3
        <3>4. CASE ~InHand(d)
          BY <1>5, <3>1, <3>2, <3>4
        <3> QED
          BY <3>3, <3>4
      <2>4. SUFFICES ASSUME NEW d \in Mail, mailRow'[d].status # "none"
                     PROVE  sent'[d] = unrecorded'[d]
                                + (IF mailRow'[d].status = "accepted" THEN 1 ELSE 0) + 0
        BY <2>2 DEF MailsAccountedFor, InHand
      <2>5. unrecorded'[d] \in Nat /\ mailRow' = mailRow /\ sent' = sent
        BY <1>2, <1>5
      <2> QED
        BY <2>3, <2>4, <2>5
    <1>10. CompletedMeansDelivered'
      BY <1>2 DEF ReportInv, CompletedMeansDelivered
    <1> QED
      BY <1>6, <1>7, <1>8, <1>9, <1>10 DEF ReportInv

-----------------------------------------------------------------------------
(* The theorems.                                                           *)

LEMMA NextReportInv == ReportInv /\ [ReportNext]_reportVars => ReportInv'
    <1> SUFFICES ASSUME ReportInv, [ReportNext]_reportVars PROVE ReportInv'
      OBVIOUS
    <1>1. CASE UNCHANGED reportVars
      BY <1>1, StutterReport
    <1>2. CASE ScanStep
      BY <1>2, BeginScanInv, ReadScheduleInv, ClaimRunInv, BetweenInv, ClaimMailInv, LoadInv,
         SendInv, MarkMailInv, CountInv, CheckRetryableInv, FinishInv
      DEF ScanStep, Outcome
    <1>3. CASE \E d \in Mail : TimerElapses(d) \/ ClaimFails(d)
      BY <1>3, TimerInv, BetweenInv
    <1>4. CASE ScanFails \/ LoadFails \/ MarkFails \/ CheckRetryableFails \/ ReportRestart
      BY <1>4, BetweenInv, LoadInv, CheckRetryableInv, LostRecordInv
    <1>5. CASE ScheduleFallsDue \/ DeleteReport \/ \E n \in Occurrence : RetryReportRun(n)
      BY <1>5, DueInv, DeleteInv, RetryInv
    <1>6. CASE \E r \in Recipient : Unsubscribe(r) \/ Resubscribe(r) \/ RemoveRecipient(r)
      BY <1>6, ConsentInv
    <1> QED
      BY <1>1, <1>2, <1>3, <1>4, <1>5, <1>6 DEF ReportNext

LEMMA TypesFollow == ReportInv => ReportTypeOK
    <1> SUFFICES ASSUME ReportInv PROVE ReportTypeOK
      OBVIOUS
    <1>1. scan.mail \in SUBSET Mail /\ Cardinality(scan.mail) <= 1
      <2>1. CASE scan.mail = {}
        BY <2>1, FS_EmptySet
      <2>2. CASE \E d \in Mail : scan.mail = {d}
        BY <2>2, FS_Singleton
      <2> QED
        BY <2>1, <2>2 DEF ReportInv, AtOne
    <1>2. scan.step \in ScanSteps /\ scan.result \in RunStatus
      BY DEF ReportInv, ReportTyping, ScanTypes, Scan
    <1> QED
      BY <1>1, <1>2
      DEF ReportInv, ReportTyping, ScheduleTypes, MailTypes, MailRow, MailStatus, Timer, ScanSteps,
          ReportTypeOK

\* Every variable of the reports keeps its type: in particular the scanner is
\* at one delivery at a time and never attempts one more often than allowed.
THEOREM ReportTypes == ReportSpec => []ReportTypeOK
    BY ReportInitInv, NextReportInv, TypesFollow, PTL DEF ReportSpec

\* Every accepted mail is recorded once, or its record was lost to a fault.
THEOREM MailsAreAccountedFor == ReportSpec => []MailsAccountedFor
    <1>1. ReportInv => MailsAccountedFor
      BY DEF ReportInv
    <1> QED
      BY <1>1, ReportInitInv, NextReportInv, PTL DEF ReportSpec

\* A run that is reported as completed has no delivery that is not settled.
THEOREM CompletedIsDelivered == ReportSpec => []CompletedMeansDelivered
    <1>1. ReportInv => CompletedMeansDelivered
      BY DEF ReportInv
    <1> QED
      BY <1>1, ReportInitInv, NextReportInv, PTL DEF ReportSpec

=============================================================================
