----------------------------- MODULE ReportDelivery -----------------------------
(***************************************************************************)
(* How the occurrences of a scheduled e-mail report reach its recipients.  *)
(*                                                                         *)
(*   RunAt, processNamedDelivery  (worker/reports_scheduler.go)  one       *)
(*       goroutine that scans every minute: recover, claim the schedule,   *)
(*       list, then claim, send and mark one delivery after the other      *)
(*   store_report_delivery.go  the statements on report_runs and           *)
(*       report_deliveries                                                 *)
(*   store_report_definitions.go  what users do meanwhile: unsubscribe,    *)
(*       resubscribe, retry, change the recipients, delete the report      *)
(*                                                                         *)
(* Simplifications.  One report, whose schedule stays as it is.  A time is *)
(* a timer of the row that is running or has elapsed: next_attempt_at for  *)
(* a row that waits, updated_at + 10 minutes for one that is being sent.   *)
(* The reasons to skip a delivery (access, plan, content, unsubscribe      *)
(* token) are one outcome, as they are treated alike.                      *)
(***************************************************************************)
EXTENDS Naturals, FiniteSets

CONSTANTS
    Recipient,          \* the recipients the report starts with, all confirmed
    MaxOccurrences,     \* bound: times the schedule falls due
    ReportAttempts,     \* a delivery is attempted so often (4 in the code)
    MaxReportEdits,     \* bound: requests of users
    MaxReportFaults     \* bound: failing statements and restarts

ASSUME ReportAssumption ==
    /\ MaxOccurrences \in Nat
    /\ ReportAttempts \in Nat \ {0}
    /\ MaxReportEdits \in Nat
    /\ MaxReportFaults \in Nat

VARIABLES
    occurrence,     \* the latest time the schedule fell due, 0 before the first
    claimedUpTo,    \* the occurrence before next_run_at
    reportGone,     \* the report was deleted
    recipients,     \* its rows of report_recipients
    optedOut,       \* those with opted_out_at
    reportRun,      \* report_runs.status of each occurrence
    mailRow,        \* report_deliveries of each occurrence and recipient
    scan,           \* the scanner: its step and its local variables
    sent,           \* ghost: mails the server accepted for each delivery
    unrecorded,     \* ghost: of those, mails whose acceptance was not recorded
    editCount, reportFaults

userVars == <<reportGone, recipients, optedOut>>
scheduleVars == <<occurrence, claimedUpTo>>
mailGhosts == <<sent, unrecorded>>
reportVars == <<scheduleVars, userVars, reportRun, mailRow, scan, mailGhosts,
                editCount, reportFaults>>

Occurrence == 1 .. MaxOccurrences
Mail == Occurrence \X Recipient
NoRow == [status |-> "none", attempts |-> 0, timer |-> "unset"]
QueuedRow == [status |-> "queued", attempts |-> 0, timer |-> "elapsed"]
AsleepScan == [step |-> "idle", todo |-> {}, to |-> {}, upTo |-> 0, mail |-> {},
               outcome |-> "none", result |-> "none"]
\* The delivery the scan is at (scan.mail is empty between deliveries).
Current == CHOOSE d \in Mail : d \in scan.mail
Deliveries(n) == {n} \X Recipient

ReportInit ==
    /\ occurrence = 0
    /\ claimedUpTo = 0
    /\ reportGone = FALSE
    /\ recipients = Recipient
    /\ optedOut = {}
    /\ reportRun = [n \in Occurrence |-> "none"]
    /\ mailRow = [d \in Mail |-> NoRow]
    /\ scan = AsleepScan
    /\ sent = [d \in Mail |-> 0]
    /\ unrecorded = [d \in Mail |-> 0]
    /\ editCount = 0
    /\ reportFaults = 0

-----------------------------------------------------------------------------
(* Time.                                                                   *)

ScheduleFallsDue ==
    /\ occurrence < MaxOccurrences
    /\ occurrence' = occurrence + 1
    /\ UNCHANGED <<claimedUpTo, userVars, reportRun, mailRow, scan, mailGhosts,
                   editCount, reportFaults>>

TimerElapses(d) ==
    /\ mailRow[d].timer = "running"
    /\ mailRow' = [mailRow EXCEPT ![d].timer = "elapsed"]
    /\ UNCHANGED <<scheduleVars, userVars, reportRun, scan, mailGhosts, editCount, reportFaults>>

-----------------------------------------------------------------------------
(* One scan: RunAt.                                                        *)

\* Mutant: nothing is recovered.
BeginScanOnly ==
    /\ scan.step = "idle"
    /\ scan' = [scan EXCEPT !.step = "schedule"]
    /\ UNCHANGED <<scheduleVars, userVars, reportRun, mailRow, mailGhosts,
                   editCount, reportFaults>>

\* RecoverStaleReportDeliveries: attempt_count stays as it is.
BeginScan ==
    /\ scan.step = "idle"
    /\ mailRow' = [d \in Mail |->
           IF mailRow[d].status = "sending" /\ mailRow[d].timer = "elapsed"
           THEN [mailRow[d] EXCEPT !.status = "failed"] ELSE mailRow[d]]
    /\ scan' = [scan EXCEPT !.step = "schedule"]
    /\ UNCHANGED <<scheduleVars, userVars, reportRun, mailGhosts, editCount, reportFaults>>

\* ClaimDueReportRuns reads the report and its recipients; occurrences that
\* were missed are merged into the latest.
ReadSchedule ==
    /\ scan.step = "schedule"
    /\ scan' = IF reportGone \/ claimedUpTo = occurrence
               THEN [scan EXCEPT !.step = "list"]
               ELSE [scan EXCEPT !.step = "claimRun", !.upTo = occurrence,
                                 !.to = recipients \ optedOut]
    /\ UNCHANGED <<scheduleVars, userVars, reportRun, mailRow, mailGhosts, editCount, reportFaults>>

\* Its transaction, which does nothing when next_run_at is not what was read.
\* late: the occurrence is older than the catch-up window.
ClaimRun(late) ==
    /\ scan.step = "claimRun"
    /\ scan' = [scan EXCEPT !.step = "list", !.to = {}, !.upTo = 0]
    /\ IF reportGone
       THEN UNCHANGED <<claimedUpTo, reportRun, mailRow>>
       ELSE /\ claimedUpTo' = scan.upTo
            /\ reportRun' = [reportRun EXCEPT ![scan.upTo] =
                                 IF late \/ scan.to = {} THEN "skipped" ELSE "queued"]
            /\ mailRow' = [d \in Mail |->
                               IF ~late /\ d[1] = scan.upTo /\ d[2] \in scan.to
                               THEN QueuedRow ELSE mailRow[d]]
    /\ UNCHANGED <<occurrence, userVars, mailGhosts, editCount, reportFaults>>

\* Mutant: attempts are not limited.
MailDueForEver(d) == mailRow[d].status \in {"queued", "failed"} /\ mailRow[d].timer = "elapsed"

MailDue(d) == /\ mailRow[d].status \in {"queued", "failed"}
              /\ mailRow[d].attempts < ReportAttempts
              /\ mailRow[d].timer = "elapsed"

\* ListDueReportDeliveries.
ListDueMail ==
    /\ scan.step = "list"
    /\ scan' = [scan EXCEPT !.step = "next", !.todo = {d \in Mail : MailDue(d)}]
    /\ UNCHANGED <<scheduleVars, userVars, reportRun, mailRow, mailGhosts, editCount, reportFaults>>

EndScan ==
    /\ scan.step = "next"
    /\ scan.todo = {}
    /\ scan' = AsleepScan
    /\ UNCHANGED <<scheduleVars, userVars, reportRun, mailRow, mailGhosts, editCount, reportFaults>>

\* ClaimReportDelivery, a compare-and-set on status, attempts and time.
ClaimMail(d) ==
    /\ scan.step = "next"
    /\ d \in scan.todo
    /\ IF MailDue(d)
       THEN /\ mailRow' = [mailRow EXCEPT ![d] = [status |-> "sending", timer |-> "running",
                                                  attempts |-> @.attempts + 1]]
            /\ scan' = [scan EXCEPT !.step = "load", !.todo = @ \ {d}, !.mail = {d}]
       ELSE /\ scan' = [scan EXCEPT !.todo = @ \ {d}]
            /\ UNCHANGED mailRow
    /\ UNCHANGED <<scheduleVars, userVars, reportRun, mailGhosts, editCount, reportFaults>>

\* The UPDATE of a mark: by id alone, of no row once the report is deleted.
Mark(d, status, timer) ==
    mailRow' = IF mailRow[d].status = "none" THEN mailRow
               ELSE [mailRow EXCEPT ![d].status = status, ![d].timer = timer]

NextMail == [scan EXCEPT !.step = "next", !.mail = {}, !.outcome = "none", !.result = "none"]

\* GetPendingReportDelivery, which joins the recipient.  When that fails the
\* delivery is skipped, and the run is not finalized.
LoadMail ==
    /\ scan.step = "load"
    /\ IF mailRow[Current].status # "none" /\ Current[2] \in recipients
       THEN scan' = [scan EXCEPT !.step = "send"] /\ UNCHANGED mailRow
       ELSE scan' = NextMail /\ Mark(Current, "skipped", "unset")
    /\ UNCHANGED <<scheduleVars, userVars, reportRun, mailGhosts, editCount, reportFaults>>

\* The checks of access and plan, the content, the token, and the mail.
SendMail(outcome) ==
    /\ scan.step = "send"
    /\ scan' = [scan EXCEPT !.step = "mark", !.outcome = outcome]
    /\ sent' = IF outcome = "accepted" THEN [sent EXCEPT ![Current] = @ + 1] ELSE sent
    /\ UNCHANGED <<scheduleVars, userVars, reportRun, mailRow, unrecorded, editCount, reportFaults>>

\* MarkReportDeliveryAccepted, -Skipped, -Failed: the last failure leaves no
\* next_attempt_at.
MarkMail ==
    /\ scan.step = "mark"
    /\ Mark(Current, scan.outcome,
            IF scan.outcome = "failed" /\ mailRow[Current].attempts < ReportAttempts
            THEN "running" ELSE "unset")
    /\ scan' = [scan EXCEPT !.step = "count"]
    /\ UNCHANGED <<scheduleVars, userVars, reportRun, mailGhosts, editCount, reportFaults>>

RowsWith(n, status) == {d \in Deliveries(n) : mailRow[d].status = status}
MayRetry(n) == \E d \in RowsWith(n, "failed") :
                   mailRow[d].attempts < ReportAttempts /\ mailRow[d].timer # "unset"
\* Mutant: one accepted mail completes the run.
SettledResultLenient(n) ==
    IF RowsWith(n, "accepted") # {} THEN "completed"
    ELSE IF RowsWith(n, "failed") # {} THEN "failed" ELSE "skipped"

\* What FinalizeReportRun makes of the counts when nothing is left to do.
SettledResult(n) ==
    IF RowsWith(n, "failed") # {}
    THEN IF RowsWith(n, "accepted") # {} THEN "partial" ELSE "failed"
    ELSE IF RowsWith(n, "accepted") = {} /\ RowsWith(n, "skipped") # {}
         THEN "skipped" ELSE "completed"

\* The first statement of FinalizeReportRun.
CountMail ==
    /\ scan.step = "count"
    /\ LET n == Current[1]
       IN  scan' = IF RowsWith(n, "queued") \cup RowsWith(n, "sending") # {}
                   THEN [scan EXCEPT !.step = "finish", !.result = "running"]
                   ELSE [scan EXCEPT !.result = SettledResult(n),
                                     !.step = IF RowsWith(n, "failed") # {}
                                              THEN "retryable" ELSE "finish"]
    /\ UNCHANGED <<scheduleVars, userVars, reportRun, mailRow, mailGhosts, editCount, reportFaults>>

\* reportRunHasRetryableDelivery, a statement of its own.
CheckRetryable ==
    /\ scan.step = "retryable"
    /\ scan' = [scan EXCEPT !.step = "finish",
                            !.result = IF MayRetry(Current[1]) THEN "running" ELSE @]
    /\ UNCHANGED <<scheduleVars, userVars, reportRun, mailRow, mailGhosts, editCount, reportFaults>>

FinishRun ==
    /\ scan.step = "finish"
    /\ reportRun' = IF reportGone THEN reportRun
                    ELSE [reportRun EXCEPT ![Current[1]] = scan.result]
    /\ scan' = NextMail
    /\ UNCHANGED <<scheduleVars, userVars, mailRow, mailGhosts, editCount, reportFaults>>

-----------------------------------------------------------------------------
(* Users.                                                                  *)

Edit == /\ editCount < MaxReportEdits
        /\ ~reportGone
        /\ editCount' = editCount + 1
        /\ UNCHANGED <<scheduleVars, scan, mailGhosts, reportFaults>>

\* OptOutReportRecipient, from the link in a mail that arrived.
Unsubscribe(r) ==
    /\ Edit
    /\ r \in recipients
    /\ \E n \in Occurrence : sent[<<n, r>>] > 0
    /\ optedOut' = optedOut \cup {r}
    /\ UNCHANGED <<reportGone, recipients, reportRun, mailRow>>

Resubscribe(r) ==
    /\ Edit
    /\ r \in recipients \cap optedOut
    /\ optedOut' = optedOut \ {r}
    /\ UNCHANGED <<reportGone, recipients, reportRun, mailRow>>

\* UpdateReportDefinition without a member who has not opted out.
RemoveRecipient(r) ==
    /\ Edit
    /\ r \in recipients \ optedOut
    /\ recipients' = recipients \ {r}
    /\ UNCHANGED <<reportGone, optedOut, reportRun, mailRow>>

\* Mutant: a retry queues every delivery of the run again.
RetryEveryMail(n) ==
    /\ Edit
    /\ reportRun[n] # "none"
    /\ mailRow' = [d \in Mail |-> IF d[1] = n /\ mailRow[d].status # "none"
                                  THEN QueuedRow ELSE mailRow[d]]
    /\ UNCHANGED <<userVars, reportRun>>

\* RetryReportRun: the run's own row stays as it is.
RetryReportRun(n) ==
    /\ Edit
    /\ reportRun[n] # "none"
    /\ mailRow' = [d \in Mail |-> IF d \in RowsWith(n, "failed") THEN QueuedRow ELSE mailRow[d]]
    /\ UNCHANGED <<userVars, reportRun>>

DeleteReport ==
    /\ Edit
    /\ reportGone' = TRUE
    /\ recipients' = {}
    /\ reportRun' = [n \in Occurrence |-> "none"]
    /\ mailRow' = [d \in Mail |-> NoRow]
    /\ UNCHANGED optedOut

-----------------------------------------------------------------------------
(* Faults.                                                                 *)

ReportFault == /\ reportFaults < MaxReportFaults
               /\ reportFaults' = reportFaults + 1
               /\ UNCHANGED <<scheduleVars, userVars, reportRun, sent, editCount>>

\* The mail at hand was accepted by the server, and that is forgotten.
LoseRecord == unrecorded' = IF scan.step = "mark" /\ scan.outcome = "accepted"
                            THEN [unrecorded EXCEPT ![Current] = @ + 1] ELSE unrecorded

\* A statement before the deliveries fails: the scan ends.
ScanFails ==
    /\ ReportFault
    /\ scan.step \in {"schedule", "claimRun", "list"}
    /\ scan' = AsleepScan
    /\ UNCHANGED <<mailRow, unrecorded>>

\* The loop goes on with the next delivery.
ClaimFails(d) ==
    /\ ReportFault
    /\ scan.step = "next"
    /\ d \in scan.todo
    /\ scan' = [scan EXCEPT !.todo = @ \ {d}]
    /\ UNCHANGED <<mailRow, unrecorded>>

\* Any error of the load looks like a missing row.
LoadFails ==
    /\ ReportFault
    /\ scan.step = "load"
    /\ Mark(Current, "skipped", "unset")
    /\ scan' = NextMail
    /\ UNCHANGED unrecorded

\* The errors of the marks and of FinalizeReportRun are dropped.
MarkFails ==
    /\ ReportFault
    /\ scan.step \in {"mark", "count", "finish"}
    /\ LoseRecord
    /\ scan' = IF scan.step = "mark" THEN [scan EXCEPT !.step = "count"] ELSE NextMail
    /\ UNCHANGED mailRow

\* An error of that statement reads as nothing to retry.
CheckRetryableFails ==
    /\ ReportFault
    /\ scan.step = "retryable"
    /\ scan' = [scan EXCEPT !.step = "finish"]
    /\ UNCHANGED <<mailRow, unrecorded>>

ReportRestart ==
    /\ ReportFault
    /\ scan.step # "idle"
    /\ LoseRecord
    /\ scan' = AsleepScan
    /\ UNCHANGED mailRow

-----------------------------------------------------------------------------
ScanStep ==
    \/ BeginScan \/ ReadSchedule \/ ListDueMail \/ EndScan
    \/ \E late \in BOOLEAN : ClaimRun(late)
    \/ \E d \in Mail : ClaimMail(d)
    \/ LoadMail \/ MarkMail \/ CountMail \/ CheckRetryable \/ FinishRun
    \/ \E outcome \in {"accepted", "failed", "skipped"} : SendMail(outcome)

ReportNext ==
    \/ ScheduleFallsDue
    \/ \E d \in Mail : TimerElapses(d) \/ ClaimFails(d)
    \/ ScanStep
    \/ \E r \in Recipient : Unsubscribe(r) \/ Resubscribe(r) \/ RemoveRecipient(r)
    \/ \E n \in Occurrence : RetryReportRun(n)
    \/ DeleteReport
    \/ ScanFails \/ LoadFails \/ MarkFails \/ CheckRetryableFails \/ ReportRestart

\* The scanner's ticker keeps ticking, and so does the clock.
ReportFairness ==
    /\ WF_reportVars(ScanStep)
    /\ \A d \in Mail : WF_reportVars(TimerElapses(d))

ReportSpec == ReportInit /\ [][ReportNext]_reportVars /\ ReportFairness

-----------------------------------------------------------------------------
(* Properties.                                                             *)

RunStatus == {"none", "queued", "running", "completed", "partial", "failed", "skipped"}

ReportTypeOK ==
    /\ occurrence \in 0 .. MaxOccurrences
    /\ claimedUpTo \in 0 .. MaxOccurrences
    /\ reportGone \in BOOLEAN
    /\ recipients \in SUBSET Recipient
    /\ optedOut \in SUBSET Recipient
    /\ reportRun \in [Occurrence -> RunStatus]
    /\ mailRow \in [Mail -> [status : {"none", "queued", "sending", "accepted", "failed",
                                       "skipped"},
                             attempts : 0 .. ReportAttempts,
                             timer : {"unset", "running", "elapsed"}]]
    /\ scan.step \in {"idle", "schedule", "claimRun", "list", "next", "load", "send",
                      "mark", "count", "retryable", "finish"}
    /\ scan.mail \in SUBSET Mail /\ Cardinality(scan.mail) <= 1
    /\ scan.result \in RunStatus
    /\ sent \in [Mail -> Nat]
    /\ unrecorded \in [Mail -> Nat]

(* No occurrence is mailed twice to a recipient unless the record of the   *)
(* earlier mail was lost to a fault: claims, recovery, retries by hand and *)
(* marks by id alone never send what is recorded as accepted.              *)
MailsAccountedFor ==
    \A d \in Mail : mailRow[d].status # "none" =>
        sent[d] = unrecorded[d]
                  + (IF mailRow[d].status = "accepted" THEN 1 ELSE 0)
                  + (IF d \in scan.mail /\ scan.step = "mark" /\ scan.outcome = "accepted"
                     THEN 1 ELSE 0)

(* A run is reported as completed only if every recipient's delivery was   *)
(* accepted or skipped, although FinalizeReportRun counts, looks for what  *)
(* may be retried and writes in three statements, the second of which may  *)
(* fail unnoticed, and a retry by hand may come between them.              *)
CompletedMeansDelivered ==
    \A d \in Mail : reportRun[d[1]] = "completed" =>
        mailRow[d].status \in {"none", "accepted", "skipped"}

(* A delivery that was claimed for sending does not stay so, whatever      *)
(* fails, and one that may be attempted again is: it is accepted, skipped, *)
(* deleted, or has used up its attempts.                                   *)
EveryReportSettles ==
    \A d \in Mail : <>[](\/ mailRow[d].status \in {"none", "accepted", "skipped"}
                         \/ mailRow[d].status = "failed" /\ mailRow[d].attempts = ReportAttempts)
=============================================================================
