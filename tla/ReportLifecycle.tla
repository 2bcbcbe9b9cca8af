--------------------------- MODULE ReportLifecycle ---------------------------
(***************************************************************************)
(* The reports of one registration (reports/routes, application, domain,   *)
(* repository): drafts created for a period from the latest submitted      *)
(* summary log, completed, submitted, unsubmitted by an administrator,     *)
(* deleted and resubmitted, while summary logs are submitted that make     *)
(* drafts stale and restate closed periods.                                *)
(*                                                                         *)
(* Every write is one MongoDB command; what it was decided on was read     *)
(* before.  A read answered by a secondary that is behind is a read made   *)
(* earlier, and every request below may rest between its reads and its     *)
(* write.  The tonnages of a report are left out, but for its being        *)
(* complete.  The queue, the transitions and the staleness of summary logs *)
(* are the subject of SummaryLogSubmission and kept short here.            *)
(***************************************************************************)
EXTENDS Naturals, Sequences, TLC

CONSTANTS
  Periods,        \* reporting periods, all of them ended
  MaxSubmissions, \* bound: submission numbers asked for
  Logs,           \* summary logs of the registration
  NoLog,          \* the source of a report made before any summary log
  Requests,       \* HTTP requests in flight
  MaxReports,     \* bound: reports ever created
  MaxVersion,     \* bound: no report is edited beyond this version
  Disturbances    \* interleavings the environment may bring about

ASSUME LogAssumption == NoLog \notin Logs
ASSUME BoundAssumption ==
  MaxSubmissions \in Nat \ {0} /\ MaxReports \in Nat /\ MaxVersion \in Nat

(* "slowCreate": a summary log is committed while a report is being        *)
(* created.  "slowDelete": a report changes while it is being deleted.     *)
(* "unsubmitDuringUpload": a report is unsubmitted while the command of a  *)
(* summary log flags reports.  "crash": a worker dies, or its command      *)
(* fails for the last time.                                                *)
ASSUME DisturbanceAssumption ==
  Disturbances \subseteq
    {"slowCreate", "slowDelete", "unsubmitDuringUpload", "crash"}

VARIABLES
  reports,  \* reports[<<p, n>>]: submission number n of period p
  created,  \* reports created so far: the id of the latest
  req,      \* req[r]: the locals of request r
  log,      \* log[l]: summary log l and the command submitting it
  head      \* summary log the latest summary-log-submitted event names

vars == <<reports, created, req, log, head>>

-----------------------------------------------------------------------------
(* Reports.                                                                *)

IN_PROGRESS     == "in_progress"
READY_TO_SUBMIT == "ready_to_submit"
SUBMITTED       == "submitted"
REPORT_STATUS   == {IN_PROGRESS, READY_TO_SUBMIT, SUBMITTED}

ACTIVE_REPORT_STATUSES == {IN_PROGRESS, READY_TO_SUBMIT}
DraftsOnly             == {IN_PROGRESS}

IsValidReportTransition(from, to) ==
  <<from, to>> \in { <<IN_PROGRESS, READY_TO_SUBMIT>>, <<READY_TO_SUBMIT, SUBMITTED>> }

STALE_REASON == {"summary_log_changed", "prn_cancelled"}

Slots == Periods \X (1..MaxSubmissions)

(* restatedBy and requested are resubmissionRequired.closedPeriodRestated  *)
(* and .operatorRequested.  submittedAt stands for status.submitted.at, a  *)
(* slot that unsubmitting leaves behind: 0 for none, else a number that    *)
(* every submission of the report changes; submittedAfter holds the        *)
(* summary logs created before it.                                         *)
Report ==
  [id : 1..MaxReports, version : Nat, status : REPORT_STATUS, complete : BOOLEAN,
   source : Logs \cup {NoLog}, stale : SUBSET STALE_REASON,
   restatedBy : Logs \cup {NoLog}, requested : BOOLEAN,
   submittedAt : 0..2, submittedAfter : SUBSET Logs]

NoReport == [status |-> "none"]

NewReport(id, source) ==
  [id |-> id, version |-> 1, status |-> IN_PROGRESS, complete |-> FALSE,
   source |-> source, stale |-> {}, restatedBy |-> NoLog, requested |-> FALSE,
   submittedAt |-> 0, submittedAfter |-> {}]

Exists(s) == reports[s] # NoReport
Active(s) == reports[s].status \in ACTIVE_REPORT_STATUSES
Taken     == {s \in Slots : Exists(s)}

IsResubmissionRequired(report) == report.restatedBy # NoLog \/ report.requested

IsLatestSubmission(s) == \A t \in Taken : t[1] = s[1] => t[2] <= s[2]

(* reports_one_active_draft_per_period                                     *)
AnotherDraft(s) == \E t \in Taken : t[1] = s[1] /\ t # s /\ Active(t)

(* A period closes with its first submission and stays closed while a      *)
(* later submission of it is being drafted.                                *)
BuildSubmittedPeriods ==
  {p \in Periods :
     \E s \in Taken : /\ s[1] = p
                      /\ reports[s].status = SUBMITTED \/ ~ IsLatestSubmission(s)}

SubmissionsPerPeriod(periods) ==
  {s \in Taken : s[1] \in periods /\ reports[s].status = SUBMITTED}

LatestSubmissionPerPeriod(periods) ==
  LET submitted == {s \in Taken : s[1] \in periods /\ reports[s].status = SUBMITTED}
  IN  {s \in submitted : \A t \in submitted : t[1] = s[1] => t[2] <= s[2]}

Edited(report) == [report EXCEPT !.version = @ + 1]

-----------------------------------------------------------------------------
(* Requests.                                                               *)

Idle == [pc |-> "idle", kind |-> "none", slot |-> <<>>, id |-> 0, version |-> 0,
         source |-> NoLog]

(* Steps of a summary log's command after its ledger event.               *)
Flagging == {"flag", "find", "require", "finalise"}

Kinds == {"patch", "ready", "submit", "delete", "unsubmit", "requestResubmission"}

AssertNotStale(report) == report.stale = {} \/ report.status = SUBMITTED

(* Every field an operator has to fill in is filled in.                    *)
AssertReportComplete(report) == report.complete

(* What each route checks of the report it read before it writes.          *)
PermitsPatch(report) == AssertNotStale(report) /\ report.status = IN_PROGRESS

PermitsStatus(report, status) ==
  /\ AssertNotStale(report)
  /\ IsValidReportTransition(report.status, status)
  /\ AssertReportComplete(report)

PermitsDelete(report) == report.status # SUBMITTED

PermitsUnsubmit(s) ==
  /\ reports[s].status = SUBMITTED
  /\ ~ IsResubmissionRequired(reports[s])
  /\ IsLatestSubmission(s)

ResubmissionEligible(s) ==
  /\ reports[s].status = SUBMITTED
  /\ ~ IsResubmissionRequired(reports[s])
  /\ IsLatestSubmission(s)

Permits(kind, s) ==
  \/ kind = "patch"  /\ PermitsPatch(reports[s])
  \/ kind = "ready"  /\ PermitsStatus(reports[s], READY_TO_SUBMIT)
  \/ kind = "submit" /\ PermitsStatus(reports[s], SUBMITTED)
  \/ kind = "delete" /\ PermitsDelete(reports[s])
  \/ kind = "unsubmit" /\ PermitsUnsubmit(s)
  \/ kind = "requestResubmission" /\ ResubmissionEligible(s)

FetchReport(r) ==
  \E kind \in Kinds, s \in Taken :
    /\ req[r].pc = "idle"
    /\ Permits(kind, s)
    /\ reports[s].version < MaxVersion
    /\ req' = [req EXCEPT ![r] = [Idle EXCEPT !.pc = "write", !.kind = kind,
                                              !.slot = s, !.id = reports[s].id,
                                              !.version = reports[s].version]]
    /\ UNCHANGED <<reports, created, log, head>>

IdMatches(r) ==
  /\ reports[req[r].slot] # NoReport
  /\ reports[req[r].slot].id = req[r].id

(* The filter {id, version} of a write.                                    *)
VersionMatches(r) ==
  LET report == reports[req[r].slot]
  IN  /\ report # NoReport
      /\ report.id = req[r].id
      /\ report.version = req[r].version

Writing(r, kinds) == req[r].pc = "write" /\ req[r].kind \in kinds

Write(r, report) ==
  /\ reports' = [reports EXCEPT ![req[r].slot] = report]
  /\ req' = [req EXCEPT ![r] = Idle]
  /\ UNCHANGED <<created, log, head>>

(* Manual tonnages and prices are filled in, perhaps not all of them.      *)
BuildUpdateFields(report) ==
  {[Edited(report) EXCEPT !.complete = complete] : complete \in {report.complete, TRUE}}

PerformUpdateReport(r) ==
  /\ Writing(r, {"patch"})
  /\ VersionMatches(r)
  /\ \E report \in BuildUpdateFields(reports[req[r].slot]) : Write(r, report)

(* The client's version is that of the report it was shown, the one read.  *)
PerformUpdateReportStatus(r) ==
  LET report == Edited(reports[req[r].slot])
      before == {l \in Logs : log[l].pc # "none"}
  IN  /\ Writing(r, {"ready", "submit", "unsubmit"})
      /\ VersionMatches(r)
      /\ \/ /\ req[r].kind = "ready"
            /\ Write(r, [report EXCEPT !.status = READY_TO_SUBMIT])
         \/ /\ req[r].kind = "submit"
            /\ Write(r, [report EXCEPT !.status = SUBMITTED,
                                       !.submittedAt = 1 + (@ % 2),
                                       !.submittedAfter = before])
         \/ /\ req[r].kind = "unsubmit"
            /\ ~ AnotherDraft(req[r].slot)
            /\ "unsubmitDuringUpload" \in Disturbances
                 \/ \A l \in Logs : log[l].pc \notin Flagging
            /\ Write(r, [report EXCEPT !.status = READY_TO_SUBMIT])

(* The report is deleted by period and submission number, whatever became  *)
(* of it.                                                                  *)
PerformDeleteReport(r) ==
  /\ Writing(r, {"delete"})
  /\ Exists(req[r].slot)
  /\ "slowDelete" \in Disturbances \/ VersionMatches(r)
  /\ Write(r, NoReport)

MarkRequiringResubmissionByOperator(r) ==
  LET report == reports[req[r].slot]
  IN  /\ Writing(r, {"requestResubmission"})
      /\ report # NoReport
      /\ report.status = SUBMITTED
      /\ ~ report.requested
      /\ Write(r, [Edited(report) EXCEPT !.requested = TRUE])

(* 404 or 409: the write found nothing to update, or the request gives up  *)
(* before it.                                                              *)
RequestEnds(r) ==
  /\ req[r].pc # "idle"
  /\ req' = [req EXCEPT ![r] = Idle]
  /\ UNCHANGED <<reports, created, log, head>>

-----------------------------------------------------------------------------
(* Creation: the period's reports are read, then the head of the ledger    *)
(* and the rows at it, then the draft is inserted.                         *)

SubmittedToBeResubmitted(s) ==
  /\ Exists(s)
  /\ reports[s].status = SUBMITTED
  /\ IsResubmissionRequired(reports[s])

MayCreateAfterAny(s) ==
  /\ ~ Exists(s)
  /\ s[2] > 1 => Exists(<<s[1], s[2] - 1>>)

(* assertNoExistingReport and assertResubmissionAllowed                    *)
MayCreate(s) ==
  /\ ~ Exists(s)
  /\ s[2] > 1 => SubmittedToBeResubmitted(<<s[1], s[2] - 1>>)

CreateReportForPeriod(r) ==
  \E s \in Slots :
    /\ req[r].pc = "idle"
    /\ created < MaxReports
    /\ MayCreate(s)
    /\ req' = [req EXCEPT ![r] = [Idle EXCEPT !.pc = "aggregate", !.slot = s]]
    /\ UNCHANGED <<reports, created, log, head>>

GetAggregatedReportDetail(r) ==
  /\ req[r].pc = "aggregate"
  /\ req' = [req EXCEPT ![r].pc = "insert",
                        ![r].source = head]
  /\ UNCHANGED <<reports, created, log, head>>

(* Either unique index refuses a second report.                            *)
PerformCreateReport(r) ==
  LET s == req[r].slot
  IN  /\ req[r].pc = "insert"
      /\ ~ Exists(s)
      /\ ~ AnotherDraft(s)
      /\ created < MaxReports
      /\ created' = created + 1
      /\ reports' = [reports EXCEPT ![s] = NewReport(created', req[r].source)]
      /\ req' = [req EXCEPT ![r] = Idle]
      /\ UNCHANGED <<log, head>>

-----------------------------------------------------------------------------
(* Summary logs and cancelled PRNs.                                        *)

NewLog == [pc |-> "none", baseline |-> {}, closed |-> {}, found |-> {}]

(* Steps of the command that submits a log.                                *)
Commanded == {"check", "commit"} \cup Flagging

SubmittedLogs == {l \in Logs : log[l].pc = "submitted"}

(* The document is inserted: createdAt and the baseline are fixed.         *)
Upload(l) ==
  /\ log[l].pc = "none"
  /\ log' = [log EXCEPT ![l].pc = "uploaded", ![l].baseline = SubmittedLogs]
  /\ UNCHANGED <<reports, created, req, head>>

(* Of the periods whose loads the upload changes, the closed ones are kept *)
(* with the log as they are now.                                           *)
Validate(l) ==
  \E changed \in SUBSET Periods :
    /\ log[l].pc = "uploaded"
    /\ log' = [log EXCEPT ![l].pc = "validated",
                          ![l].closed = changed \cap BuildSubmittedPeriods]
    /\ UNCHANGED <<reports, created, req, head>>

(* One log of a registration is submitting at a time, and its preview is   *)
(* not stale.                                                              *)
Submit(l) ==
  /\ log[l].pc = "validated"
  /\ \A m \in Logs : log[m].pc \notin Commanded
  /\ log' = [log EXCEPT ![l].pc = IF log[l].baseline = SubmittedLogs
                                  THEN "check" ELSE "superseded"]
  /\ UNCHANGED <<reports, created, req, head>>

HasReportSubmittedSince(l) == \E s \in Taken : l \in reports[s].submittedAfter

AssertNoReportSubmittedSinceCreation(l) ==
  /\ log[l].pc = "check"
  /\ log' = [log EXCEPT ![l].pc = IF HasReportSubmittedSince(l)
                                  THEN "failed" ELSE "commit"]
  /\ UNCHANGED <<reports, created, req, head>>

SyncFromSummaryLog(l) ==
  /\ log[l].pc = "commit"
  /\ "slowCreate" \in Disturbances
       \/ \A r \in Requests : req[r].pc \notin {"aggregate", "insert"}
  /\ head' = l
  /\ log' = [log EXCEPT ![l].pc = "flag"]
  /\ UNCHANGED <<reports, created, req>>

StaledWhileInProgress(l) ==
  {s \in Taken : /\ reports[s].status \in DraftsOnly
                 /\ reports[s].source # l
                 /\ "summary_log_changed" \notin reports[s].stale}

(* Which active reports a summary log makes stale: any not drawn up from   *)
(* it and not stale for an earlier one.                                    *)
StaledBySummaryLog(l) ==
  {s \in Taken : /\ reports[s].status \in ACTIVE_REPORT_STATUSES
                 /\ reports[s].source # l
                 /\ "summary_log_changed" \notin reports[s].stale}

MarkActiveReportsStaleForSummaryLog(l) ==
  /\ log[l].pc = "flag"
  /\ reports' =
       [s \in Slots |->
          IF s \in StaledBySummaryLog(l)
          THEN [Edited(reports[s]) EXCEPT !.stale = @ \cup {"summary_log_changed"}]
          ELSE reports[s]]
  /\ log' = [log EXCEPT ![l].pc = "find"]
  /\ UNCHANGED <<created, req, head>>

FindLatestSubmitted(l) ==
  /\ log[l].pc = "find"
  /\ log' = [log EXCEPT ![l].pc = "require",
                        ![l].found = {<<s, reports[s].id>> :
                                      s \in LatestSubmissionPerPeriod(log[l].closed)}]
  /\ UNCHANGED <<reports, created, req, head>>

(* The reports found are flagged by id, whatever their status is by now.   *)
MarkSubmittedReportsRequiringResubmission(l) ==
  LET restated == {s \in Taken : /\ <<s, reports[s].id>> \in log[l].found
                                 /\ reports[s].restatedBy # l}
  IN  /\ log[l].pc = "require"
      /\ reports' = [s \in Slots |->
                       IF s \in restated
                       THEN [Edited(reports[s]) EXCEPT !.restatedBy = l]
                       ELSE reports[s]]
      /\ log' = [log EXCEPT ![l].pc = "finalise", ![l].found = {}]
      /\ UNCHANGED <<created, req, head>>

Finalise(l) ==
  /\ log[l].pc = "finalise"
  /\ log' = [log EXCEPT ![l].pc = "submitted"]
  /\ UNCHANGED <<reports, created, req, head>>

(* The worker dies and the message is delivered again, or no more.         *)
Crash(l) ==
  /\ "crash" \in Disturbances
  /\ log[l].pc \in Commanded
  /\ \E pc \in {"check", "failed"} :
       log' = [log EXCEPT ![l].pc = pc, ![l].found = {}]
  /\ UNCHANGED <<reports, created, req, head>>

(* The one active report of the period, unless it is stale for another.    *)
StaledByPrnCancellation(p) ==
  {s \in Taken : s[1] = p /\ Active(s) /\ "prn_cancelled" \notin reports[s].stale}

(* A PRN issued in period p is cancelled.                                  *)
OnPrnCancelled(p) ==
  \E s \in StaledByPrnCancellation(p) :
    /\ reports' = [reports EXCEPT ![s] =
                     [Edited(reports[s]) EXCEPT !.stale = @ \cup {"prn_cancelled"}]]
    /\ UNCHANGED <<created, req, log, head>>

-----------------------------------------------------------------------------
Init ==
  /\ reports = [s \in Slots |-> NoReport]
  /\ created = 0
  /\ req = [r \in Requests |-> Idle]
  /\ log = [l \in Logs |-> NewLog]
  /\ head = NoLog

Next ==
  \/ \E r \in Requests :
       \/ FetchReport(r)
       \/ PerformUpdateReport(r)
       \/ PerformUpdateReportStatus(r)
       \/ PerformDeleteReport(r)
       \/ MarkRequiringResubmissionByOperator(r)
       \/ RequestEnds(r)
       \/ CreateReportForPeriod(r)
       \/ GetAggregatedReportDetail(r)
       \/ PerformCreateReport(r)
  \/ \E l \in Logs :
       \/ Upload(l)
       \/ Validate(l)
       \/ Submit(l)
       \/ AssertNoReportSubmittedSinceCreation(l)
       \/ SyncFromSummaryLog(l)
       \/ MarkActiveReportsStaleForSummaryLog(l)
       \/ FindLatestSubmitted(l)
       \/ MarkSubmittedReportsRequiringResubmission(l)
       \/ Finalise(l)
       \/ Crash(l)
  \/ \E p \in Periods : OnPrnCancelled(p)

Spec == Init /\ [][Next]_vars

-----------------------------------------------------------------------------
(* Properties.                                                             *)

TypeOK ==
  /\ reports \in [Slots -> Report \cup {NoReport}]
  /\ created \in 0..MaxReports
  /\ req \in [Requests ->
                [pc     : {"idle", "write", "aggregate", "insert"},
                 kind   : Kinds \cup {"none"},
                 slot   : Slots \cup {<<>>},
                 id     : 0..MaxReports,
                 version : Nat,
                 source : Logs \cup {NoLog}]]
  /\ log \in [Logs ->
                [pc       : Commanded \cup {"none", "uploaded", "validated",
                                            "superseded", "failed", "submitted"},
                 baseline : SUBSET Logs,
                 closed   : SUBSET Periods,
                 found    : SUBSET (Slots \X (1..MaxReports))]]
  /\ head \in Logs \cup {NoLog}

(* create-report-validation.js and unsubmit.js together: a later           *)
(* submission of a period rests on an earlier one that was submitted, that *)
(* had to be resubmitted, and that is still there to be superseded; and    *)
(* every state is well-typed.                                              *)
LaterSubmissionRestsOnEarlier ==
  /\ TypeOK
  /\ \A s \in Taken :
       s[2] > 1 => SubmittedToBeResubmitted(<<s[1], s[2] - 1>>)

(* unsubmit.js: unsubmitting "would silently clear that outstanding        *)
(* requirement".  A submitted report that must be resubmitted stays as it  *)
(* is, whatever was read before it was flagged.                            *)
RequirementStands ==
  [][\A s \in Taken :
       reports[s].status = SUBMITTED /\ IsResubmissionRequired(reports[s]) =>
         /\ reports'[s].status = SUBMITTED
         /\ IsResubmissionRequired(reports'[s])]_vars

(* stale.js: a report that the summary log or a cancelled PRN has          *)
(* overtaken is not submitted, however late it is overtaken.               *)
SubmittedWhileFresh ==
  [][\A s \in Taken :
       Active(s) /\ reports'[s].status = SUBMITTED => reports[s].stale = {}]_vars

(* summary-log-events.js: "it marks all active (in_progress /              *)
(* ready_to_submit) reports as stale, and flags the latest submitted       *)
(* report of each closed period the upload restated as requiring           *)
(* resubmission".  Whatever is created, edited or submitted meanwhile,     *)
(* none is missed by the time the log is submitted.                        *)
EveryReportFlagged ==
  [][\A l \in Logs : (log[l].pc = "finalise" /\ log'[l].pc = "submitted") =>
       /\ \A s \in Taken :
            Active(s) => reports[s].source = l \/ reports[s].stale # {}
       /\ \A s \in LatestSubmissionPerPeriod(log[l].closed) :
            reports[s].source = l \/ IsResubmissionRequired(reports[s])]_vars

(* routes/delete.js: "Cannot delete a submitted report".                   *)
SubmittedNeverDeleted ==
  [][\A s \in Taken : reports[s].status = SUBMITTED => reports'[s] # NoReport]_vars

(* repository/mongodb.js: "SUBMITTED is terminal".                         *)
SubmittedIsTerminal ==
  [][\A s \in Taken : reports[s].status = SUBMITTED => ~ (Active(s))']_vars

(* mongodb-flagging.js: "Skips a period whose latest submitted report is   *)
(* already flagged from this `summaryLogId` or was itself built from it".  *)
NotRestatedByOwnSource ==
  \A s \in Taken : reports[s].restatedBy # NoLog =>
                     reports[s].restatedBy # reports[s].source

-----------------------------------------------------------------------------
(* What readers make of the reports.                                       *)

(* findPeriodicReports projects what its readers need.                     *)
FindPeriodicReports ==
  [s \in Slots |->
     IF Exists(s)
     THEN [id |-> reports[s].id, status |-> reports[s].status,
           submittedAt |-> reports[s].submittedAt,
           required |-> IsResubmissionRequired(reports[s])]
     ELSE NoReport]

Calendar == INSTANCE ReportCalendar

(* The calendar (build-calendar-periods.js) and the creation of a report   *)
(* (create-report-validation.js) decide apart from each other which        *)
(* submission of a period comes next: the items of the calendar without    *)
(* report are those, and only those, whose creation is accepted.           *)
CalendarOffersWhatCreationAccepts ==
  \A computed \in Calendar!ComputedPeriods :
    LET merged == Calendar!MergeReportingPeriods(FindPeriodicReports, computed)
    IN  \A p \in DOMAIN merged :
          LET items == Calendar!BuildCalendarPeriods(merged[p])
          IN  \A n \in 1..MaxSubmissions :
                MayCreate(<<p, n>>) <=>
                  \E k \in DOMAIN items : /\ items[k].submissionNumber = n
                                          /\ items[k].report = NoReport

(* build-all-submission-periods.js: the list of submissions puts together  *)
(* what the calendar shows and what it leaves out; every report is in it   *)
(* once, in the order of the submission numbers.                           *)
EveryReportListedOnce ==
  \A p \in {s[1] : s \in Taken} :
    LET merged == Calendar!MergeReportingPeriods(FindPeriodicReports, {})
        list   == Calendar!BuildAllSubmissionPeriods(merged[p])
    IN  /\ \A j, k \in DOMAIN list :
             j < k => list[j].submissionNumber < list[k].submissionNumber
        /\ \A s \in Taken : s[1] = p =>
             \E k \in DOMAIN list :
               /\ list[k].submissionNumber = s[2]
               /\ list[k].report = Calendar!ToSubmission(FindPeriodicReports, s)

(* merge-reporting-periods.js: the feed "keeps showing its figures rather  *)
(* than blanking".  A period that is closed has rows, one for each of its  *)
(* submissions from the first; one that is open has none, but for a report *)
(* that was unsubmitted.                                                   *)
ClosedPeriodsAreInTheFeed ==
  \A p \in {s[1] : s \in Taken} :
    LET merged == Calendar!MergeReportingPeriods(FindPeriodicReports, {})
        rows   == Calendar!SubmissionRows(merged[p])
    IN  IF p \in BuildSubmittedPeriods
        THEN \A k \in DOMAIN rows :
               rows[k] # NoReport /\ rows[k].submissionNumber = k
        ELSE /\ Len(rows) = 1
             /\ rows[1] # NoReport => Active(<<p, 1>>)

(* What is found of the reports is grouped as the contract tests ask, and  *)
(* what the three readers show agrees with what was created, and with what *)
(* the creation of the next report will accept.                            *)
ReadersAgree ==
  /\ Calendar!PeriodicReportsHonourContract(FindPeriodicReports)
  /\ CalendarOffersWhatCreationAccepts
  /\ EveryReportListedOnce
  /\ ClosedPeriodsAreInTheFeed

(* report-compliance.js: the register "retains the ORIGINAL submitted      *)
(* date".  As long as a period is closed its date stays what it is, though *)
(* its submissions be superseded, resubmitted and unsubmitted.             *)
PublicDateStands ==
  [][LET before == FindPeriodicReports
         after  == FindPeriodicReports'
     IN  reports' # reports =>
           \A p \in BuildSubmittedPeriods :
             Calendar!PublicDate(after, p) = Calendar!PublicDate(before, p)]_vars

-----------------------------------------------------------------------------
(* The repository as its callers may think of it.                          *)

Repository == INSTANCE ReportRepository WITH reports <- reports

(* The writes of the MongoDB adapter, whose conditions are filters and     *)
(* unique indexes and whose flags are set by id after a find, come to the  *)
(* operations the contract tests ask of every adapter: they keep one draft *)
(* a period, flag what they should and nothing else, and lose no version.  *)
HonoursContract == Repository!Spec
=============================================================================
