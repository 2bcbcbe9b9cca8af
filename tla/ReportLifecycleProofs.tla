------------------------ MODULE ReportLifecycleProofs ------------------------
(***************************************************************************)
(* Theorems about ReportLifecycle, for any periods, submission numbers,    *)
(* summary logs, requests and, where not said otherwise, disturbances.     *)
(***************************************************************************)
EXTENDS ReportLifecycle, TLAPS

(* What the route of a request checked of its report and no other write    *)
(* may have changed under the version it carries.                          *)
StillPermits(kind, report) ==
  /\ kind = "patch" => PermitsPatch(report)
  /\ kind = "ready" => PermitsStatus(report, READY_TO_SUBMIT)
  /\ kind = "submit" => PermitsStatus(report, SUBMITTED)
  /\ kind = "delete" => PermitsDelete(report)
  /\ kind = "unsubmit" =>
       report.status = SUBMITTED /\ ~ IsResubmissionRequired(report)

(* A request holds an id that was given and a version its report has       *)
(* reached.                                                                *)
RequestHolds(r) ==
  /\ req[r].pc # "idle" => req[r].slot \in Slots
  /\ req[r].id <= created
  /\ req[r].pc = "write" /\ IdMatches(r) =>
       req[r].version <= reports[req[r].slot].version
  /\ req[r].pc = "write" /\ VersionMatches(r) =>
       StillPermits(req[r].kind, reports[req[r].slot])

Inv ==
  /\ TypeOK
  /\ \A s \in Slots : Exists(s) => reports[s].id <= created
  /\ \A r \in Requests : RequestHolds(r)

(* No log is between its event and its outcome.                            *)
NoneFlagging == \A l \in Logs : log[l].pc \notin Flagging

(* What may become of the report of a slot in one step.                    *)
Deleted(s) ==
  /\ Exists(s)
  /\ reports'[s] = NoReport
  /\ "slowDelete" \in Disturbances \/ reports[s].status # SUBMITTED

Inserted(s) ==
  /\ ~ Exists(s)
  /\ created' = created + 1
  /\ reports'[s] # NoReport
  /\ reports'[s].id = created'
  /\ reports'[s].status = IN_PROGRESS
  /\ \E r \in Requests : /\ req[r].pc = "insert" /\ req[r].slot = s
                         /\ reports'[s].source = req[r].source

Rewritten(s) ==
  /\ Exists(s)
  /\ reports'[s] # NoReport
  /\ reports'[s].id = reports[s].id
  /\ reports'[s].version = reports[s].version + 1
  /\ reports'[s].source = reports[s].source
  /\ reports[s].stale \subseteq reports'[s].stale
  /\ IsResubmissionRequired(reports[s]) =>
       /\ IsResubmissionRequired(reports'[s])
       /\ reports[s].status = SUBMITTED => reports'[s].status = SUBMITTED
  /\ reports'[s].status = SUBMITTED /\ reports[s].status # SUBMITTED =>
       reports[s].stale = {}
  /\ reports'[s].status # SUBMITTED /\ reports[s].status = SUBMITTED =>
       "unsubmitDuringUpload" \in Disturbances \/ NoneFlagging

Moves(s) ==
  reports'[s] = reports[s] \/ Deleted(s) \/ Inserted(s) \/ Rewritten(s)

(* The creation of a later submission was allowed by the one before it,    *)
(* and still is.                                                           *)
PreviousToBeResubmitted(s) ==
  s[2] > 1 => SubmittedToBeResubmitted(<<s[1], s[2] - 1>>)

RestInv ==
  /\ Inv
  /\ \A s \in Taken : PreviousToBeResubmitted(s)
  /\ \A r \in Requests :
       req[r].pc \in {"aggregate", "insert"} => PreviousToBeResubmitted(req[r].slot)

-----------------------------------------------------------------------------
(* Facts about reports.                                                    *)

LEMMA StatusesDiffer ==
  /\ IN_PROGRESS # READY_TO_SUBMIT /\ IN_PROGRESS # SUBMITTED
  /\ READY_TO_SUBMIT # SUBMITTED
  /\ "none" \notin REPORT_STATUS
  /\ REPORT_STATUS = {IN_PROGRESS, READY_TO_SUBMIT, SUBMITTED}
  BY DEF IN_PROGRESS, READY_TO_SUBMIT, SUBMITTED, REPORT_STATUS

(* A report is not the absence of one.                                     *)
LEMMA ReportsExist == ASSUME NEW report \in Report PROVE report # NoReport
  BY StatusesDiffer DEF Report, NoReport

LEMMA ReportOfSlot ==
  ASSUME TypeOK, NEW s \in Slots, Exists(s)
  PROVE  reports[s] \in Report
  BY DEF TypeOK, Exists

LEMMA EditedTyped ==
  ASSUME NEW report \in Report
  PROVE  /\ Edited(report) \in Report
         /\ Edited(report).version = report.version + 1
         /\ Edited(report).id = report.id
         /\ Edited(report).status = report.status
         /\ Edited(report).stale = report.stale
         /\ Edited(report).complete = report.complete
         /\ Edited(report).restatedBy = report.restatedBy
         /\ Edited(report).requested = report.requested
         /\ Edited(report).source = report.source
         /\ Edited(report).submittedAt = report.submittedAt
         /\ Edited(report).submittedAfter = report.submittedAfter
  BY DEF Edited, Report

-----------------------------------------------------------------------------
(* Types.                                                                  *)

RequestRecord ==
  [pc     : {"idle", "write", "aggregate", "insert"},
   kind   : Kinds \cup {"none"},
   slot   : Slots \cup {<<>>},
   id     : 0..MaxReports,
   version : Nat,
   source : Logs \cup {NoLog}]

LogRecord ==
  [pc       : Commanded \cup {"none", "uploaded", "validated",
                              "superseded", "failed", "submitted"},
   baseline : SUBSET Logs,
   closed   : SUBSET Periods,
   found    : SUBSET (Slots \X (1..MaxReports))]

LEMMA TypesNamed ==
  TypeOK <=> /\ reports \in [Slots -> Report \cup {NoReport}]
             /\ created \in 0..MaxReports
             /\ req \in [Requests -> RequestRecord]
             /\ log \in [Logs -> LogRecord]
             /\ head \in Logs \cup {NoLog}
  BY DEF TypeOK, RequestRecord, LogRecord

LEMMA TypesKept ==
  ASSUME reports' \in [Slots -> Report \cup {NoReport}],
         created' \in 0..MaxReports,
         req' \in [Requests -> RequestRecord],
         log' \in [Logs -> LogRecord],
         head' \in Logs \cup {NoLog}
  PROVE  TypeOK'
  BY DEF TypeOK, RequestRecord, LogRecord

LEMMA IdleTyped == Idle \in RequestRecord
  BY BoundAssumption DEF Idle, RequestRecord

LEMMA LogFields ==
  ASSUME NEW x \in LogRecord, NEW pc \in Commanded
  PROVE  [x EXCEPT !.pc = pc] \in LogRecord /\ [x EXCEPT !.pc = pc, !.found = {}] \in LogRecord
  BY DEF LogRecord

LEMMA NewLogTyped == NewLog \in LogRecord
  BY DEF NewLog, LogRecord

LEMMA InitTyped == Init => TypeOK
  BY TypesNamed, IdleTyped, NewLogTyped, BoundAssumption DEF Init

(* A request that writes leaves a report, or none, where it read one.      *)
LEMMA WriteTyped ==
  ASSUME TypeOK, NEW r \in Requests, req[r].slot \in Slots,
         NEW report \in Report \cup {NoReport}, Write(r, report)
  PROVE  TypeOK'
  BY TypesNamed, TypesKept, IdleTyped DEF Write

(* A request that reads becomes one that writes, or rests.                 *)
LEMMA RequestTyped ==
  ASSUME TypeOK, NEW r \in Requests, NEW q \in RequestRecord,
         req' = [req EXCEPT ![r] = q], UNCHANGED <<reports, created, log, head>>
  PROVE  TypeOK'
  BY TypesNamed, TypesKept

LEMMA LogTyped ==
  ASSUME TypeOK, NEW l \in Logs, NEW x \in LogRecord,
         log' = [log EXCEPT ![l] = x], UNCHANGED <<reports, created, req>>,
         head' \in Logs \cup {NoLog}
  PROVE  TypeOK'
  BY TypesNamed, TypesKept

(* The steps of a log that write no report.                                *)
LogSteps(l) ==
  \/ Upload(l)
  \/ Validate(l)
  \/ Submit(l)
  \/ AssertNoReportSubmittedSinceCreation(l)
  \/ SyncFromSummaryLog(l)
  \/ FindLatestSubmitted(l)
  \/ Finalise(l)
  \/ Crash(l)

(* What a log finds are reports of today.                                  *)
LEMMA FoundTyped ==
  ASSUME TypeOK, NEW periods
  PROVE  {<<s, reports[s].id>> : s \in LatestSubmissionPerPeriod(periods)}
           \in SUBSET (Slots \X (1..MaxReports))
  <1>1. \A s \in LatestSubmissionPerPeriod(periods) : s \in Slots /\ reports[s] \in Report
    BY ReportOfSlot DEF LatestSubmissionPerPeriod, Taken
  <1> QED
    BY <1>1 DEF Report

LEMMA LogStepTyped ==
  ASSUME TypeOK, NEW l \in Logs, LogSteps(l)
  PROVE  TypeOK' /\ UNCHANGED <<reports, created, req>>
  <1>1. log \in [Logs -> LogRecord] /\ log[l] \in LogRecord
    BY TypesNamed
  <1>2. head \in Logs \cup {NoLog}
    BY TypesNamed
  <1>3. \E x \in LogRecord : log' = [log EXCEPT ![l] = x]
    <2>1. CASE Upload(l)
      <3>1. [log[l] EXCEPT !.pc = "uploaded", !.baseline = SubmittedLogs] \in LogRecord
        BY <1>1 DEF LogRecord, SubmittedLogs
      <3> QED
        BY <1>1, <2>1, <3>1 DEF Upload
    <2>2. CASE Validate(l)
      <3>1. PICK changed \in SUBSET Periods :
               log' = [log EXCEPT ![l].pc = "validated",
                                  ![l].closed = changed \cap BuildSubmittedPeriods]
        BY <2>2 DEF Validate
      <3>2. [log[l] EXCEPT !.pc = "validated",
                           !.closed = changed \cap BuildSubmittedPeriods] \in LogRecord
        BY <1>1 DEF LogRecord
      <3> QED
        BY <1>1, <3>1, <3>2
    <2>3. CASE FindLatestSubmitted(l)
      <3> DEFINE found == {<<s, reports[s].id>> :
                             s \in LatestSubmissionPerPeriod(log[l].closed)}
      <3>1. found \in SUBSET (Slots \X (1..MaxReports))
        BY FoundTyped
      <3>2. log' = [log EXCEPT ![l].pc = "require", ![l].found = found]
        BY <2>3 DEF FindLatestSubmitted
      <3> HIDE DEF found
      <3>3. [log[l] EXCEPT !.pc = "require", !.found = found] \in LogRecord
        BY <1>1, <3>1 DEF LogRecord, Commanded, Flagging
      <3> QED
        BY <1>1, <3>2, <3>3
    <2>4. CASE Crash(l)
      <3>1. PICK pc \in {"check", "failed"} :
               log' = [log EXCEPT ![l].pc = pc, ![l].found = {}]
        BY <2>4 DEF Crash
      <3>2. [log[l] EXCEPT !.pc = pc, !.found = {}] \in LogRecord
        BY <1>1 DEF LogRecord, Commanded
      <3> QED
        BY <1>1, <3>1, <3>2
    <2>5. CASE \/ Submit(l) \/ AssertNoReportSubmittedSinceCreation(l)
               \/ SyncFromSummaryLog(l) \/ Finalise(l)
      <3>1. PICK pc \in {"check", "superseded", "failed", "commit", "flag", "submitted"} :
               log' = [log EXCEPT ![l].pc = pc]
        BY <2>5 DEF Submit, AssertNoReportSubmittedSinceCreation, SyncFromSummaryLog, Finalise
      <3>2. [log[l] EXCEPT !.pc = pc] \in LogRecord
        BY <1>1 DEF LogRecord, Commanded, Flagging
      <3> QED
        BY <1>1, <3>1, <3>2
    <2> QED
      BY <2>1, <2>2, <2>3, <2>4, <2>5 DEF LogSteps
  <1>4. UNCHANGED <<reports, created, req>> /\ head' \in Logs \cup {NoLog}
    BY <1>2 DEF LogSteps, Upload, Validate, Submit, AssertNoReportSubmittedSinceCreation,
                SyncFromSummaryLog, FindLatestSubmitted, Finalise, Crash
  <1> QED
    BY <1>3, <1>4, LogTyped

(* The steps of a log, or of the cancellation of a PRN, that flag reports. *)
FlagSteps ==
  \/ \E l \in Logs : \/ MarkActiveReportsStaleForSummaryLog(l)
                     \/ MarkSubmittedReportsRequiringResubmission(l)
  \/ \E p \in Periods : OnPrnCancelled(p)

(* A flag is set on a report that was there, under the next version, and   *)
(* no status with it; no requirement to resubmit is cleared by it.         *)
Flagged(s) ==
  /\ Exists(s)
  /\ reports'[s] \in Report
  /\ reports'[s].id = reports[s].id
  /\ reports'[s].version = reports[s].version + 1
  /\ reports'[s].status = reports[s].status
  /\ reports'[s].source = reports[s].source
  /\ reports[s].stale \subseteq reports'[s].stale
  /\ IsResubmissionRequired(reports[s]) => IsResubmissionRequired(reports'[s])

LEMMA FlagStep ==
  ASSUME TypeOK, FlagSteps
  PROVE  /\ TypeOK'
         /\ UNCHANGED <<created, req>>
         /\ \A s \in Slots : reports'[s] = reports[s] \/ Flagged(s)
  <1>1. /\ reports \in [Slots -> Report \cup {NoReport}]
        /\ created \in 0..MaxReports
        /\ req \in [Requests -> RequestRecord]
        /\ log \in [Logs -> LogRecord]
        /\ head \in Logs \cup {NoLog}
    BY TypesNamed
  <1>2. ASSUME NEW l \in Logs, MarkActiveReportsStaleForSummaryLog(l)
        PROVE  /\ \A s \in Slots : reports'[s] = reports[s] \/ Flagged(s)
               /\ DOMAIN reports' = Slots
               /\ log' \in [Logs -> LogRecord]
               /\ UNCHANGED <<created, req, head>>
    <2> DEFINE stale(s) ==
                 [Edited(reports[s]) EXCEPT !.stale = @ \cup {"summary_log_changed"}]
    <2>1. /\ reports' = [s \in Slots |->
                          IF s \in StaledBySummaryLog(l) THEN stale(s) ELSE reports[s]]
          /\ log' = [log EXCEPT ![l].pc = "find"]
          /\ UNCHANGED <<created, req, head>>
      BY <1>2 DEF MarkActiveReportsStaleForSummaryLog
    <2>2. [log[l] EXCEPT !.pc = "find"] \in LogRecord
      BY <1>1 DEF LogRecord, Commanded, Flagging
    <2>3. log' \in [Logs -> LogRecord]
      BY <1>1, <2>1, <2>2
    <2>4. ASSUME NEW s \in Slots, s \in StaledBySummaryLog(l), reports'[s] = stale(s)
          PROVE  Flagged(s)
      <3>1. Exists(s) /\ reports[s] \in Report
        BY <2>4, ReportOfSlot DEF StaledBySummaryLog, Taken
      <3>2. Edited(reports[s]) \in Report
        BY <3>1, EditedTyped
      <3>3. /\ stale(s) \in Report
            /\ stale(s).version = Edited(reports[s]).version
            /\ stale(s).id = Edited(reports[s]).id
            /\ stale(s).status = Edited(reports[s]).status
            /\ stale(s).restatedBy = Edited(reports[s]).restatedBy
            /\ stale(s).requested = Edited(reports[s]).requested
            /\ stale(s).source = Edited(reports[s]).source
            /\ Edited(reports[s]).stale \subseteq stale(s).stale
        BY <3>2 DEF Report, STALE_REASON
      <3> HIDE DEF stale
      <3> QED
        BY <2>4, <3>1, <3>3, EditedTyped DEF Flagged, IsResubmissionRequired
    <2> HIDE DEF stale
    <2> QED
      BY <2>1, <2>3, <2>4
  <1>3. ASSUME NEW l \in Logs, MarkSubmittedReportsRequiringResubmission(l)
        PROVE  /\ \A s \in Slots : reports'[s] = reports[s] \/ Flagged(s)
               /\ DOMAIN reports' = Slots
               /\ log' \in [Logs -> LogRecord]
               /\ UNCHANGED <<created, req, head>>
    <2> DEFINE restated == {s \in Taken : /\ <<s, reports[s].id>> \in log[l].found
                                          /\ reports[s].restatedBy # l}
               required(s) == [Edited(reports[s]) EXCEPT !.restatedBy = l]
    <2>1. /\ reports' = [s \in Slots |->
                          IF s \in restated THEN required(s) ELSE reports[s]]
          /\ log' = [log EXCEPT ![l].pc = "finalise", ![l].found = {}]
          /\ UNCHANGED <<created, req, head>>
      BY <1>3 DEF MarkSubmittedReportsRequiringResubmission
    <2>2. [log[l] EXCEPT !.pc = "finalise", !.found = {}] \in LogRecord
      BY <1>1, LogFields DEF Commanded, Flagging
    <2>3. log' \in [Logs -> LogRecord]
      BY <1>1, <2>1, <2>2
    <2>4. ASSUME NEW s \in Slots, s \in restated, reports'[s] = required(s)
          PROVE  Flagged(s)
      <3>1. Exists(s) /\ reports[s] \in Report
        BY <2>4, ReportOfSlot DEF Taken
      <3>2. Edited(reports[s]) \in Report
        BY <3>1, EditedTyped
      <3>3. /\ required(s) \in Report
            /\ required(s).version = Edited(reports[s]).version
            /\ required(s).id = Edited(reports[s]).id
            /\ required(s).status = Edited(reports[s]).status
            /\ required(s).restatedBy = l
            /\ required(s).source = Edited(reports[s]).source
            /\ required(s).stale = Edited(reports[s]).stale
        BY <3>2 DEF Report
      <3> HIDE DEF required
      <3> QED
        BY <2>4, <3>1, <3>3, EditedTyped, LogAssumption DEF Flagged, IsResubmissionRequired
    <2> HIDE DEF restated, required
    <2> QED
      BY <2>1, <2>3, <2>4
  <1>4. ASSUME NEW p \in Periods, OnPrnCancelled(p)
        PROVE  /\ \A s \in Slots : reports'[s] = reports[s] \/ Flagged(s)
               /\ DOMAIN reports' = Slots
               /\ log' \in [Logs -> LogRecord]
               /\ UNCHANGED <<created, req, head>>
    <2>1. PICK s \in StaledByPrnCancellation(p) :
            /\ reports' = [reports EXCEPT ![s] =
                     [Edited(reports[s]) EXCEPT !.stale = @ \cup {"prn_cancelled"}]]
            /\ UNCHANGED <<created, req, log, head>>
      BY <1>4 DEF OnPrnCancelled
    <2> DEFINE stale == [Edited(reports[s]) EXCEPT !.stale = @ \cup {"prn_cancelled"}]
    <2>2. s \in Slots /\ Exists(s) /\ reports[s] \in Report
      BY ReportOfSlot DEF StaledByPrnCancellation, Taken
    <2>3. Edited(reports[s]) \in Report
      BY <2>2, EditedTyped
    <2>4. /\ stale \in Report
          /\ stale.version = Edited(reports[s]).version
          /\ stale.id = Edited(reports[s]).id
          /\ stale.status = Edited(reports[s]).status
          /\ stale.restatedBy = Edited(reports[s]).restatedBy
          /\ stale.requested = Edited(reports[s]).requested
          /\ stale.source = Edited(reports[s]).source
          /\ Edited(reports[s]).stale \subseteq stale.stale
      BY <2>3 DEF Report, STALE_REASON
    <2>5. reports' = [reports EXCEPT ![s] = stale]
      BY <2>1
    <2> HIDE DEF stale
    <2>6. Flagged(s)
      BY <1>1, <2>2, <2>4, <2>5, EditedTyped DEF Flagged, IsResubmissionRequired
    <2> QED
      BY <1>1, <2>1, <2>5, <2>6
  <1>5. /\ \A s \in Slots : reports'[s] = reports[s] \/ Flagged(s)
        /\ DOMAIN reports' = Slots
        /\ log' \in [Logs -> LogRecord]
        /\ UNCHANGED <<created, req, head>>
    BY <1>2, <1>3, <1>4 DEF FlagSteps
  <1>6. reports' \in [Slots -> Report \cup {NoReport}]
    <2>1. \A s \in Slots : reports'[s] \in Report \cup {NoReport}
      BY <1>1, <1>5 DEF Flagged
    <2>2. reports' = [s \in Slots |-> reports'[s]]
      BY <1>2, <1>3, <1>4, <1>1
          DEF FlagSteps, MarkActiveReportsStaleForSummaryLog,
              MarkSubmittedReportsRequiringResubmission, OnPrnCancelled
    <2> QED
      BY <2>1, <2>2
  <1> QED
    BY <1>1, <1>5, <1>6, TypesKept

-----------------------------------------------------------------------------
(* What a step does to the reports.                                        *)

(* A write that finds its version puts a report in the place of another.   *)
LEMMA Replaced ==
  ASSUME Inv, NEW r \in Requests, req[r].slot \in Slots,
         NEW report \in Report, Write(r, report),
         Exists(req[r].slot),
         report.id = reports[req[r].slot].id,
         report.version = reports[req[r].slot].version + 1,
         report.source = reports[req[r].slot].source,
         report.stale = reports[req[r].slot].stale,
         IsResubmissionRequired(reports[req[r].slot]) =>
           /\ IsResubmissionRequired(report)
           /\ reports[req[r].slot].status = SUBMITTED => report.status = SUBMITTED,
         report.status = SUBMITTED /\ reports[req[r].slot].status # SUBMITTED =>
           reports[req[r].slot].stale = {},
         report.status # SUBMITTED /\ reports[req[r].slot].status = SUBMITTED =>
           "unsubmitDuringUpload" \in Disturbances \/ NoneFlagging
  PROVE  \A s \in Slots : Moves(s)
  <1>1. reports \in [Slots -> Report \cup {NoReport}]
    BY TypesNamed DEF Inv
  <1>2. /\ reports'[req[r].slot] = report
        /\ \A s \in Slots : s # req[r].slot => reports'[s] = reports[s]
    BY <1>1 DEF Write
  <1>3. report # NoReport
    BY ReportsExist
  <1> QED
    BY <1>2, <1>3 DEF Moves, Rewritten

LEMMA UpdateMoves ==
  ASSUME Inv, NEW r \in Requests, PerformUpdateReport(r)
  PROVE  TypeOK' /\ \A s \in Slots : Moves(s)
  <1> DEFINE before == reports[req[r].slot]
  <1>1. /\ req[r].slot \in Slots /\ Exists(req[r].slot) /\ before \in Report
        /\ before.status = IN_PROGRESS
    BY ReportOfSlot
       DEF Inv, RequestHolds, StillPermits, PermitsPatch, PerformUpdateReport, Writing,
           VersionMatches, Exists
  <1>2. PICK report \in BuildUpdateFields(before) : Write(r, report)
    BY DEF PerformUpdateReport
  <1>3. /\ Edited(before) \in Report
        /\ before.complete \in BOOLEAN
    BY <1>1, EditedTyped DEF Report
  <1>4. /\ report \in Report
        /\ report.id = Edited(before).id
        /\ report.version = Edited(before).version
        /\ report.status = Edited(before).status
        /\ report.restatedBy = Edited(before).restatedBy
        /\ report.requested = Edited(before).requested
        /\ report.source = Edited(before).source
        /\ report.stale = Edited(before).stale
    BY <1>2, <1>3 DEF BuildUpdateFields, Report
  <1>5. /\ report.id = before.id
        /\ report.version = before.version + 1
        /\ report.source = before.source
        /\ report.stale = before.stale
        /\ report.status = before.status
        /\ IsResubmissionRequired(before) => IsResubmissionRequired(report)
    BY <1>1, <1>4, EditedTyped DEF IsResubmissionRequired
  <1>6. TypeOK'
    BY <1>1, <1>2, <1>4, WriteTyped DEF Inv
  <1> QED
    BY <1>1, <1>2, <1>4, <1>5, <1>6, Replaced

LEMMA StatusMoves ==
  ASSUME Inv, NEW r \in Requests, PerformUpdateReportStatus(r)
  PROVE  TypeOK' /\ \A s \in Slots : Moves(s)
  <1> DEFINE before == reports[req[r].slot]
             logs   == {l \in Logs : log[l].pc # "none"}
  <1>1. /\ req[r].slot \in Slots /\ Exists(req[r].slot) /\ before \in Report
        /\ StillPermits(req[r].kind, before)
    BY ReportOfSlot
       DEF Inv, RequestHolds, PerformUpdateReportStatus, Writing, VersionMatches, Exists
  <1>2. /\ Edited(before) \in Report
        /\ Edited(before).submittedAt \in 0..2
    BY <1>1, EditedTyped DEF Report
  <1>3. ASSUME NEW report \in Report, Write(r, report),
               report.id = Edited(before).id,
               report.version = Edited(before).version,
               report.restatedBy = Edited(before).restatedBy,
               report.requested = Edited(before).requested,
               report.source = Edited(before).source,
               report.stale = Edited(before).stale,
               IsResubmissionRequired(before) /\ before.status = SUBMITTED =>
                 report.status = SUBMITTED,
               report.status = SUBMITTED /\ before.status # SUBMITTED => before.stale = {},
               report.status # SUBMITTED /\ before.status = SUBMITTED =>
                 "unsubmitDuringUpload" \in Disturbances \/ NoneFlagging
        PROVE  TypeOK' /\ \A s \in Slots : Moves(s)
    <2>1. /\ report.id = before.id
          /\ report.version = before.version + 1
          /\ report.source = before.source
          /\ report.stale = before.stale
          /\ IsResubmissionRequired(before) => IsResubmissionRequired(report)
      BY <1>1, <1>3, EditedTyped DEF IsResubmissionRequired
    <2>2. TypeOK'
      BY <1>1, <1>3, WriteTyped DEF Inv
    <2> QED
      BY <1>1, <1>3, <2>1, <2>2, Replaced
  <1>4. CASE /\ req[r].kind = "ready"
             /\ Write(r, [Edited(before) EXCEPT !.status = READY_TO_SUBMIT])
    <2> DEFINE report == [Edited(before) EXCEPT !.status = READY_TO_SUBMIT]
    <2>1. /\ report \in Report
          /\ report.id = Edited(before).id
          /\ report.version = Edited(before).version
          /\ report.restatedBy = Edited(before).restatedBy
          /\ report.requested = Edited(before).requested
          /\ report.source = Edited(before).source
          /\ report.stale = Edited(before).stale
          /\ report.status = READY_TO_SUBMIT
      BY <1>2, StatusesDiffer DEF Report
    <2>2. before.status = IN_PROGRESS
      BY <1>1, <1>4, StatusesDiffer
         DEF StillPermits, PermitsStatus, IsValidReportTransition
    <2> HIDE DEF report
    <2> QED
      BY <1>3, <1>4, <2>1, <2>2, StatusesDiffer DEF report
  <1>5. CASE /\ req[r].kind = "submit"
             /\ Write(r, [Edited(before) EXCEPT !.status = SUBMITTED,
                                                !.submittedAt = 1 + (@ % 2),
                                                !.submittedAfter = logs])
    <2> DEFINE report == [Edited(before) EXCEPT !.status = SUBMITTED,
                                                !.submittedAt = 1 + (@ % 2),
                                                !.submittedAfter = logs]
    <2>1. 1 + (Edited(before).submittedAt % 2) \in 0..2
      BY <1>2
    <2>2. /\ report \in Report
          /\ report.id = Edited(before).id
          /\ report.version = Edited(before).version
          /\ report.restatedBy = Edited(before).restatedBy
          /\ report.requested = Edited(before).requested
          /\ report.source = Edited(before).source
          /\ report.stale = Edited(before).stale
          /\ report.status = SUBMITTED
      BY <1>2, <2>1, StatusesDiffer DEF Report
    <2>3. before.status = READY_TO_SUBMIT /\ before.stale = {}
      BY <1>1, <1>5, StatusesDiffer
         DEF StillPermits, PermitsStatus, IsValidReportTransition, AssertNotStale
    <2>4. Write(r, report)
      BY <1>5
    <2> HIDE DEF report
    <2> QED
      BY <1>3, <2>2, <2>3, <2>4, StatusesDiffer
  <1>6. CASE /\ req[r].kind = "unsubmit"
             /\ "unsubmitDuringUpload" \in Disturbances \/ NoneFlagging
             /\ Write(r, [Edited(before) EXCEPT !.status = READY_TO_SUBMIT])
    <2> DEFINE report == [Edited(before) EXCEPT !.status = READY_TO_SUBMIT]
    <2>1. /\ report \in Report
          /\ report.id = Edited(before).id
          /\ report.version = Edited(before).version
          /\ report.restatedBy = Edited(before).restatedBy
          /\ report.requested = Edited(before).requested
          /\ report.source = Edited(before).source
          /\ report.stale = Edited(before).stale
          /\ report.status = READY_TO_SUBMIT
      BY <1>2, StatusesDiffer DEF Report
    <2>2. ~ IsResubmissionRequired(before)
      BY <1>1, <1>6 DEF StillPermits
    <2>3. Write(r, report)
      BY <1>6
    <2> HIDE DEF report
    <2> QED
      BY <1>3, <1>6, <2>1, <2>2, <2>3, StatusesDiffer
  <1> QED
    BY <1>4, <1>5, <1>6 DEF PerformUpdateReportStatus, NoneFlagging

LEMMA DeleteMoves ==
  ASSUME Inv, NEW r \in Requests, PerformDeleteReport(r)
  PROVE  TypeOK' /\ \A s \in Slots : Moves(s)
  <1>1. /\ req[r].slot \in Slots /\ Exists(req[r].slot) /\ Write(r, NoReport)
        /\ "slowDelete" \in Disturbances \/ reports[req[r].slot].status # SUBMITTED
    BY DEF Inv, RequestHolds, StillPermits, PermitsDelete, PerformDeleteReport, Writing
  <1>2. TypeOK'
    BY <1>1, WriteTyped DEF Inv
  <1>3. /\ reports'[req[r].slot] = NoReport
        /\ \A s \in Slots : s # req[r].slot => reports'[s] = reports[s]
    BY <1>1, TypesNamed DEF Write, Inv
  <1> QED
    BY <1>1, <1>2, <1>3 DEF Moves, Deleted

LEMMA RequirementMoves ==
  ASSUME Inv, NEW r \in Requests, MarkRequiringResubmissionByOperator(r)
  PROVE  TypeOK' /\ \A s \in Slots : Moves(s)
  <1> DEFINE before == reports[req[r].slot]
             report == [Edited(before) EXCEPT !.requested = TRUE]
  <1>1. /\ req[r].slot \in Slots /\ Exists(req[r].slot) /\ before \in Report
        /\ before.status = SUBMITTED /\ Write(r, report)
    BY ReportOfSlot
       DEF Inv, RequestHolds, MarkRequiringResubmissionByOperator, Writing, Exists
  <1>2. Edited(before) \in Report
    BY <1>1, EditedTyped
  <1>3. /\ report \in Report
        /\ report.id = Edited(before).id
        /\ report.version = Edited(before).version
        /\ report.status = Edited(before).status
        /\ report.source = Edited(before).source
        /\ report.stale = Edited(before).stale
        /\ report.requested
    BY <1>2 DEF Report
  <1>4. /\ report.id = before.id
        /\ report.version = before.version + 1
        /\ report.source = before.source
        /\ report.stale = before.stale
        /\ report.status = SUBMITTED
        /\ IsResubmissionRequired(report)
    BY <1>1, <1>3, EditedTyped DEF IsResubmissionRequired
  <1> HIDE DEF report
  <1>5. TypeOK'
    BY <1>1, <1>3, WriteTyped DEF Inv
  <1> QED
    BY <1>1, <1>3, <1>4, <1>5, Replaced

LEMMA CreateMoves ==
  ASSUME Inv, NEW r \in Requests, PerformCreateReport(r)
  PROVE  /\ TypeOK'
         /\ created' = created + 1
         /\ req' = [req EXCEPT ![r] = Idle]
         /\ \A s \in Slots : Moves(s)
  <1> DEFINE slot == req[r].slot
             new  == NewReport(created', req[r].source)
  <1>1. /\ reports \in [Slots -> Report \cup {NoReport}]
        /\ created \in 0..MaxReports
        /\ req \in [Requests -> RequestRecord]
        /\ log \in [Logs -> LogRecord]
        /\ head \in Logs \cup {NoLog}
    BY TypesNamed DEF Inv
  <1>2. /\ slot \in Slots /\ ~ Exists(slot)
        /\ created' = created + 1 /\ created' \in 1..MaxReports
        /\ reports' = [reports EXCEPT ![slot] = new]
        /\ req' = [req EXCEPT ![r] = Idle]
        /\ UNCHANGED <<log, head>>
        /\ req[r].pc = "insert"
    BY <1>1, BoundAssumption DEF Inv, RequestHolds, PerformCreateReport
  <1>3. req[r].source \in Logs \cup {NoLog}
    BY <1>1 DEF RequestRecord
  <1>4. new \in Report /\ new.id = created' /\ new.status = IN_PROGRESS
        /\ new.source = req[r].source
    BY <1>2, <1>3, StatusesDiffer DEF NewReport, Report
  <1>5. new # NoReport
    BY <1>4, ReportsExist
  <1> HIDE DEF new
  <1>6. TypeOK'
    BY <1>1, <1>2, <1>4, IdleTyped, TypesKept
  <1>7. /\ reports'[slot] = new
        /\ \A s \in Slots : s # slot => reports'[s] = reports[s]
    BY <1>1, <1>2
  <1> QED
    BY <1>2, <1>4, <1>5, <1>6, <1>7 DEF Moves, Inserted

-----------------------------------------------------------------------------
(* The invariant.                                                          *)

(* A report that moves takes a version nobody has read, or another id:     *)
(* what requests hold of the versions they carry is left as it is.         *)
LEMMA HoldingKept ==
  ASSUME Inv, TypeOK', \A s \in Slots : Moves(s),
         created' \in {created, created + 1},
         \A q \in Requests : req'[q] = req[q] \/ req'[q] = Idle
  PROVE  Inv'
  <1>1. /\ created \in Nat /\ created' \in Nat /\ created <= created'
        /\ req \in [Requests -> RequestRecord]
    BY TypesNamed, BoundAssumption DEF Inv
  <1>2. ASSUME NEW s \in Slots, Exists(s)'
        PROVE  reports'[s].id <= created'
    <2>1. Moves(s)
      OBVIOUS
    <2>2. Exists(s) => reports[s].id <= created /\ reports[s].id \in Nat
      BY ReportOfSlot, BoundAssumption DEF Inv, Report
    <2>3. CASE Inserted(s)
      BY <1>1, <2>3 DEF Inserted
    <2> QED
      BY <1>1, <1>2, <2>1, <2>2, <2>3 DEF Moves, Deleted, Rewritten, Exists
  <1>3. ASSUME NEW q \in Requests PROVE RequestHolds(q)'
    <2>1. CASE req'[q] = Idle
      BY <1>1, <2>1 DEF RequestHolds, Idle
    <2>2. CASE req'[q] = req[q] /\ req[q].pc # "write"
      BY <1>1, <2>2 DEF Inv, RequestHolds, RequestRecord
    <2>3. CASE req'[q] = req[q] /\ req[q].pc = "write"
      <3> DEFINE s == req[q].slot
      <3>1. /\ s \in Slots /\ RequestHolds(q) /\ Moves(s)
            /\ req[q].id \in Nat /\ req[q].version \in Nat /\ req[q].id <= created
        BY <1>1, <2>3, BoundAssumption DEF Inv, RequestHolds, RequestRecord
      <3>2. CASE reports'[s] = reports[s]
        BY <1>1, <2>3, <3>1, <3>2 DEF RequestHolds, IdMatches, VersionMatches
      <3>3. CASE Deleted(s)
        BY <1>1, <2>3, <3>1, <3>3 DEF RequestHolds, IdMatches, VersionMatches, Deleted
      <3>4. CASE Inserted(s)
        <4>1. reports'[s].id # req[q].id
          BY <1>1, <3>1, <3>4 DEF Inserted
        <4> QED
          BY <1>1, <2>3, <3>1, <4>1 DEF RequestHolds, IdMatches, VersionMatches
      <3>5. CASE Rewritten(s)
        <4>1. Exists(s) /\ reports[s].version \in Nat
          BY <3>1, <3>5, ReportOfSlot DEF Inv, Rewritten, Report
        <4>2. reports[s].id = req[q].id => req[q].version <= reports[s].version
          BY <2>3, <3>1, <4>1 DEF RequestHolds, IdMatches, Exists
        <4>3. reports'[s].id = req[q].id => req[q].version < reports'[s].version
          BY <3>1, <3>5, <4>1, <4>2 DEF Rewritten
        <4> QED
          BY <1>1, <2>3, <3>1, <3>5, <4>1, <4>3
             DEF RequestHolds, IdMatches, VersionMatches, Rewritten
      <3> QED
        BY <3>1, <3>2, <3>3, <3>4, <3>5 DEF Moves
    <2> QED
      BY <2>1, <2>2, <2>3
  <1> QED
    BY <1>2, <1>3 DEF Inv

(* A request that reads holds what it has read.                            *)
Reading(r) ==
  \/ FetchReport(r)
  \/ RequestEnds(r)
  \/ CreateReportForPeriod(r)
  \/ GetAggregatedReportDetail(r)

HoldsAsRead(q) ==
  /\ q.pc # "idle" => q.slot \in Slots
  /\ q.id <= created
  /\ q.pc = "write" =>
       /\ Exists(q.slot) /\ reports[q.slot].id = q.id
       /\ reports[q.slot].version = q.version
       /\ StillPermits(q.kind, reports[q.slot])

LEMMA HoldingTaken ==
  ASSUME Inv, NEW r \in Requests, NEW q \in RequestRecord, HoldsAsRead(q),
         req' = [req EXCEPT ![r] = q], UNCHANGED <<reports, created, log, head>>
  PROVE  Inv'
  <1>1. req \in [Requests -> RequestRecord]
    BY TypesNamed DEF Inv
  <1>2. TypeOK'
    BY RequestTyped DEF Inv
  <1>3. \A s \in Slots : Exists(s)' => reports'[s].id <= created'
    BY DEF Inv, Exists
  <1>4. ASSUME NEW p \in Requests PROVE RequestHolds(p)'
    <2>1. CASE p # r
      <3>1. req'[p] = req[p] /\ RequestHolds(p)
        BY <1>1, <2>1 DEF Inv
      <3> QED
        BY <3>1 DEF RequestHolds, IdMatches, VersionMatches
    <2>2. CASE p = r
      <3>1. req'[p] = q /\ q.version \in Nat
        BY <1>1, <2>2 DEF RequestRecord
      <3> QED
        BY <3>1 DEF RequestHolds, HoldsAsRead, IdMatches, VersionMatches, Exists
    <2> QED
      BY <2>1, <2>2
  <1> QED
    BY <1>2, <1>3, <1>4 DEF Inv

LEMMA IdleFields == Idle.pc = "idle" /\ Idle.id = 0
  BY DEF Idle

LEMMA ReadingKeeps ==
  ASSUME Inv, NEW r \in Requests, Reading(r)
  PROVE  Inv' /\ UNCHANGED <<reports, created>>
  <1>1. /\ req[r] \in RequestRecord
        /\ created \in Nat
        /\ head \in Logs \cup {NoLog}
    BY TypesNamed, BoundAssumption DEF Inv
  <1>2. UNCHANGED <<reports, created, log, head>>
    BY DEF Reading, FetchReport, RequestEnds, CreateReportForPeriod,
           GetAggregatedReportDetail
  <1>3. \E q \in RequestRecord : HoldsAsRead(q) /\ req' = [req EXCEPT ![r] = q]
    <2>1. CASE FetchReport(r)
      <3>1. PICK kind \in Kinds, s \in Taken :
              /\ Permits(kind, s)
              /\ req' = [req EXCEPT ![r] = [Idle EXCEPT !.pc = "write", !.kind = kind,
                                                        !.slot = s, !.id = reports[s].id,
                                                        !.version = reports[s].version]]
        BY <2>1 DEF FetchReport
      <3> DEFINE q == [Idle EXCEPT !.pc = "write", !.kind = kind, !.slot = s,
                                   !.id = reports[s].id, !.version = reports[s].version]
      <3>2. s \in Slots /\ Exists(s) /\ reports[s] \in Report /\ reports[s].id <= created
        BY ReportOfSlot DEF Taken, Inv
      <3>3. reports[s].id \in 0..MaxReports /\ reports[s].version \in Nat
        BY <3>2, BoundAssumption DEF Report
      <3>4. q \in RequestRecord
        BY <3>2, <3>3, IdleTyped DEF RequestRecord
      <3>5. /\ q.pc = "write" /\ q.kind = kind /\ q.slot = s /\ q.id = reports[s].id
            /\ q.version = reports[s].version
        BY DEF Idle
      <3>6. StillPermits(kind, reports[s])
        BY <3>1 DEF StillPermits, Permits, PermitsUnsubmit
      <3>7. req' = [req EXCEPT ![r] = q]
        BY <3>1
      <3> HIDE DEF q
      <3>8. HoldsAsRead(q)
        BY <3>2, <3>5, <3>6 DEF HoldsAsRead
      <3> QED
        BY <3>4, <3>7, <3>8
    <2>2. CASE RequestEnds(r)
      <3>1. HoldsAsRead(Idle)
        BY <1>1, IdleFields DEF HoldsAsRead
      <3> QED
        BY <2>2, <3>1, IdleTyped DEF RequestEnds
    <2>3. CASE CreateReportForPeriod(r)
      <3>1. PICK s \in Slots : req' = [req EXCEPT ![r] = [Idle EXCEPT !.pc = "aggregate",
                                                                      !.slot = s]]
        BY <2>3 DEF CreateReportForPeriod
      <3> DEFINE q == [Idle EXCEPT !.pc = "aggregate", !.slot = s]
      <3>2. q \in RequestRecord
        BY IdleTyped DEF RequestRecord
      <3>3. q.pc = "aggregate" /\ q.slot = s /\ q.id = 0
        BY DEF Idle
      <3>4. req' = [req EXCEPT ![r] = q]
        BY <3>1
      <3> HIDE DEF q
      <3>5. HoldsAsRead(q)
        BY <1>1, <3>3 DEF HoldsAsRead
      <3> QED
        BY <3>2, <3>4, <3>5
    <2>4. CASE GetAggregatedReportDetail(r)
      <3> DEFINE q == [req[r] EXCEPT !.pc = "insert", !.source = head]
      <3>1. req' = [req EXCEPT ![r] = q] /\ req[r].pc = "aggregate"
        BY <1>1, <2>4 DEF GetAggregatedReportDetail
      <3>2. q \in RequestRecord /\ q.pc = "insert" /\ q.slot = req[r].slot /\ q.id = req[r].id
        BY <1>1 DEF RequestRecord
      <3>3. req[r].slot \in Slots /\ req[r].id <= created
        BY <3>1 DEF Inv, RequestHolds
      <3> HIDE DEF q
      <3>4. HoldsAsRead(q)
        BY <3>2, <3>3 DEF HoldsAsRead
      <3> QED
        BY <3>1, <3>2, <3>4
    <2> QED
      BY <2>1, <2>2, <2>3, <2>4 DEF Reading
  <1> QED
    BY <1>2, <1>3, HoldingTaken

(* One step of the reports: the invariant is kept, and every report moves  *)
(* as it may.                                                              *)
LEMMA StepMoves ==
  ASSUME Inv, Next
  PROVE  /\ Inv'
         /\ \A s \in Slots : Moves(s)
  <1>1. ASSUME NEW r \in Requests, Reading(r)
        PROVE  Inv' /\ \A s \in Slots : Moves(s)
    BY <1>1, ReadingKeeps DEF Moves
  <1>2. ASSUME NEW r \in Requests,
               \/ PerformUpdateReport(r) \/ PerformUpdateReportStatus(r)
               \/ PerformDeleteReport(r) \/ MarkRequiringResubmissionByOperator(r)
        PROVE  Inv' /\ \A s \in Slots : Moves(s)
    <2>1. TypeOK' /\ \A s \in Slots : Moves(s)
      BY <1>2, UpdateMoves, StatusMoves, DeleteMoves, RequirementMoves
    <2>2. created' = created /\ req' = [req EXCEPT ![r] = Idle]
      BY <1>2 DEF PerformUpdateReport, PerformUpdateReportStatus, PerformDeleteReport,
                  MarkRequiringResubmissionByOperator, Write
    <2>3. \A q \in Requests : req'[q] = req[q] \/ req'[q] = Idle
      BY <2>2, TypesNamed DEF Inv
    <2> QED
      BY <2>1, <2>2, <2>3, HoldingKept
  <1>3. ASSUME NEW r \in Requests, PerformCreateReport(r)
        PROVE  Inv' /\ \A s \in Slots : Moves(s)
    <2>1. \A q \in Requests : req'[q] = req[q] \/ req'[q] = Idle
      BY <1>3, CreateMoves, TypesNamed DEF Inv
    <2> QED
      BY <1>3, <2>1, CreateMoves, HoldingKept
  <1>4. ASSUME NEW l \in Logs, LogSteps(l)
        PROVE  Inv' /\ \A s \in Slots : Moves(s)
    <2>1. TypeOK' /\ UNCHANGED <<reports, created, req>>
      BY <1>4, LogStepTyped DEF Inv
    <2> QED
      BY <2>1, HoldingKept DEF Moves
  <1>5. ASSUME FlagSteps
        PROVE  Inv' /\ \A s \in Slots : Moves(s)
    <2>1. /\ TypeOK' /\ UNCHANGED <<created, req>>
          /\ \A s \in Slots : reports'[s] = reports[s] \/ Flagged(s)
      BY <1>5, FlagStep DEF Inv
    <2>2. \A s \in Slots : Moves(s)
      BY <2>1, ReportsExist DEF Flagged, Moves, Rewritten
    <2> QED
      BY <2>1, <2>2, HoldingKept
  <1> QED
    BY <1>1, <1>2, <1>3, <1>4, <1>5 DEF Next, Reading, LogSteps, FlagSteps

LEMMA InitInv == Init => Inv
  <1> SUFFICES ASSUME Init PROVE Inv
    OBVIOUS
  <1>1. created = 0 /\ \A s \in Slots : ~ Exists(s)
    BY DEF Init, Exists
  <1>2. \A r \in Requests : req[r] = Idle
    BY DEF Init
  <1>3. \A r \in Requests : RequestHolds(r)
    BY <1>1, <1>2, IdleFields DEF RequestHolds
  <1> QED
    BY <1>1, <1>3, InitTyped DEF Inv

LEMMA Stuttering == ASSUME Inv, UNCHANGED vars PROVE Inv'
  <1>1. TypeOK'
    BY TypesNamed, TypesKept DEF Inv, vars
  <1> QED
    BY <1>1 DEF Inv, RequestHolds, IdMatches, VersionMatches, Exists, vars

(* Whatever races, every request that is about to write holds an id and a  *)
(* version under which its report still is as the route found it; reports, *)
(* requests and logs are well-typed (repository/mongodb.js).               *)
THEOREM RequestsHoldWhatTheyRead == Spec => []Inv
  <1>1. Inv /\ [Next]_vars => Inv'
    BY StepMoves, Stuttering
  <1> QED
    BY InitInv, <1>1, PTL DEF Spec

(* stale.js: a report that was overtaken is not submitted, although the    *)
(* check of staleness and the write of the status are two commands, and    *)
(* whatever is created, deleted or flagged between them.                   *)
THEOREM StaleReportsAreNotSubmitted == Spec => SubmittedWhileFresh
  <1>1. ASSUME Inv, [Next]_vars
        PROVE  [\A s \in Taken :
                  Active(s) /\ reports'[s].status = SUBMITTED => reports[s].stale = {}]_vars
    <2>1. CASE Next
      <3> SUFFICES ASSUME NEW s \in Taken, Active(s), reports'[s].status = SUBMITTED
                   PROVE  reports[s].stale = {}
        OBVIOUS
      <3>1. s \in Slots /\ Moves(s)
        BY <1>1, <2>1, StepMoves DEF Taken
      <3>2. reports[s].status # SUBMITTED /\ NoReport.status # SUBMITTED
        BY StatusesDiffer DEF Active, ACTIVE_REPORT_STATUSES, NoReport, SUBMITTED
      <3> QED
        BY <3>1, <3>2, StatusesDiffer DEF Moves, Deleted, Inserted, Rewritten
    <2> QED
      BY <1>1, <2>1
  <1> QED
    BY RequestsHoldWhatTheyRead, <1>1, PTL DEF Spec, SubmittedWhileFresh

-----------------------------------------------------------------------------
(* Resubmissions, as long as a report is deleted as it was read.           *)

LEMMA RequirementStays ==
  ASSUME "slowDelete" \notin Disturbances, Inv, Next, NEW s \in Slots,
         SubmittedToBeResubmitted(s)
  PROVE  /\ reports'[s].status = SUBMITTED
         /\ IsResubmissionRequired(reports'[s])
         /\ SubmittedToBeResubmitted(s)'
  <1>1. Moves(s)
    BY StepMoves
  <1>2. Exists(s) /\ reports[s].status = SUBMITTED /\ IsResubmissionRequired(reports[s])
    BY DEF SubmittedToBeResubmitted
  <1>3. /\ Exists(s)'
        /\ reports'[s].status = SUBMITTED
        /\ IsResubmissionRequired(reports'[s])
    BY <1>1, <1>2 DEF Moves, Deleted, Inserted, Rewritten, Exists
  <1> QED
    BY <1>3 DEF SubmittedToBeResubmitted, IsResubmissionRequired

(* unsubmit.js: no request clears a requirement to resubmit that was set   *)
(* after it read the report.                                               *)
THEOREM RequirementsStand ==
  ASSUME "slowDelete" \notin Disturbances
  PROVE  Spec => RequirementStands
  <1>1. ASSUME Inv, [Next]_vars
        PROVE  [\A s \in Taken :
                  reports[s].status = SUBMITTED /\ IsResubmissionRequired(reports[s]) =>
                    /\ reports'[s].status = SUBMITTED
                    /\ IsResubmissionRequired(reports'[s])]_vars
    BY <1>1, RequirementStays DEF Taken, SubmittedToBeResubmitted
  <1> QED
    BY RequestsHoldWhatTheyRead, <1>1, PTL DEF Spec, RequirementStands

LEMMA PreviousStays ==
  ASSUME "slowDelete" \notin Disturbances, Inv, Next, NEW s \in Slots,
         PreviousToBeResubmitted(s)
  PROVE  PreviousToBeResubmitted(s)'
  <1> SUFFICES ASSUME s[2] > 1 PROVE SubmittedToBeResubmitted(<<s[1], s[2] - 1>>)'
    BY DEF PreviousToBeResubmitted
  <1>1. <<s[1], s[2] - 1>> \in Slots
    BY BoundAssumption DEF Slots
  <1> QED
    BY <1>1, RequirementStays DEF PreviousToBeResubmitted

(* Requests that create come from a check, or go on from one.              *)
LEMMA CreationsChecked ==
  ASSUME Inv, Next, NEW r \in Requests, req'[r].pc \in {"aggregate", "insert"}
  PROVE  /\ req'[r].slot \in Slots
         /\ \/ req[r].pc \in {"aggregate", "insert"} /\ req'[r].slot = req[r].slot
            \/ PreviousToBeResubmitted(req'[r].slot)
  <1>1. Inv'
    BY StepMoves
  <1>2. req'[r].slot \in Slots
    BY <1>1 DEF Inv, RequestHolds
  <1>3. req \in [Requests -> RequestRecord]
    BY TypesNamed DEF Inv
  <1>4. CASE CreateReportForPeriod(r)
    <2>1. PICK s \in Slots :
            /\ MayCreate(s)
            /\ req' = [req EXCEPT ![r] = [Idle EXCEPT !.pc = "aggregate", !.slot = s]]
      BY <1>4 DEF CreateReportForPeriod
    <2>2. req'[r].slot = s
      BY <1>3, <2>1 DEF Idle
    <2> QED
      BY <1>2, <2>1, <2>2 DEF MayCreate, PreviousToBeResubmitted
  <1>5. CASE GetAggregatedReportDetail(r)
    BY <1>2, <1>3, <1>5 DEF GetAggregatedReportDetail, RequestRecord
  <1>6. CASE FetchReport(r)
    <2>1. PICK kind \in Kinds, s \in Taken :
            req' = [req EXCEPT ![r] = [Idle EXCEPT !.pc = "write", !.kind = kind,
                                                      !.slot = s, !.id = reports[s].id,
                                                      !.version = reports[s].version]]
      BY <1>6 DEF FetchReport
    <2>2. req'[r].pc = "write"
      BY <1>3, <2>1 DEF Idle
    <2> QED
      BY <2>2
  <1>7. CASE req' = [req EXCEPT ![r] = Idle]
    BY <1>3, <1>7, IdleFields
  <1>8. CASE req'[r] = req[r]
    BY <1>2, <1>8
  <1>9. ASSUME NEW q \in Requests, q # r,
               \/ Reading(q) \/ PerformUpdateReport(q) \/ PerformUpdateReportStatus(q)
               \/ PerformDeleteReport(q) \/ MarkRequiringResubmissionByOperator(q)
               \/ PerformCreateReport(q)
        PROVE  req'[r] = req[r]
    BY <1>3, <1>9 DEF Reading, FetchReport, RequestEnds, CreateReportForPeriod,
         GetAggregatedReportDetail, PerformUpdateReport, PerformUpdateReportStatus,
         PerformDeleteReport, MarkRequiringResubmissionByOperator, PerformCreateReport, Write
  <1>10. ASSUME \/ RequestEnds(r) \/ PerformUpdateReport(r) \/ PerformUpdateReportStatus(r)
                \/ PerformDeleteReport(r) \/ MarkRequiringResubmissionByOperator(r)
                \/ PerformCreateReport(r)
         PROVE  req' = [req EXCEPT ![r] = Idle]
    BY <1>10 DEF RequestEnds, PerformUpdateReport, PerformUpdateReportStatus,
         PerformDeleteReport, MarkRequiringResubmissionByOperator, PerformCreateReport, Write
  <1>11. ASSUME FlagSteps \/ \E l \in Logs : LogSteps(l)
         PROVE  req' = req
    BY <1>11, FlagStep, LogStepTyped DEF Inv
  <1> QED
    BY <1>4, <1>5, <1>6, <1>7, <1>8, <1>9, <1>10, <1>11
       DEF Next, Reading, LogSteps, FlagSteps

LEMMA RestKept ==
  ASSUME "slowDelete" \notin Disturbances, RestInv, Next
  PROVE  RestInv'
  <1>1. Inv /\ Inv' /\ \A s \in Slots : Moves(s)
    BY StepMoves DEF RestInv
  <1>2. ASSUME NEW r \in Requests, req'[r].pc \in {"aggregate", "insert"}
        PROVE  PreviousToBeResubmitted(req[r].slot)'
    <2>1. PICK s \in Slots : s = req'[r].slot /\ PreviousToBeResubmitted(s)
      BY <1>1, <1>2, CreationsChecked DEF RestInv
    <2>2. PreviousToBeResubmitted(s)'
      BY <1>1, <2>1, PreviousStays
    <2> QED
      BY <2>1, <2>2 DEF PreviousToBeResubmitted, SubmittedToBeResubmitted,
                        IsResubmissionRequired, Exists
  <1>3. ASSUME NEW s \in Slots, Exists(s)' PROVE PreviousToBeResubmitted(s)'
    <2>1. PreviousToBeResubmitted(s)
      BY <1>1, <1>3 DEF RestInv, Taken, Moves, Deleted, Inserted, Rewritten, Exists
    <2> QED
      BY <1>1, <2>1, PreviousStays
  <1> QED
    BY <1>1, <1>2, <1>3 DEF RestInv, Taken

(* create-report-validation.js and unsubmit.js: what a creation checked of *)
(* the submission before it still holds when the draft is inserted and for *)
(* as long as it is there.                                                 *)
THEOREM LaterSubmissionsRest ==
  ASSUME "slowDelete" \notin Disturbances
  PROVE  Spec => []LaterSubmissionRestsOnEarlier
  <1>1. Init => RestInv
    <2> SUFFICES ASSUME Init PROVE RestInv
      OBVIOUS
    <2>1. Taken = {} /\ \A r \in Requests : req[r].pc = "idle"
      BY IdleFields DEF Init, Taken, Exists
    <2> QED
      BY <2>1, InitInv DEF RestInv
  <1>2. RestInv /\ [Next]_vars => RestInv'
    <2>1. ASSUME RestInv, UNCHANGED vars PROVE RestInv'
      <3>1. Inv'
        BY <2>1, Stuttering DEF RestInv
      <3> QED
        BY <2>1, <3>1 DEF RestInv, PreviousToBeResubmitted, SubmittedToBeResubmitted,
             IsResubmissionRequired, Taken, Exists, vars
    <2> QED
      BY <2>1, RestKept
  <1>3. RestInv => LaterSubmissionRestsOnEarlier
    BY DEF RestInv, Inv, LaterSubmissionRestsOnEarlier, PreviousToBeResubmitted
  <1> QED
    BY <1>1, <1>2, <1>3, PTL DEF Spec

-----------------------------------------------------------------------------
(* What a summary log flags, as long as none is committed while a report   *)
(* is created, none is unsubmitted while reports are flagged, and a report *)
(* is deleted as it was read.                                              *)

OneCommanded ==
  \A l, m \in Logs : log[l].pc \in Commanded /\ log[m].pc \in Commanded => l = m

(* What is created from the event of l on is drawn up from it.             *)
CreatedFrom(l) ==
  log[l].pc \in Flagging =>
    head = l /\ \A r \in Requests : req[r].pc = "insert" => req[r].source = l

ActiveFlagged(l) ==
  log[l].pc \in Flagging \ {"flag"} =>
    \A s \in Taken : Active(s) => reports[s].source = l \/ reports[s].stale # {}

(* The latest submissions are flagged, or about to be; what is submitted   *)
(* since they were found was drawn up from l, for it was not stale.        *)
LatestFlagged(l) ==
  log[l].pc \in {"require", "finalise"} =>
    \A s \in LatestSubmissionPerPeriod(log[l].closed) :
      \/ reports[s].source = l
      \/ IsResubmissionRequired(reports[s])
      \/ log[l].pc = "require" /\ <<s, reports[s].id>> \in log[l].found

Flags(l) == CreatedFrom(l) /\ ActiveFlagged(l) /\ LatestFlagged(l)

FlagInv == Inv /\ OneCommanded /\ \A l \in Logs : Flags(l)

(* No report is lost to a log that flags.                                  *)
LEMMA ActiveStays ==
  ASSUME "unsubmitDuringUpload" \notin Disturbances, Inv, \A s \in Slots : Moves(s),
         NEW l \in Logs, log[l].pc \in Flagging \ {"flag"}, CreatedFrom(l), ActiveFlagged(l),
         NEW s \in Taken', Active(s)'
  PROVE  reports'[s].source = l \/ reports'[s].stale # {}
  <1>1. s \in Slots /\ Moves(s) /\ Exists(s)'
    BY DEF Taken
  <1>2. CASE Inserted(s)
    BY <1>2 DEF Inserted, CreatedFrom
  <1>3. CASE Rewritten(s)
    <2>1. reports'[s].status # SUBMITTED
      BY StatusesDiffer DEF Active, ACTIVE_REPORT_STATUSES
    <2>2. reports[s].status # SUBMITTED
      BY <1>3, <2>1 DEF Rewritten, NoneFlagging
    <2>3. s \in Taken /\ Active(s)
      BY <1>1, <1>3, <2>2, StatusesDiffer, ReportOfSlot
         DEF Rewritten, Taken, Active, ACTIVE_REPORT_STATUSES, Inv, Report
    <2> QED
      BY <1>3, <2>3 DEF Rewritten, ActiveFlagged
  <1>4. CASE reports'[s] = reports[s]
    BY <1>1, <1>4 DEF Taken, Exists, Active, ActiveFlagged
  <1> QED
    BY <1>1, <1>2, <1>3, <1>4 DEF Moves, Deleted, Exists

(* The latest submission of a closed period was it before, or is fresh.    *)
LEMMA LatestStays ==
  ASSUME "slowDelete" \notin Disturbances, "unsubmitDuringUpload" \notin Disturbances,
         Inv, \A s \in Slots : Moves(s),
         NEW l \in Logs, log[l].pc \in {"require", "finalise"}, Flags(l),
         NEW periods, periods = log[l].closed,
         NEW s \in LatestSubmissionPerPeriod(periods)'
  PROVE  \/ reports'[s].source = l
         \/ IsResubmissionRequired(reports'[s])
         \/ /\ log[l].pc = "require" /\ <<s, reports'[s].id>> \in log[l].found
            /\ reports'[s].id = reports[s].id /\ reports[s].status = SUBMITTED
  <1>1. s \in Slots /\ Moves(s) /\ s[1] \in periods /\ reports'[s].status = SUBMITTED
    BY DEF LatestSubmissionPerPeriod, Taken
  <1>2. log[l].pc \in Flagging \ {"flag"}
    BY DEF Flagging
  <1>3. Exists(s)' /\ Exists(s)
    BY <1>1, StatusesDiffer DEF LatestSubmissionPerPeriod, Taken, Moves, Deleted, Inserted,
       Rewritten, Exists
  <1>4. CASE reports[s].status # SUBMITTED
    <2>1. Rewritten(s)
      BY <1>1, <1>3, <1>4 DEF Moves, Deleted, Inserted, Exists
    <2>2. s \in Taken /\ Active(s)
      BY <1>1, <1>3, <1>4, StatusesDiffer, ReportOfSlot
         DEF Taken, Active, ACTIVE_REPORT_STATUSES, Inv, Report
    <2> QED
      BY <1>1, <1>2, <1>4, <2>1, <2>2 DEF Rewritten, Flags, ActiveFlagged
  <1>5. CASE reports[s].status = SUBMITTED
    <2>1. ASSUME NEW t \in Slots, Exists(t), reports[t].status = SUBMITTED
          PROVE  Exists(t)' /\ reports'[t].status = SUBMITTED
      BY <1>2, <2>1 DEF Moves, Deleted, Inserted, Rewritten, NoneFlagging, Exists
    <2>2. s \in LatestSubmissionPerPeriod(periods)
      BY <1>1, <1>3, <1>5, <2>1 DEF LatestSubmissionPerPeriod, Taken
    <2>3. /\ reports'[s].source = reports[s].source
          /\ reports'[s].id = reports[s].id
          /\ IsResubmissionRequired(reports[s]) => IsResubmissionRequired(reports'[s])
      BY <1>1, <1>3 DEF Moves, Deleted, Inserted, Rewritten, Exists
    <2> QED
      BY <1>5, <2>2, <2>3 DEF Flags, LatestFlagged
  <1> QED
    BY <1>4, <1>5

(* A step of a request, or of a cancellation, leaves the logs alone.       *)
LEMMA RequestFlags ==
  ASSUME "slowDelete" \notin Disturbances, "unsubmitDuringUpload" \notin Disturbances,
         FlagInv, Inv', \A s \in Slots : Moves(s), UNCHANGED <<log, head>>,
         \A r \in Requests : req'[r].pc = "insert" =>
           \/ req'[r].source = head
           \/ req[r].pc = "insert" /\ req'[r].source = req[r].source
  PROVE  FlagInv'
  <1>1. OneCommanded'
    BY DEF FlagInv, OneCommanded
  <1>2. ASSUME NEW l \in Logs PROVE Flags(l)'
    <2>1. CreatedFrom(l)'
      BY DEF FlagInv, Flags, CreatedFrom
    <2>2. ActiveFlagged(l)'
      BY ActiveStays DEF FlagInv, Flags, ActiveFlagged
    <2>3. LatestFlagged(l)'
      <3> SUFFICES ASSUME log[l].pc \in {"require", "finalise"},
                          NEW s \in LatestSubmissionPerPeriod(log[l].closed)'
                   PROVE  \/ reports'[s].source = l
                          \/ IsResubmissionRequired(reports'[s])
                          \/ log[l].pc = "require" /\ <<s, reports'[s].id>> \in log[l].found
        BY DEF LatestFlagged
      <3>1. PICK periods : periods = log[l].closed
        OBVIOUS
      <3>2. s \in LatestSubmissionPerPeriod(periods)'
        BY <3>1 DEF LatestSubmissionPerPeriod
      <3> QED
        BY <3>1, <3>2, LatestStays DEF FlagInv
    <2> QED
      BY <2>1, <2>2, <2>3 DEF Flags
  <1> QED
    BY <1>1, <1>2 DEF FlagInv

(* A step of log l, whose place says what holds from then on.              *)
LEMMA LogFlags ==
  ASSUME "slowDelete" \notin Disturbances, "unsubmitDuringUpload" \notin Disturbances,
         FlagInv, Inv', NEW l \in Logs, UNCHANGED req,
         \A k \in Logs \ {l} : log'[k] = log[k],
         log'[l].pc \in Commanded =>
           log[l].pc \in Commanded \/ \A k \in Logs : log[k].pc \notin Commanded,
         \/ UNCHANGED <<reports, head>>
         \/ log[l].pc \in Commanded,
         Flags(l)'
  PROVE  FlagInv'
  <1>1. OneCommanded'
    BY DEF FlagInv, OneCommanded
  <1>2. ASSUME NEW k \in Logs \ {l} PROVE Flags(k)'
    <2>1. CASE log[l].pc \in Commanded
      <3>1. log'[k].pc \notin Commanded
        BY <2>1 DEF FlagInv, OneCommanded
      <3> QED
        BY <3>1 DEF Flags, CreatedFrom, ActiveFlagged, LatestFlagged, Commanded, Flagging
    <2>2. CASE UNCHANGED <<reports, head>>
      <3>1. log'[k] = log[k] /\ Flags(k)
        BY DEF FlagInv
      <3>2. LatestSubmissionPerPeriod(log[k].closed)' = LatestSubmissionPerPeriod(log[k].closed)
        BY <2>2, <3>1 DEF LatestSubmissionPerPeriod, Taken, Exists
      <3>3. Taken' = Taken /\ \A s : Active(s)' <=> Active(s)
        BY <2>2 DEF Taken, Exists, Active
      <3> QED
        BY <2>2, <3>1, <3>2, <3>3 DEF Flags, CreatedFrom, ActiveFlagged, LatestFlagged
    <2> QED
      BY <2>1, <2>2
  <1> QED
    BY <1>1, <1>2 DEF FlagInv

LEMMA LogStepFlags ==
  ASSUME "slowDelete" \notin Disturbances, "unsubmitDuringUpload" \notin Disturbances,
         "slowCreate" \notin Disturbances,
         FlagInv, Inv', NEW l \in Logs, LogSteps(l)
  PROVE  FlagInv'
  <1>1. /\ log \in [Logs -> LogRecord] /\ log[l] \in LogRecord
        /\ req \in [Requests -> RequestRecord]
    BY TypesNamed DEF FlagInv, Inv
  <1>2. UNCHANGED <<reports, req>>
    BY LogStepTyped DEF FlagInv, Inv
  <1>3. \A k \in Logs \ {l} : log'[k] = log[k]
    BY <1>1 DEF LogSteps, Upload, Validate, Submit, AssertNoReportSubmittedSinceCreation,
         SyncFromSummaryLog, FindLatestSubmitted, Finalise, Crash
  <1>4. CASE \/ Upload(l) \/ Validate(l) \/ Submit(l)
             \/ AssertNoReportSubmittedSinceCreation(l) \/ Finalise(l) \/ Crash(l)
    <2>1. /\ log'[l].pc \notin Flagging
          /\ log'[l].pc \in Commanded =>
               log[l].pc \in Commanded \/ \A k \in Logs : log[k].pc \notin Commanded
          /\ UNCHANGED head
      BY <1>1, <1>4 DEF LogRecord, Upload, Validate, Submit,
         AssertNoReportSubmittedSinceCreation, Finalise, Crash, Commanded, Flagging
    <2>2. Flags(l)'
      BY <2>1 DEF Flags, CreatedFrom, ActiveFlagged, LatestFlagged, Flagging
    <2> QED
      BY <1>2, <1>3, <2>1, <2>2, LogFlags
  <1>5. CASE SyncFromSummaryLog(l)
    <2>1. /\ log[l].pc = "commit" /\ log'[l].pc = "flag" /\ head' = l
          /\ \A r \in Requests : req[r].pc # "insert"
      BY <1>1, <1>5 DEF LogRecord, SyncFromSummaryLog
    <2>2. Flags(l)'
      BY <1>2, <2>1 DEF Flags, CreatedFrom, ActiveFlagged, LatestFlagged
    <2> QED
      BY <1>2, <1>3, <2>1, <2>2, LogFlags DEF Commanded
  <1>6. CASE FindLatestSubmitted(l)
    <2>1. /\ log[l].pc = "find" /\ log'[l].pc = "require" /\ UNCHANGED head
          /\ log'[l].closed = log[l].closed
          /\ log'[l].found = {<<s, reports[s].id>> : s \in LatestSubmissionPerPeriod(log[l].closed)}
      BY <1>1, <1>6 DEF LogRecord, FindLatestSubmitted
    <2>2. CreatedFrom(l)' /\ ActiveFlagged(l)'
      BY <1>2, <2>1 DEF FlagInv, Flags, CreatedFrom, ActiveFlagged, Flagging, Taken, Exists, Active
    <2>3. LatestFlagged(l)'
      <3>1. LatestSubmissionPerPeriod(log[l].closed)' = LatestSubmissionPerPeriod(log[l].closed)
        BY <1>2, <2>1 DEF LatestSubmissionPerPeriod, Taken, Exists
      <3> QED
        BY <1>2, <2>1, <3>1 DEF LatestFlagged
    <2> QED
      BY <1>2, <1>3, <2>1, <2>2, <2>3, LogFlags DEF Flags, Commanded, Flagging
  <1> QED
    BY <1>4, <1>5, <1>6 DEF LogSteps

LEMMA MarkActiveFlags ==
  ASSUME "slowDelete" \notin Disturbances, "unsubmitDuringUpload" \notin Disturbances,
         FlagInv, Inv', NEW l \in Logs, MarkActiveReportsStaleForSummaryLog(l)
  PROVE  FlagInv'
  <1>1. /\ reports \in [Slots -> Report \cup {NoReport}]
        /\ log \in [Logs -> LogRecord] /\ log[l] \in LogRecord
    BY TypesNamed DEF FlagInv, Inv
  <1>2. /\ log[l].pc = "flag" /\ log'[l].pc = "find" /\ UNCHANGED <<created, req, head>>
        /\ \A k \in Logs \ {l} : log'[k] = log[k]
    BY <1>1 DEF LogRecord, MarkActiveReportsStaleForSummaryLog
  <1>3. CreatedFrom(l)' /\ LatestFlagged(l)'
    BY <1>2 DEF FlagInv, Flags, CreatedFrom, LatestFlagged, Flagging
  <1>4. ActiveFlagged(l)'
    <2> SUFFICES ASSUME NEW s \in Taken', Active(s)'
                 PROVE  reports'[s].source = l \/ reports'[s].stale # {}
      BY <1>2 DEF ActiveFlagged
    <2>1. s \in Slots /\ Exists(s)'
      BY DEF Taken
    <2> DEFINE stale == [Edited(reports[s]) EXCEPT !.stale = @ \cup {"summary_log_changed"}]
    <2>2. CASE s \in StaledBySummaryLog(l)
      <3>1. reports'[s] = stale
        BY <2>1, <2>2 DEF MarkActiveReportsStaleForSummaryLog
      <3>2. Edited(reports[s]) \in Report
        BY <2>2, ReportOfSlot, EditedTyped DEF StaledBySummaryLog, Taken, FlagInv, Inv
      <3>3. "summary_log_changed" \in stale.stale
        BY <3>2 DEF Report
      <3> QED
        BY <3>1, <3>3
    <2>3. CASE s \notin StaledBySummaryLog(l)
      <3>1. reports'[s] = reports[s]
        BY <2>1, <2>3 DEF MarkActiveReportsStaleForSummaryLog
      <3>2. s \in Taken /\ Active(s)
        BY <2>1, <3>1 DEF Taken, Exists, Active
      <3> QED
        BY <2>3, <3>1, <3>2 DEF StaledBySummaryLog, Active
    <2> QED
      BY <2>2, <2>3
  <1> QED
    BY <1>2, <1>3, <1>4, LogFlags DEF Flags, Commanded, Flagging

LEMMA RestatementFlags ==
  ASSUME "slowDelete" \notin Disturbances, "unsubmitDuringUpload" \notin Disturbances,
         FlagInv, Inv', \A s \in Slots : Moves(s),
         NEW l \in Logs, MarkSubmittedReportsRequiringResubmission(l)
  PROVE  FlagInv'
  <1>1. /\ reports \in [Slots -> Report \cup {NoReport}]
        /\ log \in [Logs -> LogRecord] /\ log[l] \in LogRecord
    BY TypesNamed DEF FlagInv, Inv
  <1>2. /\ log[l].pc = "require" /\ log'[l].pc = "finalise" /\ UNCHANGED <<created, req, head>>
        /\ log'[l].closed = log[l].closed
        /\ \A k \in Logs \ {l} : log'[k] = log[k]
    BY <1>1 DEF LogRecord, MarkSubmittedReportsRequiringResubmission
  <1>3. CreatedFrom(l)'
    BY <1>2 DEF FlagInv, Flags, CreatedFrom, Flagging
  <1>4. ActiveFlagged(l)'
    BY <1>2, ActiveStays DEF FlagInv, Flags, ActiveFlagged, Flagging
  <1>5. LatestFlagged(l)'
    <2> SUFFICES ASSUME NEW s \in LatestSubmissionPerPeriod(log[l].closed)'
                 PROVE  reports'[s].source = l \/ IsResubmissionRequired(reports'[s])
      BY <1>2 DEF LatestFlagged
    <2>1. PICK periods : periods = log[l].closed
      OBVIOUS
    <2>2. s \in LatestSubmissionPerPeriod(periods)'
      BY <1>2, <2>1 DEF LatestSubmissionPerPeriod
    <2>3. CASE /\ <<s, reports'[s].id>> \in log[l].found /\ reports'[s].id = reports[s].id
               /\ reports[s].status = SUBMITTED
      <3>1. s \in Slots /\ Exists(s) /\ reports[s] \in Report
        BY <2>2, <2>3, ReportOfSlot, StatusesDiffer
           DEF LatestSubmissionPerPeriod, Taken, Exists, NoReport, FlagInv, Inv, REPORT_STATUS
      <3> DEFINE required == [Edited(reports[s]) EXCEPT !.restatedBy = l]
      <3>2. CASE reports[s].restatedBy # l
        <4>1. reports'[s] = required
          BY <2>3, <3>1, <3>2 DEF MarkSubmittedReportsRequiringResubmission, Taken
        <4>2. required.restatedBy = l
          BY <3>1, EditedTyped DEF Report
        <4> QED
          BY <4>1, <4>2, LogAssumption DEF IsResubmissionRequired
      <3>3. CASE reports[s].restatedBy = l
        <4>1. reports'[s] = reports[s]
          BY <3>1, <3>3 DEF MarkSubmittedReportsRequiringResubmission
        <4> QED
          BY <3>3, <4>1, LogAssumption DEF IsResubmissionRequired
      <3> QED
        BY <3>2, <3>3
    <2> QED
      BY <1>2, <2>1, <2>2, <2>3, LatestStays DEF FlagInv
  <1> QED
    BY <1>2, <1>3, <1>4, <1>5, LogFlags DEF Flags, Commanded, Flagging

LEMMA FlagNext ==
  ASSUME "slowCreate" \notin Disturbances, "slowDelete" \notin Disturbances,
         "unsubmitDuringUpload" \notin Disturbances, FlagInv, Next
  PROVE  FlagInv'
  <1>1. Inv' /\ \A s \in Slots : Moves(s)
    BY StepMoves DEF FlagInv
  <1>2. req \in [Requests -> RequestRecord]
    BY TypesNamed DEF FlagInv, Inv
  <1>3. ASSUME NEW r \in Requests,
               \/ Reading(r) \/ PerformUpdateReport(r) \/ PerformUpdateReportStatus(r)
               \/ PerformDeleteReport(r) \/ MarkRequiringResubmissionByOperator(r)
               \/ PerformCreateReport(r)
        PROVE  FlagInv'
    <2>1. UNCHANGED <<log, head>> /\ \A q \in Requests \ {r} : req'[q] = req[q]
      BY <1>2, <1>3 DEF Reading, FetchReport, RequestEnds, CreateReportForPeriod,
         GetAggregatedReportDetail, PerformUpdateReport, PerformUpdateReportStatus,
         PerformDeleteReport, MarkRequiringResubmissionByOperator, PerformCreateReport, Write
    <2>2. req'[r].pc = "insert" => req'[r].source = head
      <3>1. CASE GetAggregatedReportDetail(r)
        BY <1>2, <3>1 DEF GetAggregatedReportDetail, RequestRecord
      <3>2. CASE FetchReport(r) \/ CreateReportForPeriod(r)
        <4>1. PICK q \in {"write", "aggregate"} : req'[r].pc = q
          BY <1>2, <3>2 DEF FetchReport, CreateReportForPeriod, Idle
        <4> QED
          BY <4>1
      <3>3. CASE req' = [req EXCEPT ![r] = Idle]
        BY <1>2, <3>3, IdleFields
      <3> QED
        BY <1>3, <3>1, <3>2, <3>3 DEF Reading, RequestEnds, PerformUpdateReport,
           PerformUpdateReportStatus, PerformDeleteReport, MarkRequiringResubmissionByOperator,
           PerformCreateReport, Write
    <2> QED
      BY <1>1, <2>1, <2>2, RequestFlags
  <1>4. ASSUME NEW p \in Periods, OnPrnCancelled(p) PROVE FlagInv'
    <2>1. UNCHANGED <<log, head, req>>
      BY <1>4 DEF OnPrnCancelled
    <2> QED
      BY <1>1, <2>1, RequestFlags
  <1>5. ASSUME NEW l \in Logs,
               \/ LogSteps(l) \/ MarkActiveReportsStaleForSummaryLog(l)
               \/ MarkSubmittedReportsRequiringResubmission(l)
        PROVE  FlagInv'
    BY <1>1, <1>5, LogStepFlags, MarkActiveFlags, RestatementFlags
  <1> QED
    BY <1>3, <1>4, <1>5 DEF Next, Reading, LogSteps

(* No report that a summary log makes stale, and no latest submission of a *)
(* period it restates, is missed by the time the log is submitted, however *)
(* often its command is delivered again.                                   *)
THEOREM EveryReportIsFlagged ==
  ASSUME Disturbances \cap {"slowCreate", "slowDelete", "unsubmitDuringUpload"} = {}
  PROVE  Spec => EveryReportFlagged
  <1>1. Init => FlagInv
    <2> SUFFICES ASSUME Init PROVE FlagInv
      OBVIOUS
    <2>1. \A l \in Logs : log[l].pc = "none"
      BY DEF Init, NewLog
    <2> QED
      BY <2>1, InitInv
         DEF FlagInv, OneCommanded, Flags, CreatedFrom, ActiveFlagged, LatestFlagged,
             Commanded, Flagging
  <1>2. FlagInv /\ [Next]_vars => FlagInv'
    <2>1. ASSUME FlagInv, UNCHANGED vars PROVE FlagInv'
      <3>1. Inv' /\ \A s \in Slots : Moves(s)
        BY <2>1, Stuttering DEF FlagInv, vars, Moves
      <3>2. UNCHANGED <<log, head, req>>
        BY <2>1 DEF vars
      <3> QED
        BY <2>1, <3>1, <3>2, RequestFlags
    <2> QED
      BY <2>1, FlagNext
  <1>3. FlagInv /\ [Next]_vars =>
          [\A l \in Logs : (log[l].pc = "finalise" /\ log'[l].pc = "submitted") =>
             /\ \A s \in Taken :
                  Active(s) => reports[s].source = l \/ reports[s].stale # {}
             /\ \A s \in LatestSubmissionPerPeriod(log[l].closed) :
                  reports[s].source = l \/ IsResubmissionRequired(reports[s])]_vars
    BY DEF FlagInv, Flags, ActiveFlagged, LatestFlagged, Flagging
  <1> QED
    BY <1>1, <1>2, <1>3, PTL DEF Spec, EveryReportFlagged

-----------------------------------------------------------------------------
(***************************************************************************)
(* ReportLifecycle implements ReportRepository: the requests and commands  *)
(* that read, rest and write reports come to the operations the contract   *)
(* tests ask of every adapter, as long as no report is unsubmitted while   *)
(* the command of a summary log flags reports.                             *)
(***************************************************************************)

(* What a log found to be restated is still submitted, or gone, and one of *)
(* its period; and only a log that is about to flag has found anything.    *)
FoundHolds(l) ==
  /\ log[l].found # {} => log[l].pc = "require"
  /\ \A s \in Slots, id \in 1..MaxReports : <<s, id>> \in log[l].found =>
       /\ id <= created
       /\ Exists(s) /\ reports[s].id = id => reports[s].status = SUBMITTED
  /\ \A s, t \in Slots, i, j \in 1..MaxReports :
       <<s, i>> \in log[l].found /\ <<t, j>> \in log[l].found /\ s[1] = t[1] => s = t

FoundInv == Inv /\ \A l \in Logs : FoundHolds(l)

-----------------------------------------------------------------------------
(* One write, one operation.                                               *)

(* A write leaves every report alone but that of its slot.                 *)
LEMMA WriteAlone ==
  ASSUME Inv, NEW r \in Requests, NEW s \in Slots, req[r].slot = s,
         NEW report, Write(r, report)
  PROVE  reports'[s] = report /\ Repository!Others({s})
  BY TypesNamed DEF Inv, Write, Repository!Others

(* What the filter of a write leaves of what its request knows.            *)
LEMMA MatchHolds ==
  ASSUME Inv, NEW r \in Requests, req[r].pc = "write", VersionMatches(r)
  PROVE  /\ req[r].slot \in Slots /\ Exists(req[r].slot)
         /\ reports[req[r].slot] \in Report
         /\ StillPermits(req[r].kind, reports[req[r].slot])
  BY ReportOfSlot DEF Inv, RequestHolds, VersionMatches, Exists

(* An edited report in the place of the one it was made from, but for the  *)
(* fields that are changed.                                                *)
LEMMA EditedReplaces ==
  ASSUME NEW s \in Slots, Exists(s), reports[s] \in Report,
         reports'[s] \in Report,
         reports'[s].id = Edited(reports[s]).id,
         reports'[s].source = Edited(reports[s]).source,
         reports'[s].version = Edited(reports[s]).version
  PROVE  Repository!Rewritten(s)
  BY EditedTyped, ReportsExist
     DEF Repository!Rewritten, Repository!Found, Repository!NoReport, NoReport, Exists

LEMMA UpdateHonours ==
  ASSUME Inv, NEW r \in Requests, PerformUpdateReport(r)
  PROVE  Repository!Next
  <1> DEFINE s == req[r].slot
  <1>1. s \in Slots /\ Exists(s) /\ reports[s] \in Report
    BY MatchHolds DEF PerformUpdateReport, Writing
  <1> SUFFICES ASSUME NEW slot \in Slots, slot = s PROVE Repository!UpdateReport(slot)
    BY <1>1 DEF Repository!Next
  <1> DEFINE before == reports[slot]
  <1>2. PICK report \in BuildUpdateFields(before) : Write(r, report)
    BY DEF PerformUpdateReport
  <1>3. /\ Edited(before) \in Report
        /\ before.complete \in BOOLEAN
    BY <1>1, EditedTyped DEF Report
  <1>4. /\ report \in Report
        /\ report.id = Edited(before).id
        /\ report.version = Edited(before).version
        /\ report.status = Edited(before).status
        /\ report.source = Edited(before).source
        /\ report.stale = Edited(before).stale
        /\ report.restatedBy = Edited(before).restatedBy
        /\ report.requested = Edited(before).requested
        /\ report.submittedAt = Edited(before).submittedAt
        /\ report.submittedAfter = Edited(before).submittedAfter
    BY <1>2, <1>3 DEF BuildUpdateFields, Report
  <1>5. reports'[slot] = report /\ Repository!Others({slot})
    BY <1>2, WriteAlone
  <1>6. Repository!Rewritten(slot)
    BY <1>1, <1>4, <1>5, EditedReplaces
  <1>7. Repository!Keeps(slot, {"status", "stale", "restatedBy", "requested",
                                "submittedAt", "submittedAfter"})
    BY <1>1, <1>4, <1>5, EditedTyped DEF Repository!Keeps
  <1> QED
    BY <1>5, <1>6, <1>7 DEF Repository!UpdateReport

LEMMA StatusHonours ==
  ASSUME Inv, NEW r \in Requests, PerformUpdateReportStatus(r)
  PROVE  Repository!Next
  <1> DEFINE s == req[r].slot
  <1>1. /\ s \in Slots /\ Exists(s) /\ reports[s] \in Report
        /\ StillPermits(req[r].kind, reports[s])
    BY MatchHolds DEF PerformUpdateReportStatus, Writing
  <1> SUFFICES ASSUME NEW slot \in Slots, slot = s PROVE Repository!UpdateReportStatus(slot)
    BY <1>1 DEF Repository!Next
  <1> DEFINE before == reports[slot]
             edited == Edited(before)
             logs   == {l \in Logs : log[l].pc # "none"}
  <1>2. edited \in Report /\ edited.submittedAt \in 0..2
    BY <1>1, EditedTyped DEF Report
  <1>3. ASSUME NEW report \in Report, Write(r, report),
               report.id = edited.id, report.source = edited.source,
               report.version = edited.version,
               report.stale = edited.stale, report.restatedBy = edited.restatedBy,
               report.requested = edited.requested,
               <<before.status, report.status>> \in Repository!StatusChanges,
               report.status # "submitted" =>
                 /\ report.submittedAt = edited.submittedAt
                 /\ report.submittedAfter = edited.submittedAfter
        PROVE  Repository!UpdateReportStatus(slot)
    <2>1. reports'[slot] = report /\ Repository!Others({slot})
      BY <1>3, WriteAlone
    <2>2. Repository!Rewritten(slot)
      BY <1>1, <1>3, <2>1, EditedReplaces
    <2>3. Repository!Keeps(slot, {"stale", "restatedBy", "requested"})
      BY <1>1, <1>3, <2>1, EditedTyped DEF Repository!Keeps
    <2>4. reports'[slot].status # "submitted" =>
            Repository!Keeps(slot, {"submittedAt", "submittedAfter"})
      BY <1>1, <1>3, <2>1, EditedTyped DEF Repository!Keeps
    <2> QED
      BY <1>3, <2>1, <2>2, <2>3, <2>4 DEF Repository!UpdateReportStatus
  <1>4. CASE /\ req[r].kind \in {"ready", "unsubmit"}
             /\ Write(r, [edited EXCEPT !.status = READY_TO_SUBMIT])
    <2> DEFINE report == [edited EXCEPT !.status = READY_TO_SUBMIT]
    <2>1. /\ report \in Report
          /\ report.id = edited.id /\ report.source = edited.source
          /\ report.version = edited.version
          /\ report.stale = edited.stale /\ report.restatedBy = edited.restatedBy
          /\ report.requested = edited.requested
          /\ report.submittedAt = edited.submittedAt
          /\ report.submittedAfter = edited.submittedAfter
          /\ report.status = READY_TO_SUBMIT
      BY <1>2, StatusesDiffer DEF Report
    <2>2. before.status \in {IN_PROGRESS, SUBMITTED}
      BY <1>1, <1>4, StatusesDiffer
         DEF StillPermits, PermitsStatus, IsValidReportTransition
    <2>3. <<before.status, READY_TO_SUBMIT>> \in Repository!StatusChanges
      BY <2>2 DEF Repository!StatusChanges, IN_PROGRESS, READY_TO_SUBMIT, SUBMITTED
    <2> HIDE DEF report, edited
    <2> QED
      BY <1>3, <1>4, <2>1, <2>3 DEF report
  <1>5. CASE /\ req[r].kind = "submit"
             /\ Write(r, [edited EXCEPT !.status = SUBMITTED,
                                        !.submittedAt = 1 + (@ % 2),
                                        !.submittedAfter = logs])
    <2> DEFINE report == [edited EXCEPT !.status = SUBMITTED,
                                        !.submittedAt = 1 + (@ % 2),
                                        !.submittedAfter = logs]
    <2>1. 1 + (edited.submittedAt % 2) \in 0..2
      BY <1>2
    <2>2. /\ report \in Report
          /\ report.id = edited.id /\ report.source = edited.source
          /\ report.version = edited.version
          /\ report.stale = edited.stale /\ report.restatedBy = edited.restatedBy
          /\ report.requested = edited.requested
          /\ report.status = SUBMITTED
      BY <1>2, <2>1, StatusesDiffer DEF Report
    <2>3. before.status = READY_TO_SUBMIT
      BY <1>1, <1>5, StatusesDiffer
         DEF StillPermits, PermitsStatus, IsValidReportTransition
    <2>4. /\ <<before.status, SUBMITTED>> \in Repository!StatusChanges
          /\ SUBMITTED = "submitted"
      BY <2>3 DEF Repository!StatusChanges, READY_TO_SUBMIT, SUBMITTED
    <2>5. Write(r, report)
      BY <1>5
    <2> HIDE DEF report, edited
    <2> QED
      BY <1>3, <2>2, <2>4, <2>5
  <1> QED
    BY <1>4, <1>5 DEF PerformUpdateReportStatus

LEMMA DeleteHonours ==
  ASSUME Inv, NEW r \in Requests, PerformDeleteReport(r)
  PROVE  Repository!Next
  <1>1. /\ req[r].slot \in Slots /\ Exists(req[r].slot) /\ Write(r, NoReport)
    BY DEF Inv, RequestHolds, PerformDeleteReport, Writing
  <1> SUFFICES ASSUME NEW slot \in Slots, slot = req[r].slot PROVE Repository!DeleteReport(slot)
    BY <1>1 DEF Repository!Next
  <1>2. reports'[slot] = NoReport /\ Repository!Others({slot})
    BY <1>1, WriteAlone
  <1> QED
    BY <1>1, <1>2 DEF Repository!DeleteReport, Repository!Found, Repository!NoReport,
                      NoReport, Exists

LEMMA RequirementHonours ==
  ASSUME Inv, NEW r \in Requests, MarkRequiringResubmissionByOperator(r)
  PROVE  Repository!Next
  <1> DEFINE s == req[r].slot
  <1>1. /\ s \in Slots /\ Exists(s) /\ reports[s] \in Report
        /\ reports[s].status = SUBMITTED /\ ~ reports[s].requested
        /\ Write(r, [Edited(reports[s]) EXCEPT !.requested = TRUE])
    BY ReportOfSlot
       DEF Inv, RequestHolds, MarkRequiringResubmissionByOperator, Writing, Exists
  <1> SUFFICES ASSUME NEW slot \in Slots, slot = s
               PROVE  Repository!MarkSubmittedReportRequiringResubmissionByOperator(slot)
    BY <1>1 DEF Repository!Next
  <1> DEFINE edited == Edited(reports[slot])
             report == [edited EXCEPT !.requested = TRUE]
  <1>2. edited \in Report
    BY <1>1, EditedTyped
  <1>3. /\ report \in Report
        /\ report.id = edited.id /\ report.source = edited.source
        /\ report.version = edited.version
        /\ report.status = edited.status
        /\ report.stale = edited.stale /\ report.restatedBy = edited.restatedBy
        /\ report.requested
        /\ report.submittedAt = edited.submittedAt
        /\ report.submittedAfter = edited.submittedAfter
    BY <1>2 DEF Report
  <1>4. Write(r, report)
    BY <1>1
  <1> HIDE DEF report, edited
  <1>5. reports'[slot] = report /\ Repository!Others({slot})
    BY <1>3, <1>4, WriteAlone
  <1>6. Repository!Rewritten(slot)
    BY <1>1, <1>3, <1>5, EditedReplaces DEF edited
  <1>7. Repository!Keeps(slot, {"status", "stale", "restatedBy",
                                "submittedAt", "submittedAfter"})
    BY <1>1, <1>3, <1>5, EditedTyped DEF Repository!Keeps, edited
  <1>8. Repository!MayBeRequested(slot)
    BY <1>1 DEF Repository!MayBeRequested, Repository!Found, Repository!NoReport,
                NoReport, Exists, SUBMITTED
  <1> QED
    BY <1>3, <1>5, <1>6, <1>7, <1>8
       DEF Repository!MarkSubmittedReportRequiringResubmissionByOperator

LEMMA CreateHonours ==
  ASSUME Inv, NEW r \in Requests, PerformCreateReport(r)
  PROVE  Repository!Next
  <1> DEFINE s == req[r].slot
  <1>1. s \in Slots /\ ~ Exists(s) /\ ~ AnotherDraft(s)
    BY DEF Inv, RequestHolds, PerformCreateReport
  <1> SUFFICES ASSUME NEW slot \in Slots, slot = s PROVE Repository!CreateReport(slot)
    BY <1>1 DEF Repository!Next
  <1> DEFINE new == NewReport(created', req[r].source)
  <1>2. reports' = [reports EXCEPT ![slot] = new] /\ reports \in [Slots -> Report \cup {NoReport}]
    BY TypesNamed DEF Inv, PerformCreateReport
  <1>3. /\ new.status = "in_progress" /\ new.version = 1 /\ new.stale = {}
        /\ new.restatedBy = NoLog /\ ~ new.requested
    BY DEF NewReport, IN_PROGRESS
  <1>4. new # NoReport
    BY <1>3 DEF NoReport
  <1> HIDE DEF new
  <1>5. reports'[slot] = new /\ Repository!Others({slot})
    BY <1>2 DEF Repository!Others
  <1>6. Repository!MayCreateReport(slot)
    <2>1. ~ Repository!Found(slot)
      BY <1>1 DEF Repository!Found, Repository!NoReport, NoReport, Exists
    <2>2. \A t \in Repository!SamePeriod(slot) : ~ Repository!IsActive(t)
      <3> SUFFICES ASSUME NEW t \in Slots, t[1] = slot[1], Repository!Found(t)
                   PROVE  ~ Repository!IsActive(t)
        BY DEF Repository!SamePeriod
      <3>1. Exists(t) /\ t # slot
        BY <2>1 DEF Repository!Found, Repository!NoReport, NoReport, Exists
      <3>2. ~ Active(t)
        BY <1>1, <3>1 DEF AnotherDraft, Taken
      <3> QED
        BY <3>2 DEF Active, ACTIVE_REPORT_STATUSES, IN_PROGRESS, READY_TO_SUBMIT,
                    Repository!IsActive
    <2> QED
      BY <2>1, <2>2 DEF Repository!MayCreateReport, Repository!FindActiveBySlot
  <1> QED
    BY <1>3, <1>4, <1>5, <1>6 DEF Repository!CreateReport, Repository!NoReport, NoReport

-----------------------------------------------------------------------------
(* The flags.                                                              *)

LEMMA FoundExists == ASSUME NEW s PROVE Repository!Found(s) <=> Exists(s)
  BY DEF Repository!Found, Repository!NoReport, NoReport, Exists

LEMMA ActiveIsActive == ASSUME NEW s PROVE Repository!IsActive(s) <=> Active(s)
  BY DEF Repository!IsActive, Active, ACTIVE_REPORT_STATUSES, IN_PROGRESS, READY_TO_SUBMIT

(* A reason is added to an edited report and nothing else is changed.      *)
LEMMA StaleAdded ==
  ASSUME NEW s \in Slots, Exists(s), reports[s] \in Report, NEW reason \in STALE_REASON,
         reports'[s] = [Edited(reports[s]) EXCEPT !.stale = @ \cup {reason}]
  PROVE  /\ Repository!Rewritten(s)
         /\ reports'[s].stale = reports[s].stale \cup {reason}
         /\ Repository!Keeps(s, {"status", "restatedBy", "requested",
                                 "submittedAt", "submittedAfter"})
  <1> DEFINE edited == Edited(reports[s])
             report == [edited EXCEPT !.stale = @ \cup {reason}]
  <1>1. edited \in Report
    BY EditedTyped
  <1>2. /\ report \in Report
        /\ report.id = edited.id /\ report.source = edited.source
        /\ report.version = edited.version
        /\ report.status = edited.status
        /\ report.stale = edited.stale \cup {reason}
        /\ report.restatedBy = edited.restatedBy /\ report.requested = edited.requested
        /\ report.submittedAt = edited.submittedAt
        /\ report.submittedAfter = edited.submittedAfter
    BY <1>1 DEF Report
  <1>3. reports'[s] = report
    OBVIOUS
  <1> HIDE DEF report, edited
  <1>4. Repository!Rewritten(s)
    BY <1>2, <1>3, EditedReplaces DEF edited
  <1> QED
    BY <1>2, <1>3, <1>4, EditedTyped DEF Repository!Keeps, edited

LEMMA StaleHonours ==
  ASSUME Inv, NEW l \in Logs, MarkActiveReportsStaleForSummaryLog(l)
  PROVE  Repository!Next
  <1> DEFINE slots == StaledBySummaryLog(l)
  <1>1. reports' = [s \in Slots |->
                      IF s \in slots
                      THEN [Edited(reports[s]) EXCEPT !.stale = @ \cup {"summary_log_changed"}]
                      ELSE reports[s]]
    BY DEF MarkActiveReportsStaleForSummaryLog
  <1>2. Repository!UnflaggedForSummaryLog(l) = slots
    <2>1. \A s : s \in slots <=>
                   /\ s \in Slots /\ Exists(s) /\ Active(s) /\ reports[s].source # l
                   /\ "summary_log_changed" \notin reports[s].stale
      BY DEF StaledBySummaryLog, Taken, Active
    <2>2. \A s : s \in Repository!UnflaggedForSummaryLog(l) <=>
                   /\ s \in Slots /\ Exists(s) /\ Active(s) /\ reports[s].source # l
                   /\ "summary_log_changed" \notin reports[s].stale
      BY FoundExists, ActiveIsActive
         DEF Repository!UnflaggedForSummaryLog, Repository!FindActiveBySlot
    <2> HIDE DEF slots
    <2> QED
      BY <2>1, <2>2
  <1>3. \A s \in slots : s \in Slots /\ Exists(s) /\ reports[s] \in Report
    BY ReportOfSlot DEF StaledBySummaryLog, Taken, Inv
  <1> HIDE DEF slots
  <1>4. ASSUME NEW s \in slots
        PROVE  /\ Repository!Rewritten(s)
               /\ reports'[s].stale = reports[s].stale \cup {"summary_log_changed"}
               /\ Repository!Keeps(s, {"status", "restatedBy", "requested",
                                       "submittedAt", "submittedAfter"})
    <2>1. reports'[s] = [Edited(reports[s]) EXCEPT !.stale = @ \cup {"summary_log_changed"}]
      BY <1>1, <1>3
    <2>2. "summary_log_changed" \in STALE_REASON
      BY DEF STALE_REASON
    <2> QED
      BY <1>3, <2>1, <2>2, StaleAdded
  <1>5. \A s \in Slots \ slots : reports'[s] = reports[s]
    BY <1>1
  <1>6. Repository!MarkActiveReportsStaleForSummaryLog(l)
    BY <1>2, <1>4, <1>5
       DEF Repository!MarkActiveReportsStaleForSummaryLog, Repository!Others,
           Repository!Rewritten, Repository!Keeps
  <1> QED
    BY <1>6 DEF Repository!Next

LEMMA CancellationHonours ==
  ASSUME Inv, NEW p \in Periods, OnPrnCancelled(p)
  PROVE  Repository!Next
  <1>1. PICK s \in StaledByPrnCancellation(p) :
          reports' = [reports EXCEPT ![s] =
                       [Edited(reports[s]) EXCEPT !.stale = @ \cup {"prn_cancelled"}]]
    BY DEF OnPrnCancelled
  <1>2. /\ s \in Slots /\ Exists(s) /\ Active(s) /\ reports[s] \in Report
        /\ "prn_cancelled" \notin reports[s].stale
    BY ReportOfSlot DEF StaledByPrnCancellation, Taken, Inv
  <1>3. reports'[s] = [Edited(reports[s]) EXCEPT !.stale = @ \cup {"prn_cancelled"}]
    BY <1>1, <1>2, TypesNamed DEF Inv
  <1>4. Repository!Others({s})
    BY <1>1, <1>2, TypesNamed DEF Repository!Others, Inv
  <1>5. Repository!UnflaggedForPrnCancellation(s)
    BY <1>2, FoundExists, ActiveIsActive
       DEF Repository!UnflaggedForPrnCancellation, Repository!FindActiveBySlot
  <1>6. "prn_cancelled" \in STALE_REASON
    BY DEF STALE_REASON
  <1>7. Repository!MarkActiveReportsStaleForPrnCancellation(s)
    BY <1>2, <1>3, <1>4, <1>5, <1>6, StaleAdded
       DEF Repository!MarkActiveReportsStaleForPrnCancellation
  <1> QED
    BY <1>2, <1>7 DEF Repository!Next

LEMMA RestatementHonours ==
  ASSUME FoundInv, NEW l \in Logs, MarkSubmittedReportsRequiringResubmission(l)
  PROVE  Repository!Next
  <1> DEFINE restated == {s \in Taken : /\ <<s, reports[s].id>> \in log[l].found
                                        /\ reports[s].restatedBy # l}
             periods == {s[1] : s \in Slots}
  <1>1. reports' = [s \in Slots |->
                      IF s \in restated THEN [Edited(reports[s]) EXCEPT !.restatedBy = l]
                                        ELSE reports[s]]
    BY DEF MarkSubmittedReportsRequiringResubmission
  <1>2. \A s \in restated :
          /\ s \in Slots /\ Exists(s) /\ reports[s] \in Report
          /\ reports[s].id \in 1..MaxReports
          /\ <<s, reports[s].id>> \in log[l].found
          /\ reports[s].restatedBy # l
    BY ReportOfSlot DEF Taken, FoundInv, Inv, Report
  <1> HIDE DEF restated
  <1>3. \A s \in restated : reports[s].status = SUBMITTED
    BY <1>2 DEF FoundInv, FoundHolds
  <1>4. \A s, t \in restated : s[1] = t[1] => s = t
    BY <1>2 DEF FoundInv, FoundHolds
  <1>5. restated \in SUBSET Repository!NotYetRestatedBy(l, periods)
    BY <1>2, <1>3, FoundExists DEF Repository!NotYetRestatedBy, SUBMITTED
  <1>6. ASSUME NEW s \in restated
        PROVE  /\ Repository!Rewritten(s)
               /\ reports'[s].restatedBy = l
               /\ Repository!Keeps(s, {"status", "stale", "requested",
                                       "submittedAt", "submittedAfter"})
    <2> DEFINE edited == Edited(reports[s])
               report == [edited EXCEPT !.restatedBy = l]
    <2>1. edited \in Report
      BY <1>2, EditedTyped
    <2>2. /\ report \in Report
          /\ report.id = edited.id /\ report.source = edited.source
          /\ report.version = edited.version
          /\ report.status = edited.status
          /\ report.stale = edited.stale
          /\ report.restatedBy = l /\ report.requested = edited.requested
          /\ report.submittedAt = edited.submittedAt
          /\ report.submittedAfter = edited.submittedAfter
      BY <2>1 DEF Report
    <2>3. reports'[s] = report
      BY <1>1, <1>2
    <2> HIDE DEF report, edited
    <2>4. Repository!Rewritten(s)
      BY <1>2, <2>2, <2>3, EditedReplaces DEF edited
    <2>5. /\ edited.status = reports[s].status /\ edited.stale = reports[s].stale
          /\ edited.requested = reports[s].requested
          /\ edited.submittedAt = reports[s].submittedAt
          /\ edited.submittedAfter = reports[s].submittedAfter
      BY <1>2, EditedTyped DEF edited
    <2>6. Repository!Keeps(s, {"status", "stale", "requested",
                               "submittedAt", "submittedAfter"})
      BY <2>2, <2>3, <2>5 DEF Repository!Keeps
    <2> QED
      BY <2>2, <2>3, <2>4, <2>6
  <1>7. \A s \in Slots \ restated : reports'[s] = reports[s]
    BY <1>1
  <1>8. Repository!MarkSubmittedReportsRequiringResubmission(l, periods)
    BY <1>4, <1>5, <1>6, <1>7
       DEF Repository!MarkSubmittedReportsRequiringResubmission, Repository!Others,
           Repository!Rewritten, Repository!Keeps
  <1> QED
    BY <1>8 DEF Repository!Next

-----------------------------------------------------------------------------
(* What was found stays what it was.                                       *)

LEMMA StepsOfLogs ==
  ASSUME FoundInv, Next, NEW l \in Logs
  PROVE  /\ \/ log'[l] = log[l]
            \/ log'[l].found = {}
            \/ FindLatestSubmitted(l)
         /\ created' \in {created, created + 1}
  <1>1. /\ log \in [Logs -> LogRecord] /\ log[l] \in LogRecord
        /\ log[l].found # {} => log[l].pc = "require"
    BY TypesNamed DEF FoundInv, FoundHolds, Inv
  <1>2. ASSUME UNCHANGED log PROVE log'[l] = log[l]
    BY <1>2
  <1>3. ASSUME NEW r \in Requests,
               \/ Reading(r) \/ PerformUpdateReport(r) \/ PerformUpdateReportStatus(r)
               \/ PerformDeleteReport(r) \/ MarkRequiringResubmissionByOperator(r)
               \/ PerformCreateReport(r)
        PROVE  UNCHANGED log /\ created' \in {created, created + 1}
    BY <1>3 DEF Reading, FetchReport, RequestEnds, CreateReportForPeriod,
         GetAggregatedReportDetail, PerformUpdateReport, PerformUpdateReportStatus,
         PerformDeleteReport, MarkRequiringResubmissionByOperator, PerformCreateReport, Write
  <1>4. ASSUME FlagSteps \/ \E k \in Logs : LogSteps(k)
        PROVE  created' = created
    BY <1>4, FlagStep, LogStepTyped DEF FoundInv, Inv
  <1>5. ASSUME NEW k \in Logs, k # l,
               \/ LogSteps(k) \/ MarkActiveReportsStaleForSummaryLog(k)
               \/ MarkSubmittedReportsRequiringResubmission(k)
        PROVE  log'[l] = log[l]
    BY <1>1, <1>5
       DEF LogSteps, Upload, Validate, Submit, AssertNoReportSubmittedSinceCreation,
           SyncFromSummaryLog, FindLatestSubmitted, Finalise, Crash,
           MarkActiveReportsStaleForSummaryLog, MarkSubmittedReportsRequiringResubmission
  <1>6. ASSUME \/ Upload(l) \/ Validate(l) \/ Submit(l)
               \/ AssertNoReportSubmittedSinceCreation(l)
               \/ SyncFromSummaryLog(l) \/ Finalise(l)
               \/ MarkActiveReportsStaleForSummaryLog(l)
        PROVE  log'[l].found = {}
    <2>1. log[l].found = {}
      BY <1>1, <1>6
         DEF Upload, Validate, Submit, AssertNoReportSubmittedSinceCreation,
             SyncFromSummaryLog, Finalise, MarkActiveReportsStaleForSummaryLog
    <2>2. log'[l].found = log[l].found
      BY <1>1, <1>6
         DEF LogRecord, Upload, Validate, Submit, AssertNoReportSubmittedSinceCreation,
             SyncFromSummaryLog, Finalise, MarkActiveReportsStaleForSummaryLog
    <2> QED
      BY <2>1, <2>2
  <1>7. ASSUME Crash(l) \/ MarkSubmittedReportsRequiringResubmission(l)
        PROVE  log'[l].found = {}
    BY <1>1, <1>7 DEF LogRecord, Crash, MarkSubmittedReportsRequiringResubmission
  <1>8. ASSUME NEW p \in Periods, OnPrnCancelled(p) PROVE UNCHANGED log
    BY <1>8 DEF OnPrnCancelled
  <1> QED
    BY <1>2, <1>3, <1>4, <1>5, <1>6, <1>7, <1>8 DEF Next, Reading, LogSteps, FlagSteps

LEMMA FoundStays ==
  ASSUME "unsubmitDuringUpload" \notin Disturbances, FoundInv, Next,
         NEW l \in Logs, log'[l] = log[l]
  PROVE  FoundHolds(l)'
  <1>1. /\ FoundHolds(l) /\ \A s \in Slots : Moves(s)
        /\ created \in Nat /\ created' \in Nat /\ created <= created'
    BY StepMoves, StepsOfLogs, TypesNamed, BoundAssumption DEF FoundInv, Inv
  <1>2. ASSUME NEW s \in Slots, NEW id \in 1..MaxReports, <<s, id>> \in log[l].found,
               Exists(s)', reports'[s].id = id
        PROVE  reports'[s].status = SUBMITTED
    <2>1. id \in Nat /\ id <= created /\ log[l].pc = "require" /\ Moves(s)
      BY <1>1, <1>2, BoundAssumption DEF FoundHolds
    <2>2. ~ NoneFlagging
      BY <2>1 DEF NoneFlagging, Flagging
    <2>3. ~ Deleted(s)
      BY <1>2 DEF Deleted, Exists
    <2>4. ~ Inserted(s)
      BY <1>1, <1>2, <2>1 DEF Inserted
    <2>5. Exists(s) /\ reports[s].id = id => reports[s].status = SUBMITTED
      BY <1>1, <1>2 DEF FoundHolds
    <2> QED
      BY <1>2, <2>1, <2>2, <2>3, <2>4, <2>5 DEF Moves, Rewritten, Exists
  <1>3. ASSUME NEW s \in Slots, NEW id \in 1..MaxReports, <<s, id>> \in log[l].found
        PROVE  id <= created'
    <2>1. id \in Nat /\ id <= created
      BY <1>1, <1>3, BoundAssumption DEF FoundHolds
    <2> QED
      BY <1>1, <2>1
  <1> QED
    BY <1>1, <1>2, <1>3 DEF FoundHolds

LEMMA FoundTaken ==
  ASSUME FoundInv, NEW l \in Logs, FindLatestSubmitted(l)
  PROVE  FoundHolds(l)'
  <1> DEFINE latest == LatestSubmissionPerPeriod(log[l].closed)
             found  == {<<s, reports[s].id>> : s \in latest}
  <1>1. log \in [Logs -> LogRecord] /\ UNCHANGED <<reports, created>>
        /\ log' = [log EXCEPT ![l].pc = "require", ![l].found = found]
    BY TypesNamed DEF FoundInv, Inv, FindLatestSubmitted
  <1>2. \A s \in latest : /\ s \in Slots /\ Exists(s) /\ reports[s].status = SUBMITTED
                          /\ reports[s].id <= created /\ s[2] \in Nat
    BY BoundAssumption DEF LatestSubmissionPerPeriod, Taken, FoundInv, Inv, Slots
  <1>3. \A s, t \in latest : s[1] = t[1] => s = t
    <2> SUFFICES ASSUME NEW s \in latest, NEW t \in latest, s[1] = t[1] PROVE s = t
      OBVIOUS
    <2>1. s[2] <= t[2] /\ t[2] <= s[2]
      BY DEF LatestSubmissionPerPeriod
    <2>2. s[2] = t[2]
      BY <1>2, <2>1
    <2> QED
      BY <1>2, <2>2 DEF Slots
  <1> HIDE DEF latest, found
  <1>4. log'[l].pc = "require" /\ log'[l].found = found
    BY <1>1 DEF LogRecord
  <1>5. \A s, id : <<s, id>> \in found => s \in latest /\ id = reports[s].id
    BY DEF found
  <1> QED
    BY <1>1, <1>2, <1>3, <1>4, <1>5 DEF FoundHolds, Exists

LEMMA FoundKept ==
  ASSUME "unsubmitDuringUpload" \notin Disturbances, FoundInv, Next
  PROVE  FoundInv'
  <1>1. Inv'
    BY StepMoves DEF FoundInv
  <1>2. ASSUME NEW l \in Logs PROVE FoundHolds(l)'
    <2>1. CASE log'[l].found = {}
      BY <2>1 DEF FoundHolds
    <2> QED
      BY <2>1, StepsOfLogs, FoundStays, FoundTaken
  <1> QED
    BY <1>1, <1>2 DEF FoundInv

(* Every step of the reports is one the contract allows, or none.          *)
LEMMA StepHonours ==
  ASSUME FoundInv, Next
  PROVE  Repository!Next \/ UNCHANGED reports
  <1>1. ASSUME NEW r \in Requests, Reading(r) PROVE UNCHANGED reports
    BY <1>1, ReadingKeeps DEF FoundInv
  <1>2. ASSUME NEW l \in Logs, LogSteps(l) PROVE UNCHANGED reports
    BY <1>2, LogStepTyped DEF FoundInv, Inv
  <1> QED
    BY <1>1, <1>2, UpdateHonours, StatusHonours, DeleteHonours, RequirementHonours,
       CreateHonours, StaleHonours, CancellationHonours, RestatementHonours
       DEF Next, Reading, LogSteps, FoundInv

(* repository/contract: the reports, whatever requests and summary logs do *)
(* to them at once, are a behaviour of the contract every adapter is       *)
(* tested for; each command of MongoDB and each find-and-flag is one of    *)
(* its operations.                                                         *)
THEOREM ReportsHonourContract ==
  ASSUME "unsubmitDuringUpload" \notin Disturbances
  PROVE  Spec => HonoursContract
  <1>1. Init => FoundInv
    <2>1. Init => \A l \in Logs : log[l].found = {}
      BY DEF Init, NewLog
    <2> QED
      BY <2>1, InitInv DEF FoundInv, FoundHolds
  <1>2. FoundInv /\ [Next]_vars => FoundInv'
    <2>1. ASSUME FoundInv, UNCHANGED vars PROVE FoundInv'
      BY <2>1, Stuttering DEF FoundInv, FoundHolds, Exists, vars
    <2> QED
      BY <2>1, FoundKept
  <1>3. Init => Repository!Init
    BY DEF Init, Repository!Init, Repository!NoReport, NoReport
  <1>4. FoundInv /\ [Next]_vars => [Repository!Next]_reports
    BY StepHonours DEF vars
  <1> QED
    BY <1>1, <1>2, <1>3, <1>4, PTL DEF Spec, HonoursContract, Repository!Spec
=============================================================================
