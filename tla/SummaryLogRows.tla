--------------------------- MODULE SummaryLogRows ---------------------------
(***************************************************************************)
(* The rows of the summary logs of one registration, from the upload to    *)
(* the credit: what validation makes of them and shows on the check page,  *)
(* the row states and the ledger event a submission commits, the reports   *)
(* it flags, and what later reads make of the stored states                *)
(* (application/summary-logs, application/waste-records, waste-records,    *)
(* reports/monitoring/pre-cpa-resubmission-backfill.js).                   *)
(*                                                                         *)
(* The life of a log's document, its queue and its failures are those of   *)
(* SummaryLogSubmission; here one submission is under way at a time.       *)
(***************************************************************************)
EXTENDS RowClassification, Functions, SequencesExt

CONSTANTS
  Logs,            \* summary logs of the registration
  Contents,        \* Contents[t][row]: the data a row may have under a template
  Accreditations,  \* what the regulator makes of the accreditation
  SiteContexts,    \* what becomes of the overseas sites, site to month
  Months,          \* months of the reporting year
  ReportMonths,    \* months whose reports get submitted
  MaxContexts,     \* bound on the changes of accreditation and sites
  MaxReports,      \* bound on the reports submitted
  MaxReceive,      \* executions of one submit command
  Disturbances     \* what goes on besides

(* "crash": the worker dies and the command is delivered again.            *)
(* "contextBetweenAttempts": the regulator acts between its executions.    *)
(* "reportBetweenAttempts": a report is submitted between them.            *)
ASSUME RowDisturbanceAssumption ==
  Disturbances \subseteq {"crash", "contextBetweenAttempts", "reportBetweenAttempts"}

VARIABLES
  template,     \* the registration's processing type
  context,      \* its accreditation and overseas sites as they are now
  contexts,     \* how often they changed
  reports,      \* periods whose report is submitted
  logs,         \* logs[l]: a summary log and its file
  submissions,  \* the logs submitted, in order
  ledger,       \* summary-log-submitted events
  rowStates,    \* documents of summary-log-row-states, in insertion order
  job,          \* the submit command under way
  flagged       \* <<period, log>>: reports that require resubmission

vars == <<template, context, contexts, reports, logs, submissions, ledger,
          rowStates, job, flagged>>

RowsOf(t) == DOMAIN Contents[t]

(* What validation takes for a row's data: a record whose weights are      *)
(* whole and whose tonnages are whole or absent.                           *)
IsRowData(data) ==
  /\ data = [f \in DOMAIN data |-> data[f]]
  /\ {"gross", "tare", "pallet", "net", "tonnage", "interimTonnage",
      "filled", "dates", "remark", "osr", "interim"} \subseteq DOMAIN data
  /\ {data.gross, data.tare, data.pallet} \subseteq Int
  /\ {data.tonnage, data.interimTonnage} \subseteq Int \cup {NONE}

(* A row that is filled in has the dates its accreditation is to cover:    *)
(* they are among the fields each table requires.                          *)
HasItsDates(type, data) ==
  data.filled => \A f \in AccreditationDateFields(type) : data.dates[f] \in Int

(* A template with tables that count is refused without an accreditation   *)
(* (validations/processing-type.js).                                       *)
ASSUME RowAssumption ==
  /\ NONE \notin Int \cup Logs \cup Accreditations \cup {"open", "closed"}
  /\ MaxContexts \in Nat
  /\ \A a \in Accreditations : {a.validFrom, a.validTo} \subseteq Int \cup {NONE}
  /\ \A t \in DOMAIN Contents :
       /\ IsFiniteSet(RowsOf(t))
       /\ \A r \in RowsOf(t) : \A data \in Contents[t][r] :
            IsRowData(data) /\ HasItsDates(r.type, data)

(* Uploads of a template: rows with their data, none of them required.     *)
Uploads(t) ==
  UNION {{u \in [rows -> UNION {Contents[t][r] : r \in rows}] :
            \A r \in rows : u[r] \in Contents[t][r]} : rows \in SUBSET RowsOf(t)}

NoLog == [status |-> "none"]
NoJob == [step |-> "none"]

(* The contexts of a template: no accreditation under a registered-only    *)
(* one, no overseas sites but under the exporter's.                        *)
ContextsOf(t) ==
  [accreditation : IF t \in REGISTERED_ONLY_PROCESSING_TYPES THEN {NONE} ELSE Accreditations,
   sites         : IF t = EXPORTER THEN SiteContexts ELSE {ORS_VALIDATION_DISABLED}]

TypeOK ==
  /\ template \in DOMAIN Contents
  /\ context \in ContextsOf(template) /\ contexts \in 0..MaxContexts
  /\ reports \subseteq {PeriodForDate(m, c) : m \in ReportMonths, c \in {MONTHLY, QUARTERLY}}
  /\ \A l \in Logs : logs[l].status \in
       {"none", "validating", "classifying", "validated", "invalid", "superseded",
        "submitting", "submitted", "submission_failed"}
  /\ \A i \in DOMAIN ledger : ledger[i].log \in Logs /\ ledger[i].creditTotal \in Int
  /\ \A i \in DOMAIN rowStates :
       /\ rowStates[i].state.row \in RowsOf(template)
       /\ rowStates[i].summaryLogIds \subseteq Logs
       /\ rowStates[i].state.data.gross % 10 = 0
  /\ job.step \in {"none", "checkReports", "readContext", "upsert", "commit", "flag", "finish"}

Init ==
  /\ template \in DOMAIN Contents
  /\ context \in ContextsOf(template)
  /\ contexts = 0
  /\ reports = {}
  /\ logs = [l \in Logs |-> NoLog]
  /\ submissions = <<>> /\ ledger = <<>> /\ rowStates = <<>>
  /\ job = NoJob
  /\ flagged = {}

-----------------------------------------------------------------------------
(* Reads.                                                                  *)

(* latestSubmittedSummaryLog: of the ledger.                               *)
HeadLog(events) == IF events = <<>> THEN NONE ELSE Last(events).log

(* findLatestSubmittedForOrgReg: of the documents.                         *)
LatestSubmitted == IF submissions = <<>> THEN NONE ELSE Last(submissions)

(* findRowStatesForSummaryLog: a read returns documents by _id, which here *)
(* is their place in rowStates.                                            *)
FindRowStatesForSummaryLog(l) == {i \in DOMAIN rowStates : l \in rowStates[i].summaryLogIds}

(* summaryLogRowStatesForRegistration: the states at the ledger's head.    *)
HeadDocuments == IF ledger = <<>> THEN {} ELSE FindRowStatesForSummaryLog(HeadLog(ledger))

(* A Map by row of documents: of two with one key, the later.              *)
ByKey(documents) ==
  [r \in {rowStates[i].state.row : i \in documents} |->
     rowStates[Max({i \in documents : rowStates[i].state.row = r})].state]

(* findRowHistory: every state a row was ever stored with.                 *)
FindRowHistory(row) == {i \in DOMAIN rowStates : rowStates[i].state.row = row}

-----------------------------------------------------------------------------
(* The upload and its validation.                                          *)

(* update: the document with the fields set, the others as they were.      *)
Update(log, fields) ==
  [f \in DOMAIN log \cup DOMAIN fields |-> IF f \in DOMAIN fields THEN fields[f] ELSE log[f]]

(* The file is uploaded: createdAt and the baseline are captured.          *)
Upload(l) ==
  /\ logs[l] = NoLog
  /\ \E upload \in Uploads(template) :
       logs' = [logs EXCEPT ![l] =
         [status |-> "validating", upload |-> upload, baseline |-> LatestSubmitted,
          closed |-> reports]]
  /\ UNCHANGED <<template, context, contexts, reports, submissions, ledger,
                 rowStates, job, flagged>>

(* The data syntax check: a rejected row fails the table.                  *)
RejectedRows(upload) ==
  {r \in DOMAIN upload : ClassifyRow(template, r.type, upload[r]) = REJECTED}

(* validateRowContinuity.                                                  *)
RemovedRows(upload) == DOMAIN ByKey(HeadDocuments) \ DOMAIN upload

(* performValidationChecks: the registration is read, rejected rows and    *)
(* removed rows are fatal, rows outside the accreditation are marked.      *)
Validate(l) ==
  /\ logs[l].status = "validating"
  /\ LET upload == logs[l].upload
         outcome == [r \in DOMAIN upload |->
                       MarkIgnored(template, r.type, upload[r], context.accreditation)]
         fatal == RejectedRows(upload) # {} \/ RemovedRows(upload) # {}
     IN logs' = [logs EXCEPT ![l] =
          IF fatal THEN [status |-> "invalid"]
          ELSE Update(@, [status |-> "classifying", accreditation |-> context.accreditation,
                          outcome |-> outcome])]
  /\ UNCHANGED <<template, context, contexts, reports, submissions, ledger,
                 rowStates, job, flagged>>

ADDED     == "added"
ADJUSTED  == "adjusted"
UNCHANGED_ROW == "unchanged"

(* classifyRecordChanges: against the states at the head, projected data   *)
(* and classification.                                                     *)
ClassifyRecordChange(r, data, submitted, a, sites) ==
  IF r \notin DOMAIN submitted THEN ADDED
  ELSE LET projected == ProjectSummaryLogRowState(template, r, data, a, sites)
       IN IF /\ projected.data = submitted[r].data
             /\ projected.classification = submitted[r].classification
          THEN UNCHANGED_ROW ELSE ADJUSTED

(* buildSubmittedPeriods: those of one cadence.                            *)
SubmittedPeriods(cadence) == {p \in reports : p.cadence = cadence}

OPEN   == "open"
CLOSED == "closed"

(* classifyPeriodStatus: closed wins; no status without a date.            *)
ClassifyPeriodStatus(type, data, cadence) ==
  LET periods == PeriodsForData(template, type, data, cadence)
  IN IF periods \cap SubmittedPeriods(cadence) # {} THEN CLOSED
     ELSE IF periods # {} THEN OPEN ELSE NONE

(* Variant: the periods of the new data alone.                             *)
ClosedPeriodRefsOfNewData(r, data, change, submitted, cadence) ==
  SubmittedPeriods(cadence) \cap PeriodsForData(template, r.type, data, cadence)

(* closedPeriodRefsForRecord: with the period a load moves out of.         *)
ClosedPeriodRefsForRecord(r, data, change, submitted, cadence) ==
  SubmittedPeriods(cadence) \cap
    (PeriodsForData(template, r.type, data, cadence)
     \cup IF change = ADDED THEN {}
          ELSE PeriodsForData(template, r.type, submitted[r].data, cadence))

(* classifyRowForWasteBalance: of the preview, under the table's schema.   *)
PreviewAmount(r, data, a, sites) ==
  IF Classifies(template, r.type)
  THEN GetTargetAmount(ClassifyForWasteBalance(r.type, data, a, sites)) ELSE 0

(* Variant: a leg for the period the load is in now, none for the other.   *)
LegOfNewPeriod(r, data, change, submitted, cadence, a, sites) ==
  {[row |-> r, period |-> p, tonnageDelta |-> PreviewAmount(r, data, a, sites)] :
     p \in {ClassifyPeriodStatus(r.type, data, cadence)} \ {NONE}}

(* classifyAddedRecord and classifyAdjustedRecord: the new amount into the *)
(* period the load is in, the amount it was credited with out of the one   *)
(* it was in.                                                              *)
Legs(r, data, change, submitted, cadence, a, sites) ==
  LET new == ClassifyPeriodStatus(r.type, data, cadence)
      old == IF change = ADDED THEN NONE
             ELSE ClassifyPeriodStatus(r.type, submitted[r].data, cadence)
      inflow  == PreviewAmount(r, data, a, sites)
      outflow == IF change = ADDED THEN 0 ELSE GetTargetAmount(submitted[r].classification)
  IN {[row |-> r, period |-> p,
       tonnageDelta |-> (IF p = new THEN inflow ELSE 0) - (IF p = old THEN outflow ELSE 0)] :
        p \in {new, old} \ {NONE}}

(* classifyByPeriodStatus: of the rows that count and changed.             *)
ClassifyByPeriodStatus(log, submitted, sites) ==
  LET a == log.accreditation
      cadence == Cadence(a)
      Change(r) == ClassifyRecordChange(r, log.upload[r], submitted, a, sites)
      rows == {r \in DOMAIN log.upload : log.outcome[r] # IGNORED /\ Change(r) # UNCHANGED_ROW}
      legs == UNION {Legs(r, log.upload[r], Change(r), submitted, cadence, a, sites) : r \in rows}
      Delta(leg) == leg.tonnageDelta
  IN [openPeriodLoads   |-> MapThenSumSet(Delta, {g \in legs : g.period = OPEN}),
      closedPeriodLoads |-> MapThenSumSet(Delta, {g \in legs : g.period = CLOSED}),
      closedPeriods     |->
        UNION {ClosedPeriodRefsForRecord(r, log.upload[r], Change(r), submitted, cadence) :
                 r \in rows}]

(* classifyAndPersistResult: the reports, the overseas sites and the head  *)
(* are read now, the registration was read before.                         *)
ClassifyAndPersist(l) ==
  /\ logs[l].status = "classifying"
  /\ logs' = [logs EXCEPT ![l] = Update(@,
       [status |-> "validated", sites |-> context.sites,
        preview |-> ClassifyByPeriodStatus(@, ByKey(HeadDocuments), context.sites)])]
  /\ UNCHANGED <<template, context, contexts, reports, submissions, ledger,
                 rowStates, job, flagged>>

-----------------------------------------------------------------------------
(* The submission.                                                         *)

(* Variant: no check of the baseline.                                      *)
AnyBaseline(l) == TRUE

(* The staleness check of the submission route.                            *)
BaselineFresh(l) == logs[l].baseline = LatestSubmitted

(* submit/post.js: one log of the registration submits, and it is worked   *)
(* against the submission it was uploaded against.                         *)
Confirm(l) ==
  /\ logs[l].status = "validated" /\ job = NoJob
  /\ IF BaselineFresh(l)
     THEN /\ logs' = [logs EXCEPT ![l] = [@ EXCEPT !.status = "submitting"]]
          /\ job' = [step |-> "checkReports", log |-> l, receives |-> 1]
     ELSE /\ logs' = [logs EXCEPT ![l] = [status |-> "superseded"]]
          /\ UNCHANGED job
  /\ UNCHANGED <<template, context, contexts, reports, submissions, ledger,
                 rowStates, flagged>>

AtStep(step) == job.step = step

(* assertNoReportSubmittedSinceCreation.                                   *)
CheckReports ==
  /\ AtStep("checkReports")
  /\ IF reports = logs[job.log].closed
     THEN /\ job' = [job EXCEPT !.step = "readContext"]
          /\ UNCHANGED logs
     ELSE /\ job' = NoJob
          /\ logs' = [logs EXCEPT ![job.log] = [@ EXCEPT !.status = "submission_failed"]]
  /\ UNCHANGED <<template, context, contexts, reports, submissions, ledger,
                 rowStates, flagged>>

(* syncFromSummaryLog reads the accreditation and the overseas sites.      *)
ReadContext ==
  /\ AtStep("readContext")
  /\ job' = [step |-> "upsert", log |-> job.log, receives |-> job.receives,
             accreditation |-> context.accreditation, sites |-> context.sites,
             left |-> DOMAIN logs[job.log].upload]
  /\ UNCHANGED <<template, context, contexts, reports, logs, submissions, ledger,
                 rowStates, flagged>>

(* Variant: the update sets what it should only set on insert, and finds   *)
(* the document by its row.                                                *)
UpsertByRow(state, l) ==
  LET found == {i \in DOMAIN rowStates : rowStates[i].state.row = state.row}
  IN rowStates' =
       IF found = {} THEN Append(rowStates, [state |-> state, summaryLogIds |-> {l}])
       ELSE [rowStates EXCEPT ![Max(found)] =
               [state |-> state, summaryLogIds |-> @.summaryLogIds \cup {l}]]

(* Variant: the membership set anew, not added to.                         *)
UpsertResettingMembership(state, l) ==
  LET found == {i \in DOMAIN rowStates : rowStates[i].state = state}
  IN rowStates' =
       IF found = {} THEN Append(rowStates, [state |-> state, summaryLogIds |-> {l}])
       ELSE [rowStates EXCEPT ![Max(found)].summaryLogIds = {l}]

(* updateOne with upsert, by the row and the hash of the content.          *)
UpsertState(state, l) ==
  LET found == {i \in DOMAIN rowStates : rowStates[i].state = state}
  IN rowStates' =
       IF found = {} THEN Append(rowStates, [state |-> state, summaryLogIds |-> {l}])
       ELSE [rowStates EXCEPT ![Max(found)].summaryLogIds = @ \cup {l}]

(* The unordered bulkWrite of upsertSummaryLogRowStates, row by row.       *)
UpsertRow ==
  /\ AtStep("upsert")
  /\ \E r \in job.left :
       /\ UpsertState(ProjectSummaryLogRowState(template, r, logs[job.log].upload[r],
                                                job.accreditation, job.sites), job.log)
       /\ job' = [job EXCEPT !.left = @ \ {r}]
  /\ UNCHANGED <<template, context, contexts, reports, logs, submissions, ledger, flagged>>

(* classifyWasteRecord: of a row about to be credited.                     *)
ClassifyWasteRecord(r, data, a, sites) ==
  ClassifyRecordForWasteBalance(template, r.type, data, a, sites)

(* Variant: rows credited without a look at the overseas sites.            *)
CreditTotalOfAnySite(upload, a, sites) ==
  LET Target(r) == GetTargetAmount(
        ClassifyWasteRecord(r, upload[r], a, ORS_VALIDATION_DISABLED))
  IN MapThenSumSet(Target, DOMAIN upload)

(* performUpdateViaLedger: the sum of the rows' target amounts.            *)
CreditTotal(upload, a, sites) ==
  LET Target(r) == GetTargetAmount(ClassifyWasteRecord(r, upload[r], a, sites))
  IN MapThenSumSet(Target, DOMAIN upload)

(* commitStateAndBalance: an accredited submission without rows commits no *)
(* event, one without accreditation moves nothing.                         *)
CommitLedger ==
  /\ AtStep("upsert") /\ job.left = {}
  /\ LET upload == logs[job.log].upload
         creditTotal == IF job.accreditation = NONE THEN 0
                        ELSE CreditTotal(upload, job.accreditation, job.sites)
     IN ledger' = IF job.accreditation # NONE /\ DOMAIN upload = {} THEN ledger
                  ELSE Append(ledger, [log |-> job.log, creditTotal |-> creditTotal])
  /\ job' = [job EXCEPT !.step = "flag"]
  /\ UNCHANGED <<template, context, contexts, reports, logs, submissions,
                 rowStates, flagged>>

(* onSummaryLogUploaded, with the preview's closed periods.                *)
Flag ==
  /\ AtStep("flag")
  /\ flagged' = flagged \cup {<<p, job.log>> : p \in logs[job.log].preview.closedPeriods}
  /\ job' = [job EXCEPT !.step = "finish"]
  /\ UNCHANGED <<template, context, contexts, reports, logs, submissions, ledger, rowStates>>

Finish ==
  /\ AtStep("finish")
  /\ logs' = [logs EXCEPT ![job.log] = Update(@,
       [status |-> "submitted", submittedUnder |-> [accreditation |-> job.accreditation,
                                                    sites |-> job.sites]])]
  /\ submissions' = Append(submissions, job.log)
  /\ job' = NoJob
  /\ UNCHANGED <<template, context, contexts, reports, ledger, rowStates, flagged>>

(* The worker dies and the command is received again.                      *)
Crash ==
  /\ "crash" \in Disturbances
  /\ job # NoJob /\ job.step # "checkReports" /\ job.receives < MaxReceive
  /\ reports = logs[job.log].closed \/ "reportBetweenAttempts" \in Disturbances
  /\ job' = [step |-> "checkReports", log |-> job.log, receives |-> job.receives + 1]
  /\ UNCHANGED <<template, context, contexts, reports, logs, submissions, ledger,
                 rowStates, flagged>>

-----------------------------------------------------------------------------
(* Environment.                                                            *)

(* A report is submitted for a period of the current cadence.              *)
SubmitReport ==
  /\ Cardinality(reports) < MaxReports
  /\ AtStep("checkReports") /\ "reportBetweenAttempts" \notin Disturbances => job.receives = 1
  /\ \E m \in ReportMonths :
       LET p == PeriodForDate(m, Cadence(context.accreditation))
       IN p \notin reports /\ reports' = reports \cup {p}
  /\ UNCHANGED <<template, context, contexts, logs, submissions, ledger,
                 rowStates, job, flagged>>

(* The regulator changes the accreditation or the sites.                   *)
ChangeContext ==
  /\ contexts < MaxContexts
  /\ job = NoJob \/ "contextBetweenAttempts" \in Disturbances
  /\ context' \in ContextsOf(template) \ {context}
  /\ contexts' = contexts + 1
  /\ UNCHANGED <<template, reports, logs, submissions, ledger, rowStates, job, flagged>>

Next ==
  \/ \E l \in Logs :
       \/ Upload(l)
       \/ Validate(l)
       \/ ClassifyAndPersist(l)
       \/ Confirm(l)
  \/ CheckReports
  \/ ReadContext
  \/ UpsertRow
  \/ CommitLedger
  \/ Flag
  \/ Finish
  \/ Crash
  \/ SubmitReport
  \/ ChangeContext

Spec == Init /\ [][Next]_vars

-----------------------------------------------------------------------------
(* The back-fill that finds, in the stored states, what the live path      *)
(* flags (pre-cpa-resubmission-backfill.js).                               *)

(* restatedPeriods: with those of the row's previous state.                *)
RestatedPeriods(s, previous) ==
  LET Periods(x) == PeriodsForData(s.processingType, s.row.type, x.data,
                                   CadenceForRow(s.processingType))
  IN Periods(s) \cup IF s.row \in DOMAIN previous THEN Periods(previous[s.row]) ELSE {}

States(documents) == {rowStates[i].state : i \in documents}

(* changedRows: the states new since the previous submission.              *)
ChangedRows(previous, current) ==
  States(FindRowStatesForSummaryLog(current)) \ States(FindRowStatesForSummaryLog(previous))

IsIgnoredRow(s) == s.classification.outcome = IGNORED

(* closedRestatements: the periods closed before the upload that a changed *)
(* row restates.                                                           *)
ClosedRestatements(s, previous, current) ==
  logs[current].closed
    \cap RestatedPeriods(s, ByKey(FindRowStatesForSummaryLog(previous)))

(* diffFindings, of one pair of consecutive submissions.                   *)
DiffFindings(previous, current) ==
  UNION {ClosedRestatements(s, previous, current) :
           s \in {t \in ChangedRows(previous, current) : ~IsIgnoredRow(t)}}

-----------------------------------------------------------------------------
(* Properties.                                                             *)

(* write-summary-log-row-states.js: "one idempotent upsert per row".  What *)
(* the registration's readers find at the ledger's head is the file that   *)
(* was submitted, one state to a row, however often the command was        *)
(* delivered.                                                              *)
HeadIsUpload ==
  ledger # <<>> =>
    LET documents == HeadDocuments
        upload == logs[HeadLog(ledger)].upload
    IN /\ DOMAIN ByKey(documents) = DOMAIN upload
       /\ Cardinality(documents) = Cardinality(DOMAIN upload)
       /\ \A r \in DOMAIN upload :
            ByKey(documents)[r].data = CoerceStoredTonnages(upload[r])

(* The submission that readers find at the head of the ledger is the one   *)
(* that the next upload is compared with by the documents' statuses, or    *)
(* that of a command still being retried; only a submission that has no    *)
(* rows and is accredited may lack its event.                              *)
LedgerNamesLatestSubmitted ==
  LET HasEvent(l) == DOMAIN logs[l].upload # {} \/ logs[l].submittedUnder.accreditation = NONE
      recorded == {i \in DOMAIN submissions : HasEvent(submissions[i])}
  IN IF ledger = <<>> THEN recorded = {}
     ELSE \/ logs[HeadLog(ledger)].status = "submitting"
          \/ \E i \in recorded :
               submissions[i] = HeadLog(ledger) /\ \A j \in recorded : j <= i

(* The head of the ledger is the last submission, and its rows are its     *)
(* upload, of the types declared.                                          *)
HeadIsLatestUpload ==
  /\ TypeOK
  /\ HeadIsUpload
  /\ LedgerNamesLatestSubmitted

(* Readers classify the stored states anew (live-classified-row-states.js),*)
(* from rounded data; the ledger was credited from the operator's.  Under  *)
(* the context of the submission the two agree on every row, and add up.   *)
CreditIsLiveReading ==
  job.step = "flag" /\ ledger # <<>> /\ HeadLog(ledger) = job.log =>
    LET states == States(HeadDocuments)
        Live(s) == GetTargetAmount(
          ReclassifyWasteRecordState(s, job.accreditation, job.sites).classification)
    IN Last(ledger).creditTotal =
         IF job.accreditation = NONE THEN 0 ELSE MapThenSumSet(Live, states)

(* credited-tonnage.js: the eligible tonnage of the months, less what was  *)
(* sent on within the accreditation, is the credit: a row that counts falls*)
(* into one month, under the column it was credited by.                    *)
EligibleReconcilesWithCredit ==
  ledger # <<>> /\ job = NoJob =>
    LET states == States(HeadDocuments)
        months == CreditedTonnageByMonth(states, Months)
        Eligible(m) == months[m].eligibleForWasteBalance
        Target(s) == GetTargetAmount(s.classification)
    IN Last(ledger).creditTotal =
         MapThenSumSet(Eligible, Months)
         + MapThenSumSet(Target, {s \in states : s.row.type = SENT_ON})

(* The credit is what the readers of the rows find, row by row and month   *)
(* by month.                                                               *)
CreditReconciles ==
  /\ CreditIsLiveReading
  /\ EligibleReconcilesWithCredit

(* period-status.js, the check page: the open and closed tonnage the       *)
(* operator confirmed is what the submission moves the credit by, when the *)
(* regulator changed nothing in between and no row that was credited has   *)
(* left the accreditation's dates.                                         *)
PreviewPredictsCredit ==
  [][(/\ Len(ledger') > Len(ledger)
      /\ HeadLog(ledger) # job.log
      /\ logs[job.log].accreditation = job.accreditation
      /\ logs[job.log].sites = job.sites
      /\ \A r \in DOMAIN logs[job.log].upload :
           logs[job.log].outcome[r] = IGNORED /\ r \in DOMAIN ByKey(HeadDocuments) =>
             GetTargetAmount(ByKey(HeadDocuments)[r].classification) = 0)
     => Last(ledger').creditTotal - (IF ledger = <<>> THEN 0 ELSE Last(ledger).creditTotal) =
          logs[job.log].preview.openPeriodLoads + logs[job.log].preview.closedPeriodLoads]_vars

(* row-continuity.js: "no rows from the previous submission have been      *)
(* removed".  A log validated while another was being submitted does not   *)
(* drop that one's rows.                                                   *)
RowsNeverRemoved ==
  \A i, j \in DOMAIN ledger :
    i < j => DOMAIN logs[ledger[i].log].upload \subseteq DOMAIN logs[ledger[j].log].upload

(* pre-cpa-resubmission-backfill.js: "a faithful mirror of the live        *)
(* behaviour".  Of two consecutive submissions the back-fill finds the     *)
(* periods the live path flagged for the second, when it was submitted     *)
(* under the context it was validated under.                               *)
BackfillMirrorsLive ==
  \A i \in 2..Len(submissions) :
    LET l == submissions[i] IN
    logs[l].submittedUnder = [accreditation |-> logs[l].accreditation,
                              sites |-> logs[l].sites] =>
      DiffFindings(submissions[i - 1], l) = {p \in reports : <<p, l>> \in flagged}

-----------------------------------------------------------------------------
(* The repository as its callers may think of it.                          *)

Repository == INSTANCE RowStateRepository WITH
  members <- [s \in States(DOMAIN rowStates) |->
                UNION {rowStates[i].summaryLogIds :
                         i \in {k \in DOMAIN rowStates : rowStates[k].state = s}}]

(* Whatever is delivered twice, what is stored of rows only comes of the   *)
(* upserts the contract tests ask of every adapter.                        *)
HonoursContract == Repository!Spec
=============================================================================
