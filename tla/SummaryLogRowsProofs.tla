------------------------ MODULE SummaryLogRowsProofs ------------------------
(***************************************************************************)
(* Theorems about SummaryLogRows: its documents are those of the           *)
(* repository's contract, the rows at the head of the ledger are those of  *)
(* the last submission, none of an earlier one's is missing there, the     *)
(* credit is what their readers find and what the check page foretold, and *)
(* the back-fill finds in the stored states what the live path flagged.    *)
(***************************************************************************)
EXTENDS SummaryLogRows, Induction

-----------------------------------------------------------------------------
(* Types.                                                                  *)

AccreditationsOf(t) == {c.accreditation : c \in ContextsOf(t)}
SitesOf(t)          == {c.sites : c \in ContextsOf(t)}

Weighed == {"gross", "tare", "pallet", "net", "tonnage", "interimTonnage"}

(* Every state a row can be stored with.                                   *)
RowStates(t) ==
  UNION {UNION {{ProjectSummaryLogRowState(t, r, data, a, sites) :
                   a \in AccreditationsOf(t), sites \in SitesOf(t)} :
                data \in Contents[t][r]} : r \in RowsOf(t)}

Documents == [state : RowStates(template), summaryLogIds : SUBSET Logs]

Jobs ==
  {NoJob}
    \cup [step : {"checkReports", "readContext"}, log : Logs, receives : Nat \ {0}]
    \cup [step : {"upsert", "flag", "finish"}, log : Logs, receives : Nat \ {0},
          accreditation : AccreditationsOf(template), sites : SitesOf(template),
          left : SUBSET RowsOf(template)]

FILED == {"validating", "classifying", "validated", "submitting", "submitted",
          "submission_failed"}

HasFile(l) == logs[l].status \in FILED

(* A log that has a file, and nothing but a status where it has none.      *)
IsFiled(log) ==
  /\ log = [f \in DOMAIN log |-> log[f]]
  /\ {"status", "upload", "baseline", "closed"} \subseteq DOMAIN log
  /\ log.upload \in Uploads(template)

LogsTyped ==
  /\ logs = [l \in Logs |-> logs[l]]
  /\ \A l \in Logs :
       /\ logs[l].status \in FILED \cup {"none", "invalid", "superseded"}
       /\ HasFile(l) => IsFiled(logs[l])
       /\ logs[l].status = "none" => logs[l] = NoLog

ContextTyped ==
  /\ template \in DOMAIN Contents
  /\ context \in ContextsOf(template)
  /\ contexts \in 0..MaxContexts
  /\ reports \subseteq {PeriodForDate(m, c) : m \in ReportMonths, c \in {MONTHLY, QUARTERLY}}

StoresTyped ==
  /\ submissions \in Seq(Logs)
  /\ ledger \in Seq([log : Logs, creditTotal : Int])
  /\ rowStates \in Seq(Documents)
  /\ job \in Jobs

(* A command worked is that of a log that submits, with rows of its file   *)
(* left to store.                                                          *)
Working ==
  job # NoJob =>
    /\ logs[job.log].status = "submitting"
    /\ job.step = "upsert" => job.left \subseteq DOMAIN logs[job.log].upload

(* A row's content is stored once.                                         *)
Distinct ==
  \A i, j \in DOMAIN rowStates : rowStates[i].state = rowStates[j].state => i = j

TypeInv == ContextTyped /\ LogsTyped /\ StoresTyped /\ Working /\ Distinct

-----------------------------------------------------------------------------
(* What holds besides where no more than a crash disturbs a submission.    *)

Crashing == Disturbances \subseteq {"crash"}

AloneSubmits == \A l \in Logs : logs[l].status = "submitting" => job # NoJob /\ job.log = l

SubmittedOnce ==
  /\ \A i \in DOMAIN submissions : logs[submissions[i]].status = "submitted"
  /\ \A i, j \in DOMAIN submissions : submissions[i] = submissions[j] => i = j

BaselineOf(l) == logs[l].baseline

(* A baseline is a submission made, that of the log worked the latest.     *)
Baselines ==
  /\ \A l \in Logs : HasFile(l) => BaselineOf(l) \in {NONE} \cup Range(submissions)
  /\ job # NoJob => BaselineOf(job.log) = LatestSubmitted

(* A command received again finds the reports and the context of before.   *)
SameContext ==
  /\ job # NoJob /\ job.step = "checkReports" /\ job.receives > 1 =>
       reports = logs[job.log].closed
  /\ job.step \in {"upsert", "flag", "finish"} =>
       job.accreditation = context.accreditation /\ job.sites = context.sites

FirstTry  == job.step \in {"checkReports", "readContext", "upsert"} /\ job.receives = 1
Untouched == FirstTry /\ job.step # "upsert"

(* Only what submits or has submitted is in the ledger or the documents,   *)
(* and not before the first execution writes.                              *)
OnlySubmitted ==
  /\ \A i \in DOMAIN ledger :
       /\ logs[ledger[i].log].status \in {"submitting", "submitted"}
       /\ FirstTry => ledger[i].log # job.log
  /\ \A i \in DOMAIN rowStates : \A l \in rowStates[i].summaryLogIds :
       /\ logs[l].status \in {"submitting", "submitted"}
       /\ Untouched => l # job.log

(* A document of a log is the projection of a row of its file, and of one  *)
(* row there is one; of the log worked, the projection for its context.    *)
Written ==
  \A i \in DOMAIN rowStates : \A l \in rowStates[i].summaryLogIds :
    LET s == rowStates[i].state
        upload == logs[l].upload
    IN /\ s.row \in DOMAIN upload
       /\ s.data = CoerceStoredTonnages(upload[s.row])
       /\ \A j \in DOMAIN rowStates :
            l \in rowStates[j].summaryLogIds /\ rowStates[j].state.row = s.row => j = i
       /\ job # NoJob /\ l = job.log =>
            s = ProjectSummaryLogRowState(template, s.row, upload[s.row],
                                          context.accreditation, context.sites)

Stored(l, r) ==
  \E i \in DOMAIN rowStates : l \in rowStates[i].summaryLogIds /\ rowStates[i].state.row = r

(* The rows that an execution is done with are stored, and all of those    *)
(* of a log that has an event.                                             *)
Complete ==
  /\ \A i \in DOMAIN ledger : \A r \in DOMAIN logs[ledger[i].log].upload : Stored(ledger[i].log, r)
  /\ job.step = "upsert" => \A r \in DOMAIN logs[job.log].upload \ job.left : Stored(job.log, r)
  /\ job.step \in {"flag", "finish"} => \A r \in DOMAIN logs[job.log].upload : Stored(job.log, r)

Recorded(l) == DOMAIN logs[l].upload # {} \/ logs[l].submittedUnder.accreditation = NONE

WillRecord == DOMAIN logs[job.log].upload # {} \/ context.accreditation = NONE

(* A log has an event unless it has no rows and is accredited.             *)
EventsRecorded ==
  /\ \A i \in DOMAIN ledger : job # NoJob /\ ledger[i].log = job.log => WillRecord
  /\ job.step \in {"flag", "finish"} /\ WillRecord =>
       ledger # <<>> /\ HeadLog(ledger) = job.log

HeadIsLatest ==
  LET recorded == {i \in DOMAIN submissions : Recorded(submissions[i])}
  IN IF ledger = <<>> THEN recorded = {}
     ELSE \/ logs[HeadLog(ledger)].status = "submitting"
          \/ \E i \in recorded :
               submissions[i] = HeadLog(ledger) /\ \A j \in recorded : j <= i

(* A log that can still be confirmed has the rows of the ledger's head.    *)
Continues ==
  \A l \in Logs :
    /\ logs[l].status \in {"classifying", "validated", "submitting"}
    /\ BaselineOf(l) = LatestSubmitted
    /\ ledger # <<>> /\ logs[HeadLog(ledger)].status # "submitting"
    => DOMAIN logs[HeadLog(ledger)].upload \subseteq DOMAIN logs[l].upload

(* What is said of the command worked, and what of the stores alone.       *)
OfCommand == SameContext /\ OnlySubmitted /\ Written /\ Complete /\ EventsRecorded
OfStores  == SubmittedOnce /\ HeadIsLatest /\ Continues /\ RowsNeverRemoved

RowInv == TypeInv /\ AloneSubmits /\ Baselines /\ OfCommand /\ OfStores

-----------------------------------------------------------------------------
(* What the steps do to the logs.                                          *)

SameFile(old, new) ==
  new.upload = old.upload /\ new.baseline = old.baseline /\ new.closed = old.closed

Kept == {"upload", "baseline", "closed"}

(* Fields laid over a log leave its file.                                  *)
LEMMA Overlaid ==
  ASSUME NEW log, IsFiled(log), NEW g, g = [f \in DOMAIN g |-> g[f]],
         "status" \in DOMAIN g, DOMAIN g \cap Kept = {}
  PROVE  /\ IsFiled(Update(log, g)) /\ SameFile(log, Update(log, g))
         /\ \A f \in DOMAIN g : Update(log, g)[f] = g[f]
  <1> DEFINE o == Update(log, g)
  <1>1. o = [f \in DOMAIN g \cup DOMAIN log |-> IF f \in DOMAIN g THEN g[f] ELSE log[f]]
    BY DEF Update
  <1>2. \A f \in DOMAIN g : o[f] = g[f]
    BY <1>1
  <1>3. SameFile(log, o)
    BY <1>1 DEF SameFile, Kept, IsFiled
  <1>4. IsFiled(o)
    <2>1. o = [f \in DOMAIN o |-> o[f]] /\ {"status", "upload", "baseline", "closed"} \subseteq DOMAIN o
      BY <1>1 DEF IsFiled, Kept
    <2> HIDE DEF o
    <2> QED
      BY <1>3, <2>1 DEF IsFiled, SameFile
  <1> QED
    BY <1>2, <1>3, <1>4

LEMMA Relabelled ==
  ASSUME NEW log, IsFiled(log), NEW status
  PROVE  LET o == [log EXCEPT !.status = status]
         IN IsFiled(o) /\ SameFile(log, o) /\ o.status = status
  BY DEF IsFiled, SameFile

(* One log moves from a status to another, with its file if it keeps one.  *)
Moves(l, from, to) ==
  /\ l \in Logs /\ logs[l].status = from
  /\ logs' = [k \in Logs |-> logs'[k]]
  /\ \A k \in Logs \ {l} : logs'[k] = logs[k]
  /\ logs'[l].status = to
  /\ to \in FILED => IsFiled(logs'[l]) /\ SameFile(logs[l], logs'[l])

LEMMA OneMoves ==
  ASSUME LogsTyped, NEW l \in Logs, NEW log, logs' = [logs EXCEPT ![l] = log],
         NEW from, logs[l].status = from, NEW to, log.status = to,
         to \in FILED => IsFiled(log) /\ SameFile(logs[l], log)
  PROVE  Moves(l, from, to) /\ logs'[l] = log
  BY DEF LogsTyped, Moves

LEMMA UploadMoves ==
  ASSUME TypeInv, NEW l \in Logs, Upload(l)
  PROVE  /\ logs[l].status = "none"
         /\ logs' = [k \in Logs |-> logs'[k]]
         /\ \A k \in Logs \ {l} : logs'[k] = logs[k]
         /\ logs'[l].status = "validating" /\ IsFiled(logs'[l])
         /\ logs'[l].baseline = LatestSubmitted
  <1>1. PICK upload \in Uploads(template) :
          logs' = [logs EXCEPT ![l] =
            [status |-> "validating", upload |-> upload, baseline |-> LatestSubmitted,
             closed |-> reports]]
    BY DEF Upload
  <1> DEFINE log == [status |-> "validating", upload |-> upload, baseline |-> LatestSubmitted,
                     closed |-> reports]
  <1>2. IsFiled(log)
    BY DEF IsFiled
  <1>3. logs[l].status = "none"
    BY DEF Upload, NoLog
  <1> QED
    BY <1>1, <1>2, <1>3 DEF TypeInv, LogsTyped

LEMMA ValidateMoves ==
  ASSUME TypeInv, NEW l \in Logs, Validate(l)
  PROVE  \/ Moves(l, "validating", "invalid")
         \/ Moves(l, "validating", "classifying") /\ RemovedRows(logs[l].upload) = {}
  <1> DEFINE upload == logs[l].upload
             outcome == [r \in DOMAIN upload |->
                           MarkIgnored(template, r.type, upload[r], context.accreditation)]
             fatal == RejectedRows(upload) # {} \/ RemovedRows(upload) # {}
             g == [status |-> "classifying", accreditation |-> context.accreditation,
                   outcome |-> outcome]
  <1>1. /\ logs[l].status = "validating"
        /\ logs' = [logs EXCEPT ![l] = IF fatal THEN [status |-> "invalid"] ELSE Update(logs[l], g)]
    BY DEF Validate
  <1>2. IsFiled(logs[l]) /\ LogsTyped
    BY <1>1 DEF TypeInv, LogsTyped, HasFile, FILED
  <1>3. CASE fatal
    <2>1. logs' = [logs EXCEPT ![l] = [status |-> "invalid"]]
      BY <1>1, <1>3
    <2>2. [status |-> "invalid"].status = "invalid" /\ "invalid" \notin FILED
      BY DEF FILED
    <2> QED
      BY <1>1, <1>2, <2>1, <2>2, OneMoves
  <1>4. CASE ~ fatal
    <2>1. /\ g = [f \in DOMAIN g |-> g[f]] /\ "status" \in DOMAIN g /\ DOMAIN g \cap Kept = {}
          /\ g.status = "classifying"
      BY DEF Kept
    <2>2. RemovedRows(upload) = {}
      BY <1>4
    <2>3. logs' = [logs EXCEPT ![l] = Update(logs[l], g)]
      BY <1>1, <1>4
    <2> HIDE DEF g, fatal
    <2>4. /\ IsFiled(Update(logs[l], g)) /\ SameFile(logs[l], Update(logs[l], g))
          /\ (Update(logs[l], g)).status = "classifying"
      BY <1>2, <2>1, Overlaid
    <2> QED
      BY <1>1, <1>2, <2>2, <2>3, <2>4, OneMoves
  <1> QED
    BY <1>3, <1>4

LEMMA ClassifyMoves ==
  ASSUME TypeInv, NEW l \in Logs, ClassifyAndPersist(l)
  PROVE  Moves(l, "classifying", "validated")
  <1> DEFINE preview == ClassifyByPeriodStatus(logs[l], ByKey(HeadDocuments), context.sites)
             g == [status |-> "validated", sites |-> context.sites, preview |-> preview]
  <1>1. logs[l].status = "classifying" /\ logs' = [logs EXCEPT ![l] = Update(logs[l], g)]
    BY DEF ClassifyAndPersist
  <1>2. IsFiled(logs[l]) /\ LogsTyped
    BY <1>1 DEF TypeInv, LogsTyped, HasFile, FILED
  <1> HIDE DEF preview
  <1>3. /\ g = [f \in DOMAIN g |-> g[f]] /\ "status" \in DOMAIN g /\ DOMAIN g \cap Kept = {}
        /\ g.status = "validated"
    BY DEF Kept
  <1> HIDE DEF g
  <1>4. /\ IsFiled(Update(logs[l], g)) /\ SameFile(logs[l], Update(logs[l], g))
        /\ (Update(logs[l], g)).status = "validated"
    BY <1>2, <1>3, Overlaid
  <1> QED
    BY <1>1, <1>2, <1>4, OneMoves

LEMMA ConfirmMoves ==
  ASSUME TypeInv, NEW l \in Logs, Confirm(l)
  PROVE  /\ job = NoJob
         /\ \/ /\ Moves(l, "validated", "submitting") /\ logs[l].baseline = LatestSubmitted
               /\ job' = [step |-> "checkReports", log |-> l, receives |-> 1]
            \/ Moves(l, "validated", "superseded") /\ job' = job
  <1>1. logs[l].status = "validated" /\ job = NoJob
    BY DEF Confirm
  <1>2. IsFiled(logs[l]) /\ LogsTyped
    BY <1>1 DEF TypeInv, LogsTyped, HasFile, FILED
  <1>3. CASE BaselineFresh(l)
    <2>1. logs' = [logs EXCEPT ![l] = [logs[l] EXCEPT !.status = "submitting"]]
      BY <1>3 DEF Confirm
    <2>2. LET o == [logs[l] EXCEPT !.status = "submitting"]
          IN IsFiled(o) /\ SameFile(logs[l], o) /\ o.status = "submitting"
      BY <1>2, Relabelled
    <2>3. Moves(l, "validated", "submitting")
      BY <1>1, <1>2, <2>1, <2>2, OneMoves
    <2> QED
      BY <1>1, <1>3, <2>3 DEF Confirm, BaselineFresh
  <1>4. CASE ~ BaselineFresh(l)
    <2>1. logs' = [logs EXCEPT ![l] = [status |-> "superseded"]] /\ job' = job
      BY <1>4 DEF Confirm
    <2>2. [status |-> "superseded"].status = "superseded" /\ "superseded" \notin FILED
      BY DEF FILED
    <2> QED
      BY <1>1, <1>2, <2>1, <2>2, OneMoves
  <1> QED
    BY <1>3, <1>4

LEMMA CheckReportsMoves ==
  ASSUME TypeInv, CheckReports
  PROVE  /\ job # NoJob /\ job.step = "checkReports" /\ job.log \in Logs
         /\ \/ /\ logs' = logs /\ reports = logs[job.log].closed
               /\ job' = [step |-> "readContext", log |-> job.log, receives |-> job.receives]
            \/ /\ Moves(job.log, "submitting", "submission_failed") /\ job' = NoJob
               /\ reports # logs[job.log].closed
  <1>1. job.step = "checkReports" /\ job # NoJob
    BY DEF CheckReports, AtStep, NoJob
  <1>2. job \in [step : {"checkReports", "readContext"}, log : Logs, receives : Nat \ {0}]
    BY <1>1 DEF TypeInv, StoresTyped, Jobs
  <1>3. logs[job.log].status = "submitting"
    BY <1>1 DEF TypeInv, Working
  <1>4. IsFiled(logs[job.log]) /\ LogsTyped
    BY <1>2, <1>3 DEF TypeInv, LogsTyped, HasFile, FILED
  <1>5. CASE reports = logs[job.log].closed
    BY <1>1, <1>2, <1>5 DEF CheckReports
  <1>6. CASE reports # logs[job.log].closed
    <2>1. logs' = [logs EXCEPT ![job.log] = [logs[job.log] EXCEPT !.status = "submission_failed"]]
          /\ job' = NoJob
      BY <1>6 DEF CheckReports
    <2>2. LET o == [logs[job.log] EXCEPT !.status = "submission_failed"]
          IN IsFiled(o) /\ SameFile(logs[job.log], o) /\ o.status = "submission_failed"
      BY <1>4, Relabelled
    <2>3. Moves(job.log, "submitting", "submission_failed")
      <3>1. PICK l \in Logs : l = job.log
        BY <1>2
      <3>2. PICK o : o = [logs[l] EXCEPT !.status = "submission_failed"]
        OBVIOUS
      <3>3. /\ logs' = [logs EXCEPT ![l] = o] /\ logs[l].status = "submitting"
            /\ o.status = "submission_failed" /\ IsFiled(o) /\ SameFile(logs[l], o)
        BY <1>3, <2>1, <2>2, <3>1, <3>2
      <3>4. Moves(l, "submitting", "submission_failed")
        BY <1>4, <3>3, OneMoves
      <3> QED
        BY <3>1, <3>4
    <2> QED
      BY <1>1, <1>2, <1>6, <2>1, <2>3
  <1> QED
    BY <1>5, <1>6

LEMMA FinishMoves ==
  ASSUME TypeInv, Finish
  PROVE  /\ job # NoJob /\ job.step = "finish" /\ job.log \in Logs
         /\ Moves(job.log, "submitting", "submitted")
         /\ logs'[job.log].submittedUnder.accreditation = job.accreditation
         /\ logs'[job.log].submittedUnder.sites = job.sites
  <1> DEFINE g == [status |-> "submitted",
                   submittedUnder |-> [accreditation |-> job.accreditation, sites |-> job.sites]]
  <1>1. job.step = "finish" /\ job # NoJob
    BY DEF Finish, AtStep, NoJob
  <1>2. job.log \in Logs
    BY <1>1 DEF TypeInv, StoresTyped, Jobs
  <1>3. logs[job.log].status = "submitting"
    BY <1>1 DEF TypeInv, Working
  <1>4. IsFiled(logs[job.log]) /\ LogsTyped
    BY <1>2, <1>3 DEF TypeInv, LogsTyped, HasFile, FILED
  <1>5. logs' = [logs EXCEPT ![job.log] = Update(logs[job.log], g)]
    BY DEF Finish
  <1>6. /\ g = [f \in DOMAIN g |-> g[f]] /\ {"status", "submittedUnder"} \subseteq DOMAIN g
        /\ DOMAIN g \cap Kept = {}
        /\ g.status = "submitted" /\ g.submittedUnder.accreditation = job.accreditation
        /\ g.submittedUnder.sites = job.sites
    BY DEF Kept
  <1> HIDE DEF g
  <1>7. /\ IsFiled(Update(logs[job.log], g)) /\ SameFile(logs[job.log], Update(logs[job.log], g))
        /\ (Update(logs[job.log], g)).status = "submitted"
        /\ (Update(logs[job.log], g)).submittedUnder = g.submittedUnder
    BY <1>4, <1>6, Overlaid
  <1> QED
    BY <1>1, <1>2, <1>3, <1>4, <1>5, <1>6, <1>7, OneMoves

-----------------------------------------------------------------------------
(* What a step does to the documents.                                      *)

(* One document, there or not, gains a log.                                *)
Upserted(s, l, k) ==
  /\ k \in DOMAIN rowStates' /\ DOMAIN rowStates' = DOMAIN rowStates \cup {k}
  /\ \A i \in DOMAIN rowStates \ {k} : rowStates'[i] = rowStates[i]
  /\ rowStates'[k].state = s
  /\ rowStates'[k].summaryLogIds =
       (IF k \in DOMAIN rowStates THEN rowStates[k].summaryLogIds ELSE {}) \cup {l}
  /\ IF k \in DOMAIN rowStates THEN rowStates[k].state = s
     ELSE \A i \in DOMAIN rowStates : rowStates[i].state # s

LEMMA Upserting ==
  ASSUME TypeInv, template' = template, NEW s \in RowStates(template), NEW l \in Logs,
         UpsertState(s, l)
  PROVE  (\E k \in DOMAIN rowStates' : Upserted(s, l, k)) /\ rowStates' \in Seq(Documents')
  <1> DEFINE found == {i \in DOMAIN rowStates : rowStates[i].state = s}
             new == [state |-> s, summaryLogIds |-> {l}]
  <1>1. rowStates \in Seq(Documents) /\ Documents' = Documents /\ new \in Documents
    BY DEF TypeInv, StoresTyped, Documents
  <1>2. CASE found = {}
    <2>1. rowStates' = Append(rowStates, new)
      BY <1>2 DEF UpsertState
    <2> DEFINE k == Len(rowStates) + 1
    <2>2. /\ Len(rowStates) \in Nat /\ DOMAIN rowStates = 1..Len(rowStates)
          /\ DOMAIN rowStates' = 1..k /\ rowStates'[k] = new
          /\ \A i \in DOMAIN rowStates : rowStates'[i] = rowStates[i]
      BY <1>1, <2>1
    <2>3. Upserted(s, l, k)
      BY <1>2, <2>2 DEF Upserted
    <2> QED
      BY <1>1, <2>1, <2>2, <2>3
  <1>3. CASE found # {}
    <2>1. PICK k \in DOMAIN rowStates : rowStates[k].state = s
      BY <1>3
    <2>2. found = {k}
      BY <2>1 DEF TypeInv, Distinct
    <2>3. Max(found) = k
      <3>1. k \in Nat
        BY <1>1, <2>1
      <3> QED
        BY <2>2, <3>1 DEF Max
    <2>4. rowStates' = [rowStates EXCEPT ![k] = [rowStates[k] EXCEPT
                          !.summaryLogIds = rowStates[k].summaryLogIds \cup {l}]]
      <3>1. PICK m : m = Max(found)
        OBVIOUS
      <3>2. rowStates' = [rowStates EXCEPT ![m].summaryLogIds = @ \cup {l}]
        BY <1>3, <3>1 DEF UpsertState
      <3>3. m = k
        BY <2>3, <3>1
      <3> QED
        BY <3>2, <3>3
    <2>5. rowStates[k] \in Documents
      BY <1>1, <2>1
    <2> DEFINE d == [rowStates[k] EXCEPT !.summaryLogIds = rowStates[k].summaryLogIds \cup {l}]
    <2>6. d \in Documents /\ d.state = s /\ d.summaryLogIds = rowStates[k].summaryLogIds \cup {l}
      BY <2>1, <2>5 DEF Documents
    <2> HIDE DEF d
    <2>7. /\ DOMAIN rowStates' = DOMAIN rowStates /\ rowStates'[k] = d
          /\ \A i \in DOMAIN rowStates \ {k} : rowStates'[i] = rowStates[i]
      BY <1>1, <2>1, <2>4 DEF d
    <2>8. rowStates' \in Seq(Documents)
      BY <1>1, <2>4, <2>6, <2>7 DEF d
    <2>9. Upserted(s, l, k)
      BY <2>1, <2>6, <2>7 DEF Upserted
    <2> QED
      BY <1>1, <2>1, <2>7, <2>8, <2>9
  <1> QED
    BY <1>2, <1>3

(* The row being upserted, and the state it is stored with.                *)
LEMMA UpsertRowUpserts ==
  ASSUME TypeInv, UpsertRow
  PROVE  /\ job # NoJob /\ job.step = "upsert" /\ job.log \in Logs
         /\ rowStates' \in Seq(Documents')
         /\ \E r \in job.left : \E k \in DOMAIN rowStates' :
              /\ r \in DOMAIN logs[job.log].upload
              /\ Upserted(ProjectSummaryLogRowState(template, r, logs[job.log].upload[r],
                                                    job.accreditation, job.sites), job.log, k)
              /\ job' = [job EXCEPT !.left = @ \ {r}]
  <1>1. job # NoJob /\ job.step = "upsert"
    BY DEF UpsertRow, AtStep, NoJob
  <1>2. /\ job.log \in Logs /\ job.left \subseteq DOMAIN logs[job.log].upload
        /\ job.accreditation \in AccreditationsOf(template) /\ job.sites \in SitesOf(template)
    BY <1>1 DEF TypeInv, StoresTyped, Jobs, Working
  <1>3. PICK r \in job.left :
          /\ UpsertState(ProjectSummaryLogRowState(template, r, logs[job.log].upload[r],
                                                   job.accreditation, job.sites), job.log)
          /\ job' = [job EXCEPT !.left = @ \ {r}]
    BY DEF UpsertRow
  <1>4. PICK s : s = ProjectSummaryLogRowState(template, r, logs[job.log].upload[r],
                                               job.accreditation, job.sites)
    OBVIOUS
  <1>5. s \in RowStates(template)
    <2>1. logs[job.log].upload \in Uploads(template)
      BY <1>1, <1>2 DEF TypeInv, Working, LogsTyped, HasFile, FILED, IsFiled
    <2>2. r \in RowsOf(template) /\ logs[job.log].upload[r] \in Contents[template][r]
      BY <1>2, <1>3, <2>1 DEF Uploads
    <2> QED
      BY <1>2, <1>4, <2>2 DEF RowStates
  <1>6. UpsertState(s, job.log) /\ template' = template
    BY <1>3, <1>4 DEF UpsertRow
  <1>7. PICK l \in Logs : l = job.log
    BY <1>2
  <1>8. (\E k \in DOMAIN rowStates' : Upserted(s, l, k)) /\ rowStates' \in Seq(Documents')
    BY <1>5, <1>6, <1>7, Upserting
  <1> QED
    BY <1>1, <1>2, <1>3, <1>4, <1>7, <1>8

-----------------------------------------------------------------------------
(* Type correctness.                                                       *)

(* The amount a row is credited with is a whole number.                    *)
LEMMA TargetTyped ==
  ASSUME NEW data, IsRowData(data), NEW r, NEW a, NEW sites
  PROVE  GetTargetAmount(ClassifyWasteRecord(r, data, a, sites)) \in Int
  <1> DEFINE type == r.type
  <1>1. CreditedColumn(type, data) \in Int \cup {NONE}
    BY DEF CreditedColumn, IsRowData
  <1>2. TransactionAmount(type, data) \in Int
    BY <1>1, RowAssumption DEF TransactionAmount, RoundToTwoDecimalPlaces
  <1>3. GetTargetAmount(Included(TransactionAmount(type, data))) \in Int
    BY <1>2 DEF GetTargetAmount, Included
  <1>4. \A outcome, reasons : GetTargetAmount(Without(outcome, reasons)) = 0
    BY DEF GetTargetAmount, Without
  <1> QED
    BY <1>3, <1>4 DEF ClassifyWasteRecord, ClassifyRecordForWasteBalance, ClassifyForWasteBalance

Targets(upload, a, sites) ==
  [r \in DOMAIN upload |-> GetTargetAmount(ClassifyWasteRecord(r, upload[r], a, sites))]

(* The recursive function of CreditTotal is that of a sum.                 *)
LEMMA CreditIsSum ==
  ASSUME NEW upload, IsFiniteSet(DOMAIN upload), NEW a, NEW sites
  PROVE  CreditTotal(upload, a, sites) = SumOf(Targets(upload, a, sites), DOMAIN upload)
  <1> DEFINE D == DOMAIN upload
             f == Targets(upload, a, sites)
             Target(r) == GetTargetAmount(ClassifyWasteRecord(r, upload[r], a, sites))
             Iter(g) == g = [s \in SUBSET D |->
                               IF s = {} THEN 0
                               ELSE Target(CHOOSE x \in s : TRUE)
                                    + g[s \ {CHOOSE x \in s : TRUE}]]
             h == CHOOSE g : Iter(g)
  <1>1. CreditTotal(upload, a, sites) = h[D]
    BY DEF CreditTotal, MapThenSumSet, MapThenFoldSet
  <1>2. ASSUME NEW g PROVE IsSum(g, f, D) <=> Iter(g)
    <2>1. ASSUME NEW s \in SUBSET D, s # {}
          PROVE  f[Chosen(s)] = Target(CHOOSE x \in s : TRUE)
      <3>1. Chosen(s) \in s
        BY <2>1, ChosenIsMember
      <3> QED
        BY <3>1 DEF Targets, Chosen
    <2> HIDE DEF Target
    <2>2. \A s \in SUBSET D :
            SumStep(g, f, s) = IF s = {} THEN 0
                               ELSE Target(CHOOSE x \in s : TRUE)
                                    + g[s \ {CHOOSE x \in s : TRUE}]
      BY <2>1 DEF SumStep, Chosen
    <2> QED
      BY <2>2 DEF IsSum
  <1> HIDE DEF Iter
  <1>3. h = CHOOSE g : IsSum(g, f, D)
    BY <1>2
  <1> QED
    BY <1>1, <1>3 DEF SumOf

LEMMA CreditTyped ==
  ASSUME TypeInv, NEW upload \in Uploads(template), NEW a, NEW sites
  PROVE  CreditTotal(upload, a, sites) \in Int
  <1>1. /\ IsFiniteSet(DOMAIN upload)
        /\ \A r \in DOMAIN upload : IsRowData(upload[r])
    <2>1. /\ template \in DOMAIN Contents /\ DOMAIN upload \subseteq RowsOf(template)
          /\ \A r \in DOMAIN upload : upload[r] \in Contents[template][r]
      BY DEF TypeInv, ContextTyped, Uploads
    <2> QED
      BY <2>1, RowAssumption, FS_Subset
  <1>2. \A r \in DOMAIN upload : Targets(upload, a, sites)[r] \in Int
    BY <1>1, TargetTyped DEF Targets
  <1>3. PICK f : f = Targets(upload, a, sites)
    OBVIOUS
  <1>4. SumOf(f, DOMAIN upload) \in Int
    BY <1>1, <1>2, <1>3, SumTyped
  <1> QED
    BY <1>1, <1>3, <1>4, CreditIsSum

LEMMA InitTyped ==
  ASSUME Init PROVE TypeInv
  <1>1. ContextTyped
    BY RowAssumption DEF Init, ContextTyped
  <1>2. LogsTyped /\ Working /\ Distinct
    BY DEF Init, LogsTyped, Working, Distinct, NoLog, HasFile, FILED
  <1>3. StoresTyped
    BY DEF Init, StoresTyped, Jobs
  <1> QED
    BY <1>1, <1>2, <1>3 DEF TypeInv

(* Steps that leave all but the logs and the command alone.                *)
LogsAndJobOnly ==
  UNCHANGED <<template, context, contexts, reports, submissions, ledger, rowStates, flagged>>

LEMMA MovesTyped ==
  ASSUME TypeInv, NEW l, NEW from, NEW to \in (FILED \cup {"invalid", "superseded"}),
         Moves(l, from, to), template' = template
  PROVE  LogsTyped'
  <1>1. Uploads(template)' = Uploads(template)
    BY DEF Uploads, RowsOf
  <1> QED
    BY <1>1 DEF TypeInv, LogsTyped, Moves, HasFile, IsFiled, FILED

(* The command's log is none that is not submitting.                       *)
LEMMA WorkingKept ==
  ASSUME TypeInv, NEW l, logs[l].status # "submitting", job' = job,
         \A k \in Logs \ {l} : logs'[k] = logs[k]
  PROVE  Working'
  <1> SUFFICES ASSUME job # NoJob
               PROVE  /\ logs'[job.log].status = "submitting"
                      /\ job.step = "upsert" => job.left \subseteq DOMAIN logs'[job.log].upload
    BY DEF Working
  <1>1. job.log \in Logs /\ logs[job.log].status = "submitting"
    BY DEF TypeInv, StoresTyped, Jobs, Working
  <1> QED
    BY <1>1 DEF TypeInv, Working

LEMMA StoresKept ==
  ASSUME TypeInv, UNCHANGED <<template, submissions, ledger, rowStates>>, job' \in Jobs'
  PROVE  StoresTyped' /\ Distinct'
  BY DEF TypeInv, StoresTyped, Distinct, Documents

LEMMA LogStepTyped ==
  ASSUME TypeInv, NEW l \in Logs, Upload(l) \/ Validate(l) \/ ClassifyAndPersist(l) \/ Confirm(l)
  PROVE  TypeInv'
  <1>1. LogsAndJobOnly
    BY DEF Upload, Validate, ClassifyAndPersist, Confirm, LogsAndJobOnly
  <1>2. ContextTyped' /\ Jobs' = Jobs
    BY <1>1 DEF LogsAndJobOnly, TypeInv, ContextTyped, Jobs
  <1>3. CASE Upload(l)
    <2>1. /\ logs[l].status = "none"
          /\ logs' = [k \in Logs |-> logs'[k]]
          /\ \A k \in Logs \ {l} : logs'[k] = logs[k]
          /\ logs'[l].status = "validating" /\ IsFiled(logs'[l])
      BY <1>3, UploadMoves
    <2>2. LogsTyped'
      <3>1. Uploads(template)' = Uploads(template)
        BY <1>1 DEF LogsAndJobOnly, Uploads, RowsOf
      <3> QED
        BY <2>1, <3>1 DEF TypeInv, LogsTyped, HasFile, IsFiled, FILED
    <2>3. job' = job
      BY <1>3 DEF Upload
    <2>4. Working'
      BY <2>1, <2>3, WorkingKept
    <2> QED
      BY <1>1, <1>2, <2>2, <2>3, <2>4, StoresKept DEF TypeInv, StoresTyped, LogsAndJobOnly
  <1>4. CASE Validate(l) \/ ClassifyAndPersist(l)
    <2>1. PICK from \in {"validating", "classifying"}, to \in {"classifying", "invalid", "validated"} :
            Moves(l, from, to)
      <3>1. CASE Validate(l)
        BY <3>1, ValidateMoves
      <3>2. CASE ClassifyAndPersist(l)
        BY <3>2, ClassifyMoves
      <3> QED
        BY <1>4, <3>1, <3>2
    <2>2. LogsTyped'
      BY <1>1, <2>1, MovesTyped DEF LogsAndJobOnly, FILED
    <2>3. job' = job
      BY <1>4 DEF Validate, ClassifyAndPersist
    <2>4. Working'
      BY <2>1, <2>3, WorkingKept DEF Moves
    <2> QED
      BY <1>1, <1>2, <2>2, <2>3, <2>4, StoresKept DEF TypeInv, StoresTyped, LogsAndJobOnly
  <1>5. CASE Confirm(l)
    <2>1. PICK to \in {"submitting", "superseded"} :
            /\ Moves(l, "validated", to)
            /\ \/ to = "submitting" /\ job' = [step |-> "checkReports", log |-> l, receives |-> 1]
               \/ to = "superseded" /\ job' = job
      BY <1>5, ConfirmMoves
    <2>2. LogsTyped'
      BY <1>1, <2>1, MovesTyped DEF LogsAndJobOnly, FILED
    <2>3. job' \in Jobs'
      BY <1>2, <2>1 DEF TypeInv, StoresTyped, Jobs
    <2>4. Working'
      <3>1. CASE to = "submitting"
        BY <2>1, <3>1 DEF Moves, Working
      <3>2. CASE to = "superseded"
        BY <2>1, <3>2, WorkingKept DEF Moves
      <3> QED
        BY <3>1, <3>2
    <2> QED
      BY <1>1, <1>2, <2>2, <2>3, <2>4, StoresKept DEF TypeInv, LogsAndJobOnly
  <1> QED
    BY <1>3, <1>4, <1>5

(* The command: its log has a file, of the template.                       *)
LEMMA CommandTyped ==
  ASSUME TypeInv, job # NoJob
  PROVE  /\ job.log \in Logs /\ logs[job.log].status = "submitting"
         /\ job.receives \in Nat \ {0}
         /\ IsFiled(logs[job.log]) /\ logs[job.log].upload \in Uploads(template)
         /\ DOMAIN logs[job.log].upload \subseteq RowsOf(template)
  <1>1. /\ job.log \in Logs /\ logs[job.log].status = "submitting"
        /\ job.receives \in Nat \ {0}
    BY DEF TypeInv, StoresTyped, Jobs, Working
  <1>2. IsFiled(logs[job.log])
    BY <1>1 DEF TypeInv, LogsTyped, HasFile, FILED
  <1> QED
    BY <1>1, <1>2 DEF IsFiled, Uploads

LEMMA JobStepTyped ==
  ASSUME TypeInv, CheckReports \/ ReadContext \/ CommitLedger \/ Flag \/ Finish \/ Crash
  PROVE  TypeInv'
  <1>1. UNCHANGED <<template, context, contexts, reports, rowStates>>
    BY DEF CheckReports, ReadContext, CommitLedger, Flag, Finish, Crash
  <1>2. ContextTyped' /\ Jobs' = Jobs /\ Distinct' /\ Documents' = Documents
    BY <1>1 DEF TypeInv, ContextTyped, Jobs, Distinct, Documents
  <1>3. job # NoJob /\ job \in Jobs /\ Working
    BY DEF TypeInv, StoresTyped, CheckReports, ReadContext, CommitLedger, Flag, Finish, Crash,
           AtStep, NoJob
  <1>4. /\ job.log \in Logs /\ logs[job.log].status = "submitting"
        /\ job.receives \in Nat \ {0}
        /\ IsFiled(logs[job.log]) /\ logs[job.log].upload \in Uploads(template)
        /\ DOMAIN logs[job.log].upload \subseteq RowsOf(template)
    BY <1>3, CommandTyped
  <1>5. CASE CheckReports
    <2>1. PICK l \in Logs :
            \/ /\ logs' = logs /\ job.step = "checkReports"
               /\ job' = [step |-> "readContext", log |-> job.log, receives |-> job.receives]
            \/ Moves(l, "submitting", "submission_failed") /\ job' = NoJob
      BY <1>5, CheckReportsMoves
    <2>2. LogsTyped' /\ Working' /\ job' \in Jobs'
      <3>1. CASE /\ logs' = logs /\ job.step = "checkReports"
                 /\ job' = [step |-> "readContext", log |-> job.log, receives |-> job.receives]
        <4>1. Uploads(template)' = Uploads(template)
          BY <1>1 DEF Uploads, RowsOf
        <4>2. LogsTyped'
          BY <3>1, <4>1 DEF TypeInv, LogsTyped, HasFile, IsFiled
        <4> QED
          BY <1>2, <1>4, <3>1, <4>2 DEF Working, Jobs
      <3>2. CASE Moves(l, "submitting", "submission_failed") /\ job' = NoJob
        <4>1. LogsTyped'
          BY <1>1, <3>2, MovesTyped DEF FILED
        <4> QED
          BY <1>2, <3>2, <4>1 DEF Working, Jobs
      <3> QED
        BY <2>1, <3>1, <3>2
    <2>3. UNCHANGED <<submissions, ledger>>
      BY <1>5 DEF CheckReports
    <2> QED
      BY <1>1, <1>2, <2>2, <2>3, StoresKept DEF TypeInv
  <1>6. CASE Finish
    <2>1. Moves(job.log, "submitting", "submitted") /\ job' = NoJob
      BY <1>6, FinishMoves DEF Finish
    <2>2. LogsTyped'
      BY <1>1, <2>1, MovesTyped DEF FILED
    <2>3. StoresTyped'
      BY <1>1, <1>2, <1>4, <1>6 DEF Finish, TypeInv, StoresTyped, Jobs
    <2> QED
      BY <1>2, <2>1, <2>2, <2>3 DEF TypeInv, Working
  <1>7. CASE ReadContext \/ CommitLedger \/ Flag \/ Crash
    <2>1. logs' = logs /\ submissions' = submissions
      BY <1>7 DEF ReadContext, CommitLedger, Flag, Crash
    <2>2. LogsTyped'
      <3>1. Uploads(template)' = Uploads(template)
        BY <1>1 DEF Uploads, RowsOf
      <3> QED
        BY <2>1, <3>1 DEF TypeInv, LogsTyped, HasFile, IsFiled
    <2>3. job' \in Jobs /\ Working'
      <3>1. CASE ReadContext
        <4>1. context.accreditation \in AccreditationsOf(template) /\ context.sites \in SitesOf(template)
          BY DEF TypeInv, ContextTyped, AccreditationsOf, SitesOf
        <4> QED
          BY <1>4, <2>1, <3>1, <4>1 DEF ReadContext, Jobs, Working
      <3>2. CASE CommitLedger
        <4>1. job.step = "upsert" /\ job' = [job EXCEPT !.step = "flag"]
          BY <3>2 DEF CommitLedger, AtStep
        <4> QED
          BY <1>3, <1>4, <2>1, <4>1 DEF Jobs, Working
      <3>3. CASE Flag
        <4>1. job.step = "flag" /\ job' = [job EXCEPT !.step = "finish"]
          BY <3>3 DEF Flag, AtStep
        <4> QED
          BY <1>3, <1>4, <2>1, <4>1 DEF Jobs, Working
      <3>4. CASE Crash
        BY <1>4, <2>1, <3>4 DEF Crash, Jobs, Working
      <3> QED
        BY <1>7, <3>1, <3>2, <3>3, <3>4
    <2>4. ledger' \in Seq([log : Logs, creditTotal : Int])
      <3>1. CASE CommitLedger
        <4>1. PICK total : total = IF job.accreditation = NONE THEN 0
                                   ELSE CreditTotal(logs[job.log].upload, job.accreditation, job.sites)
          OBVIOUS
        <4>2. total \in Int
          <5>1. PICK upload \in Uploads(template) : upload = logs[job.log].upload
            BY <1>4
          <5> QED
            BY <4>1, <5>1, CreditTyped
        <4>3. PICK e : e = [log |-> job.log, creditTotal |-> total]
          OBVIOUS
        <4>4. e \in [log : Logs, creditTotal : Int]
          BY <1>4, <4>2, <4>3
        <4>5. ledger' = ledger \/ ledger' = Append(ledger, e)
          BY <3>1, <4>1, <4>3 DEF CommitLedger
        <4>6. PICK E : E = [log : Logs, creditTotal : Int]
          OBVIOUS
        <4>7. ledger \in Seq(E) /\ e \in E
          BY <4>4, <4>6 DEF TypeInv, StoresTyped
        <4>8. ledger' \in Seq(E)
          BY <4>5, <4>7
        <4> QED
          BY <4>6, <4>8
      <3>2. CASE ~ CommitLedger
        BY <1>7, <3>2 DEF ReadContext, Flag, Crash, TypeInv, StoresTyped
      <3> QED
        BY <3>1, <3>2
    <2> QED
      BY <1>1, <1>2, <2>1, <2>2, <2>3, <2>4 DEF TypeInv, StoresTyped
  <1> QED
    BY <1>5, <1>6, <1>7

LEMMA UpsertRowTyped ==
  ASSUME TypeInv, UpsertRow
  PROVE  TypeInv'
  <1>1. UNCHANGED <<template, context, contexts, reports, logs, submissions, ledger>>
    BY DEF UpsertRow
  <1>2. /\ job # NoJob /\ job.step = "upsert" /\ job.log \in Logs
        /\ rowStates' \in Seq(Documents')
        /\ \E r \in job.left : job' = [job EXCEPT !.left = @ \ {r}]
        /\ \E k \in DOMAIN rowStates' : \E s : Upserted(s, job.log, k)
    BY UpsertRowUpserts
  <1>3. ContextTyped'
    BY <1>1 DEF TypeInv, ContextTyped
  <1>4. LogsTyped'
    <2>1. Uploads(template)' = Uploads(template)
      BY <1>1 DEF Uploads, RowsOf
    <2> QED
      BY <1>1, <2>1 DEF TypeInv, LogsTyped, HasFile, IsFiled
  <1>5. job' \in Jobs /\ Working'
    <2>1. PICK r \in job.left : job' = [job EXCEPT !.left = @ \ {r}]
      BY <1>2
    <2>2. job \in [step : {"upsert", "flag", "finish"}, log : Logs, receives : Nat \ {0},
                   accreditation : AccreditationsOf(template), sites : SitesOf(template),
                   left : SUBSET RowsOf(template)]
      BY <1>2 DEF TypeInv, StoresTyped, Jobs
    <2>3. /\ job' \in [step : {"upsert", "flag", "finish"}, log : Logs, receives : Nat \ {0},
                        accreditation : AccreditationsOf(template), sites : SitesOf(template),
                        left : SUBSET RowsOf(template)]
          /\ job'.log = job.log /\ job'.left \subseteq job.left
      BY <2>1, <2>2
    <2> QED
      BY <1>1, <1>2, <2>3 DEF Jobs, Working, TypeInv
  <1>6. StoresTyped'
    BY <1>1, <1>2, <1>5 DEF TypeInv, StoresTyped, Jobs
  <1>7. Distinct'
    BY <1>2 DEF TypeInv, Distinct, Upserted
  <1> QED
    BY <1>3, <1>4, <1>5, <1>6, <1>7 DEF TypeInv

LEMMA AllButContextKept ==
  ASSUME TypeInv, UNCHANGED <<template, logs, submissions, ledger, rowStates, job>>
  PROVE  LogsTyped' /\ StoresTyped' /\ Working' /\ Distinct'
  <1>1. Uploads(template)' = Uploads(template)
    BY DEF Uploads, RowsOf
  <1>2. LogsTyped'
    BY <1>1 DEF TypeInv, LogsTyped, HasFile, IsFiled
  <1>3. job' \in Jobs'
    BY DEF TypeInv, StoresTyped, Jobs
  <1>4. Working'
    BY DEF TypeInv, Working
  <1> QED
    BY <1>2, <1>3, <1>4, StoresKept

LEMMA EnvironmentTyped ==
  ASSUME TypeInv, SubmitReport \/ ChangeContext
  PROVE  TypeInv'
  <1>1. UNCHANGED <<template, logs, submissions, ledger, rowStates, job>>
    BY DEF SubmitReport, ChangeContext
  <1>2. ContextTyped'
    <2>1. CASE SubmitReport
      BY <1>1, <2>1 DEF SubmitReport, TypeInv, ContextTyped, Cadence
    <2>2. CASE ChangeContext
      BY <1>1, <2>2, RowAssumption DEF ChangeContext, TypeInv, ContextTyped
    <2> QED
      BY <2>1, <2>2
  <1> QED
    BY <1>1, <1>2, AllButContextKept DEF TypeInv

LEMMA StutterTyped ==
  ASSUME TypeInv, UNCHANGED vars
  PROVE  TypeInv'
  <1>1. ContextTyped'
    BY DEF vars, TypeInv, ContextTyped
  <1> QED
    BY <1>1, AllButContextKept DEF TypeInv, vars

LEMMA StepTyped ==
  ASSUME TypeInv, [Next]_vars
  PROVE  TypeInv'
  BY LogStepTyped, JobStepTyped, UpsertRowTyped, EnvironmentTyped, StutterTyped DEF Next

LEMMA AlwaysTyped == Spec => []TypeInv
  BY InitTyped, StepTyped, PTL DEF Spec

-----------------------------------------------------------------------------
(* The contract of the repository.                                         *)

Members ==
  [s \in States(DOMAIN rowStates) |->
     UNION {rowStates[i].summaryLogIds : i \in {k \in DOMAIN rowStates : rowStates[k].state = s}}]

LEMMA MembersOf ==
  Distinct =>
    \A i \in DOMAIN rowStates : Members[rowStates[i].state] = rowStates[i].summaryLogIds
  <1> SUFFICES ASSUME Distinct, NEW i \in DOMAIN rowStates
               PROVE  Members[rowStates[i].state] = rowStates[i].summaryLogIds
    OBVIOUS
  <1>1. {k \in DOMAIN rowStates : rowStates[k].state = rowStates[i].state} = {i}
    BY DEF Distinct
  <1>2. rowStates[i].state \in States(DOMAIN rowStates)
    BY DEF States
  <1> QED
    BY <1>1, <1>2 DEF Members

(* An upsert is one of the contract.                                       *)
LEMMA UpsertHonours ==
  ASSUME TypeInv, TypeInv', NEW s, NEW l \in Logs, NEW k \in DOMAIN rowStates', Upserted(s, l, k)
  PROVE  /\ s \in DOMAIN Members' /\ DOMAIN Members' = DOMAIN Members \cup {s}
         /\ Members'[s] = (IF s \in DOMAIN Members THEN Members[s] ELSE {}) \cup {l}
         /\ \A t \in DOMAIN Members \ {s} : Members'[t] = Members[t]
  <1>1. /\ DOMAIN Members = States(DOMAIN rowStates)
        /\ DOMAIN Members' = {rowStates'[i].state : i \in DOMAIN rowStates'}
    BY DEF Members, States
  <1>2. \A i \in DOMAIN rowStates : Members[rowStates[i].state] = rowStates[i].summaryLogIds
    BY MembersOf DEF TypeInv
  <1>3. \A i \in DOMAIN rowStates' : Members'[rowStates'[i].state] = rowStates'[i].summaryLogIds
    <2>1. Distinct' => (\A i \in DOMAIN rowStates :
                          Members[rowStates[i].state] = rowStates[i].summaryLogIds)'
      BY MembersOf, PTL
    <2> QED
      BY <2>1 DEF TypeInv
  <1>4. DOMAIN Members' = DOMAIN Members \cup {s}
    BY <1>1 DEF States, Upserted
  <1>5. Members'[s] = (IF s \in DOMAIN Members THEN Members[s] ELSE {}) \cup {l}
    <2>1. Members'[s] = rowStates'[k].summaryLogIds
      BY <1>3 DEF Upserted
    <2>2. CASE k \in DOMAIN rowStates
      BY <1>1, <1>2, <2>1, <2>2 DEF Upserted, States
    <2>3. CASE k \notin DOMAIN rowStates
      BY <1>1, <2>1, <2>3 DEF Upserted, States
    <2> QED
      BY <2>2, <2>3
  <1>6. ASSUME NEW t \in DOMAIN Members \ {s} PROVE Members'[t] = Members[t]
    <2>1. PICK i \in DOMAIN rowStates : rowStates[i].state = t
      BY <1>1 DEF States
    <2>2. i # k /\ rowStates'[i] = rowStates[i] /\ i \in DOMAIN rowStates'
      BY <2>1 DEF Upserted
    <2> QED
      BY <1>2, <1>3, <2>1, <2>2
  <1> QED
    BY <1>4, <1>5, <1>6

LEMMA StepHonours ==
  ASSUME TypeInv, TypeInv', [Next]_vars
  PROVE  [Repository!Next]_Members
  <1>1. CASE UpsertRow
    <2>1. PICK k \in DOMAIN rowStates' : \E s : Upserted(s, job.log, k)
      BY <1>1, UpsertRowUpserts
    <2> PICK s : Upserted(s, job.log, k)
      BY <2>1
    <2>2. PICK l \in Logs : l = job.log
      BY <1>1, UpsertRowUpserts
    <2>3. /\ s \in DOMAIN Members' /\ DOMAIN Members' = DOMAIN Members \cup {s}
          /\ Members'[s] = (IF s \in DOMAIN Members THEN Members[s] ELSE {}) \cup {l}
          /\ \A t \in DOMAIN Members \ {s} : Members'[t] = Members[t]
      BY <2>2, UpsertHonours
    <2>4. Repository!Upsert(s, l)
      BY <2>3 DEF Repository!Upsert, Repository!StoredOnce, Repository!MembershipGrows,
                  Repository!OthersKept, Repository!Documents, Members
    <2>5. Repository!Next
      BY <2>3, <2>4 DEF Repository!Next, Members
    <2> QED
      BY <2>5
  <1>2. CASE ~ UpsertRow
    <2>1. rowStates' = rowStates
      BY <1>2 DEF Next, vars, Upload, Validate, ClassifyAndPersist, Confirm, CheckReports,
                  ReadContext, CommitLedger, Flag, Finish, Crash, SubmitReport, ChangeContext
    <2> QED
      BY <2>1 DEF Members, States
  <1> QED
    BY <1>1, <1>2

(* Whatever crashes, and whatever is changed or submitted between the      *)
(* executions of a command, an upsert of upsertSummaryLogRowStates stores  *)
(* a content once and adds a log to its document, touching no other.       *)
THEOREM RowsHonourContract == Spec => HonoursContract
  <1>1. Init => Repository!Init
    BY DEF Init, Repository!Init, States
  <1>2. TypeInv /\ TypeInv' /\ [Next]_vars => [Repository!Next]_Members
    BY StepHonours
  <1>3. Members = [s \in States(DOMAIN rowStates) |->
                     UNION {rowStates[i].summaryLogIds :
                              i \in {k \in DOMAIN rowStates : rowStates[k].state = s}}]
    BY DEF Members
  <1> QED
    BY <1>1, <1>2, AlwaysTyped, PTL DEF Spec, HonoursContract, Repository!Spec, Members

-----------------------------------------------------------------------------
(* The rows at the head of the ledger.                                     *)

Settling == {"submitting", "submitted"}

LEMMA EventsTyped ==
  TypeInv =>
    /\ Len(ledger) \in Nat /\ DOMAIN ledger = 1..Len(ledger)
    /\ \A i \in DOMAIN ledger : ledger[i].log \in Logs /\ ledger[i].creditTotal \in Int
    /\ ledger # <<>> => Len(ledger) \in DOMAIN ledger
  <1> SUFFICES ASSUME TypeInv
               PROVE  /\ Len(ledger) \in Nat /\ DOMAIN ledger = 1..Len(ledger)
                      /\ \A i \in DOMAIN ledger : ledger[i].log \in Logs /\ ledger[i].creditTotal \in Int
                      /\ ledger # <<>> => Len(ledger) \in DOMAIN ledger
    OBVIOUS
  <1>1. PICK E : E = [log : Logs, creditTotal : Int]
    OBVIOUS
  <1>2. ledger \in Seq(E)
    BY <1>1 DEF TypeInv, StoresTyped
  <1>3. /\ Len(ledger) \in Nat /\ DOMAIN ledger = 1..Len(ledger)
        /\ \A i \in DOMAIN ledger : ledger[i] \in E
        /\ ledger # <<>> => Len(ledger) \in DOMAIN ledger
    BY <1>2
  <1> QED
    BY <1>1, <1>3

LEMMA DocumentsTyped ==
  TypeInv =>
    /\ Len(rowStates) \in Nat /\ DOMAIN rowStates = 1..Len(rowStates)
    /\ \A i \in DOMAIN rowStates : rowStates[i].summaryLogIds \subseteq Logs
  <1> SUFFICES ASSUME TypeInv
               PROVE  /\ Len(rowStates) \in Nat /\ DOMAIN rowStates = 1..Len(rowStates)
                      /\ \A i \in DOMAIN rowStates : rowStates[i].summaryLogIds \subseteq Logs
    OBVIOUS
  <1>1. /\ Len(rowStates) \in Nat /\ DOMAIN rowStates = 1..Len(rowStates)
        /\ \A i \in DOMAIN rowStates : rowStates[i] \in Documents
    BY DEF TypeInv, StoresTyped
  <1> QED
    BY <1>1 DEF Documents

LEMMA HeadOf ==
  TypeInv /\ ledger # <<>> =>
    /\ HeadLog(ledger) = ledger[Len(ledger)].log /\ Len(ledger) \in DOMAIN ledger
    /\ HeadLog(ledger) \in Logs
  <1> SUFFICES ASSUME TypeInv, ledger # <<>>
               PROVE  /\ HeadLog(ledger) = ledger[Len(ledger)].log /\ Len(ledger) \in DOMAIN ledger
                      /\ HeadLog(ledger) \in Logs
    OBVIOUS
  <1>1. Len(ledger) \in DOMAIN ledger /\ ledger[Len(ledger)].log \in Logs
    BY EventsTyped
  <1> QED
    BY <1>1 DEF HeadLog, Last

LEMMA LatestOf ==
  TypeInv =>
    /\ Len(submissions) \in Nat /\ DOMAIN submissions = 1..Len(submissions)
    /\ \A i \in DOMAIN submissions : submissions[i] \in Logs
    /\ submissions = <<>> => LatestSubmitted = NONE
    /\ submissions # <<>> => LatestSubmitted = submissions[Len(submissions)]
    /\ LatestSubmitted \in {NONE} \cup Range(submissions)
  BY DEF TypeInv, StoresTyped, LatestSubmitted, Last, Range

(* The documents of a log that is stored in full are its rows.             *)
LEMMA RowsOfLog ==
  ASSUME TypeInv, Written, NEW l \in Logs, \A r \in DOMAIN logs[l].upload : Stored(l, r)
  PROVE  LET documents == FindRowStatesForSummaryLog(l)
         IN /\ DOMAIN ByKey(documents) = DOMAIN logs[l].upload
            /\ \A r \in DOMAIN logs[l].upload :
                 \E i \in documents :
                   /\ rowStates[i].state.row = r
                   /\ ByKey(documents)[r] = rowStates[i].state
                   /\ {j \in documents : rowStates[j].state.row = r} = {i}
  <1> DEFINE documents == FindRowStatesForSummaryLog(l)
  <1>1. \A i \in documents : i \in DOMAIN rowStates /\ l \in rowStates[i].summaryLogIds
    BY DEF FindRowStatesForSummaryLog
  <1>2. \A i \in documents : rowStates[i].state.row \in DOMAIN logs[l].upload
    BY <1>1 DEF Written
  <1>3. ASSUME NEW r \in DOMAIN logs[l].upload
        PROVE  \E i \in documents :
                 rowStates[i].state.row = r /\ {j \in documents : rowStates[j].state.row = r} = {i}
    <2>1. PICK i \in DOMAIN rowStates : l \in rowStates[i].summaryLogIds /\ rowStates[i].state.row = r
      BY DEF Stored
    <2>2. i \in documents
      BY <2>1 DEF FindRowStatesForSummaryLog
    <2>3. \A j \in documents : rowStates[j].state.row = r => j = i
      BY <1>1, <2>1 DEF Written
    <2> QED
      BY <2>1, <2>2, <2>3
  <1>4. DOMAIN ByKey(documents) = {rowStates[i].state.row : i \in documents}
    BY DEF ByKey
  <1> HIDE DEF documents
  <1>5. DOMAIN ByKey(documents) = DOMAIN logs[l].upload
    BY <1>2, <1>3, <1>4
  <1>6. ASSUME NEW r \in DOMAIN logs[l].upload
        PROVE  \E i \in documents :
                 /\ rowStates[i].state.row = r /\ ByKey(documents)[r] = rowStates[i].state
                 /\ {j \in documents : rowStates[j].state.row = r} = {i}
    <2>1. PICK i \in documents :
            rowStates[i].state.row = r /\ {j \in documents : rowStates[j].state.row = r} = {i}
      BY <1>3
    <2>2. i \in Nat
      BY <1>1, <2>1 DEF TypeInv, StoresTyped
    <2>3. Max({j \in documents : rowStates[j].state.row = r}) = i
      BY <2>1, <2>2 DEF Max
    <2>4. ByKey(documents)[r] = rowStates[Max({j \in documents : rowStates[j].state.row = r})].state
      BY <1>4, <1>5 DEF ByKey
    <2> QED
      BY <2>1, <2>3, <2>4
  <1> QED
    BY <1>5, <1>6 DEF documents

LEMMA HeadRows ==
  ASSUME RowInv, ledger # <<>>
  PROVE  DOMAIN ByKey(HeadDocuments) = DOMAIN logs[HeadLog(ledger)].upload
  <1>1. PICK l \in Logs : l = HeadLog(ledger)
    BY HeadOf DEF RowInv
  <1>2. \A r \in DOMAIN logs[l].upload : Stored(l, r)
    BY <1>1, HeadOf DEF RowInv, OfCommand, Complete
  <1>3. DOMAIN ByKey(FindRowStatesForSummaryLog(l)) = DOMAIN logs[l].upload
    BY <1>2, RowsOfLog DEF RowInv, OfCommand
  <1> QED
    BY <1>1, <1>3 DEF HeadDocuments

LEMMA CoercedIsRound ==
  ASSUME NEW data, IsRowData(data)
  PROVE  CoerceStoredTonnages(data).gross % 10 = 0
  <1>1. data.gross \in Int /\ data.gross # NONE /\ "gross" \in DOMAIN data
    BY RowAssumption DEF IsRowData
  <1>2. CoerceStoredTonnages(data).gross = Coerced(data.gross)
    BY DEF CoerceStoredTonnages, IsRowData
  <1>3. PICK x \in Int : x = RoundToTwoDecimalPlaces(data.gross)
    BY <1>1 DEF RoundToTwoDecimalPlaces
  <1>4. Coerced(data.gross) = 10 * x
    BY <1>1, <1>3 DEF Coerced
  <1>5. (10 * x) % 10 = 0
    OBVIOUS
  <1> QED
    BY <1>2, <1>4, <1>5

LEMMA TypeOKHolds ==
  ASSUME TypeInv PROVE TypeOK
  <1>1. ASSUME NEW i \in DOMAIN rowStates
        PROVE  /\ rowStates[i].state.row \in RowsOf(template)
               /\ rowStates[i].summaryLogIds \subseteq Logs
               /\ rowStates[i].state.data.gross % 10 = 0
    <2>1. rowStates[i] \in Documents
      BY DEF TypeInv, StoresTyped
    <2>2. PICK r \in RowsOf(template) : \E data \in Contents[template][r] :
            \E a, sites : rowStates[i].state = ProjectSummaryLogRowState(template, r, data, a, sites)
      BY <2>1 DEF Documents, RowStates
    <2>3. PICK data \in Contents[template][r] :
            \E a, sites : rowStates[i].state = ProjectSummaryLogRowState(template, r, data, a, sites)
      BY <2>2
    <2>4. rowStates[i].state.row = r /\ rowStates[i].state.data = CoerceStoredTonnages(data)
      BY <2>3 DEF ProjectSummaryLogRowState
    <2>5. IsRowData(data)
      BY <2>3, RowAssumption DEF TypeInv, ContextTyped
    <2> QED
      BY <2>1, <2>4, <2>5, CoercedIsRound DEF Documents
  <1>2. \A i \in DOMAIN ledger : ledger[i].log \in Logs /\ ledger[i].creditTotal \in Int
    BY EventsTyped
  <1>3. job.step \in {"none", "checkReports", "readContext", "upsert", "commit", "flag", "finish"}
    BY DEF TypeInv, StoresTyped, Jobs, NoJob
  <1>4. \A l \in Logs : logs[l].status \in
          {"none", "validating", "classifying", "validated", "invalid", "superseded",
           "submitting", "submitted", "submission_failed"}
    BY DEF TypeInv, LogsTyped, FILED
  <1> QED
    BY <1>1, <1>2, <1>3, <1>4 DEF TypeOK, TypeInv, ContextTyped

LEMMA HeadIsUploadHolds ==
  ASSUME RowInv PROVE HeadIsUpload
  <1> SUFFICES ASSUME ledger # <<>>
               PROVE  LET documents == HeadDocuments
                          upload == logs[HeadLog(ledger)].upload
                      IN /\ DOMAIN ByKey(documents) = DOMAIN upload
                         /\ Cardinality(documents) = Cardinality(DOMAIN upload)
                         /\ \A r \in DOMAIN upload :
                              ByKey(documents)[r].data = CoerceStoredTonnages(upload[r])
    BY DEF HeadIsUpload
  <1>1. PICK l \in Logs : l = HeadLog(ledger)
    BY HeadOf DEF RowInv
  <1>2. PICK documents : documents = FindRowStatesForSummaryLog(l) /\ documents = HeadDocuments
    BY <1>1 DEF HeadDocuments
  <1>3. PICK upload : upload = logs[l].upload
    OBVIOUS
  <1>4. \A r \in DOMAIN upload : Stored(l, r)
    BY <1>1, <1>3, HeadOf DEF RowInv, OfCommand, Complete
  <1>5. /\ DOMAIN ByKey(documents) = DOMAIN upload
        /\ \A r \in DOMAIN upload :
             \E i \in documents :
               /\ rowStates[i].state.row = r
               /\ ByKey(documents)[r] = rowStates[i].state
               /\ {j \in documents : rowStates[j].state.row = r} = {i}
    BY <1>2, <1>3, <1>4, RowsOfLog DEF RowInv, OfCommand
  <1>6. \A i \in documents :
          /\ i \in DOMAIN rowStates /\ rowStates[i].state.row \in DOMAIN upload
          /\ rowStates[i].state.data = CoerceStoredTonnages(upload[rowStates[i].state.row])
    BY <1>2, <1>3 DEF FindRowStatesForSummaryLog, RowInv, OfCommand, Written
  <1>7. \A r \in DOMAIN upload : ByKey(documents)[r].data = CoerceStoredTonnages(upload[r])
    BY <1>5, <1>6
  <1>8. Cardinality(documents) = Cardinality(DOMAIN upload)
    <2> DEFINE row == [i \in documents |-> rowStates[i].state.row]
    <2>1. IsFiniteSet(documents)
      <3>1. Len(rowStates) \in Nat /\ documents \subseteq 1..Len(rowStates)
        BY <1>6 DEF RowInv, TypeInv, StoresTyped
      <3>2. IsFiniteSet(1..Len(rowStates))
        BY <3>1, FS_Interval
      <3> QED
        BY <3>1, <3>2, FS_Subset
    <2>2. row \in Bijection(documents, DOMAIN upload)
      <3>1. row \in [documents -> DOMAIN upload]
        BY <1>6
      <3>2. \A i, j \in documents : row[i] = row[j] => i = j
        BY <1>5, <1>6
      <3>3. \A r \in DOMAIN upload : \E i \in documents : row[i] = r
        BY <1>5
      <3> HIDE DEF row
      <3> QED
        BY <3>1, <3>2, <3>3 DEF Bijection, Injection, Surjection, IsInjective
    <2> HIDE DEF row
    <2> QED
      BY <2>1, <2>2, FS_Bijection DEF ExistsBijection
  <1> QED
    BY <1>1, <1>2, <1>3, <1>5, <1>7, <1>8

LEMMA HeadIsLatestHolds ==
  ASSUME RowInv PROVE HeadIsLatestUpload
  <1>1. LedgerNamesLatestSubmitted
    BY DEF RowInv, OfStores, HeadIsLatest, LedgerNamesLatestSubmitted, Recorded
  <1> QED
    BY <1>1, TypeOKHolds, HeadIsUploadHolds DEF HeadIsLatestUpload, RowInv

LEMMA InitRows ==
  ASSUME Init PROVE RowInv
  <1>1. TypeInv
    BY InitTyped
  <1>2. AloneSubmits /\ Baselines
    BY DEF Init, AloneSubmits, Baselines, NoLog, HasFile, FILED
  <1>3. OfCommand
    BY DEF Init, OfCommand, SameContext, OnlySubmitted, Written, Complete, EventsRecorded, NoJob
  <1>4. OfStores
    BY DEF Init, OfStores, SubmittedOnce, HeadIsLatest, Continues, RowsNeverRemoved
  <1> QED
    BY <1>1, <1>2, <1>3, <1>4 DEF RowInv

-----------------------------------------------------------------------------
(* Steps of the invariant.                                                 *)

(* One log is changed, and the stores are not.                             *)
Apart(l) ==
  /\ l \in Logs /\ \A k \in Logs \ {l} : logs'[k] = logs[k]
  /\ UNCHANGED <<template, submissions, ledger, rowStates>>

(* The stores do not speak of a log.                                       *)
Unseen(l) ==
  /\ \A i \in DOMAIN submissions : submissions[i] # l
  /\ \A i \in DOMAIN ledger : ledger[i].log # l
  /\ \A i \in DOMAIN rowStates : l \notin rowStates[i].summaryLogIds

LEMMA UnsettledUnseen ==
  ASSUME RowInv, NEW l, logs[l].status \notin Settling
  PROVE  Unseen(l) /\ (job # NoJob => job.log # l)
  <1>1. job # NoJob => job.log # l
    BY CommandTyped DEF RowInv, Settling
  <1> QED
    BY <1>1 DEF RowInv, OfStores, SubmittedOnce, OfCommand, OnlySubmitted, Unseen, Settling

LEMMA OthersKept ==
  ASSUME RowInv, NEW l, Apart(l), Unseen(l)
  PROVE  /\ \A i \in DOMAIN submissions :
              submissions[i] \in Logs \ {l} /\ logs'[submissions[i]] = logs[submissions[i]]
         /\ \A i \in DOMAIN ledger :
              ledger[i].log \in Logs \ {l} /\ logs'[ledger[i].log] = logs[ledger[i].log]
         /\ \A i \in DOMAIN rowStates : \A k \in rowStates[i].summaryLogIds :
              k \in Logs \ {l} /\ logs'[k] = logs[k]
         /\ ledger # <<>> =>
              HeadLog(ledger) \in Logs \ {l} /\ logs'[HeadLog(ledger)] = logs[HeadLog(ledger)]
  <1>1. \A i \in DOMAIN submissions : submissions[i] \in Logs \ {l}
    BY LatestOf DEF RowInv, Unseen
  <1>2. \A i \in DOMAIN ledger : ledger[i].log \in Logs \ {l}
    BY EventsTyped DEF RowInv, Unseen
  <1>3. \A i \in DOMAIN rowStates : \A k \in rowStates[i].summaryLogIds : k \in Logs \ {l}
    BY DocumentsTyped DEF RowInv, Unseen
  <1>4. ledger # <<>> => HeadLog(ledger) \in Logs \ {l}
    BY <1>2, HeadOf DEF RowInv
  <1> QED
    BY <1>1, <1>2, <1>3, <1>4 DEF Apart

(* What settles is not touched, nor the command.                           *)
Quiet(l) ==
  /\ Apart(l) /\ logs[l].status \notin Settling /\ logs'[l].status \notin Settling
  /\ UNCHANGED <<context, reports, job>>

LEMMA QuietKeeps ==
  ASSUME RowInv, NEW l, Quiet(l), TypeInv',
         HasFile(l)' => logs'[l].baseline \in {NONE} \cup Range(submissions),
         /\ logs'[l].status \in {"classifying", "validated"}
         /\ logs'[l].baseline = LatestSubmitted
         /\ ledger # <<>> /\ logs[HeadLog(ledger)].status # "submitting"
         => DOMAIN logs[HeadLog(ledger)].upload \subseteq DOMAIN logs'[l].upload
  PROVE  RowInv'
  <1>1. /\ job # NoJob => job.log \in Logs \ {l} /\ logs'[job.log] = logs[job.log]
        /\ \A i \in DOMAIN submissions :
             submissions[i] \in Logs \ {l} /\ logs'[submissions[i]] = logs[submissions[i]]
        /\ \A i \in DOMAIN ledger :
             ledger[i].log \in Logs \ {l} /\ logs'[ledger[i].log] = logs[ledger[i].log]
        /\ \A i \in DOMAIN rowStates : \A k \in rowStates[i].summaryLogIds :
             k \in Logs \ {l} /\ logs'[k] = logs[k]
        /\ ledger # <<>> =>
             HeadLog(ledger) \in Logs \ {l} /\ logs'[HeadLog(ledger)] = logs[HeadLog(ledger)]
    <2>1. job # NoJob => job.log \in Logs \ {l} /\ logs'[job.log] = logs[job.log]
      BY UnsettledUnseen, CommandTyped DEF RowInv, Quiet, Apart
    <2> QED
      BY <2>1, UnsettledUnseen, OthersKept DEF Quiet
  <1>2. AloneSubmits'
    BY DEF RowInv, AloneSubmits, Quiet, Apart, Settling
  <1>3. Baselines'
    BY <1>1 DEF RowInv, Baselines, Quiet, Apart, HasFile, BaselineOf, LatestSubmitted
  <1>4. SameContext' /\ OnlySubmitted' /\ EventsRecorded'
    <2>1. job # NoJob => WillRecord' = WillRecord
      BY <1>1 DEF WillRecord, Quiet, Apart
    <2>2. job.step \in {"upsert", "flag", "finish", "checkReports", "readContext"} => job # NoJob
      BY DEF NoJob
    <2>3. SameContext'
      BY <1>1 DEF RowInv, OfCommand, SameContext, Quiet, Apart
    <2>4. OnlySubmitted'
      BY <1>1 DEF RowInv, OfCommand, OnlySubmitted, FirstTry, Untouched, Quiet, Apart
    <2>5. EventsRecorded'
      BY <2>1, <2>2 DEF RowInv, OfCommand, EventsRecorded, Quiet, Apart
    <2> QED
      BY <2>3, <2>4, <2>5
  <1>5. Written'
    BY <1>1 DEF RowInv, OfCommand, Written, Quiet, Apart
  <1>6. Complete'
    <2>1. job.step \in {"upsert", "flag", "finish"} => job # NoJob
      BY DEF NoJob
    <2>2. \A k, r : Stored(k, r)' <=> Stored(k, r)
      BY DEF Stored, Quiet, Apart
    <2> QED
      BY <1>1, <2>1, <2>2 DEF RowInv, OfCommand, Complete, Quiet, Apart
  <1>7. SubmittedOnce'
    BY <1>1 DEF RowInv, OfStores, SubmittedOnce, Quiet, Apart
  <1>8. HeadIsLatest'
    <2>1. \A i \in DOMAIN submissions : Recorded(submissions[i])' = Recorded(submissions[i])
      BY <1>1 DEF Recorded, Quiet, Apart
    <2>2. {i \in DOMAIN submissions : Recorded(submissions[i])}'
            = {i \in DOMAIN submissions : Recorded(submissions[i])}
      BY <2>1 DEF Quiet, Apart
    <2> QED
      BY <1>1, <2>2 DEF RowInv, OfStores, HeadIsLatest, Quiet, Apart
  <1>9. Continues'
    <2> SUFFICES ASSUME NEW k \in Logs,
                        logs'[k].status \in {"classifying", "validated", "submitting"},
                        logs'[k].baseline = LatestSubmitted,
                        ledger # <<>>, logs[HeadLog(ledger)].status # "submitting"
                 PROVE  DOMAIN logs[HeadLog(ledger)].upload \subseteq DOMAIN logs'[k].upload
      BY <1>1 DEF Continues, BaselineOf, LatestSubmitted, Quiet, Apart
    <2>1. CASE k = l
      BY <2>1 DEF Quiet, Apart, Settling
    <2>2. CASE k # l
      BY <2>2 DEF RowInv, OfStores, Continues, BaselineOf, Quiet, Apart
    <2> QED
      BY <2>1, <2>2
  <1>10. RowsNeverRemoved'
    BY <1>1 DEF RowInv, OfStores, RowsNeverRemoved, Quiet, Apart
  <1> QED
    BY <1>2, <1>3, <1>4, <1>5, <1>6, <1>7, <1>8, <1>9, <1>10 DEF RowInv, OfCommand, OfStores

LEMMA UploadKeepsRows ==
  ASSUME RowInv, TypeInv', NEW l \in Logs, Upload(l)
  PROVE  RowInv'
  <1>1. /\ logs[l].status = "none"
        /\ \A k \in Logs \ {l} : logs'[k] = logs[k]
        /\ logs'[l].status = "validating" /\ logs'[l].baseline = LatestSubmitted
    BY UploadMoves DEF RowInv
  <1>2. Quiet(l)
    BY <1>1 DEF Upload, Quiet, Apart, Settling
  <1>3. LatestSubmitted \in {NONE} \cup Range(submissions)
    BY LatestOf DEF RowInv
  <1> QED
    BY <1>1, <1>2, <1>3, QuietKeeps

LEMMA ValidateKeepsRows ==
  ASSUME RowInv, TypeInv', NEW l \in Logs, Validate(l)
  PROVE  RowInv'
  <1>1. PICK to \in {"invalid", "classifying"} :
          /\ Moves(l, "validating", to)
          /\ to = "classifying" => RemovedRows(logs[l].upload) = {}
    BY ValidateMoves DEF RowInv
  <1>2. Quiet(l)
    BY <1>1 DEF Validate, Quiet, Apart, Settling, Moves
  <1>3. HasFile(l)' => logs'[l].baseline \in {NONE} \cup Range(submissions)
    BY <1>1 DEF RowInv, Baselines, BaselineOf, HasFile, Moves, SameFile, FILED
  <1>4. ASSUME logs'[l].status \in {"classifying", "validated"}, ledger # <<>>
        PROVE  DOMAIN logs[HeadLog(ledger)].upload \subseteq DOMAIN logs'[l].upload
    <2>1. to = "classifying" /\ logs'[l].upload = logs[l].upload
      BY <1>1, <1>4 DEF Moves, SameFile, FILED
    <2>2. DOMAIN ByKey(HeadDocuments) \subseteq DOMAIN logs[l].upload
      BY <1>1, <2>1 DEF RemovedRows
    <2> QED
      BY <1>4, <2>1, <2>2, HeadRows
  <1> QED
    BY <1>2, <1>3, <1>4, QuietKeeps

LEMMA ClassifyKeepsRows ==
  ASSUME RowInv, TypeInv', NEW l \in Logs, ClassifyAndPersist(l)
  PROVE  RowInv'
  <1>1. Moves(l, "classifying", "validated")
    BY ClassifyMoves DEF RowInv
  <1>2. /\ logs[l].status = "classifying" /\ logs'[l].status = "validated"
        /\ SameFile(logs[l], logs'[l])
    BY <1>1 DEF Moves, FILED
  <1>3. Quiet(l)
    BY <1>1, <1>2 DEF ClassifyAndPersist, Quiet, Apart, Settling, Moves
  <1>4. HasFile(l)' => logs'[l].baseline \in {NONE} \cup Range(submissions)
    BY <1>2 DEF RowInv, Baselines, BaselineOf, HasFile, SameFile, FILED
  <1> QED
    BY <1>2, <1>3, <1>4, QuietKeeps DEF RowInv, OfStores, Continues, BaselineOf, SameFile

LEMMA SupersedeKeepsRows ==
  ASSUME RowInv, TypeInv', NEW l \in Logs, Confirm(l), Moves(l, "validated", "superseded"),
         job' = job
  PROVE  RowInv'
  <1>1. Quiet(l)
    BY DEF Confirm, Quiet, Apart, Settling, Moves
  <1>2. ~ HasFile(l)'
    BY DEF HasFile, Moves, FILED
  <1> QED
    BY <1>1, <1>2, QuietKeeps DEF Moves

(* The stores say what they said, one unseen log apart.                    *)
LEMMA StoresSaySame ==
  ASSUME RowInv, NEW l, Apart(l), Unseen(l),
         ledger # <<>> => logs[HeadLog(ledger)].status # "submitting",
         logs'[l].status = "submitting" => logs[l].status = "validated" /\ SameFile(logs[l], logs'[l]),
         logs'[l].status \notin {"classifying", "validated"}
  PROVE  OfStores'
  <1>1. /\ \A i \in DOMAIN submissions :
             submissions[i] \in Logs \ {l} /\ logs'[submissions[i]] = logs[submissions[i]]
        /\ \A i \in DOMAIN ledger :
             ledger[i].log \in Logs \ {l} /\ logs'[ledger[i].log] = logs[ledger[i].log]
        /\ ledger # <<>> =>
             HeadLog(ledger) \in Logs \ {l} /\ logs'[HeadLog(ledger)] = logs[HeadLog(ledger)]
    BY OthersKept
  <1>2. SubmittedOnce'
    BY <1>1 DEF RowInv, OfStores, SubmittedOnce, Apart
  <1>3. HeadIsLatest'
    <2>1. \A i \in DOMAIN submissions : Recorded(submissions[i])' = Recorded(submissions[i])
      BY <1>1 DEF Recorded, Apart
    <2>2. {i \in DOMAIN submissions : Recorded(submissions[i])}'
            = {i \in DOMAIN submissions : Recorded(submissions[i])}
      BY <2>1 DEF Apart
    <2> QED
      BY <1>1, <2>2 DEF RowInv, OfStores, HeadIsLatest, Apart
  <1>4. Continues'
    <2> SUFFICES ASSUME NEW k \in Logs,
                        logs'[k].status \in {"classifying", "validated", "submitting"},
                        logs'[k].baseline = LatestSubmitted,
                        ledger # <<>>
                 PROVE  DOMAIN logs[HeadLog(ledger)].upload \subseteq DOMAIN logs'[k].upload
      BY <1>1 DEF Continues, BaselineOf, LatestSubmitted, Apart
    <2>1. CASE k = l
      BY <2>1 DEF RowInv, OfStores, Continues, BaselineOf, SameFile
    <2>2. CASE k # l
      BY <2>2 DEF RowInv, OfStores, Continues, BaselineOf, Apart
    <2> QED
      BY <2>1, <2>2
  <1>5. RowsNeverRemoved'
    BY <1>1 DEF RowInv, OfStores, RowsNeverRemoved, Apart
  <1> QED
    BY <1>2, <1>3, <1>4, <1>5 DEF OfStores

LEMMA NoCommandHead ==
  ASSUME RowInv, job = NoJob, ledger # <<>>
  PROVE  logs[HeadLog(ledger)].status # "submitting"
  BY HeadOf DEF RowInv, AloneSubmits

LEMMA ConfirmKeepsRows ==
  ASSUME RowInv, TypeInv', NEW l \in Logs, Confirm(l), Moves(l, "validated", "submitting"),
         logs[l].baseline = LatestSubmitted, job = NoJob,
         job' = [step |-> "checkReports", log |-> l, receives |-> 1]
  PROVE  RowInv'
  <1>1. Apart(l) /\ Unseen(l) /\ UNCHANGED <<context, reports>>
    BY UnsettledUnseen DEF Confirm, Apart, Moves, Settling
  <1>2. /\ logs[l].status = "validated" /\ logs'[l].status = "submitting"
        /\ SameFile(logs[l], logs'[l])
    BY DEF Moves, FILED
  <1>3. /\ \A i \in DOMAIN submissions :
             submissions[i] \in Logs \ {l} /\ logs'[submissions[i]] = logs[submissions[i]]
        /\ \A i \in DOMAIN ledger :
             ledger[i].log \in Logs \ {l} /\ logs'[ledger[i].log] = logs[ledger[i].log]
        /\ \A i \in DOMAIN rowStates : \A k \in rowStates[i].summaryLogIds :
             k \in Logs \ {l} /\ logs'[k] = logs[k]
    BY <1>1, OthersKept
  <1>4. AloneSubmits' /\ job' # NoJob
    BY <1>1 DEF RowInv, AloneSubmits, Apart, NoJob
  <1>5. Baselines'
    BY <1>1, <1>2 DEF RowInv, Baselines, BaselineOf, HasFile, SameFile, Apart, FILED,
                      LatestSubmitted
  <1>6. OfCommand'
    <2>1. SameContext'
      BY DEF SameContext
    <2>2. OnlySubmitted'
      BY <1>1, <1>3 DEF RowInv, OfCommand, OnlySubmitted, Apart
    <2>3. Written'
      BY <1>1, <1>3 DEF RowInv, OfCommand, Written, Apart
    <2>4. Complete'
      <3>1. \A k, r : Stored(k, r)' <=> Stored(k, r)
        BY <1>1 DEF Stored, Apart
      <3> QED
        BY <1>1, <1>3, <3>1 DEF RowInv, OfCommand, Complete, Apart
    <2>5. EventsRecorded'
      BY <1>1, <1>3 DEF EventsRecorded, Apart
    <2> QED
      BY <2>1, <2>2, <2>3, <2>4, <2>5 DEF OfCommand
  <1>7. OfStores'
    BY <1>1, <1>2, NoCommandHead, StoresSaySame
  <1> QED
    BY <1>4, <1>5, <1>6, <1>7 DEF RowInv

LEMMA FailKeepsRows ==
  ASSUME RowInv, TypeInv', NEW l, l = job.log, CheckReports, job.step = "checkReports", job # NoJob,
         Moves(l, "submitting", "submission_failed"), reports # logs[l].closed, job' = NoJob
  PROVE  RowInv'
  <1>1. Untouched /\ FirstTry
    <2>1. job.receives \in Nat \ {0} /\ ~ (job.receives > 1)
      BY CommandTyped DEF RowInv, OfCommand, SameContext
    <2> QED
      BY <2>1 DEF Untouched, FirstTry
  <1>2. Apart(l) /\ UNCHANGED <<context, reports>> /\ logs[l].status = "submitting"
    BY DEF CheckReports, Apart, Moves
  <1>3. Unseen(l)
    BY <1>1, <1>2 DEF RowInv, OfStores, SubmittedOnce, OfCommand, OnlySubmitted, Unseen
  <1>4. /\ logs'[l].status = "submission_failed" /\ SameFile(logs[l], logs'[l])
        /\ \A k \in Logs \ {l} : logs'[k] = logs[k] /\ logs[k].status # "submitting"
    BY <1>2 DEF Moves, FILED, RowInv, AloneSubmits
  <1>5. /\ \A i \in DOMAIN submissions :
             submissions[i] \in Logs \ {l} /\ logs'[submissions[i]] = logs[submissions[i]]
        /\ \A i \in DOMAIN ledger :
             ledger[i].log \in Logs \ {l} /\ logs'[ledger[i].log] = logs[ledger[i].log]
        /\ \A i \in DOMAIN rowStates : \A k \in rowStates[i].summaryLogIds :
             k \in Logs \ {l} /\ logs'[k] = logs[k]
        /\ ledger # <<>> => HeadLog(ledger) \in Logs \ {l}
    BY <1>2, <1>3, OthersKept
  <1>6. AloneSubmits'
    BY <1>4 DEF AloneSubmits
  <1>7. Baselines'
    BY <1>2, <1>4 DEF RowInv, Baselines, BaselineOf, HasFile, SameFile, Apart, FILED
  <1>8. OfCommand'
    <2>1. SameContext' /\ EventsRecorded'
      BY DEF SameContext, EventsRecorded, NoJob
    <2>2. OnlySubmitted'
      BY <1>2, <1>5 DEF RowInv, OfCommand, OnlySubmitted, Apart, FirstTry, Untouched, NoJob
    <2>3. Written'
      BY <1>2, <1>5 DEF RowInv, OfCommand, Written, Apart
    <2>4. Complete'
      <3>1. \A k, r : Stored(k, r)' <=> Stored(k, r)
        BY <1>2 DEF Stored, Apart
      <3> QED
        BY <1>2, <1>5, <3>1 DEF RowInv, OfCommand, Complete, Apart, NoJob
    <2> QED
      BY <2>1, <2>2, <2>3, <2>4 DEF OfCommand
  <1>9. OfStores'
    BY <1>2, <1>3, <1>4, <1>5, StoresSaySame
  <1> QED
    BY <1>6, <1>7, <1>8, <1>9 DEF RowInv

(* Steps of a command between its writes: what it is at says no more.      *)
LEMMA OnwardKeepsRows ==
  ASSUME RowInv, TypeInv', job # NoJob, job' # NoJob, job'.log = job.log,
         UNCHANGED <<template, context, reports, logs, submissions, ledger, rowStates>>,
         SameContext', FirstTry' => FirstTry, Untouched' => Untouched,
         job'.step = "upsert" => job'.left = DOMAIN logs[job.log].upload,
         job'.step \in {"flag", "finish"} =>
           /\ \A r \in DOMAIN logs[job.log].upload : Stored(job.log, r)
           /\ WillRecord => ledger # <<>> /\ HeadLog(ledger) = job.log
  PROVE  RowInv'
  <1>1. AloneSubmits' /\ Baselines'
    BY DEF RowInv, AloneSubmits, Baselines, BaselineOf, HasFile, LatestSubmitted
  <1>2. \A k, r : Stored(k, r)' <=> Stored(k, r)
    BY DEF Stored
  <1>3. OnlySubmitted'
    BY DEF RowInv, OfCommand, OnlySubmitted
  <1>4. Written'
    BY DEF RowInv, OfCommand, Written
  <1>5. Complete'
    BY <1>2 DEF RowInv, OfCommand, Complete
  <1>6. EventsRecorded'
    <2>1. WillRecord' = WillRecord
      BY DEF WillRecord
    <2> QED
      BY <2>1 DEF RowInv, OfCommand, EventsRecorded
  <1>7. OfStores'
    <2>1. \A i \in DOMAIN submissions : Recorded(submissions[i])' = Recorded(submissions[i])
      BY DEF Recorded
    <2>2. HeadIsLatest'
      <3>1. {i \in DOMAIN submissions : Recorded(submissions[i])}'
              = {i \in DOMAIN submissions : Recorded(submissions[i])}
        BY <2>1
      <3> QED
        BY <3>1 DEF RowInv, OfStores, HeadIsLatest
    <2> QED
      BY <2>2 DEF RowInv, OfStores, SubmittedOnce, Continues, BaselineOf, LatestSubmitted,
                  RowsNeverRemoved
  <1> QED
    BY <1>1, <1>3, <1>4, <1>5, <1>6, <1>7 DEF RowInv, OfCommand

LEMMA CheckReportsKeepsRows ==
  ASSUME RowInv, TypeInv', CheckReports
  PROVE  RowInv'
  <1>1. /\ job # NoJob /\ job.step = "checkReports" /\ job.log \in Logs
        /\ \/ /\ logs' = logs /\ reports = logs[job.log].closed
              /\ job' = [step |-> "readContext", log |-> job.log, receives |-> job.receives]
           \/ /\ Moves(job.log, "submitting", "submission_failed") /\ job' = NoJob
              /\ reports # logs[job.log].closed
    BY CheckReportsMoves DEF RowInv
  <1>2. CASE logs' = logs /\ job' = [step |-> "readContext", log |-> job.log, receives |-> job.receives]
    <2>1. /\ job' # NoJob /\ job'.log = job.log /\ job'.step = "readContext"
          /\ job'.receives = job.receives
      BY <1>2 DEF NoJob
    <2>2. UNCHANGED <<template, context, reports, logs, submissions, ledger, rowStates>>
      BY <1>2 DEF CheckReports
    <2>3. SameContext' /\ (FirstTry' => FirstTry) /\ (Untouched' => Untouched)
      BY <1>1, <2>1 DEF SameContext, FirstTry, Untouched
    <2> QED
      BY <1>1, <2>1, <2>2, <2>3, OnwardKeepsRows
  <1>3. CASE /\ Moves(job.log, "submitting", "submission_failed") /\ job' = NoJob
             /\ reports # logs[job.log].closed
    <2>1. PICK l : l = job.log
      OBVIOUS
    <2> QED
      BY <1>1, <1>3, <2>1, FailKeepsRows
  <1> QED
    BY <1>1, <1>2, <1>3

LEMMA ReadContextKeepsRows ==
  ASSUME RowInv, TypeInv', ReadContext
  PROVE  RowInv'
  <1>1. job # NoJob /\ job.step = "readContext"
    BY DEF ReadContext, AtStep, NoJob
  <1>2. /\ job' # NoJob /\ job'.log = job.log /\ job'.step = "upsert"
        /\ job'.receives = job.receives /\ job'.left = DOMAIN logs[job.log].upload
        /\ job'.accreditation = context.accreditation /\ job'.sites = context.sites
    BY DEF ReadContext, NoJob
  <1>3. UNCHANGED <<template, context, reports, logs, submissions, ledger, rowStates>>
    BY DEF ReadContext
  <1>4. SameContext' /\ (FirstTry' => FirstTry) /\ (Untouched' => Untouched)
    BY <1>1, <1>2, <1>3 DEF SameContext, FirstTry, Untouched
  <1> QED
    BY <1>1, <1>2, <1>3, <1>4, OnwardKeepsRows

LEMMA FlagKeepsRows ==
  ASSUME RowInv, TypeInv', Flag
  PROVE  RowInv'
  <1>1. job # NoJob /\ job.step = "flag"
    BY DEF Flag, AtStep, NoJob
  <1>2. job \in [step : {"upsert", "flag", "finish"}, log : Logs, receives : Nat \ {0},
                 accreditation : AccreditationsOf(template), sites : SitesOf(template),
                 left : SUBSET RowsOf(template)]
    BY <1>1 DEF RowInv, TypeInv, StoresTyped, Jobs
  <1>3. /\ job'.log = job.log /\ job'.step = "finish" /\ job'.receives = job.receives
        /\ job'.accreditation = job.accreditation /\ job'.sites = job.sites
    BY <1>2 DEF Flag
  <1>4. job' # NoJob
    BY <1>3 DEF NoJob
  <1>5. UNCHANGED <<template, context, reports, logs, submissions, ledger, rowStates>>
    BY DEF Flag
  <1>6. SameContext' /\ (FirstTry' => FirstTry) /\ (Untouched' => Untouched)
    BY <1>1, <1>3, <1>5 DEF RowInv, OfCommand, SameContext, FirstTry, Untouched
  <1>7. /\ \A r \in DOMAIN logs[job.log].upload : Stored(job.log, r)
        /\ WillRecord => ledger # <<>> /\ HeadLog(ledger) = job.log
    BY <1>1 DEF RowInv, OfCommand, Complete, EventsRecorded
  <1> QED
    BY <1>1, <1>3, <1>4, <1>5, <1>6, <1>7, OnwardKeepsRows

LEMMA CrashKeepsRows ==
  ASSUME Crashing, RowInv, TypeInv', Crash
  PROVE  RowInv'
  <1>1. job # NoJob /\ reports = logs[job.log].closed /\ job.receives \in Nat \ {0}
    BY CommandTyped DEF Crash, Crashing, RowInv
  <1>2. /\ job' # NoJob /\ job'.log = job.log /\ job'.step = "checkReports"
        /\ job'.receives = job.receives + 1
    BY DEF Crash, NoJob
  <1>3. UNCHANGED <<template, context, reports, logs, submissions, ledger, rowStates>>
    BY DEF Crash
  <1>4. SameContext' /\ (FirstTry' => FirstTry) /\ (Untouched' => Untouched)
    BY <1>1, <1>2, <1>3 DEF SameContext, FirstTry, Untouched
  <1> QED
    BY <1>1, <1>2, <1>3, <1>4, OnwardKeepsRows

(* Reports are submitted, and the regulator acts while no command is       *)
(* worked: the stores are as they were.                                    *)
LEMMA BesideKeepsRows ==
  ASSUME RowInv, TypeInv', UNCHANGED <<template, logs, submissions, ledger, rowStates, job>>,
         context' = context \/ job = NoJob,
         reports' = reports \/ (job.step = "checkReports" => job.receives = 1)
  PROVE  RowInv'
  <1>1. UNCHANGED <<template, logs, submissions, ledger, rowStates, job>>
    OBVIOUS
  <1>2. context' = context \/ job = NoJob
    OBVIOUS
  <1>3. reports' = reports \/ (job.step = "checkReports" => job.receives = 1)
    OBVIOUS
  <1>4. AloneSubmits' /\ Baselines'
    BY <1>1 DEF RowInv, AloneSubmits, Baselines, BaselineOf, HasFile, LatestSubmitted
  <1>5. SameContext'
    BY <1>1, <1>2, <1>3 DEF RowInv, OfCommand, SameContext, NoJob
  <1>6. OnlySubmitted' /\ Complete'
    BY <1>1 DEF RowInv, OfCommand, OnlySubmitted, Complete, FirstTry, Untouched, Stored
  <1>7. Written'
    BY <1>1, <1>2 DEF RowInv, OfCommand, Written
  <1>8. EventsRecorded'
    BY <1>1, <1>2 DEF RowInv, OfCommand, EventsRecorded, WillRecord, NoJob
  <1>9. OfStores'
    BY <1>1 DEF RowInv, OfStores, SubmittedOnce, HeadIsLatest, Recorded, Continues, BaselineOf,
                LatestSubmitted, RowsNeverRemoved
  <1> QED
    BY <1>4, <1>5, <1>6, <1>7, <1>8, <1>9 DEF RowInv, OfCommand

LEMMA EnvironmentKeepsRows ==
  ASSUME Crashing, RowInv, TypeInv', SubmitReport \/ ChangeContext \/ UNCHANGED vars
  PROVE  RowInv'
  <1>1. UNCHANGED <<template, logs, submissions, ledger, rowStates, job>>
    BY DEF SubmitReport, ChangeContext, vars
  <1>2. context' = context \/ job = NoJob
    BY DEF SubmitReport, ChangeContext, Crashing, vars
  <1>3. reports' = reports \/ (job.step = "checkReports" => job.receives = 1)
    BY DEF SubmitReport, ChangeContext, Crashing, AtStep, vars
  <1> QED
    BY <1>1, <1>2, <1>3, BesideKeepsRows

LEMMA UpsertKeepsRows ==
  ASSUME RowInv, TypeInv', UpsertRow
  PROVE  RowInv'
  <1>1. /\ UNCHANGED <<template, context, contexts, reports, logs, submissions, ledger>>
        /\ job # NoJob /\ job.step = "upsert" /\ job.log \in Logs
    BY UpsertRowUpserts DEF UpsertRow, RowInv
  <1>2. PICK l \in Logs : l = job.log
    BY <1>1
  <1>3. PICK upload : upload = logs[l].upload
    OBVIOUS
  <1>4. PICK r \in job.left : \E k \in DOMAIN rowStates' :
          /\ r \in DOMAIN upload
          /\ Upserted(ProjectSummaryLogRowState(template, r, upload[r], job.accreditation, job.sites),
                      l, k)
          /\ job' = [job EXCEPT !.left = @ \ {r}]
    BY <1>2, <1>3, UpsertRowUpserts DEF RowInv
  <1>5. PICK s : s = ProjectSummaryLogRowState(template, r, upload[r], context.accreditation,
                                               context.sites)
    OBVIOUS
  <1>6. job.accreditation = context.accreditation /\ job.sites = context.sites
    BY <1>1 DEF RowInv, OfCommand, SameContext
  <1>7. PICK k \in DOMAIN rowStates' :
          r \in DOMAIN upload /\ Upserted(s, l, k) /\ job' = [job EXCEPT !.left = @ \ {r}]
    BY <1>4, <1>5, <1>6
  <1>8. /\ job' # NoJob /\ job'.log = l /\ job'.step = "upsert" /\ job'.receives = job.receives
        /\ job'.accreditation = job.accreditation /\ job'.sites = job.sites
        /\ job'.left = job.left \ {r}
    <2>1. job \in [step : {"upsert", "flag", "finish"}, log : Logs, receives : Nat \ {0},
                   accreditation : AccreditationsOf(template), sites : SitesOf(template),
                   left : SUBSET RowsOf(template)]
      BY <1>1 DEF RowInv, TypeInv, StoresTyped, Jobs
    <2>2. /\ job'.log = job.log /\ job'.step = "upsert" /\ job'.receives = job.receives
          /\ job'.accreditation = job.accreditation /\ job'.sites = job.sites
          /\ job'.left = job.left \ {r}
      BY <1>1, <1>7, <2>1
    <2> QED
      BY <1>2, <2>2 DEF NoJob
  <1>9. s.row = r /\ s.data = CoerceStoredTonnages(upload[r])
    BY <1>5 DEF ProjectSummaryLogRowState
  <1>10. /\ \A i \in DOMAIN rowStates : i \in DOMAIN rowStates' /\ rowStates'[i].state = rowStates[i].state
         /\ \A i \in DOMAIN rowStates : rowStates[i].summaryLogIds \subseteq rowStates'[i].summaryLogIds
         /\ \A i \in DOMAIN rowStates' : \A m :
              m \in rowStates'[i].summaryLogIds =>
                \/ i \in DOMAIN rowStates /\ m \in rowStates[i].summaryLogIds
                \/ i = k /\ m = l
         /\ rowStates'[k].state = s /\ l \in rowStates'[k].summaryLogIds
    BY <1>7 DEF Upserted
  <1>11. AloneSubmits' /\ Baselines'
    BY <1>1, <1>2, <1>8 DEF RowInv, AloneSubmits, Baselines, BaselineOf, HasFile, LatestSubmitted
  <1>12. SameContext'
    BY <1>1, <1>6, <1>8 DEF SameContext
  <1>13. OnlySubmitted'
    <2>1. logs[l].status \in {"submitting", "submitted"}
      BY <1>1, <1>2 DEF RowInv, TypeInv, Working
    <2>2. ~ Untouched'
      BY <1>8 DEF Untouched
    <2>3. FirstTry' => FirstTry
      BY <1>8, <1>1 DEF FirstTry
    <2>4. \A i \in DOMAIN rowStates' : \A m \in rowStates'[i].summaryLogIds :
            logs[m].status \in {"submitting", "submitted"}
      BY <1>10, <2>1 DEF RowInv, OfCommand, OnlySubmitted
    <2> QED
      BY <1>1, <1>2, <1>8, <2>2, <2>3, <2>4 DEF RowInv, OfCommand, OnlySubmitted
  <1>14. Written'
    <2>1. ASSUME NEW i \in DOMAIN rowStates', l \in rowStates'[i].summaryLogIds
          PROVE  /\ rowStates'[i].state.row \in DOMAIN upload
                 /\ rowStates'[i].state
                      = ProjectSummaryLogRowState(template, rowStates'[i].state.row,
                                                  upload[rowStates'[i].state.row],
                                                  context.accreditation, context.sites)
      <3>1. CASE i \in DOMAIN rowStates /\ l \in rowStates[i].summaryLogIds
        BY <1>1, <1>2, <1>3, <1>10, <3>1 DEF RowInv, OfCommand, Written
      <3>2. CASE i = k
        BY <1>5, <1>7, <1>9, <1>10, <3>2
      <3> QED
        BY <1>10, <2>1, <3>1, <3>2
    <2>2. ASSUME NEW i \in DOMAIN rowStates', l \in rowStates'[i].summaryLogIds,
                 NEW j \in DOMAIN rowStates', l \in rowStates'[j].summaryLogIds,
                 rowStates'[j].state.row = rowStates'[i].state.row
          PROVE  j = i
      <3>1. rowStates'[j].state = rowStates'[i].state
        BY <2>1, <2>2
      <3> QED
        BY <3>1 DEF TypeInv, Distinct
    <2>3. ASSUME NEW i \in DOMAIN rowStates', NEW m \in rowStates'[i].summaryLogIds, m # l
          PROVE  /\ rowStates'[i].state.row \in DOMAIN logs[m].upload
                 /\ rowStates'[i].state.data = CoerceStoredTonnages(logs[m].upload[rowStates'[i].state.row])
                 /\ \A j \in DOMAIN rowStates' :
                      m \in rowStates'[j].summaryLogIds
                      /\ rowStates'[j].state.row = rowStates'[i].state.row => j = i
      <3>1. /\ i \in DOMAIN rowStates /\ m \in rowStates[i].summaryLogIds
            /\ \A j \in DOMAIN rowStates' : m \in rowStates'[j].summaryLogIds =>
                 j \in DOMAIN rowStates /\ m \in rowStates[j].summaryLogIds
        BY <1>10, <2>3
      <3> QED
        BY <1>10, <3>1 DEF RowInv, OfCommand, Written
    <2>4. ASSUME NEW i \in DOMAIN rowStates', l \in rowStates'[i].summaryLogIds
          PROVE  rowStates'[i].state.data = CoerceStoredTonnages(upload[rowStates'[i].state.row])
      <3>1. PICK q : q = rowStates'[i].state.row
        OBVIOUS
      <3>2. rowStates'[i].state = ProjectSummaryLogRowState(template, q, upload[q],
                                                            context.accreditation, context.sites)
        BY <2>1, <2>4, <3>1
      <3>3. ProjectSummaryLogRowState(template, q, upload[q], context.accreditation,
                                      context.sites).data = CoerceStoredTonnages(upload[q])
        BY DEF ProjectSummaryLogRowState
      <3> QED
        BY <3>1, <3>2, <3>3
    <2>5. logs' = logs /\ job'.log = l /\ template' = template /\ context' = context
      BY <1>1, <1>8
    <2> QED
      BY <1>3, <2>1, <2>2, <2>3, <2>4, <2>5 DEF Written
  <1>15. Complete'
    <2>1. \A m, q : Stored(m, q) => Stored(m, q)'
      BY <1>10 DEF Stored
    <2>2. Stored(l, r)'
      BY <1>7, <1>9, <1>10 DEF Stored
    <2> QED
      BY <1>1, <1>2, <1>8, <2>1, <2>2 DEF RowInv, OfCommand, Complete
  <1>16. EventsRecorded'
    BY <1>1, <1>2, <1>8 DEF RowInv, OfCommand, EventsRecorded, WillRecord
  <1>17. OfStores'
    BY <1>1 DEF RowInv, OfStores, SubmittedOnce, HeadIsLatest, Recorded, Continues, BaselineOf,
                LatestSubmitted, RowsNeverRemoved
  <1> QED
    BY <1>11, <1>12, <1>13, <1>14, <1>15, <1>16, <1>17 DEF RowInv, OfCommand

LEMMA CommitKeepsRows ==
  ASSUME RowInv, TypeInv', CommitLedger
  PROVE  RowInv'
  <1>1. /\ job # NoJob /\ job.step = "upsert" /\ job.left = {}
        /\ UNCHANGED <<template, context, contexts, reports, logs, submissions, rowStates>>
    BY DEF CommitLedger, AtStep, NoJob
  <1>2. PICK l \in Logs : l = job.log /\ logs[l].status = "submitting"
    BY <1>1, CommandTyped DEF RowInv
  <1>3. job.accreditation = context.accreditation /\ job.sites = context.sites
    BY <1>1 DEF RowInv, OfCommand, SameContext
  <1>4. /\ job' # NoJob /\ job'.log = l /\ job'.step = "flag" /\ job'.receives = job.receives
        /\ job'.accreditation = job.accreditation /\ job'.sites = job.sites
    <2>1. job \in [step : {"upsert", "flag", "finish"}, log : Logs, receives : Nat \ {0},
                   accreditation : AccreditationsOf(template), sites : SitesOf(template),
                   left : SUBSET RowsOf(template)]
      BY <1>1 DEF RowInv, TypeInv, StoresTyped, Jobs
    <2>2. /\ job'.log = job.log /\ job'.step = "flag" /\ job'.receives = job.receives
          /\ job'.accreditation = job.accreditation /\ job'.sites = job.sites
      BY <2>1 DEF CommitLedger
    <2> QED
      BY <1>2, <2>2 DEF NoJob
  <1>5. \A r \in DOMAIN logs[l].upload : Stored(l, r)
    BY <1>1, <1>2 DEF RowInv, OfCommand, Complete
  <1>6. /\ Len(ledger) \in Nat /\ DOMAIN ledger = 1..Len(ledger)
        /\ Len(ledger') \in Nat /\ DOMAIN ledger' = 1..Len(ledger')
    <2>1. TypeInv' => (/\ Len(ledger) \in Nat /\ DOMAIN ledger = 1..Len(ledger)
                       /\ \A i \in DOMAIN ledger : ledger[i].log \in Logs /\ ledger[i].creditTotal \in Int
                       /\ ledger # <<>> => Len(ledger) \in DOMAIN ledger)'
      BY EventsTyped, PTL
    <2> QED
      BY <2>1, EventsTyped DEF RowInv
  <1>7. \/ ~ WillRecord /\ ledger' = ledger
        \/ /\ WillRecord /\ Len(ledger') = Len(ledger) + 1 /\ ledger'[Len(ledger')].log = l
           /\ \A i \in DOMAIN ledger : ledger'[i] = ledger[i]
    <2>1. PICK total : total = IF job.accreditation = NONE THEN 0
                               ELSE CreditTotal(logs[job.log].upload, job.accreditation, job.sites)
      OBVIOUS
    <2>2. PICK e : e = [log |-> l, creditTotal |-> total]
      OBVIOUS
    <2>3. ledger' = IF job.accreditation # NONE /\ DOMAIN logs[job.log].upload = {} THEN ledger
                    ELSE Append(ledger, e)
      BY <1>2, <2>1, <2>2 DEF CommitLedger
    <2>4. PICK E : ledger \in Seq(E)
      BY DEF RowInv, TypeInv, StoresTyped
    <2>5. e.log = l
      BY <2>2
    <2> QED
      BY <1>2, <1>3, <2>3, <2>4, <2>5 DEF WillRecord
  <1>8. WillRecord' = WillRecord
    BY <1>1, <1>2, <1>4 DEF WillRecord
  <1>9. WillRecord => ledger' # <<>> /\ HeadLog(ledger') = l /\ HeadLog(ledger)' = l
    <2>1. WillRecord => ledger' # <<>>
      BY <1>6, <1>7
    <2>2. (TypeInv /\ ledger # <<>>)' =>
            (/\ HeadLog(ledger) = ledger[Len(ledger)].log /\ Len(ledger) \in DOMAIN ledger
             /\ HeadLog(ledger) \in Logs)'
      BY HeadOf, PTL
    <2> QED
      BY <1>7, <2>1, <2>2
  <1>10. \A i \in DOMAIN ledger' :
           \/ i \in DOMAIN ledger /\ ledger'[i] = ledger[i]
           \/ WillRecord /\ i = Len(ledger') /\ ledger'[i].log = l
    <2> SUFFICES ASSUME NEW i \in DOMAIN ledger'
                 PROVE  \/ i \in DOMAIN ledger /\ ledger'[i] = ledger[i]
                        \/ WillRecord /\ i = Len(ledger') /\ ledger'[i].log = l
      OBVIOUS
    <2>1. CASE ledger' = ledger
      BY <2>1
    <2>2. CASE /\ WillRecord /\ Len(ledger') = Len(ledger) + 1 /\ ledger'[Len(ledger')].log = l
               /\ \A k \in DOMAIN ledger : ledger'[k] = ledger[k]
      <3>1. i \in DOMAIN ledger \/ i = Len(ledger')
        BY <1>6, <2>2
      <3> QED
        BY <2>2, <3>1
    <2> QED
      BY <1>7, <2>1, <2>2
  <1>11. AloneSubmits' /\ Baselines'
    BY <1>1, <1>2, <1>4 DEF RowInv, AloneSubmits, Baselines, BaselineOf, HasFile, LatestSubmitted
  <1>12. SameContext'
    BY <1>1, <1>3, <1>4 DEF SameContext
  <1>13. OnlySubmitted'
    <2>1. ~ Untouched' /\ ~ FirstTry'
      BY <1>4 DEF Untouched, FirstTry
    <2>2. \A i \in DOMAIN ledger' : logs[ledger'[i].log].status \in {"submitting", "submitted"}
      BY <1>2, <1>10 DEF RowInv, OfCommand, OnlySubmitted
    <2> QED
      BY <1>1, <2>1, <2>2 DEF RowInv, OfCommand, OnlySubmitted
  <1>14. Written'
    BY <1>1, <1>2, <1>4 DEF RowInv, OfCommand, Written
  <1>15. Complete'
    <2>1. \A m, q : Stored(m, q)' <=> Stored(m, q)
      BY <1>1 DEF Stored
    <2>2. \A i \in DOMAIN ledger' : \A r \in DOMAIN logs[ledger'[i].log].upload : Stored(ledger'[i].log, r)
      BY <1>5, <1>10 DEF RowInv, OfCommand, Complete
    <2> QED
      BY <1>1, <1>4, <1>5, <2>1, <2>2 DEF Complete
  <1>16. EventsRecorded'
    <2>1. \A i \in DOMAIN ledger' : ledger'[i].log = l => WillRecord
      BY <1>1, <1>2, <1>10 DEF RowInv, OfCommand, EventsRecorded
    <2> QED
      BY <1>4, <1>8, <1>9, <2>1 DEF EventsRecorded
  <1>17. OfStores'
    <2>1. SubmittedOnce'
      BY <1>1 DEF RowInv, OfStores, SubmittedOnce
    <2>2. HeadIsLatest' /\ Continues'
      <3>1. CASE WillRecord
        <4>1. ledger' # <<>> /\ logs'[HeadLog(ledger)'].status = "submitting"
          BY <1>1, <1>2, <1>9, <3>1
        <4> QED
          BY <4>1 DEF HeadIsLatest, Continues
      <3>2. CASE ~ WillRecord
        <4>1. ledger' = ledger
          BY <1>7, <3>2
        <4> QED
          BY <1>1, <4>1 DEF RowInv, OfStores, HeadIsLatest, Recorded, Continues, BaselineOf,
                            LatestSubmitted
      <3> QED
        BY <3>1, <3>2
    <2>3. RowsNeverRemoved'
      <3>1. \A i \in DOMAIN ledger : DOMAIN logs[ledger[i].log].upload \subseteq DOMAIN logs[l].upload
        <4> SUFFICES ASSUME NEW i \in DOMAIN ledger
                     PROVE  DOMAIN logs[ledger[i].log].upload \subseteq DOMAIN logs[l].upload
          OBVIOUS
        <4>1. ledger # <<>> /\ HeadLog(ledger) = ledger[Len(ledger)].log /\ Len(ledger) \in DOMAIN ledger
          BY <1>6, HeadOf DEF RowInv
        <4>2. DOMAIN logs[ledger[i].log].upload \subseteq DOMAIN logs[HeadLog(ledger)].upload
          BY <1>6, <4>1 DEF RowInv, OfStores, RowsNeverRemoved
        <4>3. DOMAIN logs[HeadLog(ledger)].upload \subseteq DOMAIN logs[l].upload
          <5>1. CASE logs[HeadLog(ledger)].status = "submitting"
            BY <1>2, <5>1, HeadOf, <4>1 DEF RowInv, AloneSubmits
          <5>2. CASE logs[HeadLog(ledger)].status # "submitting"
            BY <1>1, <1>2, <4>1, <5>2 DEF RowInv, Baselines, OfStores, Continues
          <5> QED
            BY <5>1, <5>2
        <4> QED
          BY <4>2, <4>3
      <3>2. ASSUME NEW i \in DOMAIN ledger', NEW j \in DOMAIN ledger', i < j
            PROVE  DOMAIN logs[ledger'[i].log].upload \subseteq DOMAIN logs[ledger'[j].log].upload
        <4>1. CASE j \in DOMAIN ledger /\ ledger'[j] = ledger[j]
          <5>1. i \in DOMAIN ledger
            BY <1>6, <3>2, <4>1
          <5>2. ledger'[i] = ledger[i]
            BY <1>7, <5>1
          <5> QED
            BY <3>2, <4>1, <5>1, <5>2 DEF RowInv, OfStores, RowsNeverRemoved
        <4>2. CASE WillRecord /\ j = Len(ledger') /\ ledger'[j].log = l
          BY <1>6, <1>7, <3>1, <3>2, <4>2
        <4> QED
          BY <1>10, <4>1, <4>2
      <3> QED
        BY <1>1, <3>2 DEF RowsNeverRemoved
    <2> QED
      BY <2>1, <2>2, <2>3 DEF OfStores
  <1> QED
    BY <1>11, <1>12, <1>13, <1>14, <1>15, <1>16, <1>17 DEF RowInv, OfCommand

LEMMA FinishKeepsRows ==
  ASSUME RowInv, TypeInv', Finish
  PROVE  RowInv'
  <1>1. /\ job # NoJob /\ job.step = "finish" /\ job' = NoJob
        /\ UNCHANGED <<template, context, reports, ledger, rowStates>>
    BY FinishMoves DEF Finish, RowInv
  <1>2. PICK l \in Logs : l = job.log
    BY FinishMoves DEF RowInv
  <1>3. /\ logs[l].status = "submitting" /\ logs'[l].status = "submitted"
        /\ SameFile(logs[l], logs'[l])
        /\ \A k \in Logs \ {l} : logs'[k] = logs[k] /\ logs[k].status # "submitting"
        /\ logs'[l].submittedUnder.accreditation = context.accreditation
    <2>1. Moves(l, "submitting", "submitted")
      BY <1>2, FinishMoves DEF RowInv
    <2>2. logs'[l].submittedUnder.accreditation = context.accreditation
      BY <1>1, <1>2, FinishMoves DEF RowInv, OfCommand, SameContext
    <2> QED
      BY <1>2, <2>1, <2>2 DEF Moves, FILED, RowInv, AloneSubmits
  <1>4. /\ Len(submissions) \in Nat /\ DOMAIN submissions = 1..Len(submissions)
        /\ submissions' = Append(submissions, l)
        /\ Len(submissions') = Len(submissions) + 1 /\ submissions'[Len(submissions) + 1] = l
        /\ DOMAIN submissions' = 1..(Len(submissions) + 1)
        /\ \A i \in DOMAIN submissions : submissions'[i] = submissions[i]
    <2>1. submissions \in Seq(Logs) /\ submissions' = Append(submissions, l)
      BY <1>2 DEF RowInv, TypeInv, StoresTyped, Finish
    <2> QED
      BY <2>1
  <1>5. \A i \in DOMAIN submissions :
          /\ submissions[i] \in Logs \ {l} /\ logs'[submissions[i]] = logs[submissions[i]]
          /\ logs[submissions[i]].status = "submitted"
    <2>1. \A i \in DOMAIN submissions : submissions[i] \in Logs
      BY LatestOf DEF RowInv
    <2> QED
      BY <1>3, <2>1 DEF RowInv, OfStores, SubmittedOnce
  <1>6. LatestSubmitted' = l
    BY <1>4, LatestOf DEF LatestSubmitted, Last
  <1>7. \A k \in Logs : HasFile(k)' => HasFile(k) /\ logs'[k].baseline = logs[k].baseline
    BY <1>3 DEF HasFile, SameFile, FILED
  <1>8. \A k \in Logs : HasFile(k)' => logs'[k].baseline # l
    <2>1. l \notin Range(submissions) /\ l # NONE
      BY <1>5, RowAssumption DEF Range
    <2> QED
      BY <1>7, <2>1 DEF RowInv, Baselines, BaselineOf
  <1>9. AloneSubmits'
    BY <1>3 DEF AloneSubmits
  <1>10. Baselines'
    <2>1. Range(submissions) \subseteq Range(submissions')
      BY <1>4 DEF Range
    <2> QED
      BY <1>1, <1>7, <2>1 DEF RowInv, Baselines, BaselineOf
  <1>11. /\ \A i \in DOMAIN ledger : /\ ledger[i].log \in Logs
                                    /\ logs'[ledger[i].log].status = "submitted"
                                    /\ logs'[ledger[i].log].upload = logs[ledger[i].log].upload
         /\ \A i \in DOMAIN rowStates : \A k \in rowStates[i].summaryLogIds :
              /\ k \in Logs /\ logs'[k].status = "submitted" /\ logs'[k].upload = logs[k].upload
    <2>1. \A k \in Logs : logs[k].status \in {"submitting", "submitted"} =>
            logs'[k].status = "submitted" /\ logs'[k].upload = logs[k].upload
      BY <1>3 DEF SameFile
    <2> QED
      BY <2>1, EventsTyped, DocumentsTyped DEF RowInv, OfCommand, OnlySubmitted
  <1>12. SameContext' /\ EventsRecorded'
    BY <1>1 DEF SameContext, EventsRecorded, NoJob
  <1>13. OnlySubmitted'
    BY <1>1, <1>11 DEF OnlySubmitted, FirstTry, Untouched, NoJob
  <1>14. Written'
    BY <1>1, <1>11 DEF RowInv, OfCommand, Written
  <1>15. Complete'
    <2>1. \A k, r : Stored(k, r)' <=> Stored(k, r)
      BY <1>1 DEF Stored
    <2> QED
      BY <1>1, <1>11, <2>1 DEF RowInv, OfCommand, Complete, NoJob
  <1>16. SubmittedOnce'
    BY <1>3, <1>4, <1>5 DEF RowInv, OfStores, SubmittedOnce
  <1>17. HeadIsLatest'
    <2> PICK n : n = Len(submissions) + 1
      OBVIOUS
    <2> DEFINE recorded == {i \in DOMAIN submissions : Recorded(submissions[i])}
    <2>1. \A i \in DOMAIN submissions : Recorded(submissions[i])' = Recorded(submissions[i])
      BY <1>4, <1>5 DEF Recorded
    <2>2. Recorded(submissions[n])' <=> WillRecord
      BY <1>2, <1>3, <1>4 DEF Recorded, WillRecord, SameFile
    <2>3. {i \in DOMAIN submissions : Recorded(submissions[i])}'
            = IF WillRecord THEN recorded \cup {n} ELSE recorded
      BY <1>4, <2>1, <2>2
    <2>4. CASE WillRecord
      <3>1. ledger # <<>> /\ HeadLog(ledger) = l
        BY <1>1, <1>2, <2>4 DEF RowInv, OfCommand, EventsRecorded
      <3>2. \A j \in recorded \cup {n} : j <= n
        BY <1>4
      <3> QED
        BY <1>1, <1>4, <2>3, <2>4, <3>1, <3>2 DEF HeadIsLatest
    <2>5. CASE ~ WillRecord
      <3>1. \A i \in DOMAIN ledger : ledger[i].log # l
        BY <1>1, <1>2, <2>5 DEF RowInv, OfCommand, EventsRecorded
      <3>2. ledger # <<>> => HeadLog(ledger) \in Logs /\ HeadLog(ledger) # l
        BY <3>1, HeadOf DEF RowInv
      <3>3. ledger # <<>> => logs[HeadLog(ledger)].status # "submitting"
        BY <1>3, <3>2
      <3>4. \A i \in recorded : submissions'[i] = submissions[i]
        BY <1>4
      <3> QED
        BY <1>1, <2>3, <2>5, <3>3, <3>4 DEF RowInv, OfStores, HeadIsLatest
    <2> QED
      BY <2>4, <2>5
  <1>18. Continues'
    BY <1>6, <1>8 DEF Continues, BaselineOf, HasFile, FILED
  <1>19. RowsNeverRemoved'
    BY <1>1, <1>11 DEF RowInv, OfStores, RowsNeverRemoved
  <1> QED
    BY <1>9, <1>10, <1>12, <1>13, <1>14, <1>15, <1>16, <1>17, <1>18, <1>19
    DEF RowInv, OfCommand, OfStores

LEMMA StepKeepsRows ==
  ASSUME Crashing, RowInv, [Next]_vars
  PROVE  RowInv'
  <1>1. TypeInv'
    BY StepTyped DEF RowInv
  <1>2. ASSUME NEW l \in Logs, Confirm(l) PROVE RowInv'
    <2>1. /\ job = NoJob
          /\ \/ /\ Moves(l, "validated", "submitting") /\ logs[l].baseline = LatestSubmitted
                /\ job' = [step |-> "checkReports", log |-> l, receives |-> 1]
             \/ Moves(l, "validated", "superseded") /\ job' = job
      BY <1>2, ConfirmMoves DEF RowInv
    <2> QED
      BY <1>1, <1>2, <2>1, ConfirmKeepsRows, SupersedeKeepsRows
  <1> QED
    BY <1>1, <1>2, UploadKeepsRows, ValidateKeepsRows, ClassifyKeepsRows,
       CheckReportsKeepsRows, ReadContextKeepsRows, UpsertKeepsRows, CommitKeepsRows,
       FlagKeepsRows, FinishKeepsRows, CrashKeepsRows, EnvironmentKeepsRows DEF Next

LEMMA AlwaysRows ==
  ASSUME Crashing PROVE Spec => []RowInv
  BY InitRows, StepKeepsRows, PTL DEF Spec

(* Where a crash is all that disturbs a submission: the states that the    *)
(* readers find at the ledger's head (summaryLogRowStatesForRegistration)  *)
(* are the rows of one file, one state to a row, and that file is the      *)
(* latest submitted, however often the command was executed.               *)
THEOREM HeadIsTheLatestUpload ==
  ASSUME Crashing PROVE Spec => []HeadIsLatestUpload
  BY AlwaysRows, HeadIsLatestHolds, PTL

(* row-continuity.js, of every later submission and not only of the one    *)
(* validated against: no row that is in the ledger's past is missing from  *)
(* a log in its future, though logs are validated while others are worked. *)
THEOREM NoRowIsEverRemoved ==
  ASSUME Crashing PROVE Spec => []RowsNeverRemoved
  <1>1. RowInv => RowsNeverRemoved
    BY DEF RowInv, OfStores
  <1> QED
    BY <1>1, AlwaysRows, PTL

-----------------------------------------------------------------------------
(* What was credited, and under which context.                             *)

(* What a log's rows are worth under a context.                            *)
Worth(l, a, sites) == SumOf(Targets(logs[l].upload, a, sites), DOMAIN logs[l].upload)

WorthSubmitted(l) == Worth(l, logs[l].submittedUnder.accreditation, logs[l].submittedUnder.sites)

(* A document of a submitted log is the projection for the context it was  *)
(* submitted under.                                                        *)
WrittenUnder ==
  \A i \in DOMAIN rowStates : \A l \in rowStates[i].summaryLogIds :
    logs[l].status = "submitted" =>
      rowStates[i].state =
        ProjectSummaryLogRowState(template, rowStates[i].state.row,
                                  logs[l].upload[rowStates[i].state.row],
                                  logs[l].submittedUnder.accreditation,
                                  logs[l].submittedUnder.sites)

(* Every event credits what the rows of its log are worth.                 *)
CreditedWorth ==
  \A i \in DOMAIN ledger :
    /\ logs[ledger[i].log].status = "submitted" =>
         ledger[i].creditTotal = WorthSubmitted(ledger[i].log)
    /\ job # NoJob /\ ledger[i].log = job.log =>
         ledger[i].creditTotal = Worth(job.log, context.accreditation, context.sites)

(* What a log was submitted under the registration once had.               *)
UnderKnown ==
  \A l \in Logs : logs[l].status = "submitted" =>
    logs[l].submittedUnder.accreditation \in Accreditations \cup {NONE}

CreditInv == WrittenUnder /\ CreditedWorth /\ UnderKnown

LEMMA ContextKnown ==
  ASSUME TypeInv PROVE context.accreditation \in Accreditations \cup {NONE}
  BY DEF TypeInv, ContextTyped, ContextsOf

LEMMA InitCredit ==
  ASSUME Init PROVE CreditInv
  BY DEF Init, CreditInv, WrittenUnder, CreditedWorth, UnderKnown, NoLog

(* What has been submitted stays as it is, and the stores with it.         *)
LEMMA StoresCredit ==
  ASSUME RowInv, CreditInv, UNCHANGED <<template, ledger, rowStates>>,
         \A k \in Logs : logs'[k].status = "submitted" => logs'[k] = logs[k],
         \A i \in DOMAIN ledger : job' # NoJob /\ ledger[i].log = job'.log =>
           /\ job # NoJob /\ job.log = job'.log /\ context' = context
           /\ logs'[job.log].upload = logs[job.log].upload
  PROVE  CreditInv'
  <1>1. /\ \A i \in DOMAIN ledger : ledger[i].log \in Logs
        /\ \A i \in DOMAIN rowStates : rowStates[i].summaryLogIds \subseteq Logs
    BY EventsTyped, DocumentsTyped DEF RowInv
  <1>2. WrittenUnder'
    BY <1>1 DEF CreditInv, WrittenUnder
  <1>3. CreditedWorth'
    <2> SUFFICES ASSUME NEW i \in DOMAIN ledger
                 PROVE  /\ logs'[ledger[i].log].status = "submitted" =>
                             ledger[i].creditTotal = WorthSubmitted(ledger[i].log)'
                        /\ job' # NoJob /\ ledger[i].log = job'.log =>
                             ledger[i].creditTotal = Worth(job.log, context.accreditation, context.sites)'
      BY DEF CreditedWorth
    <2>1. ASSUME logs'[ledger[i].log].status = "submitted"
          PROVE  ledger[i].creditTotal = WorthSubmitted(ledger[i].log)'
      <3>1. logs'[ledger[i].log] = logs[ledger[i].log]
        BY <1>1, <2>1
      <3>2. WorthSubmitted(ledger[i].log)' = WorthSubmitted(ledger[i].log)
        BY <3>1 DEF WorthSubmitted, Worth, Targets, ClassifyWasteRecord
      <3> QED
        BY <2>1, <3>1, <3>2 DEF CreditInv, CreditedWorth
    <2>2. ASSUME job' # NoJob, ledger[i].log = job'.log
          PROVE  ledger[i].creditTotal = Worth(job.log, context.accreditation, context.sites)'
      <3>1. /\ job # NoJob /\ job.log = job'.log /\ context' = context
            /\ logs'[job.log].upload = logs[job.log].upload
        BY <2>2
      <3>2. Worth(job.log, context.accreditation, context.sites)'
              = Worth(job.log, context.accreditation, context.sites)
        BY <3>1 DEF Worth, Targets, ClassifyWasteRecord
      <3> QED
        BY <2>2, <3>1, <3>2 DEF CreditInv, CreditedWorth
    <2> QED
      BY <2>1, <2>2
  <1> QED
    BY <1>2, <1>3 DEF CreditInv, UnderKnown

LEMMA LogStepKeepsCredit ==
  ASSUME RowInv, CreditInv, NEW l \in Logs,
         Upload(l) \/ Validate(l) \/ ClassifyAndPersist(l) \/ Confirm(l)
  PROVE  CreditInv'
  <1>1. UNCHANGED <<template, ledger, rowStates, context>> /\ (job' = job \/ Confirm(l))
    BY DEF Upload, Validate, ClassifyAndPersist, Confirm
  <1>2. /\ logs[l].status \notin Settling /\ logs'[l].status # "submitted"
        /\ \A k \in Logs \ {l} : logs'[k] = logs[k]
    BY UploadMoves, ValidateMoves, ClassifyMoves, ConfirmMoves DEF Moves, RowInv, Settling
  <1>3. \A i \in DOMAIN ledger : ledger[i].log # l
    BY <1>2, UnsettledUnseen DEF Unseen
  <1>4. \A i \in DOMAIN ledger : job' # NoJob /\ ledger[i].log = job'.log =>
           /\ job # NoJob /\ job.log = job'.log /\ context' = context
           /\ logs'[job.log].upload = logs[job.log].upload
    <2> SUFFICES ASSUME NEW i \in DOMAIN ledger, job' # NoJob, ledger[i].log = job'.log
                 PROVE  /\ job # NoJob /\ job.log = job'.log /\ context' = context
                        /\ logs'[job.log].upload = logs[job.log].upload
      OBVIOUS
    <2>1. job' = job
      BY <1>1, <1>3, ConfirmMoves DEF RowInv
    <2>2. ledger[i].log \in Logs \ {l}
      BY <1>3, EventsTyped DEF RowInv
    <2> QED
      BY <1>1, <1>2, <2>1, <2>2
  <1>5. \A k \in Logs : logs'[k].status = "submitted" => logs'[k] = logs[k]
    BY <1>2
  <1> QED
    BY <1>1, <1>4, <1>5, StoresCredit

LEMMA CommandStepKeepsCredit ==
  ASSUME RowInv, CreditInv, CheckReports \/ ReadContext \/ Flag \/ Crash
  PROVE  CreditInv'
  <1>1. UNCHANGED <<template, ledger, rowStates, context>> /\ (logs' = logs \/ CheckReports)
    BY DEF CheckReports, ReadContext, Flag, Crash
  <1>2. job # NoJob /\ job.log \in Logs
    BY CommandTyped DEF CheckReports, ReadContext, Flag, Crash, AtStep, NoJob, RowInv
  <1>3. job' # NoJob => job'.log = job.log
    <2>1. CASE CheckReports
      BY <2>1, CheckReportsMoves DEF RowInv
    <2>2. CASE ReadContext \/ Crash
      BY <2>2 DEF ReadContext, Crash
    <2>3. CASE Flag
      <3>1. job' = [job EXCEPT !.step = "finish"] /\ job.step = "flag"
        BY <2>3 DEF Flag, AtStep
      <3>2. job \in [step : {"upsert", "flag", "finish"}, log : Logs, receives : Nat \ {0},
                     accreditation : AccreditationsOf(template), sites : SitesOf(template),
                     left : SUBSET RowsOf(template)]
        BY <3>1 DEF RowInv, TypeInv, StoresTyped, Jobs, NoJob
      <3> QED
        BY <3>1, <3>2
    <2> QED
      BY <2>1, <2>2, <2>3
  <1>4. job' # NoJob => logs' = logs
    BY <1>1, CheckReportsMoves DEF RowInv
  <1>5. \A k \in Logs : logs'[k].status = "submitted" => logs'[k] = logs[k]
    BY <1>1, CheckReportsMoves DEF Moves, RowInv
  <1> QED
    BY <1>1, <1>2, <1>3, <1>4, <1>5, StoresCredit

LEMMA EnvironmentKeepsCredit ==
  ASSUME Crashing, RowInv, CreditInv, SubmitReport \/ ChangeContext \/ UNCHANGED vars
  PROVE  CreditInv'
  <1>1. UNCHANGED <<template, logs, ledger, rowStates, job>>
    BY DEF SubmitReport, ChangeContext, vars
  <1>2. context' = context \/ job = NoJob
    BY DEF SubmitReport, ChangeContext, Crashing, vars
  <1> QED
    BY <1>1, <1>2, StoresCredit

(* A document gains the log worked, or is new and of no other.             *)
LEMMA UpsertKeepsCredit ==
  ASSUME RowInv, CreditInv, UpsertRow
  PROVE  CreditInv'
  <1>1. /\ UNCHANGED <<template, context, logs, ledger>>
        /\ job # NoJob /\ job.step = "upsert" /\ job.log \in Logs
        /\ logs[job.log].status = "submitting"
    BY UpsertRowUpserts, CommandTyped DEF UpsertRow, RowInv
  <1>2. PICK l \in Logs : l = job.log
    BY <1>1
  <1>3. PICK s, k : k \in DOMAIN rowStates' /\ Upserted(s, l, k)
    BY <1>2, UpsertRowUpserts DEF RowInv
  <1>4. job' # NoJob /\ job'.log = l
    <2>1. PICK r : job' = [job EXCEPT !.left = @ \ {r}]
      BY UpsertRowUpserts DEF RowInv
    <2>2. job \in [step : {"upsert", "flag", "finish"}, log : Logs, receives : Nat \ {0},
                   accreditation : AccreditationsOf(template), sites : SitesOf(template),
                   left : SUBSET RowsOf(template)]
      BY <1>1 DEF RowInv, TypeInv, StoresTyped, Jobs
    <2>3. job'.log = job.log /\ job'.step = "upsert"
      BY <1>1, <2>1, <2>2
    <2> QED
      BY <1>2, <2>3 DEF NoJob
  <1>5. WrittenUnder'
    <2> SUFFICES ASSUME NEW i \in DOMAIN rowStates', NEW m \in rowStates'[i].summaryLogIds,
                        logs[m].status = "submitted"
                 PROVE  rowStates'[i].state =
                          ProjectSummaryLogRowState(template, rowStates'[i].state.row,
                                                    logs[m].upload[rowStates'[i].state.row],
                                                    logs[m].submittedUnder.accreditation,
                                                    logs[m].submittedUnder.sites)
      BY <1>1 DEF WrittenUnder
    <2>1. m # l
      BY <1>1, <1>2
    <2>2. /\ i \in DOMAIN rowStates /\ rowStates'[i].state = rowStates[i].state
          /\ m \in rowStates[i].summaryLogIds
      BY <1>3, <2>1 DEF Upserted
    <2> QED
      BY <2>2 DEF CreditInv, WrittenUnder
  <1>6. CreditedWorth'
    <2>1. \A m, a, sites : Worth(m, a, sites)' = Worth(m, a, sites)
      BY <1>1 DEF Worth, Targets, ClassifyWasteRecord
    <2>2. \A m : WorthSubmitted(m)' = WorthSubmitted(m)
      BY <1>1 DEF WorthSubmitted, Worth, Targets, ClassifyWasteRecord
    <2>3. Worth(job.log, context.accreditation, context.sites)'
            = Worth(job.log, context.accreditation, context.sites)
      BY <1>1, <1>2, <1>4 DEF Worth, Targets, ClassifyWasteRecord
    <2> QED
      BY <1>1, <1>2, <1>4, <2>2, <2>3 DEF CreditInv, CreditedWorth
  <1> QED
    BY <1>1, <1>5, <1>6 DEF CreditInv, UnderKnown

(* Without an accreditation nothing is worth anything.                     *)
LEMMA NothingWorth ==
  ASSUME NEW upload, IsFiniteSet(DOMAIN upload), NEW sites
  PROVE  SumOf(Targets(upload, NONE, sites), DOMAIN upload) = 0
  <1>1. PICK f, D : f = Targets(upload, NONE, sites) /\ D = DOMAIN upload
    OBVIOUS
  <1>2. \A r \in D : f[r] = 0
    BY <1>1 DEF Targets, ClassifyWasteRecord, ClassifyRecordForWasteBalance, GetTargetAmount,
                Without, INCLUDED, NOT_APPLICABLE
  <1>3. SumOf(f, D) = 0
    BY <1>1, <1>2, SumOfZeros
  <1> QED
    BY <1>1, <1>3

LEMMA FileTyped ==
  ASSUME TypeInv, NEW upload \in Uploads(template)
  PROVE  /\ IsFiniteSet(DOMAIN upload) /\ DOMAIN upload \subseteq RowsOf(template)
         /\ \A r \in DOMAIN upload : IsRowData(upload[r]) /\ HasItsDates(r.type, upload[r])
  <1>1. /\ template \in DOMAIN Contents /\ DOMAIN upload \subseteq RowsOf(template)
        /\ \A r \in DOMAIN upload : upload[r] \in Contents[template][r]
    BY DEF TypeInv, ContextTyped, Uploads
  <1> QED
    BY <1>1, RowAssumption, FS_Subset

LEMMA CommitKeepsCredit ==
  ASSUME RowInv, CreditInv, CommitLedger
  PROVE  CreditInv'
  <1>1. /\ job # NoJob /\ job.step = "upsert"
        /\ UNCHANGED <<template, context, logs, rowStates>>
    BY DEF CommitLedger, AtStep, NoJob
  <1>2. PICK l \in Logs : l = job.log /\ logs[l].status = "submitting"
                          /\ logs[l].upload \in Uploads(template)
    BY <1>1, CommandTyped DEF RowInv
  <1>3. PICK upload, a, sites :
          upload = logs[l].upload /\ a = context.accreditation /\ sites = context.sites
    OBVIOUS
  <1>4. job.accreditation = a /\ job.sites = sites
    BY <1>1, <1>3 DEF RowInv, OfCommand, SameContext
  <1>5. job' # NoJob /\ job'.log = l
    <2>1. job \in [step : {"upsert", "flag", "finish"}, log : Logs, receives : Nat \ {0},
                   accreditation : AccreditationsOf(template), sites : SitesOf(template),
                   left : SUBSET RowsOf(template)]
      BY <1>1 DEF RowInv, TypeInv, StoresTyped, Jobs
    <2>2. job'.log = job.log /\ job'.step = "flag"
      BY <2>1 DEF CommitLedger
    <2> QED
      BY <1>2, <2>2 DEF NoJob
  <1>6. PICK total : total = IF a = NONE THEN 0 ELSE CreditTotal(upload, a, sites)
    OBVIOUS
  <1>7. total = Worth(l, a, sites)
    <2>1. IsFiniteSet(DOMAIN upload)
      BY <1>2, <1>3, FileTyped DEF RowInv
    <2>2. Worth(l, a, sites) = SumOf(Targets(upload, a, sites), DOMAIN upload)
      BY <1>3 DEF Worth
    <2>3. CASE a = NONE
      BY <1>6, <2>1, <2>2, <2>3, NothingWorth
    <2>4. CASE a # NONE
      BY <1>6, <2>1, <2>2, <2>4, CreditIsSum
    <2> QED
      BY <2>3, <2>4
  <1>8. ledger' = ledger \/ ledger' = Append(ledger, [log |-> l, creditTotal |-> total])
    BY <1>2, <1>3, <1>4, <1>6 DEF CommitLedger
  <1>9. \A i \in DOMAIN ledger' :
          \/ i \in DOMAIN ledger /\ ledger'[i] = ledger[i]
          \/ ledger'[i].log = l /\ ledger'[i].creditTotal = total
    <2>1. PICK e : e = [log |-> l, creditTotal |-> total]
      OBVIOUS
    <2>2. e.log = l /\ e.creditTotal = total /\ (ledger' = ledger \/ ledger' = Append(ledger, e))
      BY <1>8, <2>1
    <2>3. PICK E : E = [log : Logs, creditTotal : Int] /\ ledger \in Seq(E)
      BY DEF RowInv, TypeInv, StoresTyped
    <2> HIDE <2>1, <1>8
    <2>4. CASE ledger' = Append(ledger, e)
      BY <2>2, <2>3, <2>4
    <2> QED
      BY <2>2, <2>4
  <1>10. WrittenUnder'
    BY <1>1 DEF CreditInv, WrittenUnder
  <1>11. CreditedWorth'
    <2>1. \A m, b, others : Worth(m, b, others)' = Worth(m, b, others)
      BY <1>1 DEF Worth, Targets, ClassifyWasteRecord
    <2>2. \A m : WorthSubmitted(m)' = WorthSubmitted(m)
      BY <1>1 DEF WorthSubmitted, Worth, Targets, ClassifyWasteRecord
    <2>3. Worth(job.log, context.accreditation, context.sites)' = Worth(l, a, sites)
      BY <1>1, <1>2, <1>3, <1>5 DEF Worth, Targets, ClassifyWasteRecord
    <2> SUFFICES ASSUME NEW i \in DOMAIN ledger'
                 PROVE  /\ logs[ledger'[i].log].status = "submitted" =>
                             ledger'[i].creditTotal = WorthSubmitted(ledger'[i].log)
                        /\ ledger'[i].log = l => ledger'[i].creditTotal = Worth(l, a, sites)
      BY <1>1, <1>5, <2>2, <2>3 DEF CreditedWorth
    <2>4. CASE i \in DOMAIN ledger /\ ledger'[i] = ledger[i]
      BY <1>1, <1>2, <1>3, <2>4 DEF CreditInv, CreditedWorth
    <2>5. CASE ledger'[i].log = l /\ ledger'[i].creditTotal = total
      BY <1>2, <1>7, <2>5
    <2> QED
      BY <1>9, <2>4, <2>5
  <1> QED
    BY <1>1, <1>10, <1>11 DEF CreditInv, UnderKnown

LEMMA FinishKeepsCredit ==
  ASSUME RowInv, CreditInv, Finish
  PROVE  CreditInv'
  <1>1. /\ job # NoJob /\ job.step = "finish" /\ job' = NoJob
        /\ UNCHANGED <<template, context, ledger, rowStates>>
    BY FinishMoves DEF Finish, RowInv
  <1>2. PICK l \in Logs : l = job.log
    BY FinishMoves DEF RowInv
  <1>3. /\ logs[l].status = "submitting" /\ logs'[l].upload = logs[l].upload
        /\ \A k \in Logs \ {l} : logs'[k] = logs[k]
        /\ logs'[l].submittedUnder.accreditation = context.accreditation
        /\ logs'[l].submittedUnder.sites = context.sites
    <2>1. Moves(l, "submitting", "submitted")
      BY <1>2, FinishMoves DEF RowInv
    <2>2. /\ logs'[l].submittedUnder.accreditation = context.accreditation
          /\ logs'[l].submittedUnder.sites = context.sites
      BY <1>1, <1>2, FinishMoves DEF RowInv, OfCommand, SameContext
    <2> QED
      BY <2>1, <2>2 DEF Moves, FILED, SameFile
  <1>4. /\ \A i \in DOMAIN ledger : ledger[i].log \in Logs
        /\ \A i \in DOMAIN rowStates : rowStates[i].summaryLogIds \subseteq Logs
    BY EventsTyped, DocumentsTyped DEF RowInv
  <1>5. WrittenUnder'
    <2> SUFFICES ASSUME NEW i \in DOMAIN rowStates, NEW m \in rowStates[i].summaryLogIds,
                        logs'[m].status = "submitted"
                 PROVE  rowStates[i].state =
                          ProjectSummaryLogRowState(template, rowStates[i].state.row,
                                                    logs'[m].upload[rowStates[i].state.row],
                                                    logs'[m].submittedUnder.accreditation,
                                                    logs'[m].submittedUnder.sites)
      BY <1>1 DEF WrittenUnder
    <2>1. CASE m = l
      BY <1>1, <1>2, <1>3, <2>1 DEF RowInv, OfCommand, Written
    <2>2. CASE m # l
      BY <1>3, <1>4, <2>2 DEF CreditInv, WrittenUnder
    <2> QED
      BY <2>1, <2>2
  <1>6. CreditedWorth'
    <2> SUFFICES ASSUME NEW i \in DOMAIN ledger, logs'[ledger[i].log].status = "submitted"
                 PROVE  ledger[i].creditTotal = WorthSubmitted(ledger[i].log)'
      BY <1>1 DEF CreditedWorth
    <2>1. CASE ledger[i].log = l
      <3>1. WorthSubmitted(ledger[i].log)' = Worth(l, context.accreditation, context.sites)
        BY <1>1, <1>3, <2>1 DEF WorthSubmitted, Worth, Targets, ClassifyWasteRecord
      <3> QED
        BY <1>1, <1>2, <2>1, <3>1 DEF CreditInv, CreditedWorth
    <2>2. CASE ledger[i].log # l
      <3>1. logs'[ledger[i].log] = logs[ledger[i].log]
        BY <1>3, <1>4, <2>2
      <3>2. WorthSubmitted(ledger[i].log)' = WorthSubmitted(ledger[i].log)
        BY <1>1, <3>1 DEF WorthSubmitted, Worth, Targets, ClassifyWasteRecord
      <3> QED
        BY <3>1, <3>2 DEF CreditInv, CreditedWorth
    <2> QED
      BY <2>1, <2>2
  <1>7. UnderKnown'
    BY <1>3, ContextKnown DEF CreditInv, UnderKnown, RowInv
  <1> QED
    BY <1>5, <1>6, <1>7 DEF CreditInv

LEMMA StepKeepsCredit ==
  ASSUME Crashing, RowInv, CreditInv, [Next]_vars
  PROVE  CreditInv'
  BY LogStepKeepsCredit, CommandStepKeepsCredit, EnvironmentKeepsCredit, UpsertKeepsCredit,
     CommitKeepsCredit, FinishKeepsCredit DEF Next

LEMMA AlwaysCredit ==
  ASSUME Crashing PROVE Spec => [](RowInv /\ CreditInv)
  <1>1. Init => RowInv /\ CreditInv
    BY InitRows, InitCredit
  <1>2. RowInv /\ CreditInv /\ [Next]_vars => (RowInv /\ CreditInv)'
    BY StepKeepsRows, StepKeepsCredit
  <1> QED
    BY <1>1, <1>2, PTL DEF Spec

-----------------------------------------------------------------------------
(* The states of a log, read back.                                         *)

(* A row is stored with weights and tonnages in hundredths, and read as it *)
(* was classified when it was credited.                                    *)
LEMMA StoredClassifiesSame ==
  ASSUME NEW data, IsRowData(data), NEW t, NEW type, NEW a, NEW sites
  PROVE  ClassifyRecordForWasteBalance(t, type, CoerceStoredTonnages(data), a, sites)
           = ClassifyRecordForWasteBalance(t, type, data, a, sites)
  <1>1. PICK stored : stored = CoerceStoredTonnages(data)
    OBVIOUS
  <1>2. /\ stored.filled = data.filled /\ stored.dates = data.dates /\ stored.remark = data.remark
        /\ stored.osr = data.osr /\ stored.interim = data.interim
        /\ stored.tonnage = Coerced(data.tonnage)
        /\ stored.interimTonnage = Coerced(data.interimTonnage)
    BY <1>1 DEF CoerceStoredTonnages, IsRowData
  <1>3. ASSUME NEW n \in Int \cup {NONE}
        PROVE  RoundToTwoDecimalPlaces(Coerced(n)) = RoundToTwoDecimalPlaces(n)
    <2>1. CASE n = NONE
      BY <2>1 DEF Coerced
    <2>2. CASE n # NONE
      <3>1. PICK x \in Int : x = (n + 5) \div 10
        BY <2>2
      <3>2. Coerced(n) = 10 * x /\ RoundToTwoDecimalPlaces(n) = x
        BY <2>2, <3>1 DEF Coerced, RoundToTwoDecimalPlaces
      <3>3. 10 * x \in Int /\ 10 * x # NONE /\ (10 * x + 5) \div 10 = x
        BY RowAssumption
      <3> QED
        BY <3>2, <3>3 DEF RoundToTwoDecimalPlaces
    <2> QED
      BY <2>1, <2>2
  <1>4. TransactionAmount(type, stored) = TransactionAmount(type, data)
    <2>1. data.tonnage \in Int \cup {NONE} /\ data.interimTonnage \in Int \cup {NONE}
      BY DEF IsRowData
    <2>2. RoundToTwoDecimalPlaces(CreditedColumn(type, stored))
            = RoundToTwoDecimalPlaces(CreditedColumn(type, data))
      BY <1>2, <1>3, <2>1 DEF CreditedColumn
    <2> QED
      BY <2>2 DEF TransactionAmount
  <1>5. Obstacles(type, stored, sites) = Obstacles(type, data, sites)
    BY <1>2 DEF Obstacles, ExportObstacles, ReceivedObstacles, ProcessedObstacles
  <1>6. {stored.dates[f] : f \in AccreditationDateFields(type)}
          = {data.dates[f] : f \in AccreditationDateFields(type)}
    BY <1>2
  <1>7. ClassifyForWasteBalance(type, stored, a, sites) = ClassifyForWasteBalance(type, data, a, sites)
    BY <1>2, <1>4, <1>5, <1>6 DEF ClassifyForWasteBalance
  <1> QED
    BY <1>1, <1>7 DEF ClassifyRecordForWasteBalance

(* The states of an upload's rows under a context.                         *)
Projected(upload, a, sites) ==
  [r \in DOMAIN upload |-> ProjectSummaryLogRowState(template, r, upload[r], a, sites)]

Image(b) == {b[r] : r \in DOMAIN b}

LEMMA ProjectedRows ==
  ASSUME NEW upload, NEW a, NEW sites, NEW b, b = Projected(upload, a, sites)
  PROVE  /\ DOMAIN b = DOMAIN upload
         /\ \A r \in DOMAIN upload :
              /\ b[r].row = r /\ b[r].processingType = template
              /\ b[r].data = CoerceStoredTonnages(upload[r])
              /\ b[r].classification =
                   ClassifyRecordForWasteBalance(template, r.type, upload[r], a, sites)
              /\ GetTargetAmount(b[r].classification) = Targets(upload, a, sites)[r]
         /\ \A x, y \in DOMAIN upload : b[x] = b[y] => x = y
  <1>1. DOMAIN b = DOMAIN upload
    BY DEF Projected
  <1>2. ASSUME NEW r \in DOMAIN upload
        PROVE  /\ b[r].row = r /\ b[r].processingType = template
               /\ b[r].data = CoerceStoredTonnages(upload[r])
               /\ b[r].classification =
                    ClassifyRecordForWasteBalance(template, r.type, upload[r], a, sites)
    BY DEF Projected, ProjectSummaryLogRowState
  <1>3. ASSUME NEW r \in DOMAIN upload
        PROVE  GetTargetAmount(b[r].classification) = Targets(upload, a, sites)[r]
    BY <1>2 DEF Targets, ClassifyWasteRecord
  <1> QED
    BY <1>1, <1>2, <1>3

LEMMA StatesOfLog ==
  ASSUME NEW l, NEW upload, \A r \in DOMAIN upload : Stored(l, r),
         NEW a, NEW sites, NEW b, b = Projected(upload, a, sites),
         \A i \in DOMAIN rowStates : l \in rowStates[i].summaryLogIds =>
           /\ rowStates[i].state.row \in DOMAIN upload
           /\ rowStates[i].state = b[rowStates[i].state.row]
  PROVE  States(FindRowStatesForSummaryLog(l)) = Image(b)
  <1>1. DOMAIN b = DOMAIN upload
    BY ProjectedRows
  <1>2. ASSUME NEW s \in States(FindRowStatesForSummaryLog(l)) PROVE s \in Image(b)
    <2>1. PICK i \in DOMAIN rowStates : l \in rowStates[i].summaryLogIds /\ s = rowStates[i].state
      BY <1>2 DEF States, FindRowStatesForSummaryLog
    <2> QED
      BY <1>1, <2>1 DEF Image
  <1>3. ASSUME NEW r \in DOMAIN upload PROVE b[r] \in States(FindRowStatesForSummaryLog(l))
    <2>1. PICK i \in DOMAIN rowStates : l \in rowStates[i].summaryLogIds /\ rowStates[i].state.row = r
      BY DEF Stored
    <2>2. rowStates[i].state = b[r]
      BY <2>1
    <2> QED
      BY <2>1, <2>2 DEF States, FindRowStatesForSummaryLog
  <1> QED
    BY <1>1, <1>2, <1>3 DEF Image

-----------------------------------------------------------------------------
(* The recursive functions of what is read are those of sums.              *)

LEMMA LiveIsSum ==
  ASSUME NEW S, NEW a, NEW sites, NEW f,
         f = [s \in S |-> GetTargetAmount(ReclassifyWasteRecordState(s, a, sites).classification)]
  PROVE  LET Live(s) == GetTargetAmount(ReclassifyWasteRecordState(s, a, sites).classification)
         IN MapThenSumSet(Live, S) = SumOf(f, S)
  <1> DEFINE Live(s) == GetTargetAmount(ReclassifyWasteRecordState(s, a, sites).classification)
             Iter(g) == g = [s \in SUBSET S |->
                               IF s = {} THEN 0
                               ELSE Live(CHOOSE x \in s : TRUE) + g[s \ {CHOOSE x \in s : TRUE}]]
             h == CHOOSE g : Iter(g)
  <1>1. MapThenSumSet(Live, S) = h[S]
    BY DEF MapThenSumSet, MapThenFoldSet
  <1>2. ASSUME NEW g PROVE IsSum(g, f, S) <=> Iter(g)
    <2>1. ASSUME NEW s \in SUBSET S, s # {} PROVE f[Chosen(s)] = Live(CHOOSE x \in s : TRUE)
      <3>1. Chosen(s) \in s
        BY <2>1, ChosenIsMember
      <3> QED
        BY <3>1 DEF Chosen
    <2> HIDE DEF Live
    <2>2. \A s \in SUBSET S :
            SumStep(g, f, s) = IF s = {} THEN 0
                               ELSE Live(CHOOSE x \in s : TRUE) + g[s \ {CHOOSE x \in s : TRUE}]
      BY <2>1 DEF SumStep, Chosen
    <2> QED
      BY <2>2 DEF IsSum
  <1> HIDE DEF Iter
  <1>3. h = CHOOSE g : IsSum(g, f, S)
    BY <1>2
  <1> QED
    BY <1>1, <1>3 DEF SumOf

LEMMA TargetIsSum ==
  ASSUME NEW S, NEW f, \A s \in S : f[s] = GetTargetAmount(s.classification)
  PROVE  MapThenSumSet(LAMBDA s : GetTargetAmount(s.classification), S) = SumOf(f, S)
  <1> DEFINE Target(s) == GetTargetAmount(s.classification)
             Iter(g) == g = [s \in SUBSET S |->
                               IF s = {} THEN 0
                               ELSE Target(CHOOSE x \in s : TRUE) + g[s \ {CHOOSE x \in s : TRUE}]]
             h == CHOOSE g : Iter(g)
  <1>1. MapThenSumSet(LAMBDA s : GetTargetAmount(s.classification), S) = h[S]
    BY DEF MapThenSumSet, MapThenFoldSet
  <1>2. ASSUME NEW g PROVE IsSum(g, f, S) <=> Iter(g)
    <2>1. ASSUME NEW s \in SUBSET S, s # {} PROVE f[Chosen(s)] = Target(CHOOSE x \in s : TRUE)
      <3>1. Chosen(s) \in s
        BY <2>1, ChosenIsMember
      <3> QED
        BY <3>1 DEF Chosen
    <2> HIDE DEF Target
    <2>2. \A s \in SUBSET S :
            SumStep(g, f, s) = IF s = {} THEN 0
                               ELSE Target(CHOOSE x \in s : TRUE) + g[s \ {CHOOSE x \in s : TRUE}]
      BY <2>1 DEF SumStep, Chosen
    <2> QED
      BY <2>2 DEF IsSum
  <1> HIDE DEF Iter
  <1>3. h = CHOOSE g : IsSum(g, f, S)
    BY <1>2
  <1> QED
    BY <1>1, <1>3 DEF SumOf

LEMMA MonthsAreSum ==
  ASSUME NEW S, NEW months, NEW f, \A m \in S : f[m] = months[m].eligibleForWasteBalance
  PROVE  LET Eligible(m) == months[m].eligibleForWasteBalance
         IN MapThenSumSet(Eligible, S) = SumOf(f, S)
  <1> DEFINE Eligible(m) == months[m].eligibleForWasteBalance
             Iter(g) == g = [s \in SUBSET S |->
                               IF s = {} THEN 0
                               ELSE Eligible(CHOOSE x \in s : TRUE) + g[s \ {CHOOSE x \in s : TRUE}]]
             h == CHOOSE g : Iter(g)
  <1>1. MapThenSumSet(Eligible, S) = h[S]
    BY DEF MapThenSumSet, MapThenFoldSet
  <1>2. ASSUME NEW g PROVE IsSum(g, f, S) <=> Iter(g)
    <2>1. ASSUME NEW s \in SUBSET S, s # {} PROVE f[Chosen(s)] = Eligible(CHOOSE x \in s : TRUE)
      <3>1. Chosen(s) \in s
        BY <2>1, ChosenIsMember
      <3> QED
        BY <3>1 DEF Chosen
    <2> HIDE DEF Eligible
    <2>2. \A s \in SUBSET S :
            SumStep(g, f, s) = IF s = {} THEN 0
                               ELSE Eligible(CHOOSE x \in s : TRUE) + g[s \ {CHOOSE x \in s : TRUE}]
      BY <2>1 DEF SumStep, Chosen
    <2> QED
      BY <2>2 DEF IsSum
  <1> HIDE DEF Iter
  <1>3. h = CHOOSE g : IsSum(g, f, S)
    BY <1>2
  <1> QED
    BY <1>1, <1>3 DEF SumOf

-----------------------------------------------------------------------------
(* The credit is what the readers find.                                    *)

LiveWorths(a, sites, S) ==
  [s \in S |-> GetTargetAmount(ReclassifyWasteRecordState(s, a, sites).classification)]

Worths(S) == [s \in S |-> GetTargetAmount(s.classification)]

IsFile(upload) ==
  /\ IsFiniteSet(DOMAIN upload)
  /\ \A r \in DOMAIN upload : IsRowData(upload[r]) /\ HasItsDates(r.type, upload[r])

(* Read again under the context of the submission, or as they were         *)
(* classified, the states are worth what their rows are.                   *)
LEMMA ImageWorth ==
  ASSUME NEW upload, IsFile(upload), NEW a, NEW sites, NEW b, b = Projected(upload, a, sites)
  PROVE  /\ IsFiniteSet(Image(b))
         /\ \A s \in Image(b) : GetTargetAmount(s.classification) \in Int
         /\ SumOf(LiveWorths(a, sites, Image(b)), Image(b)) = SumOf(Targets(upload, a, sites), DOMAIN upload)
         /\ SumOf(Worths(Image(b)), Image(b)) = SumOf(Targets(upload, a, sites), DOMAIN upload)
  <1>1. PICK D, f : D = DOMAIN upload /\ f = Targets(upload, a, sites)
    OBVIOUS
  <1>2. /\ DOMAIN b = D /\ IsFiniteSet(D) /\ Image(b) = ImageOf(b, D)
        /\ \A x, y \in D : b[x] = b[y] => x = y
    BY <1>1, ProjectedRows DEF IsFile, Image, ImageOf
  <1>3. \A r \in D : f[r] \in Int
    BY <1>1, TargetTyped DEF IsFile, Targets
  <1>4. \A r \in D : GetTargetAmount(b[r].classification) = f[r]
    BY <1>1, ProjectedRows
  <1>5. ASSUME NEW r \in D
        PROVE  GetTargetAmount(ReclassifyWasteRecordState(b[r], a, sites).classification) = f[r]
    <2>1. PICK s : s = b[r]
      OBVIOUS
    <2>2. /\ s = ProjectSummaryLogRowState(template, r, upload[r], a, sites)
          /\ s.row = r /\ s.processingType = template /\ s.data = CoerceStoredTonnages(upload[r])
          /\ s.classification = ClassifyRecordForWasteBalance(template, r.type, upload[r], a, sites)
      BY <1>1, <2>1, ProjectedRows DEF Projected
    <2>3. PICK c : c = ClassifyRecordForWasteBalance(s.processingType, s.row.type, s.data, a, sites)
      OBVIOUS
    <2>4. c = s.classification
      BY <1>1, <2>2, <2>3, StoredClassifiesSame DEF IsFile
    <2>5. ReclassifyWasteRecordState(s, a, sites).classification = c
      BY <2>2, <2>3 DEF ReclassifyWasteRecordState, ProjectSummaryLogRowState
    <2> QED
      BY <1>4, <2>1, <2>4, <2>5
  <1>7. \A s \in Image(b) : GetTargetAmount(s.classification) \in Int
    BY <1>2, <1>3, <1>4 DEF ImageOf
  <1>8. SumOf(LiveWorths(a, sites, Image(b)), ImageOf(b, D)) = SumOf(f, D)
    <2>1. PICK e : e = LiveWorths(a, sites, Image(b))
      OBVIOUS
    <2>2. \A r \in D : e[b[r]] = f[r]
      BY <1>2, <1>5, <2>1 DEF LiveWorths, ImageOf
    <2>3. IsFiniteSet(ImageOf(b, D)) /\ SumOf(e, ImageOf(b, D)) = SumOf(f, D)
      BY ONLY <1>2, <1>3, <2>2, SumRenamed
    <2> QED
      BY <2>1, <2>3
  <1>9. IsFiniteSet(ImageOf(b, D)) /\ SumOf(Worths(Image(b)), ImageOf(b, D)) = SumOf(f, D)
    <2>1. PICK e : e = Worths(Image(b))
      OBVIOUS
    <2>2. \A r \in D : e[b[r]] = f[r]
      BY <1>2, <1>4, <2>1 DEF Worths, ImageOf
    <2>3. IsFiniteSet(ImageOf(b, D)) /\ SumOf(e, ImageOf(b, D)) = SumOf(f, D)
      BY ONLY <1>2, <1>3, <2>2, SumRenamed
    <2> QED
      BY <2>1, <2>3
  <1> QED
    BY <1>1, <1>2, <1>7, <1>8, <1>9

(* The months that are looked at are those of the accreditations.          *)
MonthsCover ==
  /\ IsFiniteSet(Months)
  /\ \A a \in Accreditations :
       NONE \notin {a.validFrom, a.validTo} => a.validFrom..a.validTo \subseteq Months

(* A row that is worth something counts under its template, in a month of  *)
(* its accreditation.                                                      *)
LEMMA WorthIsPlaced ==
  ASSUME MonthsCover, NEW upload, IsFile(upload), NEW a \in Accreditations \cup {NONE}, NEW sites,
         NEW b, b = Projected(upload, a, sites), NEW s \in Image(b),
         GetTargetAmount(s.classification) # 0
  PROVE  Contributes(s.processingType, s.row.type) /\ MonthOf(s) \in Months
  <1>1. PICK r \in DOMAIN upload : s = b[r]
    BY ProjectedRows DEF Image
  <1>2. PICK data, type : data = upload[r] /\ type = r.type
    OBVIOUS
  <1>3. /\ s.row.type = type /\ s.processingType = template
        /\ s.data = CoerceStoredTonnages(data)
        /\ s.classification = ClassifyRecordForWasteBalance(template, type, data, a, sites)
        /\ IsRowData(data) /\ HasItsDates(type, data)
    BY <1>1, <1>2, ProjectedRows DEF IsFile
  <1>4. \A outcome, reasons : GetTargetAmount(Without(outcome, reasons)) = 0
    BY DEF GetTargetAmount, Without
  <1>5. /\ a # NONE /\ Classifies(template, type)
        /\ GetTargetAmount(ClassifyForWasteBalance(type, data, a, sites)) # 0
    BY <1>3, <1>4 DEF ClassifyRecordForWasteBalance
  <1>6. data.filled /\ IsAccreditedAtDates({data.dates[f] : f \in AccreditationDateFields(type)}, a)
    BY <1>4, <1>5 DEF ClassifyForWasteBalance
  <1>7. PICK field : /\ field \in AccreditationDateFields(type)
                     /\ MonthOf(s) = data.dates[field]
    <2>1. s.data.dates = data.dates
      BY <1>3 DEF CoerceStoredTonnages, IsRowData
    <2>2. \E field \in AccreditationDateFields(type) : MonthOf(s) = s.data.dates[field]
      BY <1>3 DEF AccreditationDateFields, MonthOf, RECEIVED, EXPORTED
    <2> QED
      BY <2>1, <2>2
  <1>8. PICK d : d = data.dates[field]
    OBVIOUS
  <1>9. /\ d \in Int /\ NONE \notin {a.validFrom, a.validTo}
        /\ a.validFrom <= d /\ d <= a.validTo
    <2>1. d \in Int
      BY <1>3, <1>6, <1>7, <1>8 DEF HasItsDates
    <2>2. /\ a.validFrom # NONE /\ a.validTo # NONE
          /\ IsWithinAccreditationDateRange(d, a)
      BY <1>5, <1>6, <1>7, <1>8 DEF IsAccreditedAtDates
    <2> QED
      BY <2>1, <2>2 DEF IsWithinAccreditationDateRange
  <1>10. d \in a.validFrom..a.validTo
    <2>1. a.validFrom \in Int /\ a.validTo \in Int
      BY <1>5, <1>9, RowAssumption
    <2> QED
      BY <1>9, <2>1
  <1>11. MonthOf(s) \in Months
    BY <1>5, <1>7, <1>8, <1>9, <1>10 DEF MonthsCover
  <1> QED
    BY <1>3, <1>5, <1>11 DEF Contributes

CreditingRows(S, m) == {s \in RowsOfMonth(S, m) : Credits(s.row.type)}

LEMMA EligibleOfMonth ==
  ASSUME NEW S, NEW m \in Months
  PROVE  CreditedTonnageByMonth(S, Months)[m].eligibleForWasteBalance
           = MapThenSumSet(LAMBDA s : GetTargetAmount(s.classification), CreditingRows(S, m))
  BY DEF CreditedTonnageByMonth, CreditingRows

(* By month and by what was sent on.                                       *)
LEMMA WorthByMonth ==
  ASSUME NEW S, IsFiniteSet(S), \A s \in S : GetTargetAmount(s.classification) \in Int,
         IsFiniteSet(Months),
         \A s \in S : GetTargetAmount(s.classification) # 0 =>
           Contributes(s.processingType, s.row.type) /\ MonthOf(s) \in Months
  PROVE  LET months == CreditedTonnageByMonth(S, Months)
             Eligible(m) == months[m].eligibleForWasteBalance
             Target(s) == GetTargetAmount(s.classification)
         IN SumOf(Worths(S), S) =
              MapThenSumSet(Eligible, Months)
              + MapThenSumSet(Target, {s \in S : s.row.type = SENT_ON})
  <1> DEFINE Target(s) == GetTargetAmount(s.classification)
  <1>1. PICK f : f = Worths(S)
    OBVIOUS
  <1>2. PICK sent, kept : sent = {s \in S : s.row.type = SENT_ON} /\ kept = S \ sent
    OBVIOUS
  <1>3. PICK placed : placed = {s \in kept : Contributes(s.processingType, s.row.type)
                                             /\ MonthOf(s) \in Months}
    OBVIOUS
  <1>4. \A s \in S : f[s] = GetTargetAmount(s.classification) /\ f[s] \in Int
    BY <1>1 DEF Worths
  <1>5. IsFiniteSet(sent) /\ IsFiniteSet(kept) /\ IsFiniteSet(placed)
    BY <1>2, <1>3, FS_Subset
  <1>6. SumOf(f, S) = SumOf(f, sent) + SumOf(f, kept)
    <2>1. sent \cap kept = {} /\ S = sent \cup kept /\ \A x \in sent \cup kept : f[x] \in Int
      BY <1>2, <1>4
    <2>2. SumOf(f, sent \cup kept) = SumOf(f, sent) + SumOf(f, kept)
      BY ONLY <1>5, <2>1, SumOfBoth
    <2> QED
      BY <2>1, <2>2
  <1>7. SumOf(f, kept) = SumOf(f, placed)
    <2>1. placed \in SUBSET kept /\ \A x \in kept : f[x] \in Int
      BY <1>2, <1>3, <1>4
    <2>2. \A x \in kept \ placed : f[x] = 0
      BY <1>2, <1>3, <1>4
    <2> QED
      BY ONLY <1>5, <2>1, <2>2, SumWithoutZeros
  <1>8. PICK e, p : /\ e = [m \in Months |->
                              CreditedTonnageByMonth(S, Months)[m].eligibleForWasteBalance]
                    /\ p = [s \in placed |-> MonthOf(s)]
    OBVIOUS
  <1>9. ASSUME NEW m \in Months PROVE e[m] = SumOf(f, PartOf(placed, p, m))
    <2>1. PICK T : T = CreditingRows(S, m)
      OBVIOUS
    <2>2. T = PartOf(placed, p, m)
      BY <1>2, <1>3, <1>8, <2>1 DEF PartOf, CreditingRows, RowsOfMonth, Credits
    <2>3. \A s \in T : f[s] = GetTargetAmount(s.classification)
      BY <1>2, <1>3, <1>4, <2>2 DEF PartOf
    <2>4. MapThenSumSet(LAMBDA s : GetTargetAmount(s.classification), T) = SumOf(f, T)
      BY <2>3, TargetIsSum
    <2>5. e[m] = MapThenSumSet(LAMBDA s : GetTargetAmount(s.classification), T)
      BY <1>8, <2>1, EligibleOfMonth
    <2> QED
      BY <2>2, <2>4, <2>5
  <1>10. SumOf(e, Months) = SumOf(f, placed)
    <2>1. /\ \A x \in placed : p[x] \in Months
          /\ \A x \in placed : f[x] \in Int
      BY <1>2, <1>3, <1>4, <1>8
    <2>2. IsFiniteSet(Months) /\ \A m \in Months : e[m] = SumOf(f, PartOf(placed, p, m))
      BY <1>9
    <2> QED
      BY ONLY <1>5, <2>1, <2>2, SumByParts
  <1>11. PICK months : months = CreditedTonnageByMonth(S, Months)
    OBVIOUS
  <1> DEFINE Eligible(m) == months[m].eligibleForWasteBalance
  <1>12. MapThenSumSet(Eligible, Months) = SumOf(e, Months)
    <2>1. \A m \in Months : e[m] = months[m].eligibleForWasteBalance
      BY <1>8, <1>11
    <2> QED
      BY <2>1, MonthsAreSum
  <1>13. MapThenSumSet(Target, sent) = SumOf(f, sent)
    <2>1. \A s \in sent : f[s] = GetTargetAmount(s.classification)
      BY <1>2, <1>4
    <2> QED
      BY <2>1, TargetIsSum
  <1>14. SumOf(f, sent) \in Int /\ SumOf(f, placed) \in Int
    BY <1>2, <1>3, <1>4, <1>5, SumTyped
  <1>15. SumOf(f, S) = MapThenSumSet(Eligible, Months) + MapThenSumSet(Target, sent)
    <2> HIDE DEF Eligible, Target
    <2> QED
      BY <1>6, <1>7, <1>10, <1>12, <1>13, <1>14
  <1> QED
    BY <1>1, <1>2, <1>11, <1>15

LEMMA UploadIsFile ==
  ASSUME RowInv, NEW l \in Logs, logs[l].status \in Settling
  PROVE  IsFile(logs[l].upload)
  <1>1. logs[l].upload \in Uploads(template)
    BY DEF RowInv, TypeInv, LogsTyped, HasFile, FILED, IsFiled, Settling
  <1> QED
    BY <1>1, FileTyped DEF IsFile, RowInv

(* The states at the head are the rows of its log, each projected for the  *)
(* context the log is worked under, or was.                                *)
HeadStatesAre(a, sites) ==
  States(HeadDocuments) = Image(Projected(logs[HeadLog(ledger)].upload, a, sites))

LEMMA HeadStatesOf ==
  ASSUME RowInv, ledger # <<>>, NEW a, NEW sites,
         \A i \in DOMAIN rowStates : HeadLog(ledger) \in rowStates[i].summaryLogIds =>
           LET r == rowStates[i].state.row
           IN rowStates[i].state =
                ProjectSummaryLogRowState(template, r, logs[HeadLog(ledger)].upload[r], a, sites)
  PROVE  HeadStatesAre(a, sites)
  <1>1. PICK l \in Logs : l = HeadLog(ledger) /\ \E i \in DOMAIN ledger : ledger[i].log = l
    BY HeadOf DEF RowInv
  <1>2. PICK upload, b : upload = logs[l].upload /\ b = Projected(upload, a, sites)
    OBVIOUS
  <1>3. \A r \in DOMAIN upload : Stored(l, r)
    BY <1>1, <1>2 DEF RowInv, OfCommand, Complete
  <1>4. \A i \in DOMAIN rowStates : l \in rowStates[i].summaryLogIds =>
          /\ rowStates[i].state.row \in DOMAIN upload
          /\ rowStates[i].state = b[rowStates[i].state.row]
    <2> SUFFICES ASSUME NEW i \in DOMAIN rowStates, l \in rowStates[i].summaryLogIds
                 PROVE  /\ rowStates[i].state.row \in DOMAIN upload
                        /\ rowStates[i].state = b[rowStates[i].state.row]
      OBVIOUS
    <2>1. PICK s, r : s = rowStates[i].state /\ r = rowStates[i].state.row
      OBVIOUS
    <2>2. r \in DOMAIN upload
      BY <1>2, <2>1 DEF RowInv, OfCommand, Written
    <2>3. s = ProjectSummaryLogRowState(template, r, upload[r], a, sites)
      BY <1>1, <1>2, <2>1
    <2>4. b[r] = ProjectSummaryLogRowState(template, r, upload[r], a, sites)
      BY <1>2, <2>2 DEF Projected
    <2> QED
      BY <2>1, <2>2, <2>3, <2>4
  <1>5. States(FindRowStatesForSummaryLog(l)) = Image(b)
    BY <1>2, <1>3, <1>4, StatesOfLog
  <1> QED
    BY <1>1, <1>2, <1>5 DEF HeadStatesAre, HeadDocuments

(* While the reports are flagged, the live reading of the rows.            *)
LEMMA CreditIsLive ==
  ASSUME RowInv, CreditInv
  PROVE  CreditIsLiveReading
  <1> SUFFICES ASSUME job.step = "flag", ledger # <<>>, HeadLog(ledger) = job.log
               PROVE  LET states == States(HeadDocuments)
                          Live(s) == GetTargetAmount(
                            ReclassifyWasteRecordState(s, job.accreditation, job.sites).classification)
                      IN Last(ledger).creditTotal =
                           IF job.accreditation = NONE THEN 0 ELSE MapThenSumSet(Live, states)
    BY DEF CreditIsLiveReading
  <1>1. job # NoJob
    BY DEF NoJob
  <1>2. PICK l \in Logs : l = job.log /\ logs[l].status = "submitting"
    BY <1>1, CommandTyped DEF RowInv
  <1>3. PICK upload, a, sites, b, S :
          /\ upload = logs[l].upload /\ a = context.accreditation /\ sites = context.sites
          /\ b = Projected(upload, a, sites) /\ S = Image(b)
    OBVIOUS
  <1>4. job.accreditation = a /\ job.sites = sites
    BY <1>3 DEF RowInv, OfCommand, SameContext
  <1>5. IsFile(upload)
    BY <1>2, <1>3, UploadIsFile DEF Settling
  <1>6. States(HeadDocuments) = S
    <2>1. \A i \in DOMAIN rowStates : HeadLog(ledger) \in rowStates[i].summaryLogIds =>
            LET r == rowStates[i].state.row
            IN rowStates[i].state =
                 ProjectSummaryLogRowState(template, r, logs[HeadLog(ledger)].upload[r], a, sites)
      BY <1>1, <1>2, <1>3 DEF RowInv, OfCommand, Written
    <2>2. HeadStatesAre(a, sites)
      BY <2>1, HeadStatesOf
    <2> QED
      BY <1>2, <1>3, <2>2 DEF HeadStatesAre
  <1>7. Last(ledger).creditTotal = SumOf(Targets(upload, a, sites), DOMAIN upload)
    <2>1. Len(ledger) \in DOMAIN ledger /\ ledger[Len(ledger)].log = job.log
      BY HeadOf DEF RowInv
    <2>2. ledger[Len(ledger)].creditTotal = Worth(job.log, context.accreditation, context.sites)
      BY <1>1, <2>1 DEF CreditInv, CreditedWorth
    <2> QED
      BY <1>2, <1>3, <2>2 DEF Worth, Last
  <1>8. CASE a = NONE
    BY <1>4, <1>5, <1>7, <1>8, NothingWorth DEF IsFile
  <1>9. CASE a # NONE
    <2>1. SumOf(LiveWorths(a, sites, S), S) = SumOf(Targets(upload, a, sites), DOMAIN upload)
      BY <1>3, <1>5, ImageWorth
    <2>2. MapThenSumSet(LAMBDA s : GetTargetAmount(ReclassifyWasteRecordState(s, a, sites).classification), S)
            = SumOf(LiveWorths(a, sites, S), S)
      BY LiveIsSum DEF LiveWorths
    <2> QED
      BY <1>4, <1>6, <1>7, <1>9, <2>1, <2>2
  <1> QED
    BY <1>8, <1>9

(* Between submissions, the months of the head's rows.                     *)
LEMMA CreditIsEligible ==
  ASSUME MonthsCover, RowInv, CreditInv
  PROVE  EligibleReconcilesWithCredit
  <1> SUFFICES ASSUME ledger # <<>>, job = NoJob
               PROVE  LET states == States(HeadDocuments)
                          months == CreditedTonnageByMonth(states, Months)
                          Eligible(m) == months[m].eligibleForWasteBalance
                          Target(s) == GetTargetAmount(s.classification)
                      IN Last(ledger).creditTotal =
                           MapThenSumSet(Eligible, Months)
                           + MapThenSumSet(Target, {s \in states : s.row.type = SENT_ON})
    BY DEF EligibleReconcilesWithCredit
  <1>1. PICK l \in Logs : l = HeadLog(ledger)
    BY HeadOf DEF RowInv
  <1>2. logs[l].status = "submitted"
    <2>1. logs[l].status \in {"submitting", "submitted"}
      BY <1>1, HeadOf DEF RowInv, OfCommand, OnlySubmitted
    <2> QED
      BY <1>1, <2>1, NoCommandHead
  <1>3. PICK upload, a, sites, b, S :
          /\ upload = logs[l].upload
          /\ a = logs[l].submittedUnder.accreditation /\ sites = logs[l].submittedUnder.sites
          /\ b = Projected(upload, a, sites) /\ S = Image(b)
    OBVIOUS
  <1>4. IsFile(upload) /\ a \in Accreditations \cup {NONE}
    BY <1>2, <1>3, UploadIsFile DEF Settling, CreditInv, UnderKnown
  <1>5. States(HeadDocuments) = S
    <2>1. \A i \in DOMAIN rowStates : HeadLog(ledger) \in rowStates[i].summaryLogIds =>
            LET r == rowStates[i].state.row
            IN rowStates[i].state =
                 ProjectSummaryLogRowState(template, r, logs[HeadLog(ledger)].upload[r], a, sites)
      BY <1>1, <1>2, <1>3 DEF CreditInv, WrittenUnder
    <2>2. HeadStatesAre(a, sites)
      BY <2>1, HeadStatesOf
    <2> QED
      BY <1>1, <1>3, <2>2 DEF HeadStatesAre
  <1>6. Last(ledger).creditTotal = SumOf(Targets(upload, a, sites), DOMAIN upload)
    <2>1. Len(ledger) \in DOMAIN ledger /\ ledger[Len(ledger)].log = l
      BY <1>1, HeadOf DEF RowInv
    <2>2. ledger[Len(ledger)].creditTotal = WorthSubmitted(l)
      BY <1>2, <2>1 DEF CreditInv, CreditedWorth
    <2> QED
      BY <1>3, <2>2 DEF WorthSubmitted, Worth, Last
  <1>7. /\ IsFiniteSet(S) /\ \A s \in S : GetTargetAmount(s.classification) \in Int
        /\ SumOf(Worths(S), S) = SumOf(Targets(upload, a, sites), DOMAIN upload)
    BY <1>3, <1>4, ImageWorth
  <1>8. \A s \in S : GetTargetAmount(s.classification) # 0 =>
          Contributes(s.processingType, s.row.type) /\ MonthOf(s) \in Months
    BY <1>3, <1>4, WorthIsPlaced
  <1>9. LET months == CreditedTonnageByMonth(S, Months)
            Eligible(m) == months[m].eligibleForWasteBalance
            Target(s) == GetTargetAmount(s.classification)
        IN SumOf(Worths(S), S) =
             MapThenSumSet(Eligible, Months)
             + MapThenSumSet(Target, {s \in S : s.row.type = SENT_ON})
    BY <1>7, <1>8, WorthByMonth DEF MonthsCover
  <1> QED
    BY <1>5, <1>6, <1>7, <1>9

(* credited-tonnage.js and live-classified-row-states.js: the credit of a  *)
(* submission is what the readers of its rows find.  Whatever crash the    *)
(* submit command is redelivered after, the total of the last event is the *)
(* sum over the rows stored for its log, classified anew from the rounded  *)
(* data; and between submissions it is the eligible tonnage of the months  *)
(* and what was sent on, no row counted twice or under no month.  Months   *)
(* are those credited-tonnage.js looks at; MonthsCover has every month of  *)
(* an accreditation among them.                                            *)
THEOREM CreditIsReconciled ==
  ASSUME Crashing, MonthsCover
  PROVE  Spec => []CreditReconciles
  <1>1. RowInv /\ CreditInv => CreditReconciles
    BY CreditIsLive, CreditIsEligible DEF CreditReconciles
  <1> QED
    BY <1>1, AlwaysCredit, PTL

-----------------------------------------------------------------------------
(* What a preview says.                                                    *)

(* The rows that count and changed, and what was credited for a row.       *)
RowsChanged(log, before, sites) ==
  {r \in DOMAIN log.upload :
     /\ log.outcome[r] # IGNORED
     /\ ClassifyRecordChange(r, log.upload[r], before, log.accreditation, sites) # UNCHANGED_ROW}

WorthBefore(before, r) ==
  IF r \in DOMAIN before THEN GetTargetAmount(before[r].classification) ELSE 0

(* What each row moves the credit by.                                      *)
Movements(log, before, sites) ==
  [r \in DOMAIN log.upload |->
     IF r \in RowsChanged(log, before, sites)
     THEN PreviewAmount(r, log.upload[r], log.accreditation, sites) - WorthBefore(before, r)
     ELSE 0]

(* The closed periods that a changed row is in, or was.                    *)
Restated(log, before, sites) ==
  LET cadence == Cadence(log.accreditation)
  IN {p \in log.closed :
        /\ p.cadence = cadence
        /\ \E r \in RowsChanged(log, before, sites) :
             \/ p \in PeriodsForData(template, r.type, log.upload[r], cadence)
             \/ /\ r \in DOMAIN before
                /\ p \in PeriodsForData(template, r.type, before[r].data, cadence)}

Foretells(preview, log, before, sites) ==
  /\ preview.closedPeriods = Restated(log, before, sites)
  /\ preview.openPeriodLoads + preview.closedPeriodLoads =
       SumOf(Movements(log, before, sites), DOMAIN log.upload)

(* The recursive function of the loads is that of a sum.                   *)
LEMMA LoadIsSum ==
  ASSUME NEW S, NEW f, \A leg \in S : f[leg] = leg.tonnageDelta
  PROVE  MapThenSumSet(LAMBDA leg : leg.tonnageDelta, S) = SumOf(f, S)
  <1> DEFINE Delta(leg) == leg.tonnageDelta
             Iter(g) == g = [s \in SUBSET S |->
                               IF s = {} THEN 0
                               ELSE Delta(CHOOSE x \in s : TRUE) + g[s \ {CHOOSE x \in s : TRUE}]]
             h == CHOOSE g : Iter(g)
  <1>1. MapThenSumSet(LAMBDA leg : leg.tonnageDelta, S) = h[S]
    BY DEF MapThenSumSet, MapThenFoldSet
  <1>2. ASSUME NEW g PROVE IsSum(g, f, S) <=> Iter(g)
    <2>1. ASSUME NEW s \in SUBSET S, s # {} PROVE f[Chosen(s)] = Delta(CHOOSE x \in s : TRUE)
      <3>1. Chosen(s) \in s
        BY <2>1, ChosenIsMember
      <3> QED
        BY <3>1 DEF Chosen
    <2> HIDE DEF Delta
    <2>2. \A s \in SUBSET S :
            SumStep(g, f, s) = IF s = {} THEN 0
                               ELSE Delta(CHOOSE x \in s : TRUE) + g[s \ {CHOOSE x \in s : TRUE}]
      BY <2>1 DEF SumStep, Chosen
    <2> QED
      BY <2>2 DEF IsSum
  <1> HIDE DEF Iter
  <1>3. h = CHOOSE g : IsSum(g, f, S)
    BY <1>2
  <1> QED
    BY <1>1, <1>3 DEF SumOf

(* The leg of a row in a period status, and the legs of one status.        *)
Leg(r, p, delta) == [row |-> r, period |-> p, tonnageDelta |-> delta]

Share(new, old, inflow, outflow, r, p) ==
  (IF p = new[r] THEN inflow[r] ELSE 0) - (IF p = old[r] THEN outflow[r] ELSE 0)

LegsOfRow(new, old, inflow, outflow, r) ==
  {Leg(r, p, Share(new, old, inflow, outflow, r, p)) : p \in {new[r], old[r]} \ {NONE}}

LegsIn(R, new, old, inflow, outflow, p) ==
  {leg \in UNION {LegsOfRow(new, old, inflow, outflow, r) : r \in R} : leg.period = p}

LEMMA LegIs ==
  ASSUME NEW r, NEW p, NEW delta
  PROVE  Leg(r, p, delta).row = r /\ Leg(r, p, delta).period = p
         /\ Leg(r, p, delta).tonnageDelta = delta
  BY DEF Leg

LEMMA LoadsOfStatus ==
  ASSUME NEW D, IsFiniteSet(D), NEW R \in SUBSET D, NEW new, NEW old, NEW inflow, NEW outflow,
         \A r \in R : inflow[r] \in Int /\ outflow[r] \in Int,
         NEW p, p # NONE,
         NEW f, f = [r \in D |-> IF r \in R THEN Share(new, old, inflow, outflow, r, p) ELSE 0]
  PROVE  MapThenSumSet(LAMBDA leg : leg.tonnageDelta, LegsIn(R, new, old, inflow, outflow, p))
           = SumOf(f, D)
  <1>1. PICK T : T = LegsIn(R, new, old, inflow, outflow, p)
    OBVIOUS
  <1>2. PICK A : A = {r \in R : p \in {new[r], old[r]}}
    OBVIOUS
  <1>3. PICK b : b = [r \in A |-> Leg(r, p, f[r])]
    OBVIOUS
  <1>4. \A r \in A : b[r].row = r /\ b[r].period = p /\ b[r].tonnageDelta = f[r]
    BY <1>3, LegIs
  <1>5. \A r \in D : f[r] \in Int
    BY DEF Share
  <1>6. A \in SUBSET D /\ IsFiniteSet(A) /\ (\A r \in A : f[r] \in Int)
        /\ \A x \in D \ A : f[x] = 0
    <2>1. A \in SUBSET D /\ IsFiniteSet(A)
      BY <1>2, FS_Subset
    <2>2. \A x \in D \ A : f[x] = 0
      BY <1>2 DEF Share
    <2> QED
      BY <1>5, <2>1, <2>2
  <1>7. ImageOf(b, A) = T
    <2>1. ASSUME NEW r \in A PROVE b[r] \in T
      <3>1. r \in R /\ p \in {new[r], old[r]} \ {NONE} /\ f[r] = Share(new, old, inflow, outflow, r, p)
        BY <1>2
      <3>2. b[r] = Leg(r, p, Share(new, old, inflow, outflow, r, p))
        BY <1>3, <3>1
      <3>3. b[r] \in LegsOfRow(new, old, inflow, outflow, r)
        BY <3>1, <3>2 DEF LegsOfRow
      <3>4. b[r].period = p
        BY <1>4
      <3> QED
        BY <1>1, <3>1, <3>3, <3>4 DEF LegsIn
    <2>2. ASSUME NEW g \in T PROVE g \in ImageOf(b, A)
      <3>1. PICK r \in R : g \in LegsOfRow(new, old, inflow, outflow, r) /\ g.period = p
        BY <1>1, <2>2 DEF LegsIn
      <3>2. PICK q \in {new[r], old[r]} \ {NONE} : g = Leg(r, q, Share(new, old, inflow, outflow, r, q))
        BY <3>1 DEF LegsOfRow
      <3>3. q = p
        BY <3>1, <3>2, LegIs
      <3>4. r \in A /\ f[r] = Share(new, old, inflow, outflow, r, p)
        BY <1>2, <3>2, <3>3
      <3>5. b[r] = g
        BY <1>3, <3>2, <3>3, <3>4
      <3> QED
        BY <3>4, <3>5 DEF ImageOf
    <2> QED
      BY <2>1, <2>2 DEF ImageOf
  <1>8. PICK e : e = [leg \in T |-> leg.tonnageDelta]
    OBVIOUS
  <1>9. \A x \in A : e[b[x]] = f[x]
    BY <1>4, <1>7, <1>8 DEF ImageOf
  <1>10. \A x, y \in A : b[x] = b[y] => x = y
    BY <1>4
  <1>11. SumOf(e, ImageOf(b, A)) = SumOf(f, A)
    BY ONLY <1>6, <1>9, <1>10, SumRenamed
  <1>12. SumOf(f, D) = SumOf(f, A)
    BY ONLY <1>5, <1>6, IsFiniteSet(D), SumWithoutZeros
  <1>13. \A leg \in T : e[leg] = leg.tonnageDelta
    BY <1>8
  <1>14. MapThenSumSet(LAMBDA leg : leg.tonnageDelta, T) = SumOf(e, T)
    BY <1>13, LoadIsSum
  <1> QED
    BY <1>1, <1>7, <1>11, <1>12, <1>14

(* A row that is worth something has a date that places it in a period.    *)
LEMMA WorthHasPeriod ==
  ASSUME NEW t, NEW type, NEW data, IsRowData(data), HasItsDates(type, data),
         NEW a, NEW sites, NEW cadence,
         GetTargetAmount(ClassifyForWasteBalance(type, data, a, sites)) # 0
  PROVE  PeriodsForData(t, type, data, cadence) # {}
  <1>1. data.filled
    BY DEF ClassifyForWasteBalance, GetTargetAmount, Without
  <1>2. PICK f : f \in ReportingDateFields(t, type) /\ f \in AccreditationDateFields(type)
    BY DEF ReportingDateFields, AccreditationDateFields, RECEIVED, EXPORTED
  <1>3. data.dates[f] \in Int
    BY <1>1, <1>2 DEF HasItsDates
  <1>4. data.dates[f] # NONE
    BY <1>3, RowAssumption
  <1> QED
    BY <1>2, <1>4 DEF PeriodsForData

LEMMA StatusOfPeriods ==
  ASSUME NEW type, NEW data, NEW cadence, NEW s, s = ClassifyPeriodStatus(type, data, cadence)
  PROVE  /\ s \in {OPEN, CLOSED, NONE}
         /\ PeriodsForData(template, type, data, cadence) # {} => s \in {OPEN, CLOSED}
  BY DEF ClassifyPeriodStatus

(* A stored state is that of a row as it was filed, under some context.    *)
IsStored(s, r) ==
  \E data, a, sites :
    /\ IsRowData(data) /\ HasItsDates(r.type, data)
    /\ s = ProjectSummaryLogRowState(template, r, data, a, sites)

AreStored(before) == \A r \in DOMAIN before : IsStored(before[r], r)

LEMMA StoredHasPeriod ==
  ASSUME NEW s, NEW r, IsStored(s, r), NEW cadence
  PROVE  /\ GetTargetAmount(s.classification) \in Int
         /\ GetTargetAmount(s.classification) # 0 =>
              PeriodsForData(template, r.type, s.data, cadence) # {}
  <1>1. PICK data, a, sites :
          /\ IsRowData(data) /\ HasItsDates(r.type, data)
          /\ s = ProjectSummaryLogRowState(template, r, data, a, sites)
    BY DEF IsStored
  <1>2. /\ s.data = CoerceStoredTonnages(data)
        /\ s.classification = ClassifyRecordForWasteBalance(template, r.type, data, a, sites)
    BY <1>1 DEF ProjectSummaryLogRowState
  <1>3. GetTargetAmount(ClassifyRecordForWasteBalance(template, r.type, data, a, sites)) \in Int
    BY <1>1, TargetTyped DEF ClassifyWasteRecord
  <1>4. ASSUME GetTargetAmount(s.classification) # 0
        PROVE  PeriodsForData(template, r.type, s.data, cadence) # {}
    <2>1. GetTargetAmount(Without(NOT_APPLICABLE, {})) = 0
      BY DEF GetTargetAmount, Without, INCLUDED, NOT_APPLICABLE
    <2>2. GetTargetAmount(ClassifyForWasteBalance(r.type, data, a, sites)) # 0
      BY <1>2, <1>4, <2>1 DEF ClassifyRecordForWasteBalance
    <2>3. PeriodsForData(template, r.type, data, cadence) # {}
      BY <1>1, <2>2, WorthHasPeriod
    <2>4. s.data.dates = data.dates
      BY <1>1, <1>2 DEF CoerceStoredTonnages, IsRowData
    <2> QED
      BY <2>3, <2>4 DEF PeriodsForData
  <1> QED
    BY <1>2, <1>3, <1>4

LEMMA PreviewAmountIs ==
  ASSUME NEW r, NEW data, IsRowData(data), HasItsDates(r.type, data), NEW a, NEW sites, NEW cadence
  PROVE  /\ PreviewAmount(r, data, a, sites) \in Int
         /\ PreviewAmount(r, data, a, sites) # 0 =>
              PeriodsForData(template, r.type, data, cadence) # {}
  <1>1. CASE ~ Classifies(template, r.type)
    BY <1>1 DEF PreviewAmount
  <1>2. CASE Classifies(template, r.type)
    <2>1. PreviewAmount(r, data, a, sites) = GetTargetAmount(ClassifyForWasteBalance(r.type, data, a, sites))
      BY <1>2 DEF PreviewAmount
    <2>2. PreviewAmount(r, data, a, sites) \in Int
      <3>1. CreditedColumn(r.type, data) \in Int \cup {NONE}
        BY DEF CreditedColumn, IsRowData
      <3>2. TransactionAmount(r.type, data) \in Int
        BY <3>1, RowAssumption DEF TransactionAmount, RoundToTwoDecimalPlaces
      <3>3. GetTargetAmount(Included(TransactionAmount(r.type, data))) \in Int
        BY <3>2 DEF GetTargetAmount, Included
      <3>4. \A outcome, reasons : GetTargetAmount(Without(outcome, reasons)) = 0
        BY DEF GetTargetAmount, Without
      <3> QED
        BY <2>1, <3>3, <3>4 DEF ClassifyForWasteBalance
    <2> QED
      BY <2>1, <2>2, WorthHasPeriod
  <1> QED
    BY <1>1, <1>2

(* The parts that the loads of a log are the sums of.                      *)
NewStatuses(log) ==
  [r \in DOMAIN log.upload |->
     ClassifyPeriodStatus(r.type, log.upload[r], Cadence(log.accreditation))]

OldStatuses(log, before) ==
  [r \in DOMAIN log.upload |->
     IF r \in DOMAIN before
     THEN ClassifyPeriodStatus(r.type, before[r].data, Cadence(log.accreditation)) ELSE NONE]

Inflows(log, sites) ==
  [r \in DOMAIN log.upload |-> PreviewAmount(r, log.upload[r], log.accreditation, sites)]

Outflows(log, before) == [r \in DOMAIN log.upload |-> WorthBefore(before, r)]

LEMMA ChangeIs ==
  ASSUME NEW r, NEW data, NEW before, NEW a, NEW sites, NEW change,
         change = ClassifyRecordChange(r, data, before, a, sites)
  PROVE  change = ADDED <=> r \notin DOMAIN before
  BY DEF ClassifyRecordChange, ADDED, ADJUSTED, UNCHANGED_ROW

LEMMA LegsOf ==
  ASSUME NEW log, NEW before, NEW sites, NEW r \in DOMAIN log.upload, NEW change,
         change = ClassifyRecordChange(r, log.upload[r], before, log.accreditation, sites)
  PROVE  Legs(r, log.upload[r], change, before, Cadence(log.accreditation), log.accreditation, sites)
           = LegsOfRow(NewStatuses(log), OldStatuses(log, before), Inflows(log, sites),
                       Outflows(log, before), r)
  <1>1. PICK new, old, inflow, outflow :
          /\ new = NewStatuses(log)[r] /\ old = OldStatuses(log, before)[r]
          /\ inflow = Inflows(log, sites)[r] /\ outflow = Outflows(log, before)[r]
    OBVIOUS
  <1>2. change = ADDED <=> r \notin DOMAIN before
    BY ChangeIs
  <1>3. /\ ClassifyPeriodStatus(r.type, log.upload[r], Cadence(log.accreditation)) = new
        /\ PreviewAmount(r, log.upload[r], log.accreditation, sites) = inflow
    BY <1>1 DEF NewStatuses, Inflows
  <1>4. /\ (IF change = ADDED THEN NONE
            ELSE ClassifyPeriodStatus(r.type, before[r].data, Cadence(log.accreditation))) = old
        /\ (IF change = ADDED THEN 0 ELSE GetTargetAmount(before[r].classification)) = outflow
    BY <1>1, <1>2 DEF OldStatuses, Outflows, WorthBefore
  <1>5. Legs(r, log.upload[r], change, before, Cadence(log.accreditation), log.accreditation, sites)
          = {[row |-> r, period |-> p,
              tonnageDelta |-> (IF p = new THEN inflow ELSE 0) - (IF p = old THEN outflow ELSE 0)] :
               p \in {new, old} \ {NONE}}
    BY <1>3, <1>4 DEF Legs
  <1>6. LegsOfRow(NewStatuses(log), OldStatuses(log, before), Inflows(log, sites),
                  Outflows(log, before), r)
          = {[row |-> r, period |-> p,
              tonnageDelta |-> (IF p = new THEN inflow ELSE 0) - (IF p = old THEN outflow ELSE 0)] :
               p \in {new, old} \ {NONE}}
    BY <1>1 DEF LegsOfRow, Leg, Share
  <1> QED
    BY <1>5, <1>6

(* The loads of a status, open or closed.                                  *)
LoadsIn(log, before, sites, p) ==
  MapThenSumSet(LAMBDA leg : leg.tonnageDelta,
                LegsIn(RowsChanged(log, before, sites), NewStatuses(log), OldStatuses(log, before),
                       Inflows(log, sites), Outflows(log, before), p))

LEMMA PreviewIs ==
  ASSUME NEW log, NEW before, NEW sites, NEW preview,
         preview = ClassifyByPeriodStatus(log, before, sites)
  PROVE  /\ preview.openPeriodLoads = LoadsIn(log, before, sites, OPEN)
         /\ preview.closedPeriodLoads = LoadsIn(log, before, sites, CLOSED)
         /\ preview.closedPeriods =
              UNION {ClosedPeriodRefsForRecord(r, log.upload[r],
                       ClassifyRecordChange(r, log.upload[r], before, log.accreditation, sites),
                       before, Cadence(log.accreditation)) : r \in RowsChanged(log, before, sites)}
  <1> DEFINE Change(r) == ClassifyRecordChange(r, log.upload[r], before, log.accreditation, sites)
             rows == {r \in DOMAIN log.upload : log.outcome[r] # IGNORED /\ Change(r) # UNCHANGED_ROW}
             legs == UNION {Legs(r, log.upload[r], Change(r), before, Cadence(log.accreditation),
                                 log.accreditation, sites) : r \in rows}
             R == RowsChanged(log, before, sites)
             all == UNION {LegsOfRow(NewStatuses(log), OldStatuses(log, before), Inflows(log, sites),
                                     Outflows(log, before), r) : r \in R}
  <1>1. rows = R
    BY DEF RowsChanged
  <1>2. ASSUME NEW r \in R
        PROVE  Legs(r, log.upload[r], Change(r), before, Cadence(log.accreditation),
                    log.accreditation, sites)
                 = LegsOfRow(NewStatuses(log), OldStatuses(log, before), Inflows(log, sites),
                             Outflows(log, before), r)
    <2>1. r \in DOMAIN log.upload
      BY <1>2 DEF RowsChanged
    <2>2. PICK change : change = Change(r)
      OBVIOUS
    <2> QED
      BY <2>1, <2>2, LegsOf
  <1>3. legs = all
    <2> HIDE DEF Change, R
    <2> QED
      BY <1>1, <1>2
  <1>4. /\ preview.openPeriodLoads =
             MapThenSumSet(LAMBDA leg : leg.tonnageDelta, {g \in legs : g.period = OPEN})
        /\ preview.closedPeriodLoads =
             MapThenSumSet(LAMBDA leg : leg.tonnageDelta, {g \in legs : g.period = CLOSED})
        /\ preview.closedPeriods =
             UNION {ClosedPeriodRefsForRecord(r, log.upload[r], Change(r), before,
                                              Cadence(log.accreditation)) : r \in rows}
    BY DEF ClassifyByPeriodStatus
  <1> HIDE DEF legs, rows
  <1>5. /\ preview.openPeriodLoads =
             MapThenSumSet(LAMBDA leg : leg.tonnageDelta, {g \in all : g.period = OPEN})
        /\ preview.closedPeriodLoads =
             MapThenSumSet(LAMBDA leg : leg.tonnageDelta, {g \in all : g.period = CLOSED})
    BY <1>3, <1>4
  <1> QED
    BY <1>1, <1>4, <1>5 DEF LoadsIn, LegsIn

(* The open and the closed loads are what the changed rows move the credit *)
(* by: nothing is dropped with a date that is missing.                     *)
LEMMA LoadsAddUp ==
  ASSUME NEW log, IsFile(log.upload), NEW before, AreStored(before), NEW sites, NEW preview,
         preview = ClassifyByPeriodStatus(log, before, sites)
  PROVE  preview.openPeriodLoads + preview.closedPeriodLoads
           = SumOf(Movements(log, before, sites), DOMAIN log.upload)
  <1>1. PICK D, R, new, old, inflow, outflow :
          /\ D = DOMAIN log.upload /\ R = RowsChanged(log, before, sites)
          /\ new = NewStatuses(log) /\ old = OldStatuses(log, before)
          /\ inflow = Inflows(log, sites) /\ outflow = Outflows(log, before)
    OBVIOUS
  <1>2. IsFiniteSet(D) /\ R \in SUBSET D
    BY <1>1 DEF IsFile, RowsChanged
  <1>3. ASSUME NEW r \in D
        PROVE  /\ inflow[r] \in Int /\ outflow[r] \in Int
               /\ new[r] \in {OPEN, CLOSED, NONE} /\ (inflow[r] # 0 => new[r] \in {OPEN, CLOSED})
               /\ old[r] \in {OPEN, CLOSED, NONE} /\ (outflow[r] # 0 => old[r] \in {OPEN, CLOSED})
    <2>1. PICK data, cadence : data = log.upload[r] /\ cadence = Cadence(log.accreditation)
      OBVIOUS
    <2>2. IsRowData(data) /\ HasItsDates(r.type, data)
      BY <1>1, <2>1 DEF IsFile
    <2>3. /\ inflow[r] = PreviewAmount(r, data, log.accreditation, sites)
          /\ new[r] = ClassifyPeriodStatus(r.type, data, cadence)
      BY <1>1, <2>1 DEF Inflows, NewStatuses
    <2>4. /\ inflow[r] \in Int
          /\ new[r] \in {OPEN, CLOSED, NONE} /\ (inflow[r] # 0 => new[r] \in {OPEN, CLOSED})
      BY <2>2, <2>3, PreviewAmountIs, StatusOfPeriods
    <2>5. CASE r \notin DOMAIN before
      BY <1>1, <2>4, <2>5 DEF OldStatuses, Outflows, WorthBefore
    <2>6. CASE r \in DOMAIN before
      <3>1. PICK s : s = before[r]
        OBVIOUS
      <3>2. /\ outflow[r] = GetTargetAmount(s.classification)
            /\ old[r] = ClassifyPeriodStatus(r.type, s.data, cadence)
        BY <1>1, <2>1, <2>6, <3>1 DEF OldStatuses, Outflows, WorthBefore
      <3>3. IsStored(s, r)
        BY <2>6, <3>1 DEF AreStored
      <3>4. /\ outflow[r] \in Int
            /\ old[r] \in {OPEN, CLOSED, NONE} /\ (outflow[r] # 0 => old[r] \in {OPEN, CLOSED})
        BY <3>2, <3>3, StoredHasPeriod, StatusOfPeriods
      <3> QED
        BY <2>4, <3>4
    <2> QED
      BY <2>5, <2>6
  <1>4. NONE # OPEN /\ NONE # CLOSED /\ OPEN # CLOSED
    BY RowAssumption DEF OPEN, CLOSED
  <1>5. PICK f, e, g :
          /\ f = [r \in D |-> IF r \in R THEN Share(new, old, inflow, outflow, r, OPEN) ELSE 0]
          /\ e = [r \in D |-> IF r \in R THEN Share(new, old, inflow, outflow, r, CLOSED) ELSE 0]
          /\ g = Movements(log, before, sites)
    OBVIOUS
  <1>6. /\ \A r \in D : f[r] \in Int /\ e[r] \in Int
        /\ \A r \in D : g[r] = f[r] + e[r]
    <2> SUFFICES ASSUME NEW r \in D PROVE f[r] \in Int /\ e[r] \in Int /\ g[r] = f[r] + e[r]
      OBVIOUS
    <2>1. PICK i, o, n, m : i = inflow[r] /\ o = outflow[r] /\ n = new[r] /\ m = old[r]
      OBVIOUS
    <2>2. g[r] = IF r \in R THEN i - o ELSE 0
      BY <1>1, <1>5, <2>1 DEF Movements, Inflows, Outflows
    <2>3. /\ f[r] = IF r \in R THEN (IF OPEN = n THEN i ELSE 0) - (IF OPEN = m THEN o ELSE 0) ELSE 0
          /\ e[r] = IF r \in R THEN (IF CLOSED = n THEN i ELSE 0) - (IF CLOSED = m THEN o ELSE 0) ELSE 0
      BY <1>5, <2>1 DEF Share
    <2>4. /\ i \in Int /\ o \in Int
          /\ n \in {OPEN, CLOSED, NONE} /\ (i # 0 => n \in {OPEN, CLOSED})
          /\ m \in {OPEN, CLOSED, NONE} /\ (o # 0 => m \in {OPEN, CLOSED})
      BY <1>3, <2>1
    <2> QED
      BY ONLY <1>4, <2>2, <2>3, <2>4
  <1>7. SumOf(g, D) = SumOf(f, D) + SumOf(e, D)
    BY <1>2, <1>6, SumOfSums
  <1>8. \A r \in R : inflow[r] \in Int /\ outflow[r] \in Int
    BY <1>2, <1>3
  <1>9. LoadsIn(log, before, sites, OPEN) = SumOf(f, D)
    <2>1. MapThenSumSet(LAMBDA leg : leg.tonnageDelta, LegsIn(R, new, old, inflow, outflow, OPEN))
            = SumOf(f, D)
      BY <1>2, <1>4, <1>5, <1>8, LoadsOfStatus
    <2> QED
      BY <1>1, <2>1 DEF LoadsIn
  <1>10. LoadsIn(log, before, sites, CLOSED) = SumOf(e, D)
    <2>1. MapThenSumSet(LAMBDA leg : leg.tonnageDelta, LegsIn(R, new, old, inflow, outflow, CLOSED))
            = SumOf(e, D)
      BY <1>2, <1>4, <1>5, <1>8, LoadsOfStatus
    <2> QED
      BY <1>1, <2>1 DEF LoadsIn
  <1> QED
    BY <1>1, <1>5, <1>7, <1>9, <1>10, PreviewIs

(* The closed periods are found as long as the reports are those that were *)
(* submitted when the log was uploaded.                                    *)
LEMMA PeriodsAreRestated ==
  ASSUME NEW log, NEW before, NEW sites, NEW preview,
         preview = ClassifyByPeriodStatus(log, before, sites), reports = log.closed
  PROVE  preview.closedPeriods = Restated(log, before, sites)
  <1>1. PICK R, cadence : R = RowsChanged(log, before, sites) /\ cadence = Cadence(log.accreditation)
    OBVIOUS
  <1>2. ASSUME NEW r \in R, NEW p
        PROVE  p \in ClosedPeriodRefsForRecord(r, log.upload[r],
                       ClassifyRecordChange(r, log.upload[r], before, log.accreditation, sites),
                       before, cadence)
               <=> /\ p \in log.closed /\ p.cadence = cadence
                   /\ \/ p \in PeriodsForData(template, r.type, log.upload[r], cadence)
                      \/ /\ r \in DOMAIN before
                         /\ p \in PeriodsForData(template, r.type, before[r].data, cadence)
    <2>1. PICK change : change = ClassifyRecordChange(r, log.upload[r], before, log.accreditation, sites)
      OBVIOUS
    <2>2. change = ADDED <=> r \notin DOMAIN before
      BY <2>1, ChangeIs
    <2>3. p \in SubmittedPeriods(cadence) <=> p \in log.closed /\ p.cadence = cadence
      BY DEF SubmittedPeriods
    <2>4. p \in ClosedPeriodRefsForRecord(r, log.upload[r], change, before, cadence)
            <=> /\ p \in SubmittedPeriods(cadence)
                /\ \/ p \in PeriodsForData(template, r.type, log.upload[r], cadence)
                   \/ /\ change # ADDED
                      /\ p \in PeriodsForData(template, r.type, before[r].data, cadence)
      BY DEF ClosedPeriodRefsForRecord
    <2> QED
      BY <2>1, <2>2, <2>3, <2>4
  <1>3. PICK F : F = [r \in R |-> ClosedPeriodRefsForRecord(r, log.upload[r],
                        ClassifyRecordChange(r, log.upload[r], before, log.accreditation, sites),
                        before, cadence)]
    OBVIOUS
  <1>4. preview.closedPeriods = UNION {F[r] : r \in R}
    <2>1. preview.closedPeriods =
            UNION {ClosedPeriodRefsForRecord(r, log.upload[r],
                     ClassifyRecordChange(r, log.upload[r], before, log.accreditation, sites),
                     before, cadence) : r \in R}
      BY <1>1, PreviewIs
    <2> QED
      BY <1>3, <2>1
  <1>5. \A p : p \in preview.closedPeriods <=> \E r \in R : p \in F[r]
    BY <1>4
  <1>6. \A r \in R : \A p : p \in F[r] <=>
          /\ p \in log.closed /\ p.cadence = cadence
          /\ \/ p \in PeriodsForData(template, r.type, log.upload[r], cadence)
             \/ /\ r \in DOMAIN before
                /\ p \in PeriodsForData(template, r.type, before[r].data, cadence)
    BY <1>2, <1>3
  <1>7. \A p : p \in Restated(log, before, sites) <=>
          /\ p \in log.closed /\ p.cadence = cadence
          /\ \E r \in R :
               \/ p \in PeriodsForData(template, r.type, log.upload[r], cadence)
               \/ /\ r \in DOMAIN before
                  /\ p \in PeriodsForData(template, r.type, before[r].data, cadence)
    BY <1>1 DEF Restated
  <1>8. \A p : p \in preview.closedPeriods <=> p \in Restated(log, before, sites)
    BY ONLY <1>5, <1>6, <1>7
  <1> QED
    BY <1>8

-----------------------------------------------------------------------------
(* The invariant of previews and flags.                                    *)

EXAMINED == {"classifying", "validated", "submitting", "submitted"}
VIEWED   == {"validated", "submitting", "submitted"}

(* The rows of the submission that a log was uploaded against.             *)
Before(l) == ByKey(FindRowStatesForSummaryLog(BaselineOf(l)))

HeadSettled == ledger = <<>> \/ logs[HeadLog(ledger)].status # "submitting"

Foreseen(l) == Foretells(logs[l].preview, logs[l], Before(l), logs[l].sites)

(* What validation found of a log.                                         *)
IsExamined(log) ==
  /\ {"accreditation", "outcome"} \subseteq DOMAIN log
  /\ log.accreditation \in AccreditationsOf(template)
  /\ \A r \in DOMAIN log.upload :
       log.outcome[r] = MarkIgnored(template, r.type, log.upload[r], log.accreditation)

Examined ==
  \A l \in Logs :
    /\ logs[l].status \in EXAMINED => IsExamined(logs[l])
    /\ logs[l].status \in VIEWED => {"sites", "preview"} \subseteq DOMAIN logs[l]

ClosedBefore == \A l \in Logs : HasFile(l) => logs[l].closed \subseteq reports

(* A preview that can still be confirmed, or was, is made against the      *)
(* submission before.                                                      *)
Expecting(l) ==
  \/ /\ logs[l].status = "validated"
     /\ BaselineOf(l) = LatestSubmitted /\ reports = logs[l].closed /\ HeadSettled
  \/ /\ logs[l].status = "submitting"
     /\ job.step = "checkReports" /\ job.receives = 1 => reports = logs[l].closed
  \/ logs[l].status = "submitted"

Previewed == \A l \in Logs : Expecting(l) => Foreseen(l)

(* Every submission is worked against the one before, and stored in full.  *)
InTurn ==
  /\ \A i \in 2..Len(submissions) : BaselineOf(submissions[i]) = submissions[i - 1]
  /\ \A i \in DOMAIN submissions : \A r \in DOMAIN logs[submissions[i]].upload :
       Stored(submissions[i], r)

(* The latest submission has the rows of the head, if it has no event.     *)
LatestHasRows ==
  ledger # <<>> /\ HeadSettled =>
    /\ submissions # <<>>
    /\ DOMAIN logs[HeadLog(ledger)].upload \subseteq DOMAIN logs[LatestSubmitted].upload

Flags ==
  /\ \A p, l : <<p, l>> \in flagged =>
       /\ l \in Logs /\ logs[l].status \in Settling
       /\ p \in logs[l].preview.closedPeriods
       /\ FirstTry => l # job.log
  /\ \A l \in Logs : logs[l].status = "submitted" \/ (job.step = "finish" /\ l = job.log) =>
       \A p \in logs[l].preview.closedPeriods : <<p, l>> \in flagged

PreviewInv ==
  Examined /\ ClosedBefore /\ Previewed /\ InTurn /\ LatestHasRows /\ Flags

LEMMA InitPreview ==
  ASSUME Init PROVE PreviewInv
  <1>1. Examined /\ ClosedBefore /\ Previewed
    BY DEF Init, Examined, ClosedBefore, Previewed, Expecting, NoLog, HasFile, FILED, EXAMINED, VIEWED
  <1>2. InTurn /\ LatestHasRows
    BY DEF Init, InTurn, LatestHasRows
  <1>3. Flags
    BY DEF Init, Flags, NoLog, NoJob
  <1> QED
    BY <1>1, <1>2, <1>3 DEF PreviewInv

-----------------------------------------------------------------------------
(* What the steps do to what is known of a log.                            *)

SameView(old, new) ==
  /\ SameFile(old, new)
  /\ DOMAIN old \subseteq DOMAIN new
  /\ new.accreditation = old.accreditation /\ new.outcome = old.outcome
  /\ new.sites = old.sites /\ new.preview = old.preview

Viewing == {"accreditation", "outcome", "sites", "preview"}

LEMMA ExaminedKept ==
  ASSUME NEW old, NEW new, IsExamined(old), template' = template, DOMAIN old \subseteq DOMAIN new,
         new.upload = old.upload, new.accreditation = old.accreditation, new.outcome = old.outcome
  PROVE  IsExamined(new)'
  BY DEF IsExamined, AccreditationsOf, ContextsOf

LEMMA ValidateExamines ==
  ASSUME RowInv, NEW l \in Logs, Validate(l), logs'[l].status = "classifying"
  PROVE  IsExamined(logs[l])'
  <1> DEFINE upload == logs[l].upload
             a == context.accreditation
             outcome == [r \in DOMAIN upload |-> MarkIgnored(template, r.type, upload[r], a)]
             fatal == RejectedRows(upload) # {} \/ RemovedRows(upload) # {}
             g == [status |-> "classifying", accreditation |-> a, outcome |-> outcome]
  <1>1. /\ logs[l].status = "validating" /\ template' = template
        /\ logs' = [logs EXCEPT ![l] = IF fatal THEN [status |-> "invalid"] ELSE Update(logs[l], g)]
    BY DEF Validate
  <1>2. logs'[l] = IF fatal THEN [status |-> "invalid"] ELSE Update(logs[l], g)
    BY <1>1 DEF RowInv, TypeInv, LogsTyped
  <1>3. logs'[l] = Update(logs[l], g)
    BY <1>2
  <1>4. IsFiled(logs[l])
    BY <1>1 DEF RowInv, TypeInv, LogsTyped, HasFile, FILED
  <1>5. /\ g = [f \in DOMAIN g |-> g[f]] /\ {"status", "accreditation", "outcome"} \subseteq DOMAIN g
        /\ DOMAIN g \cap Kept = {} /\ g.accreditation = a /\ g.outcome = outcome
    BY DEF Kept
  <1>6. PICK h : h = g
    OBVIOUS
  <1>7. /\ (Update(logs[l], h)).upload = upload
        /\ (Update(logs[l], h)).accreditation = a /\ (Update(logs[l], h)).outcome = outcome
        /\ {"accreditation", "outcome"} \subseteq DOMAIN Update(logs[l], h)
    <2> HIDE DEF g, outcome
    <2>1. SameFile(logs[l], Update(logs[l], h)) /\ \A f \in DOMAIN h : Update(logs[l], h)[f] = h[f]
      BY <1>4, <1>5, <1>6, Overlaid
    <2>2. DOMAIN h \subseteq DOMAIN Update(logs[l], h)
      BY DEF Update
    <2> QED
      BY <1>5, <1>6, <2>1, <2>2 DEF SameFile
  <1>8. a \in AccreditationsOf(template)
    BY DEF RowInv, TypeInv, ContextTyped, AccreditationsOf
  <1>9. PICK log : log = Update(logs[l], h) /\ logs'[l] = log
    BY <1>3, <1>6
  <1>10. IsExamined(log)
    <2>1. log.outcome = [r \in DOMAIN upload |-> MarkIgnored(template, r.type, upload[r], a)]
      BY <1>7, <1>9
    <2> HIDE DEF g, outcome
    <2> QED
      BY <1>7, <1>8, <1>9, <2>1 DEF IsExamined
  <1> QED
    BY <1>1, <1>9, <1>10 DEF IsExamined, AccreditationsOf, ContextsOf

LEMMA ClassifyViews ==
  ASSUME RowInv, NEW l \in Logs, ClassifyAndPersist(l)
  PROVE  /\ SameFile(logs[l], logs'[l]) /\ DOMAIN logs[l] \subseteq DOMAIN logs'[l]
         /\ {"sites", "preview"} \subseteq DOMAIN logs'[l]
         /\ logs'[l].sites = context.sites
         /\ logs'[l].preview = ClassifyByPeriodStatus(logs[l], ByKey(HeadDocuments), context.sites)
         /\ {"accreditation", "outcome"} \subseteq DOMAIN logs[l] =>
              logs'[l].accreditation = logs[l].accreditation /\ logs'[l].outcome = logs[l].outcome
  <1> DEFINE preview == ClassifyByPeriodStatus(logs[l], ByKey(HeadDocuments), context.sites)
             g == [status |-> "validated", sites |-> context.sites, preview |-> preview]
  <1>1. logs[l].status = "classifying" /\ logs' = [logs EXCEPT ![l] = Update(logs[l], g)]
    BY DEF ClassifyAndPersist
  <1>2. IsFiled(logs[l]) /\ logs'[l] = Update(logs[l], g)
    BY <1>1 DEF RowInv, TypeInv, LogsTyped, HasFile, FILED
  <1> HIDE DEF preview
  <1>3. /\ g = [f \in DOMAIN g |-> g[f]] /\ DOMAIN g = {"status", "sites", "preview"}
        /\ DOMAIN g \cap Kept = {} /\ g.sites = context.sites /\ g.preview = preview
    BY DEF Kept
  <1> HIDE DEF g
  <1>4. /\ SameFile(logs[l], Update(logs[l], g))
        /\ \A f \in DOMAIN g : Update(logs[l], g)[f] = g[f]
    BY <1>2, <1>3, Overlaid
  <1>5. /\ DOMAIN Update(logs[l], g) = DOMAIN logs[l] \cup DOMAIN g
        /\ \A f \in DOMAIN logs[l] \ DOMAIN g : Update(logs[l], g)[f] = logs[l][f]
    BY DEF Update
  <1> QED
    BY <1>2, <1>3, <1>4, <1>5 DEF preview

LEMMA ConfirmKeepsView ==
  ASSUME RowInv, NEW l \in Logs, Confirm(l), logs'[l].status = "submitting",
         Viewing \subseteq DOMAIN logs[l]
  PROVE  SameView(logs[l], logs'[l])
  <1>1. logs[l].status = "validated" /\ IsFiled(logs[l])
    BY DEF Confirm, RowInv, TypeInv, LogsTyped, HasFile, FILED
  <1>2. logs'[l] = [logs[l] EXCEPT !.status = "submitting"] \/ logs'[l] = [status |-> "superseded"]
    BY DEF Confirm, RowInv, TypeInv, LogsTyped
  <1>3. logs'[l] = [logs[l] EXCEPT !.status = "submitting"]
    BY <1>2
  <1> QED
    BY <1>1, <1>3 DEF IsFiled, SameView, SameFile, Viewing

LEMMA FinishKeepsView ==
  ASSUME RowInv, NEW l, l = job.log, Finish, Viewing \subseteq DOMAIN logs[l]
  PROVE  SameView(logs[l], logs'[l])
  <1> DEFINE g == [status |-> "submitted",
                   submittedUnder |-> [accreditation |-> job.accreditation, sites |-> job.sites]]
  <1>1. l \in Logs /\ logs[l].status = "submitting"
    BY FinishMoves DEF RowInv, Moves
  <1>2. IsFiled(logs[l]) /\ logs'[l] = Update(logs[l], g)
    BY <1>1 DEF RowInv, TypeInv, LogsTyped, HasFile, FILED, Finish
  <1>3. /\ g = [f \in DOMAIN g |-> g[f]] /\ DOMAIN g = {"status", "submittedUnder"}
        /\ DOMAIN g \cap Kept = {} /\ DOMAIN g \cap Viewing = {}
    BY DEF Kept, Viewing
  <1> HIDE DEF g
  <1>4. SameFile(logs[l], Update(logs[l], g))
    BY <1>2, <1>3, Overlaid
  <1>5. /\ DOMAIN Update(logs[l], g) = DOMAIN logs[l] \cup DOMAIN g
        /\ \A f \in DOMAIN logs[l] \ DOMAIN g : Update(logs[l], g)[f] = logs[l][f]
    BY DEF Update
  <1> QED
    BY <1>2, <1>3, <1>4, <1>5 DEF SameView, Viewing

-----------------------------------------------------------------------------
(* What a preview is made against.                                         *)

LEMMA NobodysRows ==
  ASSUME TypeInv
  PROVE  FindRowStatesForSummaryLog(NONE) = {}
  BY DocumentsTyped, RowAssumption DEF FindRowStatesForSummaryLog

LEMMA NoRowsStored ==
  ASSUME TypeInv, Written, NEW l \in Logs, DOMAIN logs[l].upload = {}
  PROVE  FindRowStatesForSummaryLog(l) = {}
  BY DEF FindRowStatesForSummaryLog, Written

LEMMA DocumentIsStored ==
  ASSUME TypeInv, NEW i \in DOMAIN rowStates
  PROVE  IsStored(rowStates[i].state, rowStates[i].state.row)
  <1>1. PICK s : s = rowStates[i].state /\ s \in RowStates(template)
    <2>1. rowStates \in Seq(Documents)
      BY DEF TypeInv, StoresTyped
    <2>2. rowStates[i] \in Documents
      BY <2>1
    <2> QED
      BY <2>2 DEF Documents
  <1>2. PICK r \in RowsOf(template) : \E data \in Contents[template][r] : \E a, sites :
          s = ProjectSummaryLogRowState(template, r, data, a, sites)
    BY <1>1 DEF RowStates
  <1>3. PICK data \in Contents[template][r] : \E a, sites :
          s = ProjectSummaryLogRowState(template, r, data, a, sites)
    BY <1>2
  <1>4. PICK a, sites : s = ProjectSummaryLogRowState(template, r, data, a, sites)
    BY <1>3
  <1>5. s.row = r
    BY <1>4 DEF ProjectSummaryLogRowState
  <1>6. IsRowData(data) /\ HasItsDates(r.type, data)
    BY <1>2, RowAssumption DEF TypeInv, ContextTyped
  <1> QED
    BY <1>1, <1>4, <1>5, <1>6 DEF IsStored

(* What is found by the rows of a submission is stored.                    *)
LEMMA SubmissionIsStored ==
  ASSUME RowInv, InTurn, NEW l \in {NONE} \cup Range(submissions)
  PROVE  AreStored(ByKey(FindRowStatesForSummaryLog(l)))
  <1>1. CASE l = NONE
    BY <1>1, NobodysRows DEF RowInv, AreStored, ByKey
  <1>2. CASE l # NONE
    <2>1. PICK n \in DOMAIN submissions : l = submissions[n]
      BY <1>2 DEF Range
    <2>2. l \in Logs /\ \A r \in DOMAIN logs[l].upload : Stored(l, r)
      BY <2>1, LatestOf DEF InTurn, RowInv
    <2>3. PICK before : before = ByKey(FindRowStatesForSummaryLog(l))
      OBVIOUS
    <2>4. /\ DOMAIN before = DOMAIN logs[l].upload
          /\ \A r \in DOMAIN logs[l].upload :
               \E i \in FindRowStatesForSummaryLog(l) :
                 rowStates[i].state.row = r /\ before[r] = rowStates[i].state
      BY <2>2, <2>3, RowsOfLog DEF RowInv, OfCommand
    <2>5. ASSUME NEW r \in DOMAIN before PROVE IsStored(before[r], r)
      <3>1. PICK i \in DOMAIN rowStates : rowStates[i].state.row = r /\ before[r] = rowStates[i].state
        BY <2>4 DEF FindRowStatesForSummaryLog
      <3> QED
        BY <3>1, DocumentIsStored DEF RowInv
    <2> QED
      BY <2>3, <2>5 DEF AreStored
  <1> QED
    BY <1>1, <1>2

(* Between submissions the head of the ledger has the rows of the latest.  *)
LEMMA HeadIsBefore ==
  ASSUME RowInv, InTurn, LatestHasRows, HeadSettled
  PROVE  ByKey(HeadDocuments) = ByKey(FindRowStatesForSummaryLog(LatestSubmitted))
  <1>1. TypeInv /\ Written
    BY DEF RowInv, OfCommand
  <1>2. CASE submissions = <<>>
    <2>1. FindRowStatesForSummaryLog(LatestSubmitted) = {}
      BY <1>1, <1>2, NobodysRows DEF LatestSubmitted
    <2>2. ledger = <<>>
      BY <1>2 DEF LatestHasRows
    <2> QED
      BY <2>1, <2>2 DEF HeadDocuments
  <1>3. CASE submissions # <<>>
    <2>1. PICK n : n = Len(submissions) /\ n \in DOMAIN submissions
      BY <1>1, <1>3, LatestOf
    <2>2. PICK l \in Logs : l = submissions[n] /\ l = LatestSubmitted
      BY <1>1, <1>3, <2>1, LatestOf
    <2>3. CASE ledger = <<>>
      <3>1. ~ Recorded(l)
        BY <2>1, <2>2, <2>3 DEF RowInv, OfStores, HeadIsLatest
      <3>2. FindRowStatesForSummaryLog(l) = {}
        BY <1>1, <3>1, NoRowsStored DEF Recorded
      <3> QED
        BY <2>2, <2>3, <3>2 DEF HeadDocuments
    <2>4. CASE ledger # <<>>
      <3>1. PICK h \in Logs : h = HeadLog(ledger)
        BY <1>1, <2>4, HeadOf
      <3>2. logs[h].status # "submitting"
        BY <2>4, <3>1 DEF HeadSettled
      <3>3. PICK m \in DOMAIN submissions :
              /\ submissions[m] = h /\ Recorded(h)
              /\ \A j \in DOMAIN submissions : Recorded(submissions[j]) => j <= m
        BY <2>4, <3>1, <3>2 DEF RowInv, OfStores, HeadIsLatest
      <3>4. CASE Recorded(l)
        <4>1. m = n
          <5>1. m \in 1..n /\ n \in Nat /\ n <= m
            BY <1>1, <2>1, <2>2, <3>3, <3>4, LatestOf
          <5> QED
            BY <5>1
        <4> QED
          BY <2>2, <2>4, <3>1, <3>3, <4>1 DEF HeadDocuments
      <3>5. CASE ~ Recorded(l)
        <4>1. DOMAIN logs[l].upload = {}
          BY <3>5 DEF Recorded
        <4>2. DOMAIN logs[h].upload = {}
          BY <2>2, <2>4, <3>1, <4>1 DEF LatestHasRows
        <4> QED
          BY <1>1, <2>2, <2>4, <3>1, <4>1, <4>2, NoRowsStored DEF HeadDocuments
      <3> QED
        BY <3>4, <3>5
    <2> QED
      BY <2>3, <2>4
  <1> QED
    BY <1>2, <1>3

-----------------------------------------------------------------------------
(* What is foreseen stays so.                                              *)

LEMMA ForetellsSame ==
  ASSUME template' = template, NEW preview, NEW old, NEW new, NEW before, NEW sites,
         new.upload = old.upload, new.closed = old.closed,
         new.accreditation = old.accreditation, new.outcome = old.outcome,
         Foretells(preview, old, before, sites)
  PROVE  Foretells(preview, new, before, sites)'
  <1>1. RowsChanged(new, before, sites)' = RowsChanged(old, before, sites)
    BY DEF RowsChanged, ClassifyRecordChange
  <1>2. PICK R : R = RowsChanged(old, before, sites) /\ R = RowsChanged(new, before, sites)'
    BY <1>1
  <1>3. Movements(new, before, sites)' = Movements(old, before, sites)
    BY <1>2 DEF Movements, PreviewAmount
  <1>4. Restated(new, before, sites)' = Restated(old, before, sites)
    BY <1>2 DEF Restated
  <1> QED
    BY <1>3, <1>4 DEF Foretells

LEMMA ForeseenSame ==
  ASSUME NEW l, Foreseen(l), template' = template, SameView(logs[l], logs'[l]),
         Before(l)' = Before(l)
  PROVE  Foreseen(l)'
  <1>1. PICK preview, old, new, before, sites :
          /\ preview = logs[l].preview /\ old = logs[l] /\ new = logs'[l]
          /\ before = Before(l) /\ sites = logs[l].sites
    OBVIOUS
  <1>2. Foretells(preview, old, before, sites)
    BY <1>1 DEF Foreseen
  <1>3. Foretells(preview, new, before, sites)'
    BY <1>1, <1>2, ForetellsSame DEF SameView, SameFile
  <1>4. preview = logs'[l].preview /\ sites = logs'[l].sites /\ before = Before(l)'
    BY <1>1 DEF SameView
  <1> QED
    BY <1>1, <1>3, <1>4 DEF Foreseen

LEMMA BeforeSame ==
  ASSUME NEW l, rowStates' = rowStates, logs'[l].baseline = logs[l].baseline
  PROVE  Before(l)' = Before(l)
  BY DEF Before, BaselineOf, FindRowStatesForSummaryLog, ByKey

(* The rows of another log than that worked are not touched.               *)
LEMMA UpsertKeepsBefore ==
  ASSUME RowInv, UpsertRow, NEW m, m # job.log
  PROVE  ByKey(FindRowStatesForSummaryLog(m))' = ByKey(FindRowStatesForSummaryLog(m))
  <1>1. PICK s, l, k : l = job.log /\ Upserted(s, l, k)
    BY UpsertRowUpserts DEF RowInv
  <1>2. PICK D : D = FindRowStatesForSummaryLog(m)
    OBVIOUS
  <1>3. FindRowStatesForSummaryLog(m)' = D
    BY <1>1, <1>2 DEF FindRowStatesForSummaryLog, Upserted
  <1>4. \A i \in D : rowStates'[i].state = rowStates[i].state
    BY <1>1, <1>2 DEF FindRowStatesForSummaryLog, Upserted
  <1>5. \A i \in DOMAIN rowStates : rowStates'[i].state = rowStates[i].state
    BY <1>1 DEF Upserted
  <1>6. PICK rows : rows = {rowStates[i].state.row : i \in D}
    OBVIOUS
  <1>7. rows = {rowStates'[i].state.row : i \in D}
    BY <1>4, <1>6
  <1>8. ASSUME NEW r \in rows
        PROVE  /\ {i \in D : rowStates'[i].state.row = r} = {i \in D : rowStates[i].state.row = r}
               /\ rowStates'[Max({i \in D : rowStates[i].state.row = r})].state
                    = rowStates[Max({i \in D : rowStates[i].state.row = r})].state
    <2>1. {i \in D : rowStates'[i].state.row = r} = {i \in D : rowStates[i].state.row = r}
      BY <1>4
    <2>2. PICK i \in D : rowStates[i].state.row = r
      BY <1>6
    <2>3. {j \in D : rowStates[j].state.row = r} = {i}
      BY <1>2, <2>2 DEF RowInv, OfCommand, Written, FindRowStatesForSummaryLog
    <2>4. Max({j \in D : rowStates[j].state.row = r}) \in D
      <3>1. i \in Nat
        BY <1>2, DocumentsTyped DEF FindRowStatesForSummaryLog, RowInv
      <3> QED
        BY <2>3, <3>1 DEF Max
    <2> QED
      BY <1>4, <2>1, <2>2, <2>4
  <1>9. ByKey(D) = [r \in rows |-> rowStates[Max({i \in D : rowStates[i].state.row = r})].state]
    BY <1>6 DEF ByKey
  <1>10. ByKey(D)' = [r \in rows |-> rowStates'[Max({i \in D : rowStates'[i].state.row = r})].state]
    BY <1>7 DEF ByKey
  <1>11. ByKey(D)' = ByKey(D)
    BY <1>8, <1>9, <1>10
  <1> QED
    BY <1>2, <1>3, <1>11

-----------------------------------------------------------------------------
(* Every step keeps the previews.                                          *)

Views == Examined /\ ClosedBefore /\ Previewed /\ InTurn /\ LatestHasRows

(* A step that stores no row and makes no submission: at most one log, not *)
(* submitted, changes, and the reports only grow.                          *)
Beside(l) ==
  /\ UNCHANGED <<template, submissions, rowStates>>
  /\ HeadSettled' => ledger' = ledger
  /\ reports \subseteq reports'
  /\ \A k \in Logs \ {l} : logs'[k] = logs[k]
  /\ l \in Logs =>
       /\ logs[l].status # "submitted" /\ logs'[l].status # "submitted"
       /\ \A i \in DOMAIN ledger : ledger[i].log # l

(* What the step says of that log.                                         *)
MadeOf(l) ==
  l \in Logs =>
    /\ HasFile(l)' => logs'[l].closed \subseteq reports'
    /\ logs'[l].status \in EXAMINED => IsExamined(logs[l])'
    /\ logs'[l].status \in VIEWED => {"sites", "preview"} \subseteq DOMAIN logs'[l]
    /\ Expecting(l)' => Foreseen(l)'

(* The reports of another's command need no new look.                      *)
LooksOn(l) ==
  \/ job' = job
  \/ ~ (job.step = "checkReports" /\ job.receives = 1)
  \/ \A k \in Logs \ {l} : logs[k].status = "submitting" => reports = logs[k].closed

LEMMA BesideKeepsViews ==
  ASSUME RowInv, Views, NEW l, Beside(l), MadeOf(l), LooksOn(l)
  PROVE  Views'
  <1>1. /\ template' = template /\ submissions' = submissions /\ rowStates' = rowStates
        /\ HeadSettled' => ledger' = ledger
        /\ reports \subseteq reports' /\ \A k \in Logs \ {l} : logs'[k] = logs[k]
    BY DEF Beside
  <1>2. HeadSettled' => HeadSettled /\ ledger' = ledger
                        /\ (ledger # <<>> => HeadLog(ledger) \in Logs \ {l})
    <2> SUFFICES ASSUME HeadSettled'
                 PROVE  HeadSettled /\ ledger' = ledger
                        /\ (ledger # <<>> => HeadLog(ledger) \in Logs \ {l})
      OBVIOUS
    <2>1. ledger' = ledger
      BY <1>1
    <2>2. CASE ledger = <<>>
      BY <2>1, <2>2 DEF HeadSettled
    <2>3. CASE ledger # <<>>
      <3>1. PICK h : h = HeadLog(ledger) /\ h \in Logs \ {l}
        BY <2>3, HeadOf DEF RowInv, Beside
      <3>2. HeadLog(ledger)' = h /\ logs'[h] = logs[h]
        BY <1>1, <2>1, <3>1
      <3> QED
        BY <2>1, <2>3, <3>1, <3>2 DEF HeadSettled
    <2> QED
      BY <2>2, <2>3
  <1>3. ASSUME NEW i \in DOMAIN submissions
        PROVE  submissions[i] \in Logs \ {l} /\ logs'[submissions[i]] = logs[submissions[i]]
    BY <1>1, LatestOf DEF RowInv, OfStores, SubmittedOnce, Beside
  <1>4. Examined'
    <2> SUFFICES ASSUME NEW k \in Logs
                 PROVE  /\ logs'[k].status \in EXAMINED => IsExamined(logs[k])'
                        /\ logs'[k].status \in VIEWED => {"sites", "preview"} \subseteq DOMAIN logs'[k]
      BY DEF Examined
    <2>1. CASE k = l
      BY <2>1 DEF MadeOf
    <2>2. CASE k # l
      <3>1. logs'[k] = logs[k]
        BY <1>1, <2>2
      <3>2. logs[k].status \in VIEWED => {"sites", "preview"} \subseteq DOMAIN logs[k]
        BY DEF Views, Examined
      <3>3. logs[k].status \in EXAMINED => IsExamined(logs[k])
        BY DEF Views, Examined
      <3>4. IsExamined(logs[k]) => IsExamined(logs[k])'
        BY <1>1, <3>1 DEF IsExamined, AccreditationsOf, ContextsOf
      <3> QED
        BY <3>1, <3>2, <3>3, <3>4
    <2> QED
      BY <2>1, <2>2
  <1>5. ClosedBefore'
    BY <1>1 DEF Views, ClosedBefore, MadeOf, HasFile
  <1>6. Previewed'
    <2> SUFFICES ASSUME NEW k \in Logs, k # l, Expecting(k)' PROVE Foreseen(k)'
      BY DEF Previewed, MadeOf
    <2>1. logs'[k] = logs[k]
      BY <1>1
    <2>2. HasFile(k) => logs[k].closed \subseteq reports
      BY DEF Views, ClosedBefore
    <2>3. Expecting(k)
      <3>1. CASE logs[k].status = "validated"
        <4>1. BaselineOf(k) = LatestSubmitted /\ HeadSettled /\ reports' = logs[k].closed
          BY <1>1, <1>2, <2>1, <3>1 DEF Expecting, BaselineOf, LatestSubmitted
        <4>2. logs[k].closed \subseteq reports
          BY <2>2, <3>1 DEF HasFile, FILED
        <4> QED
          BY <1>1, <3>1, <4>1, <4>2 DEF Expecting
      <3>2. CASE logs[k].status = "submitting"
        <4>1. logs[k].closed \subseteq reports
          BY <2>2, <3>2 DEF HasFile, FILED
        <4>2. job'.step = "checkReports" /\ job'.receives = 1 => reports' = logs[k].closed
          BY <2>1, <3>2 DEF Expecting
        <4>3. job.step = "checkReports" /\ job.receives = 1 => reports = logs[k].closed
          BY <1>1, <3>2, <4>1, <4>2 DEF LooksOn
        <4> QED
          BY <3>2, <4>3 DEF Expecting
      <3>3. CASE logs[k].status = "submitted"
        BY <3>3 DEF Expecting
      <3> QED
        BY <2>1, <3>1, <3>2, <3>3 DEF Expecting
    <2>4. Foreseen(k)
      BY <2>3 DEF Views, Previewed
    <2>5. SameView(logs[k], logs'[k]) /\ Before(k)' = Before(k)
      BY <1>1, <2>1, BeforeSame DEF SameView, SameFile
    <2> QED
      BY <1>1, <2>4, <2>5, ForeseenSame
  <1>7. InTurn'
    <2>1. \A i \in 2..Len(submissions) : i \in DOMAIN submissions
      BY LatestOf DEF RowInv
    <2>2. \A i \in 2..Len(submissions) : BaselineOf(submissions[i])' = submissions[i - 1]
      BY <1>1, <1>3, <2>1 DEF Views, InTurn, BaselineOf
    <2>3. \A i \in DOMAIN submissions : \A r \in DOMAIN logs'[submissions[i]].upload :
            Stored(submissions[i], r)'
      BY <1>1, <1>3 DEF Views, InTurn, Stored
    <2> QED
      BY <1>1, <2>2, <2>3 DEF InTurn
  <1>8. LatestHasRows'
    <2> SUFFICES ASSUME ledger' # <<>>, HeadSettled'
                 PROVE  /\ submissions' # <<>>
                        /\ DOMAIN logs'[HeadLog(ledger')].upload \subseteq DOMAIN logs'[LatestSubmitted'].upload
      BY DEF LatestHasRows
    <2>1. HeadSettled /\ ledger' = ledger /\ ledger # <<>> /\ HeadLog(ledger) \in Logs \ {l}
      BY <1>2
    <2>2. /\ submissions # <<>>
          /\ DOMAIN logs[HeadLog(ledger)].upload \subseteq DOMAIN logs[LatestSubmitted].upload
      BY <2>1 DEF Views, LatestHasRows
    <2>3. Len(submissions) \in DOMAIN submissions /\ LatestSubmitted = submissions[Len(submissions)]
      BY <2>2, LatestOf DEF RowInv
    <2>4. logs'[LatestSubmitted] = logs[LatestSubmitted] /\ LatestSubmitted' = LatestSubmitted
      BY <1>1, <1>3, <2>3 DEF LatestSubmitted
    <2>5. logs'[HeadLog(ledger)] = logs[HeadLog(ledger)] /\ HeadLog(ledger') = HeadLog(ledger)
      BY <1>1, <2>1
    <2> QED
      BY <1>1, <2>2, <2>4, <2>5
  <1> QED
    BY <1>4, <1>5, <1>6, <1>7, <1>8 DEF Views

LEMMA BesideKeepsFlags ==
  ASSUME RowInv, PreviewInv, NEW l, flagged' = flagged,
         \A k \in Logs \ {l} : logs'[k] = logs[k],
         l \in Logs => logs'[l].status # "submitted" /\ \A p : <<p, l>> \notin flagged,
         FirstTry' => (FirstTry /\ job'.log = job.log) \/ job'.log = l,
         job'.step = "finish" => job' = job /\ job.log \in Logs \ {l}
  PROVE  Flags'
  <1>1. ASSUME NEW p, NEW k, <<p, k>> \in flagged
        PROVE  /\ k \in Logs \ {l} /\ logs'[k] = logs[k] /\ logs[k].status \in Settling
               /\ p \in logs[k].preview.closedPeriods
               /\ FirstTry' => k # job'.log
    BY <1>1 DEF PreviewInv, Flags
  <1>2. ASSUME NEW k \in Logs, logs'[k].status = "submitted" \/ (job'.step = "finish" /\ k = job'.log),
               NEW p \in logs'[k].preview.closedPeriods
        PROVE  <<p, k>> \in flagged
    <2>1. k # l /\ logs'[k] = logs[k]
      BY <1>2
    <2> QED
      BY <1>2, <2>1 DEF PreviewInv, Flags
  <1> QED
    BY <1>1, <1>2 DEF Flags

(* A log moves that has not been confirmed, or is being so.                *)
LEMMA UnsettledKeepsPreview ==
  ASSUME RowInv, PreviewInv, NEW l \in Logs, logs[l].status \notin Settling,
         logs'[l].status # "submitted",
         \A k \in Logs \ {l} : logs'[k] = logs[k],
         UNCHANGED <<template, reports, submissions, ledger, rowStates, flagged>>,
         \/ job' = job
         \/ job = NoJob /\ job' = [step |-> "checkReports", log |-> l, receives |-> 1],
         MadeOf(l)
  PROVE  PreviewInv'
  <1>1. /\ UNCHANGED <<template, reports, submissions, ledger, rowStates, flagged>>
        /\ \A k \in Logs \ {l} : logs'[k] = logs[k]
    OBVIOUS
  <1>2. job' = job \/ (job = NoJob /\ job' = [step |-> "checkReports", log |-> l, receives |-> 1])
    OBVIOUS
  <1>3. logs[l].status # "submitted" /\ \A i \in DOMAIN ledger : ledger[i].log # l
    BY UnsettledUnseen DEF Settling, Unseen
  <1>4. Views
    BY DEF PreviewInv, Views
  <1>5. Beside(l)
    BY <1>1, <1>3 DEF Beside
  <1>6. LooksOn(l)
    BY <1>2 DEF LooksOn, NoJob
  <1>7. Views'
    BY <1>4, <1>5, <1>6, BesideKeepsViews
  <1>8. \A p : <<p, l>> \notin flagged
    BY DEF PreviewInv, Flags
  <1>9. FirstTry' => (FirstTry /\ job'.log = job.log) \/ job'.log = l
    BY <1>2 DEF FirstTry
  <1>10. job'.step = "finish" => job' = job /\ job.log \in Logs \ {l}
    <2>1. job'.step = "finish" => job' = job /\ job # NoJob
      BY <1>2 DEF NoJob
    <2> QED
      BY <2>1, UnsettledUnseen, CommandTyped DEF RowInv
  <1>11. Flags'
    BY <1>1, <1>8, <1>9, <1>10, BesideKeepsFlags
  <1> QED
    BY <1>7, <1>11 DEF PreviewInv, Views

LEMMA UploadKeepsPreview ==
  ASSUME RowInv, PreviewInv, NEW l \in Logs, Upload(l)
  PROVE  PreviewInv'
  <1>1. /\ logs[l].status = "none" /\ logs'[l].status = "validating"
        /\ \A k \in Logs \ {l} : logs'[k] = logs[k]
    BY UploadMoves DEF RowInv
  <1>2. UNCHANGED <<template, reports, submissions, ledger, rowStates, flagged, job>>
    BY DEF Upload
  <1>3. logs'[l].closed = reports
    BY DEF Upload, RowInv, TypeInv, LogsTyped
  <1>4. MadeOf(l)
    BY <1>1, <1>2, <1>3 DEF MadeOf, EXAMINED, VIEWED, Expecting
  <1> QED
    BY <1>1, <1>2, <1>4, UnsettledKeepsPreview DEF Settling

LEMMA ValidateKeepsPreview ==
  ASSUME RowInv, PreviewInv, NEW l \in Logs, Validate(l)
  PROVE  PreviewInv'
  <1>1. Moves(l, "validating", "invalid") \/ Moves(l, "validating", "classifying")
    BY ValidateMoves DEF RowInv
  <1>2. UNCHANGED <<template, reports, submissions, ledger, rowStates, flagged, job>>
    BY DEF Validate
  <1>3. logs[l].status = "validating" /\ logs'[l].status \in {"invalid", "classifying"}
    BY <1>1 DEF Moves
  <1>4. HasFile(l)' => logs'[l].closed \subseteq reports'
    <2>1. HasFile(l)' => HasFile(l) /\ logs'[l].closed = logs[l].closed
      BY <1>1 DEF Moves, SameFile, HasFile, FILED
    <2> QED
      BY <1>2, <2>1 DEF PreviewInv, ClosedBefore
  <1>5. MadeOf(l)
    BY <1>3, <1>4, ValidateExamines DEF MadeOf, EXAMINED, VIEWED, Expecting
  <1> QED
    BY <1>1, <1>2, <1>3, <1>5, UnsettledKeepsPreview DEF Settling, Moves

LEMMA ClassifyKeepsPreview ==
  ASSUME RowInv, PreviewInv, NEW l \in Logs, ClassifyAndPersist(l)
  PROVE  PreviewInv'
  <1>1. Moves(l, "classifying", "validated")
    BY ClassifyMoves DEF RowInv
  <1>2. UNCHANGED <<template, context, reports, submissions, ledger, rowStates, flagged, job>>
    BY DEF ClassifyAndPersist
  <1>3. PICK old, new, sites, preview, before :
          /\ old = logs[l] /\ new = logs'[l] /\ sites = context.sites
          /\ before = ByKey(HeadDocuments) /\ preview = ClassifyByPeriodStatus(old, before, sites)
    OBVIOUS
  <1>4. old.status = "classifying" /\ new.status = "validated"
    BY <1>1, <1>3 DEF Moves
  <1>5. IsExamined(old)
    BY <1>3, <1>4 DEF PreviewInv, Examined, EXAMINED
  <1>6. /\ SameFile(old, new) /\ DOMAIN old \subseteq DOMAIN new
        /\ {"sites", "preview"} \subseteq DOMAIN new
        /\ new.sites = sites /\ new.preview = preview
        /\ new.accreditation = old.accreditation /\ new.outcome = old.outcome
    BY <1>3, <1>5, ClassifyViews DEF IsExamined
  <1>7. IsExamined(logs[l])'
    <2>1. IsExamined(new)'
      BY <1>2, <1>5, <1>6, ExaminedKept DEF SameFile
    <2> QED
      BY <1>3, <2>1 DEF IsExamined, AccreditationsOf, ContextsOf
  <1>8. HasFile(l)' => logs'[l].closed \subseteq reports'
    <2>1. HasFile(l) /\ logs'[l].closed = logs[l].closed
      BY <1>3, <1>4, <1>6 DEF SameFile, HasFile, FILED
    <2> QED
      BY <1>2, <2>1 DEF PreviewInv, ClosedBefore
  <1>9. ASSUME Expecting(l)' PROVE Foreseen(l)'
    <2>1. /\ logs'[l].baseline = LatestSubmitted /\ reports = old.closed /\ HeadSettled'
      BY <1>2, <1>3, <1>4, <1>6, <1>9 DEF Expecting, BaselineOf, LatestSubmitted, SameFile
    <2>2. HeadSettled
      <3>1. ledger # <<>> => HeadLog(ledger) \in Logs
        BY HeadOf DEF RowInv
      <3> QED
        BY <1>1, <1>2, <2>1, <3>1 DEF HeadSettled, Moves
    <2>3. before = ByKey(FindRowStatesForSummaryLog(LatestSubmitted)) /\ before = Before(l)
      <3>1. before = ByKey(FindRowStatesForSummaryLog(LatestSubmitted))
        BY <1>3, <2>2, HeadIsBefore DEF PreviewInv
      <3> QED
        BY <1>3, <1>6, <2>1, <3>1 DEF Before, BaselineOf, SameFile
    <2>4. AreStored(before)
      BY <2>3, LatestOf, SubmissionIsStored DEF RowInv, PreviewInv
    <2>5. IsFile(old.upload)
      <3>1. old.upload \in Uploads(template)
        BY <1>3, <1>4 DEF RowInv, TypeInv, LogsTyped, HasFile, FILED, IsFiled
      <3> QED
        BY <3>1, FileTyped DEF IsFile, RowInv
    <2>6. Foretells(preview, old, before, sites)
      BY <1>3, <2>1, <2>4, <2>5, LoadsAddUp, PeriodsAreRestated DEF Foretells
    <2>7. Foretells(preview, new, before, sites)'
      BY <1>2, <1>6, <2>6, ForetellsSame DEF SameFile
    <2>8. Before(l)' = before
      BY <1>2, <1>3, <1>6, <2>3, BeforeSame DEF SameFile
    <2> QED
      BY <1>3, <1>6, <2>7, <2>8 DEF Foreseen
  <1>10. MadeOf(l)
    BY <1>3, <1>6, <1>7, <1>8, <1>9 DEF MadeOf
  <1> QED
    BY <1>1, <1>2, <1>3, <1>4, <1>10, UnsettledKeepsPreview DEF Settling, Moves

LEMMA ConfirmKeepsPreview ==
  ASSUME RowInv, PreviewInv, NEW l \in Logs, Confirm(l)
  PROVE  PreviewInv'
  <1>1. /\ job = NoJob
        /\ \/ /\ Moves(l, "validated", "submitting") /\ logs[l].baseline = LatestSubmitted
              /\ job' = [step |-> "checkReports", log |-> l, receives |-> 1]
           \/ Moves(l, "validated", "superseded") /\ job' = job
    BY ConfirmMoves DEF RowInv
  <1>2. UNCHANGED <<template, reports, submissions, ledger, rowStates, flagged>>
    BY DEF Confirm
  <1>3. logs[l].status = "validated" /\ logs'[l].status \in {"submitting", "superseded"}
    BY <1>1 DEF Moves
  <1>4. Viewing \subseteq DOMAIN logs[l] /\ IsExamined(logs[l])
    BY <1>3 DEF PreviewInv, Examined, EXAMINED, VIEWED, IsExamined, Viewing
  <1>5. CASE Moves(l, "validated", "superseded")
    <2>1. logs'[l].status = "superseded"
      BY <1>5 DEF Moves
    <2>2. MadeOf(l)
      BY <2>1 DEF MadeOf, HasFile, FILED, EXAMINED, VIEWED, Expecting
    <2> QED
      BY <1>1, <1>2, <1>3, <1>5, <2>1, <2>2, UnsettledKeepsPreview DEF Settling, Moves
  <1>6. CASE /\ Moves(l, "validated", "submitting") /\ logs[l].baseline = LatestSubmitted
             /\ job' = [step |-> "checkReports", log |-> l, receives |-> 1]
    <2>1. logs'[l].status = "submitting" /\ SameView(logs[l], logs'[l])
      BY <1>4, <1>6, ConfirmKeepsView DEF Moves
    <2>2. PICK old, new : old = logs[l] /\ new = logs'[l]
      OBVIOUS
    <2>3. IsExamined(logs[l])'
      <3>1. IsExamined(new)'
        BY <1>2, <1>4, <2>1, <2>2, ExaminedKept DEF SameView, SameFile
      <3> QED
        BY <2>2, <3>1 DEF IsExamined, AccreditationsOf, ContextsOf
    <2>4. logs'[l].closed = logs[l].closed /\ logs[l].closed \subseteq reports
      BY <1>3, <2>1 DEF PreviewInv, ClosedBefore, HasFile, FILED, SameView, SameFile
    <2>5. ASSUME Expecting(l)' PROVE Foreseen(l)'
      <3>1. reports = logs[l].closed
        BY <1>2, <1>6, <2>1, <2>4, <2>5 DEF Expecting
      <3>2. HeadSettled
        BY <1>1, NoCommandHead DEF HeadSettled
      <3>3. Foreseen(l)
        BY <1>3, <1>6, <3>1, <3>2 DEF PreviewInv, Previewed, Expecting, BaselineOf
      <3>4. Before(l)' = Before(l)
        BY <1>2, <2>1, BeforeSame DEF SameView, SameFile
      <3> QED
        BY <1>2, <2>1, <3>3, <3>4, ForeseenSame
    <2>6. MadeOf(l)
      BY <1>2, <1>4, <2>1, <2>3, <2>4, <2>5 DEF MadeOf, SameView, Viewing
    <2> QED
      BY <1>1, <1>2, <1>3, <1>6, <2>1, <2>6, UnsettledKeepsPreview DEF Settling, Moves
  <1> QED
    BY <1>1, <1>5, <1>6

(* A step that moves no log, and does not flag.                            *)
LEMMA NoLogKeepsPreview ==
  ASSUME RowInv, PreviewInv, UNCHANGED <<template, logs, submissions, rowStates, flagged>>,
         HeadSettled' => ledger' = ledger, reports \subseteq reports',
         LooksOn(NONE), FirstTry' => FirstTry /\ job'.log = job.log,
         job'.step = "finish" => job' = job
  PROVE  PreviewInv'
  <1>1. NONE \notin Logs
    BY RowAssumption
  <1>2. Views /\ Beside(NONE) /\ MadeOf(NONE)
    BY <1>1 DEF PreviewInv, Views, Beside, MadeOf
  <1>3. Views'
    BY <1>2, BesideKeepsViews
  <1>4. job'.step = "finish" => job' = job /\ job.log \in Logs \ {NONE}
    <2>1. job'.step = "finish" => job' = job /\ job # NoJob
      BY DEF NoJob
    <2> QED
      BY <1>1, <2>1, CommandTyped DEF RowInv
  <1>5. Flags'
    BY <1>1, <1>4, BesideKeepsFlags
  <1> QED
    BY <1>3, <1>5 DEF PreviewInv, Views

LEMMA CheckReportsKeepsPreview ==
  ASSUME RowInv, PreviewInv, CheckReports
  PROVE  PreviewInv'
  <1>1. /\ job # NoJob /\ job.step = "checkReports" /\ job.log \in Logs
        /\ \/ /\ logs' = logs /\ reports = logs[job.log].closed
              /\ job' = [step |-> "readContext", log |-> job.log, receives |-> job.receives]
           \/ /\ Moves(job.log, "submitting", "submission_failed") /\ job' = NoJob
              /\ reports # logs[job.log].closed
    BY CheckReportsMoves DEF RowInv
  <1>2. UNCHANGED <<template, reports, submissions, ledger, rowStates, flagged>>
    BY DEF CheckReports
  <1>3. ASSUME NEW k \in Logs, logs[k].status = "submitting" PROVE k = job.log
    BY <1>3 DEF RowInv, AloneSubmits
  <1>4. CASE /\ logs' = logs /\ reports = logs[job.log].closed
             /\ job' = [step |-> "readContext", log |-> job.log, receives |-> job.receives]
    <2>1. LooksOn(NONE)
      BY <1>3, <1>4 DEF LooksOn
    <2>2. FirstTry' => FirstTry /\ job'.log = job.log
      BY <1>1, <1>4 DEF FirstTry
    <2>3. job'.step # "finish"
      BY <1>4
    <2> QED
      BY <1>2, <1>4, <2>1, <2>2, <2>3, NoLogKeepsPreview
  <1>5. CASE /\ Moves(job.log, "submitting", "submission_failed") /\ job' = NoJob
             /\ reports # logs[job.log].closed
    <2>1. PICK l \in Logs : l = job.log
      BY <1>1
    <2>2. /\ logs[l].status = "submitting" /\ logs'[l].status = "submission_failed"
          /\ \A k \in Logs \ {l} : logs'[k] = logs[k]
          /\ SameFile(logs[l], logs'[l])
      BY <1>5, <2>1 DEF Moves, FILED
    <2>3. FirstTry
      <3>1. job.receives = 1
        BY <1>1, <1>5, CommandTyped DEF RowInv, OfCommand, SameContext
      <3> QED
        BY <1>1, <3>1 DEF FirstTry
    <2>4. \A i \in DOMAIN ledger : ledger[i].log # l
      BY <2>1, <2>3 DEF RowInv, OfCommand, OnlySubmitted
    <2>5. \A p : <<p, l>> \notin flagged
      BY <2>1, <2>3 DEF PreviewInv, Flags
    <2>6. Beside(l)
      BY <1>2, <2>2, <2>4 DEF Beside
    <2>7. MadeOf(l)
      <3>1. logs'[l].closed \subseteq reports'
        BY <1>2, <2>2 DEF PreviewInv, ClosedBefore, HasFile, FILED, SameFile
      <3> QED
        BY <2>2, <3>1 DEF MadeOf, EXAMINED, VIEWED, Expecting
    <2>8. LooksOn(l)
      BY <1>3, <2>1 DEF LooksOn
    <2>9. Views'
      BY <2>6, <2>7, <2>8, BesideKeepsViews DEF PreviewInv, Views
    <2>10. ~ FirstTry' /\ job'.step # "finish"
      BY <1>5 DEF FirstTry, NoJob
    <2>11. Flags'
      BY <1>2, <2>2, <2>5, <2>10, BesideKeepsFlags
    <2> QED
      BY <2>9, <2>11 DEF PreviewInv, Views
  <1> QED
    BY <1>1, <1>4, <1>5

LEMMA ReadContextKeepsPreview ==
  ASSUME RowInv, PreviewInv, ReadContext
  PROVE  PreviewInv'
  <1>1. job.step = "readContext"
    BY DEF ReadContext, AtStep
  <1>2. job'.log = job.log /\ job'.step = "upsert" /\ job'.receives = job.receives
    BY DEF ReadContext
  <1>3. UNCHANGED <<template, reports, logs, submissions, ledger, rowStates, flagged>>
    BY DEF ReadContext
  <1>4. LooksOn(NONE) /\ (FirstTry' => FirstTry)
    BY <1>1, <1>2 DEF LooksOn, FirstTry
  <1> QED
    BY <1>2, <1>3, <1>4, NoLogKeepsPreview

LEMMA CrashKeepsPreview ==
  ASSUME RowInv, PreviewInv, Crash
  PROVE  PreviewInv'
  <1>1. job # NoJob /\ job.step # "checkReports" /\ job.receives \in Nat \ {0}
    BY CommandTyped DEF Crash, RowInv
  <1>2. job'.step = "checkReports" /\ job'.receives = job.receives + 1
    BY DEF Crash
  <1>3. UNCHANGED <<template, reports, logs, submissions, ledger, rowStates, flagged>>
    BY DEF Crash
  <1>4. LooksOn(NONE) /\ ~ FirstTry'
    BY <1>1, <1>2 DEF LooksOn, FirstTry
  <1> QED
    BY <1>2, <1>3, <1>4, NoLogKeepsPreview

LEMMA EnvironmentKeepsPreview ==
  ASSUME RowInv, PreviewInv, SubmitReport \/ ChangeContext \/ UNCHANGED vars
  PROVE  PreviewInv'
  <1>1. UNCHANGED <<template, logs, submissions, ledger, rowStates, job, flagged>>
    BY DEF SubmitReport, ChangeContext, vars
  <1>2. reports \subseteq reports'
    BY DEF SubmitReport, ChangeContext, vars
  <1>3. LooksOn(NONE) /\ (FirstTry' => FirstTry)
    BY <1>1 DEF LooksOn, FirstTry
  <1> QED
    BY <1>1, <1>2, <1>3, NoLogKeepsPreview

LEMMA CommitKeepsPreview ==
  ASSUME RowInv, PreviewInv, CommitLedger
  PROVE  PreviewInv'
  <1>1. UNCHANGED <<template, reports, logs, submissions, rowStates, flagged>>
    BY DEF CommitLedger
  <1>2. job # NoJob /\ job.step = "upsert" /\ job.log \in Logs /\ logs[job.log].status = "submitting"
    <2>1. job # NoJob /\ job.step = "upsert"
      BY DEF CommitLedger, AtStep, NoJob
    <2> QED
      BY <2>1, CommandTyped DEF RowInv
  <1>3. job'.step = "flag"
    <2>1. job \in [step : {"upsert", "flag", "finish"}, log : Logs, receives : Nat \ {0},
                   accreditation : AccreditationsOf(template), sites : SitesOf(template),
                   left : SUBSET RowsOf(template)]
      BY <1>2 DEF RowInv, TypeInv, StoresTyped, Jobs
    <2> QED
      BY <2>1 DEF CommitLedger
  <1>4. HeadSettled' => ledger' = ledger
    <2>1. PICK e : ledger' = ledger \/ (ledger' = Append(ledger, e) /\ e.log = job.log)
      BY DEF CommitLedger
    <2>2. ledger' = Append(ledger, e) => ledger' # <<>> /\ HeadLog(ledger') = e.log
      <3>1. PICK S : ledger \in Seq(S)
        BY DEF RowInv, TypeInv, StoresTyped
      <3>2. PICK E : E = S \cup {e}
        OBVIOUS
      <3>3. ledger \in Seq(E) /\ e \in E
        BY <3>1, <3>2
      <3>4. /\ Append(ledger, e) # <<>>
            /\ Append(ledger, e)[Len(Append(ledger, e))] = e
        BY <3>3
      <3> QED
        BY <3>4 DEF HeadLog, Last
    <2> QED
      BY <1>1, <1>2, <2>1, <2>2 DEF HeadSettled
  <1>5. LooksOn(NONE) /\ ~ FirstTry'
    BY <1>2, <1>3 DEF LooksOn, FirstTry
  <1> QED
    BY <1>1, <1>3, <1>4, <1>5, NoLogKeepsPreview

LEMMA FlagKeepsPreview ==
  ASSUME RowInv, PreviewInv, Flag
  PROVE  PreviewInv'
  <1>1. UNCHANGED <<template, reports, logs, submissions, ledger, rowStates>>
    BY DEF Flag
  <1>2. /\ job # NoJob /\ job.step = "flag" /\ job.log \in Logs
        /\ logs[job.log].status = "submitting"
    <2>1. job # NoJob /\ job.step = "flag"
      BY DEF Flag, AtStep, NoJob
    <2> QED
      BY <2>1, CommandTyped DEF RowInv
  <1>3. job'.step = "finish" /\ job'.log = job.log
    <2>1. job \in [step : {"upsert", "flag", "finish"}, log : Logs, receives : Nat \ {0},
                   accreditation : AccreditationsOf(template), sites : SitesOf(template),
                   left : SUBSET RowsOf(template)]
      BY <1>2 DEF RowInv, TypeInv, StoresTyped, Jobs
    <2> QED
      BY <2>1 DEF Flag
  <1>4. NONE \notin Logs
    BY RowAssumption
  <1>5. Views /\ Beside(NONE) /\ MadeOf(NONE) /\ LooksOn(NONE)
    BY <1>1, <1>2, <1>4 DEF PreviewInv, Views, Beside, MadeOf, LooksOn
  <1>6. Views'
    BY <1>5, BesideKeepsViews
  <1>7. Flags'
    <2>1. flagged' = flagged \cup {<<p, job.log>> : p \in logs[job.log].preview.closedPeriods}
      BY DEF Flag
    <2>2. ~ FirstTry'
      BY <1>3 DEF FirstTry
    <2>3. ASSUME NEW p, NEW k, <<p, k>> \in flagged'
          PROVE  k \in Logs /\ logs[k].status \in Settling /\ p \in logs[k].preview.closedPeriods
      BY <1>2, <2>1, <2>3 DEF PreviewInv, Flags, Settling
    <2>4. ASSUME NEW k \in Logs, logs[k].status = "submitted" \/ k = job.log,
                 NEW p \in logs[k].preview.closedPeriods
          PROVE  <<p, k>> \in flagged'
      BY <2>1, <2>4 DEF PreviewInv, Flags
    <2> QED
      BY <1>1, <1>3, <2>2, <2>3, <2>4 DEF Flags
  <1> QED
    BY <1>6, <1>7 DEF PreviewInv, Views

LEMMA UpsertKeepsPreview ==
  ASSUME RowInv, PreviewInv, UpsertRow
  PROVE  PreviewInv'
  <1>1. /\ UNCHANGED <<template, reports, logs, submissions, ledger, flagged>>
        /\ job # NoJob /\ job.step = "upsert" /\ job.log \in Logs
        /\ logs[job.log].status = "submitting"
    BY UpsertRowUpserts, CommandTyped DEF UpsertRow, RowInv
  <1>2. PICK s, k : Upserted(s, job.log, k)
    BY UpsertRowUpserts DEF RowInv
  <1>3. job'.step = "upsert" /\ job'.log = job.log /\ job'.receives = job.receives
    <2>1. job \in [step : {"upsert", "flag", "finish"}, log : Logs, receives : Nat \ {0},
                   accreditation : AccreditationsOf(template), sites : SitesOf(template),
                   left : SUBSET RowsOf(template)]
      BY <1>1 DEF RowInv, TypeInv, StoresTyped, Jobs
    <2>2. \E r : job' = [job EXCEPT !.left = @ \ {r}]
      BY DEF UpsertRow
    <2> QED
      BY <1>1, <2>1, <2>2
  <1>4. Examined' /\ ClosedBefore' /\ LatestHasRows'
    BY <1>1 DEF PreviewInv, Examined, IsExamined, AccreditationsOf, ContextsOf, ClosedBefore, HasFile,
                LatestHasRows, HeadSettled, LatestSubmitted
  <1>5. Flags'
    BY <1>1, <1>3 DEF PreviewInv, Flags, FirstTry
  <1>6. Previewed'
    <2> SUFFICES ASSUME NEW l \in Logs, Expecting(l)' PROVE Foreseen(l)'
      BY DEF Previewed
    <2>1. Expecting(l)
      BY <1>1, <1>3 DEF Expecting, BaselineOf, LatestSubmitted, HeadSettled
    <2>2. BaselineOf(l) # job.log
      <3>1. BaselineOf(l) \in {NONE} \cup Range(submissions)
        BY <2>1 DEF RowInv, Baselines, Expecting, HasFile, FILED
      <3>2. NONE # job.log
        BY <1>1, RowAssumption
      <3> QED
        BY <1>1, <3>1, <3>2 DEF RowInv, OfStores, SubmittedOnce, Range
    <2>3. Before(l)' = Before(l)
      <3>1. PICK m : m = BaselineOf(l)
        OBVIOUS
      <3>2. ByKey(FindRowStatesForSummaryLog(m))' = ByKey(FindRowStatesForSummaryLog(m))
        BY <2>2, <3>1, UpsertKeepsBefore
      <3>3. BaselineOf(l)' = m
        BY <1>1, <3>1 DEF BaselineOf
      <3> QED
        BY <3>1, <3>2, <3>3 DEF Before
    <2>4. SameView(logs[l], logs'[l])
      BY <1>1 DEF SameView, SameFile
    <2> QED
      BY <1>1, <2>1, <2>3, <2>4, ForeseenSame DEF PreviewInv, Previewed
  <1>7. InTurn'
    <2>1. ASSUME NEW l, NEW r, Stored(l, r) PROVE Stored(l, r)'
      BY <1>2, <2>1 DEF Stored, Upserted
    <2> QED
      BY <1>1, <2>1 DEF PreviewInv, InTurn, BaselineOf
  <1> QED
    BY <1>4, <1>5, <1>6, <1>7 DEF PreviewInv

LEMMA FinishKeepsPreview ==
  ASSUME RowInv, PreviewInv, Finish
  PROVE  PreviewInv'
  <1>1. PICK l \in Logs : l = job.log
    BY FinishMoves DEF RowInv
  <1>2. /\ job # NoJob /\ job.step = "finish"
        /\ logs[l].status = "submitting" /\ logs'[l].status = "submitted"
        /\ \A k \in Logs \ {l} : logs'[k] = logs[k]
    BY <1>1, FinishMoves DEF RowInv, Moves
  <1>3. /\ UNCHANGED <<template, context, reports, ledger, rowStates, flagged>>
        /\ submissions' = Append(submissions, l) /\ job' = NoJob
    BY <1>1 DEF Finish
  <1>4. IsExamined(logs[l]) /\ Viewing \subseteq DOMAIN logs[l]
    BY <1>2 DEF PreviewInv, Examined, EXAMINED, VIEWED, IsExamined, Viewing
  <1>5. SameView(logs[l], logs'[l])
    BY <1>1, <1>4, FinishKeepsView
  <1>6. PICK n : n = Len(submissions) /\ n \in Nat
    BY LatestOf DEF RowInv
  <1>7. /\ Len(submissions') = n + 1 /\ DOMAIN submissions' = 1..(n + 1)
        /\ DOMAIN submissions = 1..n
        /\ \A i \in 1..n : submissions'[i] = submissions[i]
        /\ submissions'[n + 1] = l /\ submissions' # <<>> /\ LatestSubmitted' = l
    <2>1. submissions \in Seq(Logs)
      BY DEF RowInv, TypeInv, StoresTyped
    <2>2. /\ Len(submissions') = n + 1 /\ DOMAIN submissions' = 1..(n + 1)
          /\ DOMAIN submissions = 1..n
          /\ \A i \in 1..n : submissions'[i] = submissions[i]
          /\ submissions'[n + 1] = l /\ submissions' # <<>>
      BY <1>3, <1>6, <2>1
    <2> QED
      BY <2>2 DEF LatestSubmitted, Last
  <1>8. ASSUME NEW i \in 1..n
        PROVE  /\ submissions[i] \in Logs \ {l} /\ logs[submissions[i]].status = "submitted"
               /\ logs'[submissions[i]] = logs[submissions[i]]
    BY <1>2, <1>7, LatestOf DEF RowInv, OfStores, SubmittedOnce
  <1>9. Examined'
    <2> SUFFICES ASSUME NEW k \in Logs
                 PROVE  /\ logs'[k].status \in EXAMINED => IsExamined(logs[k])'
                        /\ logs'[k].status \in VIEWED => {"sites", "preview"} \subseteq DOMAIN logs'[k]
      BY DEF Examined
    <2>1. CASE k = l
      <3>1. PICK old, new : old = logs[l] /\ new = logs'[l]
        OBVIOUS
      <3>2. IsExamined(new)'
        BY <1>3, <1>4, <1>5, <3>1, ExaminedKept DEF SameView, SameFile
      <3>3. IsExamined(logs[l])'
        BY <3>1, <3>2 DEF IsExamined, AccreditationsOf, ContextsOf
      <3>4. {"sites", "preview"} \subseteq DOMAIN logs'[l]
        BY <1>4, <1>5 DEF SameView, Viewing
      <3> QED
        BY <2>1, <3>3, <3>4
    <2>2. CASE k # l
      <3>1. logs'[k] = logs[k]
        BY <1>2, <2>2
      <3>2. IsExamined(logs[k]) => IsExamined(logs[k])'
        BY <1>3, <3>1 DEF IsExamined, AccreditationsOf, ContextsOf
      <3> QED
        BY <3>1, <3>2 DEF PreviewInv, Examined
    <2> QED
      BY <2>1, <2>2
  <1>10. ClosedBefore'
    <2>1. HasFile(l) /\ logs'[l].closed = logs[l].closed
      BY <1>2, <1>5 DEF HasFile, FILED, SameView, SameFile
    <2> QED
      BY <1>2, <1>3, <2>1 DEF PreviewInv, ClosedBefore, HasFile
  <1>11. Previewed'
    <2> SUFFICES ASSUME NEW k \in Logs, Expecting(k)' PROVE Foreseen(k)'
      BY DEF Previewed
    <2>1. Expecting(k) /\ SameView(logs[k], logs'[k])
      <3>1. CASE k = l
        BY <1>2, <1>5, <3>1 DEF Expecting
      <3>2. CASE k # l
        <4>1. logs'[k] = logs[k]
          BY <1>2, <3>2
        <4>2. logs[k].status # "submitting"
          BY <1>1, <3>2 DEF RowInv, AloneSubmits
        <4>3. logs[k].status = "validated" => BaselineOf(k) # l
          <5>1. logs[k].status = "validated" => BaselineOf(k) \in {NONE} \cup Range(submissions)
            BY DEF RowInv, Baselines, HasFile, FILED
          <5>2. l \notin {NONE} \cup Range(submissions)
            BY <1>7, <1>8, RowAssumption DEF Range
          <5> QED
            BY <5>1, <5>2
        <4>4. logs[k].status = "submitted"
          BY <1>7, <4>1, <4>2, <4>3 DEF Expecting, BaselineOf
        <4> QED
          BY <4>1, <4>4 DEF Expecting, SameView, SameFile
      <3> QED
        BY <3>1, <3>2
    <2>2. Before(k)' = Before(k)
      BY <1>3, <2>1, BeforeSame DEF SameView, SameFile
    <2> QED
      BY <1>3, <2>1, <2>2, ForeseenSame DEF PreviewInv, Previewed
  <1>12. InTurn'
    <2>1. ASSUME NEW i \in 2..(n + 1) PROVE logs'[submissions'[i]].baseline = submissions'[i - 1]
      <3>1. CASE i = n + 1
        <4>1. n \in 1..n /\ LatestSubmitted = submissions[n]
          BY <1>6, <1>7, <2>1, <3>1, LatestOf DEF RowInv
        <4>2. BaselineOf(l) = LatestSubmitted
          BY <1>1, <1>2 DEF RowInv, Baselines
        <4>3. logs'[l].baseline = submissions[n]
          BY <1>5, <4>1, <4>2 DEF BaselineOf, SameView, SameFile
        <4> QED
          BY <1>6, <1>7, <3>1, <4>1, <4>3
      <3>2. CASE i # n + 1
        <4>1. i \in 2..n /\ i \in 1..n /\ i - 1 \in 1..n
          BY <1>6, <2>1, <3>2
        <4>2. BaselineOf(submissions[i]) = submissions[i - 1]
          BY <1>6, <4>1 DEF PreviewInv, InTurn
        <4> QED
          BY <1>7, <1>8, <4>1, <4>2 DEF BaselineOf
      <3> QED
        BY <3>1, <3>2
    <2>2. ASSUME NEW i \in 1..(n + 1), NEW r \in DOMAIN logs'[submissions'[i]].upload
          PROVE  Stored(submissions'[i], r)
      <3>1. CASE i = n + 1
        BY <1>1, <1>2, <1>5, <1>7, <2>2, <3>1 DEF RowInv, OfCommand, Complete, SameView, SameFile
      <3>2. CASE i # n + 1
        <4>1. i \in 1..n
          BY <1>6, <2>2, <3>2
        <4> QED
          BY <1>7, <1>8, <2>2, <4>1 DEF PreviewInv, InTurn
      <3> QED
        BY <3>1, <3>2
    <2>3. ASSUME NEW i \in DOMAIN submissions', NEW r \in DOMAIN logs'[submissions'[i]].upload
          PROVE  Stored(submissions[i], r)'
      <3>1. PICK k : k = submissions'[i] /\ Stored(k, r)
        BY <1>7, <2>2
      <3> QED
        BY <1>3, <3>1 DEF Stored
    <2>4. ASSUME NEW i \in 2..Len(submissions')
          PROVE  BaselineOf(submissions[i])' = submissions'[i - 1]
      <3>1. logs'[submissions'[i]].baseline = submissions'[i - 1]
        BY <1>7, <2>1
      <3> QED
        BY <3>1 DEF BaselineOf
    <2> QED
      BY <2>3, <2>4 DEF InTurn
  <1>13. LatestHasRows'
    <2> SUFFICES ASSUME ledger # <<>>
                 PROVE  DOMAIN logs'[HeadLog(ledger)].upload \subseteq DOMAIN logs'[l].upload
      BY <1>3, <1>7 DEF LatestHasRows
    <2>1. PICK h \in Logs : h = HeadLog(ledger)
      BY HeadOf DEF RowInv
    <2>2. CASE h = l
      BY <2>1, <2>2
    <2>3. CASE h # l
      <3>1. logs[h].status # "submitting"
        BY <1>1, <2>3 DEF RowInv, AloneSubmits
      <3>2. BaselineOf(l) = LatestSubmitted
        BY <1>1, <1>2 DEF RowInv, Baselines
      <3>3. DOMAIN logs[h].upload \subseteq DOMAIN logs[l].upload
        BY <1>2, <2>1, <3>1, <3>2 DEF RowInv, OfStores, Continues
      <3> QED
        BY <1>2, <1>5, <2>1, <2>3, <3>3 DEF SameView, SameFile
    <2> QED
      BY <2>2, <2>3
  <1>14. Flags'
    <2>1. ASSUME NEW p, NEW k, <<p, k>> \in flagged
          PROVE  /\ k \in Logs /\ logs'[k].status \in Settling
                 /\ p \in logs'[k].preview.closedPeriods
      BY <1>2, <1>5, <2>1 DEF PreviewInv, Flags, Settling, SameView
    <2>2. ASSUME NEW k \in Logs, logs'[k].status = "submitted",
                 NEW p \in logs'[k].preview.closedPeriods
          PROVE  <<p, k>> \in flagged
      BY <1>1, <1>2, <1>5, <2>2 DEF PreviewInv, Flags, SameView
    <2>3. ~ FirstTry' /\ job'.step # "finish"
      BY <1>3 DEF FirstTry, NoJob
    <2> QED
      BY <1>3, <2>1, <2>2, <2>3 DEF Flags
  <1> QED
    BY <1>9, <1>10, <1>11, <1>12, <1>13, <1>14 DEF PreviewInv

LEMMA StepKeepsPreview ==
  ASSUME RowInv, PreviewInv, [Next]_vars
  PROVE  PreviewInv'
  BY UploadKeepsPreview, ValidateKeepsPreview, ClassifyKeepsPreview, ConfirmKeepsPreview,
     CheckReportsKeepsPreview, ReadContextKeepsPreview, UpsertKeepsPreview, CommitKeepsPreview,
     FlagKeepsPreview, FinishKeepsPreview, CrashKeepsPreview, EnvironmentKeepsPreview DEF Next

LEMMA AlwaysPreviewed ==
  ASSUME Crashing PROVE Spec => [](RowInv /\ CreditInv /\ PreviewInv)
  <1>1. Init => RowInv /\ CreditInv /\ PreviewInv
    BY InitRows, InitCredit, InitPreview
  <1>2. RowInv /\ CreditInv /\ PreviewInv /\ [Next]_vars => RowInv' /\ CreditInv' /\ PreviewInv'
    BY StepKeepsRows, StepKeepsCredit, StepKeepsPreview
  <1> QED
    BY <1>1, <1>2, PTL DEF Spec

-----------------------------------------------------------------------------
(* What the preview foresaw is what is credited.                           *)

(* The accreditation is absent only under templates that credit nothing.   *)
LEMMA CountedHasSchema ==
  ASSUME NEW a \in AccreditationsOf(template), NEW r, Classifies(template, r.type)
  PROVE  HasSchema(template, r.type) /\ a # NONE
  <1>1. PICK t, type : t = template /\ type = r.type
    OBVIOUS
  <1>2. <<t, type>> \in {<<EXPORTER, EXPORTED>>, <<REPROCESSOR_INPUT, RECEIVED>>,
                         <<REPROCESSOR_INPUT, SENT_ON>>, <<REPROCESSOR_OUTPUT, PROCESSED>>}
    BY <1>1 DEF Classifies
  <1>3. type \in PROCESSING_TYPE_TABLES[t]
    BY <1>2 DEF PROCESSING_TYPE_TABLES, REGISTERED_ONLY_PROCESSING_TYPES, EXPORTER,
                REPROCESSOR_INPUT, REPROCESSOR_OUTPUT, EXPORTER_REGISTERED_ONLY,
                REPROCESSOR_REGISTERED_ONLY, RECEIVED, PROCESSED, SENT_ON, EXPORTED
  <1>4. t \notin REGISTERED_ONLY_PROCESSING_TYPES
    BY <1>2 DEF REGISTERED_ONLY_PROCESSING_TYPES, EXPORTER,
                REPROCESSOR_INPUT, REPROCESSOR_OUTPUT, EXPORTER_REGISTERED_ONLY,
                REPROCESSOR_REGISTERED_ONLY
  <1>5. a \in Accreditations
    BY <1>1, <1>4 DEF AccreditationsOf, ContextsOf
  <1> QED
    BY <1>1, <1>3, <1>5, RowAssumption DEF HasSchema

LEMMA AmountIsTarget ==
  ASSUME NEW a \in AccreditationsOf(template), NEW r, NEW data, NEW sites
  PROVE  PreviewAmount(r, data, a, sites) = GetTargetAmount(ClassifyWasteRecord(r, data, a, sites))
  <1>1. Classifies(template, r.type) => HasSchema(template, r.type) /\ a # NONE
    BY CountedHasSchema
  <1>2. GetTargetAmount(Without(NOT_APPLICABLE, {})) = 0
    BY DEF GetTargetAmount, Without, INCLUDED, NOT_APPLICABLE
  <1> QED
    BY <1>1, <1>2 DEF PreviewAmount, ClassifyWasteRecord, ClassifyRecordForWasteBalance

(* Validation marks a row as ignored if and only if it is classified so,   *)
(* whatever the overseas sites.                                            *)
LEMMA IgnoredEitherWay ==
  ASSUME NEW t, NEW type, NEW data, NEW a, NEW sites
  PROVE  MarkIgnored(t, type, data, a) = IGNORED <=>
           Classifies(t, type) /\ ClassifyForWasteBalance(type, data, a, sites).outcome = IGNORED
  <1>1. ClassifyRow(t, type, data) # IGNORED
    BY DEF ClassifyRow, IGNORED, REJECTED, EXCLUDED, INCLUDED
  <1>2. \A s : ClassifyForWasteBalance(type, data, a, s).outcome = IGNORED <=>
                 /\ data.filled
                 /\ ~ IsAccreditedAtDates({data.dates[f] : f \in AccreditationDateFields(type)}, a)
    BY DEF ClassifyForWasteBalance, Without, Included, IGNORED, EXCLUDED, INCLUDED
  <1> QED
    BY <1>1, <1>2 DEF MarkIgnored

LEMMA IgnoredIsWorthless ==
  ASSUME NEW t, NEW type, NEW data, NEW a, NEW sites, MarkIgnored(t, type, data, a) = IGNORED
  PROVE  GetTargetAmount(ClassifyForWasteBalance(type, data, a, sites)) = 0
  BY IgnoredEitherWay DEF GetTargetAmount, IGNORED, INCLUDED

(* No row is credited for twice what it was, or is missed.                 *)
LEMMA RowMoves ==
  ASSUME NEW log, IsExamined(log), NEW before, NEW sites, NEW r \in DOMAIN log.upload,
         IsRowData(log.upload[r]), r \in DOMAIN before => IsStored(before[r], r),
         log.outcome[r] = IGNORED /\ r \in DOMAIN before =>
           GetTargetAmount(before[r].classification) = 0
  PROVE  /\ Movements(log, before, sites)[r] \in Int /\ WorthBefore(before, r) \in Int
         /\ Targets(log.upload, log.accreditation, sites)[r] =
              WorthBefore(before, r) + Movements(log, before, sites)[r]
  <1>1. PICK data, a : data = log.upload[r] /\ a = log.accreditation
    OBVIOUS
  <1>2. PICK worth, target, amount :
          /\ worth = WorthBefore(before, r) /\ amount = PreviewAmount(r, data, a, sites)
          /\ target = Targets(log.upload, a, sites)[r]
    OBVIOUS
  <1>3. a \in AccreditationsOf(template) /\ log.outcome[r] = MarkIgnored(template, r.type, data, a)
    BY <1>1 DEF IsExamined
  <1>4. target = amount /\ target = GetTargetAmount(ClassifyWasteRecord(r, data, a, sites))
    BY <1>1, <1>2, <1>3, AmountIsTarget DEF Targets
  <1>5. target \in Int
    BY <1>1, <1>4, TargetTyped
  <1>6. worth \in Int
    BY <1>2, StoredHasPeriod DEF WorthBefore
  <1>7. Movements(log, before, sites)[r] =
          IF r \in RowsChanged(log, before, sites) THEN amount - worth ELSE 0
    BY <1>1, <1>2 DEF Movements
  <1>8. ASSUME r \notin RowsChanged(log, before, sites) PROVE target = worth
    <2>1. CASE log.outcome[r] = IGNORED
      <3>1. amount = 0
        BY <1>2, <1>3, <2>1, IgnoredIsWorthless DEF PreviewAmount
      <3>2. worth = 0
        BY <1>2, <2>1 DEF WorthBefore
      <3> QED
        BY <1>4, <3>1, <3>2
    <2>2. CASE log.outcome[r] # IGNORED
      <3>1. ClassifyRecordChange(r, data, before, a, sites) = UNCHANGED_ROW
        BY <1>1, <1>8, <2>2 DEF RowsChanged
      <3>2. /\ r \in DOMAIN before
            /\ ProjectSummaryLogRowState(template, r, data, a, sites).classification
                 = before[r].classification
        BY <3>1 DEF ClassifyRecordChange, ADDED, ADJUSTED, UNCHANGED_ROW
      <3>3. ClassifyWasteRecord(r, data, a, sites) = before[r].classification
        BY <3>2 DEF ProjectSummaryLogRowState, ClassifyWasteRecord
      <3> QED
        BY <1>2, <1>4, <3>2, <3>3 DEF WorthBefore
    <2> QED
      BY <2>1, <2>2
  <1>9. PICK m : m = Movements(log, before, sites)[r]
    OBVIOUS
  <1>10. m = (IF r \in RowsChanged(log, before, sites) THEN target - worth ELSE 0)
    BY <1>4, <1>7, <1>9
  <1>11. m \in Int /\ target = worth + m
    BY ONLY <1>5, <1>6, <1>8, <1>10
  <1> QED
    BY <1>1, <1>2, <1>6, <1>9, <1>11

(* What was credited at the head is the worth of the rows found there.     *)
LEMMA HeadWorth ==
  ASSUME RowInv, CreditInv, HeadSettled, NEW upload, IsFile(upload),
         NEW before, before = ByKey(HeadDocuments), AreStored(before),
         DOMAIN before \subseteq DOMAIN upload,
         NEW f, f = [r \in DOMAIN upload |-> WorthBefore(before, r)]
  PROVE  SumOf(f, DOMAIN upload) = IF ledger = <<>> THEN 0 ELSE Last(ledger).creditTotal
  <1>1. PICK D : D = DOMAIN upload /\ IsFiniteSet(D)
    BY DEF IsFile
  <1>2. \A r \in D : f[r] = WorthBefore(before, r) /\ f[r] \in Int
    BY <1>1, StoredHasPeriod DEF WorthBefore, AreStored
  <1>3. CASE ledger = <<>>
    <2>1. DOMAIN before = {}
      BY <1>3 DEF HeadDocuments, ByKey
    <2>2. \A r \in D : f[r] = 0
      BY <1>2, <2>1 DEF WorthBefore
    <2> QED
      BY <1>1, <1>3, <2>2, SumOfZeros
  <1>4. CASE ledger # <<>>
    <2>1. PICK h \in Logs : h = HeadLog(ledger)
      BY <1>4, HeadOf DEF RowInv
    <2>2. PICK n \in DOMAIN ledger : n = Len(ledger) /\ ledger[n].log = h
      BY <1>4, <2>1, HeadOf DEF RowInv
    <2>3. logs[h].status = "submitted"
      BY <1>4, <2>1, <2>2 DEF HeadSettled, RowInv, OfCommand, OnlySubmitted
    <2>4. PICK file, a, sites :
            /\ file = logs[h].upload /\ a = logs[h].submittedUnder.accreditation
            /\ sites = logs[h].submittedUnder.sites
      OBVIOUS
    <2>5. Last(ledger).creditTotal = SumOf(Targets(file, a, sites), DOMAIN file)
      BY <2>2, <2>3, <2>4 DEF CreditInv, CreditedWorth, WorthSubmitted, Worth, Last
    <2>6. /\ DOMAIN before = DOMAIN file
          /\ \A r \in DOMAIN file :
               \E i \in FindRowStatesForSummaryLog(h) :
                 rowStates[i].state.row = r /\ before[r] = rowStates[i].state
      <3>1. \A r \in DOMAIN logs[h].upload : Stored(h, r)
        BY <2>2 DEF RowInv, OfCommand, Complete
      <3> QED
        BY <1>4, <2>1, <2>4, <3>1, RowsOfLog DEF RowInv, OfCommand, HeadDocuments
    <2>7. ASSUME NEW r \in DOMAIN file PROVE f[r] = Targets(file, a, sites)[r]
      <3>1. PICK i \in DOMAIN rowStates :
              /\ h \in rowStates[i].summaryLogIds
              /\ rowStates[i].state.row = r /\ before[r] = rowStates[i].state
        BY <2>6 DEF FindRowStatesForSummaryLog
      <3>2. before[r] = ProjectSummaryLogRowState(template, r, file[r], a, sites)
        BY <2>3, <2>4, <3>1 DEF CreditInv, WrittenUnder
      <3>3. before[r].classification = ClassifyWasteRecord(r, file[r], a, sites)
        BY <3>2 DEF ProjectSummaryLogRowState, ClassifyWasteRecord
      <3>4. f[r] = GetTargetAmount(before[r].classification)
        BY <1>1, <1>2, <2>6 DEF WorthBefore
      <3> QED
        BY <3>3, <3>4 DEF Targets
    <2>8. PICK H : H = DOMAIN file /\ H \in SUBSET D /\ IsFiniteSet(H)
      BY <1>1, <2>6, FS_Subset
    <2>9. \A r \in D \ H : f[r] = 0
      BY <1>2, <2>6, <2>8 DEF WorthBefore
    <2>10. SumOf(f, D) = SumOf(f, H)
      BY <1>1, <1>2, <2>8, <2>9, SumWithoutZeros
    <2>11. SumOf(f, H) = SumOf(Targets(file, a, sites), H)
      <3>1. PICK e : e = Targets(file, a, sites)
        OBVIOUS
      <3> QED
        BY <2>7, <2>8, <3>1, SumSame
    <2> QED
      BY <1>1, <1>4, <2>5, <2>8, <2>10, <2>11
  <1> QED
    BY <1>3, <1>4

(* The credit a submission commits.                                        *)
LEMMA CommitsWorth ==
  ASSUME RowInv, CommitLedger, Len(ledger') > Len(ledger), NEW upload, upload = logs[job.log].upload,
         NEW a, a = job.accreditation, NEW sites, sites = job.sites
  PROVE  Last(ledger').creditTotal = SumOf(Targets(upload, a, sites), DOMAIN upload)
  <1>1. PICK total : total = IF a = NONE THEN 0 ELSE CreditTotal(upload, a, sites)
    OBVIOUS
  <1>2. job # NoJob
    BY DEF CommitLedger, AtStep, NoJob
  <1>3. IsFiniteSet(DOMAIN upload)
    BY <1>2, CommandTyped, FileTyped DEF RowInv
  <1>4. total = SumOf(Targets(upload, a, sites), DOMAIN upload)
    BY <1>1, <1>3, NothingWorth, CreditIsSum
  <1>5. PICK e : e = [log |-> job.log, creditTotal |-> total]
    OBVIOUS
  <1>6. ledger' = ledger \/ ledger' = Append(ledger, e)
    BY <1>1, <1>5 DEF CommitLedger
  <1>7. PICK S : ledger \in Seq(S)
    BY DEF RowInv, TypeInv, StoresTyped
  <1>8. ledger' = Append(ledger, e)
    BY <1>6, <1>7
  <1>9. PICK E : E = S \cup {e}
    OBVIOUS
  <1>10. ledger \in Seq(E) /\ e \in E
    BY <1>7, <1>9
  <1>11. Append(ledger, e)[Len(Append(ledger, e))] = e
    BY <1>10
  <1> QED
    BY <1>4, <1>5, <1>8, <1>11 DEF Last

(* The rows ignored that are not credited at the head.                     *)
NothingIgnoredCounts ==
  \A r \in DOMAIN logs[job.log].upload :
    logs[job.log].outcome[r] = IGNORED /\ r \in DOMAIN ByKey(HeadDocuments) =>
      GetTargetAmount(ByKey(HeadDocuments)[r].classification) = 0

LEMMA CommitIsForeseen ==
  ASSUME RowInv, CreditInv, PreviewInv, CommitLedger, Len(ledger') > Len(ledger),
         HeadLog(ledger) # job.log,
         logs[job.log].accreditation = job.accreditation, logs[job.log].sites = job.sites,
         NothingIgnoredCounts
  PROVE  Last(ledger').creditTotal - (IF ledger = <<>> THEN 0 ELSE Last(ledger).creditTotal)
           = logs[job.log].preview.openPeriodLoads + logs[job.log].preview.closedPeriodLoads
  <1>1. job # NoJob /\ job.step = "upsert"
    BY DEF CommitLedger, AtStep, NoJob
  <1>2. PICK l \in Logs : l = job.log /\ logs[l].status = "submitting"
    BY <1>1, CommandTyped DEF RowInv
  <1>3. PICK log, upload, a, sites, before, preview :
          /\ log = logs[l] /\ upload = log.upload /\ a = job.accreditation /\ sites = job.sites
          /\ before = ByKey(HeadDocuments) /\ preview = log.preview
    OBVIOUS
  <1>4. log.accreditation = a /\ log.sites = sites
    BY <1>2, <1>3
  <1>5. HeadSettled
    <2>1. ledger # <<>> => HeadLog(ledger) \in Logs
      BY HeadOf DEF RowInv
    <2> QED
      BY <1>2, <2>1 DEF HeadSettled, RowInv, AloneSubmits
  <1>6. before = Before(l)
    <2>1. BaselineOf(l) = LatestSubmitted
      BY <1>1, <1>2 DEF RowInv, Baselines
    <2> QED
      BY <1>3, <1>5, <2>1, HeadIsBefore DEF PreviewInv, Before
  <1>7. AreStored(before)
    <2>1. BaselineOf(l) \in {NONE} \cup Range(submissions)
      BY <1>2 DEF RowInv, Baselines, HasFile, FILED
    <2> QED
      BY <1>6, <2>1, SubmissionIsStored DEF Before, PreviewInv
  <1>8. preview.openPeriodLoads + preview.closedPeriodLoads
          = SumOf(Movements(log, before, sites), DOMAIN upload)
    <2>1. Foreseen(l)
      BY <1>1, <1>2 DEF PreviewInv, Previewed, Expecting
    <2> QED
      BY <1>3, <1>4, <1>6, <2>1 DEF Foreseen, Foretells
  <1>9. IsFile(upload) /\ IsExamined(log)
    BY <1>2, <1>3, UploadIsFile DEF Settling, PreviewInv, Examined, EXAMINED
  <1>10. DOMAIN before \subseteq DOMAIN upload
    <2>1. CASE ledger = <<>>
      BY <1>3, <2>1 DEF HeadDocuments, ByKey
    <2>2. CASE ledger # <<>>
      <3>1. DOMAIN before = DOMAIN logs[HeadLog(ledger)].upload
        BY <1>3, <2>2, HeadRows
      <3>2. BaselineOf(l) = LatestSubmitted
        BY <1>1, <1>2 DEF RowInv, Baselines
      <3> QED
        BY <1>2, <1>3, <1>5, <2>2, <3>1, <3>2 DEF RowInv, OfStores, Continues, HeadSettled
    <2> QED
      BY <2>1, <2>2
  <1>11. PICK D, f, e, g :
           /\ D = DOMAIN upload /\ f = [r \in D |-> WorthBefore(before, r)]
           /\ e = Movements(log, before, sites) /\ g = Targets(upload, a, sites)
    OBVIOUS
  <1>12. SumOf(f, D) = IF ledger = <<>> THEN 0 ELSE Last(ledger).creditTotal
    BY <1>3, <1>5, <1>7, <1>9, <1>10, <1>11, HeadWorth
  <1>13. Last(ledger').creditTotal = SumOf(g, D)
    BY <1>2, <1>3, <1>11, CommitsWorth
  <1>14. ASSUME NEW r \in D PROVE f[r] \in Int /\ e[r] \in Int /\ g[r] = f[r] + e[r]
    <2>1. log.outcome[r] = IGNORED /\ r \in DOMAIN before =>
            GetTargetAmount(before[r].classification) = 0
      BY <1>2, <1>3, <1>11 DEF NothingIgnoredCounts
    <2>2. IsRowData(log.upload[r]) /\ (r \in DOMAIN before => IsStored(before[r], r))
      BY <1>3, <1>7, <1>9, <1>11 DEF IsFile, AreStored
    <2>3. /\ Movements(log, before, sites)[r] \in Int /\ WorthBefore(before, r) \in Int
          /\ Targets(log.upload, log.accreditation, sites)[r] =
               WorthBefore(before, r) + Movements(log, before, sites)[r]
      BY <1>3, <1>9, <1>11, <2>1, <2>2, RowMoves
    <2> QED
      BY <1>3, <1>4, <1>11, <2>3
  <1>15. IsFiniteSet(D)
    BY <1>9, <1>11 DEF IsFile
  <1>16. SumOf(g, D) = SumOf(f, D) + SumOf(e, D)
    BY ONLY <1>14, <1>15, SumOfSums
  <1>17. SumOf(f, D) \in Int /\ SumOf(e, D) \in Int
    BY ONLY <1>14, <1>15, SumTyped
  <1>18. PICK total, old, moved :
           total = Last(ledger').creditTotal /\ moved = SumOf(e, D)
           /\ old = (IF ledger = <<>> THEN 0 ELSE Last(ledger).creditTotal)
    OBVIOUS
  <1>19. total = old + moved /\ old \in Int /\ moved \in Int
    BY <1>12, <1>13, <1>16, <1>17, <1>18
  <1>20. total - old = moved
    BY <1>19
  <1>21. preview.openPeriodLoads + preview.closedPeriodLoads = moved
    BY <1>8, <1>11, <1>18
  <1> QED
    BY <1>2, <1>3, <1>18, <1>20, <1>21

(* Where a crash is all that disturbs a submission: the open and closed    *)
(* tonnage shown on the check page (classifyByPeriodStatus) is what the    *)
(* submission moves the credit by, when the regulator changed nothing in   *)
(* between and no row that was credited has left the accreditation's dates.*)
THEOREM PreviewIsKept ==
  ASSUME Crashing PROVE Spec => PreviewPredictsCredit
  <1> DEFINE Told ==
        (/\ Len(ledger') > Len(ledger)
         /\ HeadLog(ledger) # job.log
         /\ logs[job.log].accreditation = job.accreditation
         /\ logs[job.log].sites = job.sites
         /\ \A r \in DOMAIN logs[job.log].upload :
              logs[job.log].outcome[r] = IGNORED /\ r \in DOMAIN ByKey(HeadDocuments) =>
                GetTargetAmount(ByKey(HeadDocuments)[r].classification) = 0)
        => Last(ledger').creditTotal - (IF ledger = <<>> THEN 0 ELSE Last(ledger).creditTotal) =
             logs[job.log].preview.openPeriodLoads + logs[job.log].preview.closedPeriodLoads
  <1>1. ASSUME RowInv, CreditInv, PreviewInv, [Next]_vars PROVE [Told]_vars
    <2>1. SUFFICES ASSUME Len(ledger') > Len(ledger) PROVE Told
      OBVIOUS
    <2>2. Len(ledger) \in Nat
      BY EventsTyped DEF RowInv
    <2>3. CommitLedger
      <3>1. ledger' # ledger
        BY <2>1, <2>2
      <3> HIDE DEF Told
      <3> QED
        BY <1>1, <3>1 DEF Next, Upload, Validate, ClassifyAndPersist, Confirm, CheckReports,
                          ReadContext, UpsertRow, Flag, Finish, Crash, SubmitReport, ChangeContext, vars
    <2> QED
      BY <1>1, <2>1, <2>3, CommitIsForeseen DEF NothingIgnoredCounts
  <1>2. RowInv /\ CreditInv /\ PreviewInv /\ [Next]_vars => [Told]_vars
    BY <1>1
  <1>3. Spec => [](RowInv /\ CreditInv /\ PreviewInv)
    BY AlwaysPreviewed
  <1>4. Spec => [][Told]_vars
    <2> HIDE DEF Told
    <2> QED
      BY <1>2, <1>3, PTL DEF Spec
  <1> QED
    BY <1>4 DEF PreviewPredictsCredit

-----------------------------------------------------------------------------
(* What the back-fill finds.                                               *)

(* The residual that pre-cpa-resubmission-backfill.js accepts: its cadence *)
(* is not the live one's for "an accreditation cancelled while keeping its *)
(* number".                                                                *)
NoneIsCancelled == \A a \in Accreditations : IsRegistrationAccredited(a)

LEMMA CadencesAgree ==
  ASSUME NoneIsCancelled, NEW a \in AccreditationsOf(template)
  PROVE  Cadence(a) = CadenceForRow(template)
  <1>1. CASE template \in REGISTERED_ONLY_PROCESSING_TYPES
    <2>1. a = NONE
      BY <1>1 DEF AccreditationsOf, ContextsOf
    <2> QED
      BY <1>1, <2>1 DEF Cadence, CadenceForRow, IsRegistrationAccredited
  <1>2. CASE template \notin REGISTERED_ONLY_PROCESSING_TYPES
    <2>1. a \in Accreditations
      BY <1>2 DEF AccreditationsOf, ContextsOf
    <2> QED
      BY <1>2, <2>1 DEF Cadence, CadenceForRow, NoneIsCancelled
  <1> QED
    BY <1>1, <1>2

(* A stored state is ignored if validation ignored the row, no otherwise.  *)
LEMMA StoredIsIgnored ==
  ASSUME NEW a \in AccreditationsOf(template), NEW r, NEW data, NEW sites, NEW s,
         s = ProjectSummaryLogRowState(template, r, data, a, sites)
  PROVE  IsIgnoredRow(s) <=> MarkIgnored(template, r.type, data, a) = IGNORED
  <1>1. s.classification = ClassifyRecordForWasteBalance(template, r.type, data, a, sites)
    BY DEF ProjectSummaryLogRowState
  <1>2. Classifies(template, r.type) => a # NONE /\ HasSchema(template, r.type)
    BY CountedHasSchema
  <1>3. Without(NOT_APPLICABLE, {}).outcome # IGNORED
    BY DEF Without, NOT_APPLICABLE, IGNORED
  <1> QED
    BY <1>1, <1>2, <1>3, IgnoredEitherWay DEF IsIgnoredRow, ClassifyRecordForWasteBalance

(* A document is new unless the row's last one says the same.              *)
LEMMA NewIsChanged ==
  ASSUME NEW before, NEW r, r \in DOMAIN before => IsStored(before[r], r),
         NEW data, NEW a, NEW sites, NEW s,
         s = ProjectSummaryLogRowState(template, r, data, a, sites)
  PROVE  ClassifyRecordChange(r, data, before, a, sites) = UNCHANGED_ROW
           <=> r \in DOMAIN before /\ before[r] = s
  <1>1. CASE r \notin DOMAIN before
    BY <1>1 DEF ClassifyRecordChange, ADDED, UNCHANGED_ROW
  <1>2. CASE r \in DOMAIN before
    <2>1. PICK old, was, b, others :
            old = before[r] /\ old = ProjectSummaryLogRowState(template, r, was, b, others)
      BY <1>2 DEF IsStored
    <2>2. old = s <=> s.data = old.data /\ s.classification = old.classification
      BY <2>1 DEF ProjectSummaryLogRowState
    <2>3. ClassifyRecordChange(r, data, before, a, sites) = UNCHANGED_ROW
            <=> s.data = old.data /\ s.classification = old.classification
      BY <1>2, <2>1 DEF ClassifyRecordChange, ADJUSTED, UNCHANGED_ROW
    <2> QED
      BY <1>2, <2>1, <2>2, <2>3
  <1> QED
    BY <1>1, <1>2

LEMMA StoredPeriods ==
  ASSUME NEW data, IsRowData(data), NEW t, NEW type, NEW cadence
  PROVE  /\ PeriodsForData(t, type, CoerceStoredTonnages(data), cadence)
              = PeriodsForData(t, type, data, cadence)
         /\ \A p \in PeriodsForData(t, type, data, cadence) : p.cadence = cadence
  <1>1. PICK stored : stored = CoerceStoredTonnages(data)
    OBVIOUS
  <1>2. stored.dates = data.dates
    BY <1>1 DEF CoerceStoredTonnages, IsRowData
  <1>3. PeriodsForData(t, type, stored, cadence) = PeriodsForData(t, type, data, cadence)
    BY <1>2 DEF PeriodsForData
  <1>4. \A p \in PeriodsForData(t, type, data, cadence) : p.cadence = cadence
    BY DEF PeriodsForData, PeriodForDate
  <1> QED
    BY <1>1, <1>3, <1>4

(* The states of a submission, by row and as a set.                        *)
LEMMA StatesByRow ==
  ASSUME RowInv, InTurn, NEW n \in DOMAIN submissions, NEW k, k = submissions[n],
         NEW before, before = ByKey(FindRowStatesForSummaryLog(k))
  PROVE  \A s : s \in States(FindRowStatesForSummaryLog(k)) <=>
                  s.row \in DOMAIN before /\ before[s.row] = s
  <1>1. k \in Logs /\ \A r \in DOMAIN logs[k].upload : Stored(k, r)
    BY LatestOf DEF InTurn, RowInv
  <1>2. PICK D : D = FindRowStatesForSummaryLog(k)
    OBVIOUS
  <1>3. /\ DOMAIN before = DOMAIN logs[k].upload
        /\ \A r \in DOMAIN logs[k].upload :
             \E i \in D : /\ rowStates[i].state.row = r /\ before[r] = rowStates[i].state
                          /\ {j \in D : rowStates[j].state.row = r} = {i}
    BY <1>1, <1>2, RowsOfLog DEF RowInv, OfCommand
  <1>4. ASSUME NEW i \in D
        PROVE  LET s == rowStates[i].state IN s.row \in DOMAIN before /\ before[s.row] = s
    <2>1. PICK r : r = rowStates[i].state.row
      OBVIOUS
    <2>2. r \in DOMAIN before
      BY <1>2, <1>3, <2>1 DEF FindRowStatesForSummaryLog, RowInv, OfCommand, Written
    <2>3. PICK m \in D : before[r] = rowStates[m].state /\ {j \in D : rowStates[j].state.row = r} = {m}
      BY <1>3, <2>2
    <2>4. i = m
      BY <2>1, <2>3
    <2> QED
      BY <2>1, <2>2, <2>3, <2>4
  <1>5. ASSUME NEW s, s \in States(D) PROVE s.row \in DOMAIN before /\ before[s.row] = s
    BY <1>4, <1>5 DEF States
  <1>6. ASSUME NEW s, s.row \in DOMAIN before, before[s.row] = s PROVE s \in States(D)
    BY <1>3, <1>6 DEF States
  <1> QED
    BY <1>2, <1>5, <1>6

(* The periods that the back-fill finds are those of the preview.          *)
LEMMA FindsAreRestated ==
  ASSUME NoneIsCancelled, NEW log, IsExamined(log), IsFile(log.upload),
         NEW before, AreStored(before), NEW sites, NEW b, b = Projected(log.upload, log.accreditation, sites),
         NEW p
  PROVE  p \in Restated(log, before, sites) <=>
           \E s \in Image(b) :
             /\ ~ (s.row \in DOMAIN before /\ before[s.row] = s) /\ ~ IsIgnoredRow(s)
             /\ p \in log.closed \cap RestatedPeriods(s, before)
  <1>1. PICK upload, a, cadence :
          upload = log.upload /\ a = log.accreditation /\ cadence = Cadence(log.accreditation)
    OBVIOUS
  <1>2. a \in AccreditationsOf(template) /\ cadence = CadenceForRow(template)
    BY <1>1, CadencesAgree DEF IsExamined
  <1>3. PICK R : R = RowsChanged(log, before, sites)
    OBVIOUS
  <1>4. ASSUME NEW r \in DOMAIN upload
        PROVE  /\ r \in R <=> /\ ~ (b[r].row \in DOMAIN before /\ before[b[r].row] = b[r])
                              /\ ~ IsIgnoredRow(b[r])
               /\ p \in RestatedPeriods(b[r], before) <=>
                    /\ p.cadence = cadence
                    /\ \/ p \in PeriodsForData(template, r.type, upload[r], cadence)
                       \/ /\ r \in DOMAIN before
                          /\ p \in PeriodsForData(template, r.type, before[r].data, cadence)
    <2>1. PICK data, s : data = upload[r] /\ s = b[r]
      OBVIOUS
    <2>2. IsRowData(data) /\ (r \in DOMAIN before => IsStored(before[r], r))
      BY <1>1, <2>1 DEF IsFile, AreStored
    <2>3. s = ProjectSummaryLogRowState(template, r, data, a, sites)
      BY <1>1, <2>1 DEF Projected
    <2>4. s.row = r /\ s.processingType = template /\ s.data = CoerceStoredTonnages(data)
      BY <2>3 DEF ProjectSummaryLogRowState
    <2>5. r \in R <=> /\ MarkIgnored(template, r.type, data, a) # IGNORED
                      /\ ClassifyRecordChange(r, data, before, a, sites) # UNCHANGED_ROW
      BY <1>1, <1>3, <2>1 DEF RowsChanged, IsExamined
    <2>6. r \in R <=> ~ IsIgnoredRow(s) /\ ~ (r \in DOMAIN before /\ before[r] = s)
      BY <1>2, <2>2, <2>3, <2>5, StoredIsIgnored, NewIsChanged
    <2>7. /\ PeriodsForData(template, r.type, s.data, cadence)
               = PeriodsForData(template, r.type, data, cadence)
          /\ p \in PeriodsForData(template, r.type, data, cadence) => p.cadence = cadence
      BY <2>2, <2>4, StoredPeriods
    <2>8. r \in DOMAIN before /\ p \in PeriodsForData(template, r.type, before[r].data, cadence)
            => p.cadence = cadence
      BY DEF PeriodsForData, PeriodForDate
    <2>9. p \in RestatedPeriods(s, before) <=>
            \/ p \in PeriodsForData(template, r.type, s.data, cadence)
            \/ r \in DOMAIN before /\ p \in PeriodsForData(template, r.type, before[r].data, cadence)
      BY <1>2, <2>4 DEF RestatedPeriods
    <2> QED
      BY <2>1, <2>4, <2>6, <2>7, <2>8, <2>9
  <1>5. R \subseteq DOMAIN upload
    BY <1>1, <1>3 DEF RowsChanged
  <1>6. p \in Restated(log, before, sites) <=>
          /\ p \in log.closed /\ p.cadence = cadence
          /\ \E r \in R :
               \/ p \in PeriodsForData(template, r.type, upload[r], cadence)
               \/ /\ r \in DOMAIN before
                  /\ p \in PeriodsForData(template, r.type, before[r].data, cadence)
    BY <1>1, <1>3 DEF Restated
  <1>7. \A s : s \in Image(b) <=> \E r \in DOMAIN upload : s = b[r]
    BY <1>1 DEF Image, Projected
  <1>8. p \in Restated(log, before, sites) <=>
          p \in log.closed /\ \E r \in R : p \in RestatedPeriods(b[r], before)
    BY <1>4, <1>5, <1>6
  <1>9. ASSUME NEW r \in R, p \in log.closed, p \in RestatedPeriods(b[r], before)
        PROVE  \E s \in Image(b) :
                 /\ ~ (s.row \in DOMAIN before /\ before[s.row] = s) /\ ~ IsIgnoredRow(s)
                 /\ p \in log.closed \cap RestatedPeriods(s, before)
    <2>1. b[r] \in Image(b)
      BY <1>5, <1>7
    <2> QED
      BY <1>4, <1>5, <1>9, <2>1
  <1>10. ASSUME NEW s \in Image(b),
                ~ (s.row \in DOMAIN before /\ before[s.row] = s), ~ IsIgnoredRow(s),
                p \in log.closed \cap RestatedPeriods(s, before)
         PROVE  \E r \in R : p \in RestatedPeriods(b[r], before)
    <2>1. PICK r \in DOMAIN upload : s = b[r]
      BY <1>7
    <2> QED
      BY <1>4, <1>10, <2>1
  <1> QED
    BY <1>8, <1>9, <1>10

LEMMA BackfillIsFaithful ==
  ASSUME NoneIsCancelled, RowInv, CreditInv, PreviewInv
  PROVE  BackfillMirrorsLive
  <1> SUFFICES ASSUME NEW i \in 2..Len(submissions),
                      logs[submissions[i]].submittedUnder =
                        [accreditation |-> logs[submissions[i]].accreditation,
                         sites |-> logs[submissions[i]].sites]
               PROVE  DiffFindings(submissions[i - 1], submissions[i])
                        = {p \in reports : <<p, submissions[i]>> \in flagged}
    BY DEF BackfillMirrorsLive
  <1>1. i \in DOMAIN submissions /\ i - 1 \in DOMAIN submissions
    BY LatestOf DEF RowInv
  <1>2. PICK l, k : l = submissions[i] /\ k = submissions[i - 1]
    OBVIOUS
  <1>3. l \in Logs /\ logs[l].status = "submitted" /\ BaselineOf(l) = k
    BY <1>1, <1>2, LatestOf DEF RowInv, OfStores, SubmittedOnce, PreviewInv, InTurn
  <1>4. PICK log, upload, a, sites, before :
          /\ log = logs[l] /\ upload = log.upload /\ a = log.accreditation /\ sites = log.sites
          /\ before = ByKey(FindRowStatesForSummaryLog(k))
    OBVIOUS
  <1>5. IsExamined(log) /\ IsFile(upload) /\ AreStored(before)
    <2>1. IsExamined(log) /\ IsFile(upload)
      BY <1>3, <1>4, UploadIsFile DEF PreviewInv, Examined, EXAMINED, Settling
    <2>2. k \in {NONE} \cup Range(submissions)
      BY <1>1, <1>2 DEF Range
    <2> QED
      BY <1>4, <2>1, <2>2, SubmissionIsStored DEF PreviewInv
  <1>6. log.preview.closedPeriods = Restated(log, before, sites)
    <2>1. Foreseen(l)
      BY <1>3 DEF PreviewInv, Previewed, Expecting
    <2> QED
      BY <1>3, <1>4, <2>1 DEF Foreseen, Foretells, Before
  <1>7. PICK b : b = Projected(upload, a, sites)
    OBVIOUS
  <1>8. States(FindRowStatesForSummaryLog(l)) = Image(b)
    <2>1. \A r \in DOMAIN upload : Stored(l, r)
      BY <1>1, <1>2, <1>4 DEF PreviewInv, InTurn
    <2>2. logs[l].submittedUnder.accreditation = a /\ logs[l].submittedUnder.sites = sites
      BY <1>2, <1>4
    <2>3. ASSUME NEW n \in DOMAIN rowStates, l \in rowStates[n].summaryLogIds
          PROVE  /\ rowStates[n].state.row \in DOMAIN upload
                 /\ rowStates[n].state = b[rowStates[n].state.row]
      <3>1. PICK r, s : s = rowStates[n].state /\ r = rowStates[n].state.row
        OBVIOUS
      <3>2. r \in DOMAIN upload
        BY <1>4, <2>3, <3>1 DEF RowInv, OfCommand, Written
      <3>3. s = ProjectSummaryLogRowState(template, r, upload[r], a, sites)
        BY <1>3, <1>4, <2>2, <2>3, <3>1 DEF CreditInv, WrittenUnder
      <3>4. b[r] = ProjectSummaryLogRowState(template, r, upload[r], a, sites)
        BY <1>7, <3>2 DEF Projected
      <3> QED
        BY <3>1, <3>2, <3>3, <3>4
    <2> QED
      BY <1>7, <2>1, <2>3, StatesOfLog
  <1>9. \A s : s \in States(FindRowStatesForSummaryLog(k)) <=>
                 s.row \in DOMAIN before /\ before[s.row] = s
    BY <1>1, <1>2, <1>4, StatesByRow DEF PreviewInv
  <1>10. \A p : p \in DiffFindings(k, l) <=>
           \E s \in Image(b) :
             /\ ~ (s.row \in DOMAIN before /\ before[s.row] = s) /\ ~ IsIgnoredRow(s)
             /\ p \in log.closed \cap RestatedPeriods(s, before)
    BY <1>4, <1>8, <1>9 DEF DiffFindings, ChangedRows, ClosedRestatements
  <1>11. \A p : p \in DiffFindings(k, l) <=> p \in log.preview.closedPeriods
    <2> SUFFICES ASSUME NEW p
                 PROVE  p \in DiffFindings(k, l) <=> p \in Restated(log, before, sites)
      BY <1>6
    <2> QED
      BY <1>4, <1>5, <1>7, <1>10, FindsAreRestated
  <1>12. \A p : <<p, l>> \in flagged <=> p \in log.preview.closedPeriods
    BY <1>3, <1>4 DEF PreviewInv, Flags
  <1>13. log.preview.closedPeriods \subseteq reports
    <2>1. log.closed \subseteq reports
      BY <1>3, <1>4 DEF PreviewInv, ClosedBefore, HasFile, FILED
    <2> QED
      BY <1>6, <2>1 DEF Restated
  <1> QED
    BY <1>2, <1>11, <1>12, <1>13

(* Where a crash is all that disturbs a submission and no accreditation is *)
(* cancelled: of two consecutive submissions the back-fill                 *)
(* (findPreCpaResubmissionReports) finds, in the stored states, the        *)
(* periods the live path flagged for the second, when that was submitted   *)
(* under the context it was validated under.                               *)
THEOREM BackfillMirrors ==
  ASSUME Crashing, NoneIsCancelled PROVE Spec => []BackfillMirrorsLive
  <1>1. RowInv /\ CreditInv /\ PreviewInv => BackfillMirrorsLive
    BY BackfillIsFaithful
  <1> QED
    BY <1>1, AlwaysPreviewed, PTL
=============================================================================
