-------------------------- MODULE ReportRepository --------------------------
(***************************************************************************)
(* What the repository of reports promises, each operation in one step, as *)
(* its in-memory adapter carries it out (reports/repository/inmemory.js)   *)
(* and the contract tests of both adapters check it.  The MongoDB adapter, *)
(* its callers' reads and what happens between them are the subject of     *)
(* ReportLifecycle.                                                        *)
(***************************************************************************)
EXTENDS Naturals

CONSTANTS
  Slots,   \* pairs of a period and a submission number
  Logs,    \* summary logs
  NoLog    \* no summary log

VARIABLES
  reports  \* reports[s]: the report of slot s

NoReport == [status |-> "none"]

Found(s) == reports[s] # NoReport

IsActive(s) == reports[s].status \in {"in_progress", "ready_to_submit"}

SamePeriod(s) == {t \in Slots : t[1] = s[1] /\ Found(t)}

Others(slots) == \A t \in Slots \ slots : (reports[t])' = reports[t]

(* Every write of a report moves its version by one, and leaves its        *)
(* identity and its source alone.                                          *)
Rewritten(s) ==
  /\ Found(s)
  /\ (reports[s])' # NoReport
  /\ (reports[s].id)' = reports[s].id
  /\ (reports[s].source)' = reports[s].source
  /\ (reports[s].version)' = reports[s].version + 1

Keeps(s, fields) == \A f \in fields : (reports[s][f])' = reports[s][f]

-----------------------------------------------------------------------------
(* Operations.                                                             *)

FindActiveBySlot(slots) == {t \in slots : Found(t) /\ IsActive(t)}

(* No second draft of a period.  The adapter of MongoDB refuses any second *)
(* report of a slot, the one in memory an active one.                      *)
MayCreateReport(s) == ~ Found(s) /\ FindActiveBySlot(SamePeriod(s)) = {}

(* A later submission is a report of its own.                              *)
CreateReport(s) ==
  /\ MayCreateReport(s)
  /\ (reports[s])' # NoReport
  /\ (reports[s].status)' = "in_progress"
  /\ (reports[s].version)' = 1
  /\ (reports[s].stale)' = {}
  /\ (reports[s].restatedBy)' = NoLog /\ ~ (reports[s].requested)'
  /\ Others({s})

UpdateReport(s) ==
  /\ Rewritten(s)
  /\ Keeps(s, {"status", "stale", "restatedBy", "requested", "submittedAt", "submittedAfter"})
  /\ Others({s})

StatusChanges == { <<"in_progress", "ready_to_submit">>,
                   <<"ready_to_submit", "submitted">>,
                   <<"submitted", "ready_to_submit">> }

(* Each status writes its own slot; unsubmitting leaves the instant of the *)
(* submission where it is.                                                 *)
UpdateReportStatus(s) ==
  LET from == reports[s].status
      to   == (reports[s].status)'
  IN  /\ Rewritten(s)
      /\ <<from, to>> \in StatusChanges
      /\ to # "submitted" => Keeps(s, {"submittedAt", "submittedAfter"})
      /\ Keeps(s, {"stale", "restatedBy", "requested"})
      /\ Others({s})

(* A hard delete: nothing is left to be deleted again.                     *)
DeleteReport(s) ==
  /\ Found(s)
  /\ (reports[s])' = NoReport
  /\ Others({s})

(* Every active report but those drawn up from the log, or stale for an    *)
(* earlier one: the first to make it stale is the one named.               *)
UnflaggedForSummaryLog(l) ==
  {s \in FindActiveBySlot(Slots) : /\ "summary_log_changed" \notin reports[s].stale
                                   /\ reports[s].source # l}

MarkActiveReportsStaleForSummaryLog(l) ==
  LET stale == UnflaggedForSummaryLog(l)
  IN  /\ \A s \in stale :
           /\ Rewritten(s)
           /\ (reports[s].stale)' = reports[s].stale \cup {"summary_log_changed"}
           /\ Keeps(s, {"status", "restatedBy", "requested", "submittedAt", "submittedAfter"})
      /\ Others(stale)

(* The one active report of the period, once.                              *)
UnflaggedForPrnCancellation(s) ==
  s \in FindActiveBySlot(Slots) /\ "prn_cancelled" \notin reports[s].stale

MarkActiveReportsStaleForPrnCancellation(s) ==
  /\ UnflaggedForPrnCancellation(s)
  /\ Rewritten(s)
  /\ (reports[s].stale)' = reports[s].stale \cup {"prn_cancelled"}
  /\ Keeps(s, {"status", "restatedBy", "requested", "submittedAt", "submittedAfter"})
  /\ Others({s})

(* Submitted reports of the periods listed, once for a log.                *)
NotYetRestatedBy(l, periods) ==
  {s \in Slots : /\ s[1] \in periods
                 /\ Found(s)
                 /\ reports[s].status = "submitted"
                 /\ reports[s].restatedBy # l}

(* One of a period at most.  The in-memory adapter takes the latest of     *)
(* each; the one of MongoDB flags by id the latest of when it looked.      *)
MarkSubmittedReportsRequiringResubmission(l, periods) ==
  \E restated \in SUBSET NotYetRestatedBy(l, periods) :
    /\ \A s, t \in restated : s[1] = t[1] => s = t
    /\ \A s \in restated :
         /\ Rewritten(s)
         /\ (reports[s].restatedBy)' = l
         /\ Keeps(s, {"status", "stale", "requested", "submittedAt", "submittedAfter"})
    /\ Others(restated)

(* A submitted report, once; what a summary log asked for is kept.         *)
MayBeRequested(s) ==
  /\ Found(s)
  /\ reports[s].status = "submitted"
  /\ ~ reports[s].requested

MarkSubmittedReportRequiringResubmissionByOperator(s) ==
  /\ MayBeRequested(s)
  /\ Rewritten(s)
  /\ (reports[s].requested)'
  /\ Keeps(s, {"status", "stale", "restatedBy", "submittedAt", "submittedAfter"})
  /\ Others({s})

Init == reports = [s \in Slots |-> NoReport]

Next ==
  \/ \E s \in Slots :
       \/ CreateReport(s)
       \/ UpdateReport(s)
       \/ UpdateReportStatus(s)
       \/ DeleteReport(s)
       \/ MarkActiveReportsStaleForPrnCancellation(s)
       \/ MarkSubmittedReportRequiringResubmissionByOperator(s)
  \/ \E l \in Logs :
       \/ MarkActiveReportsStaleForSummaryLog(l)
       \/ \E periods \in SUBSET {s[1] : s \in Slots} :
            MarkSubmittedReportsRequiringResubmission(l, periods)

Spec == Init /\ [][Next]_reports
=============================================================================
