--------------------------- MODULE ReportCalendar ---------------------------
(***************************************************************************)
(* What is read of the reports of one registration: grouped by period      *)
(* (reports/repository/helpers.js), merged with the periods it owes        *)
(* (reports/domain), and shown as the calendar of the operator, the list   *)
(* of submissions, the feed of the regulator and the date of the public    *)
(* register.  The year is the current one, time counted in months.         *)
(***************************************************************************)
EXTENDS Integers, SequencesExt, FiniteSetsExt

CONSTANTS
  Periods,        \* reporting periods, numbers of a cadence
  MaxSubmissions  \* bound: submission numbers

(* In what follows found[<<p, n>>] is what the repository finds of         *)
(* submission n of period p.                                               *)

NoReport == [status |-> "none"]

-----------------------------------------------------------------------------
(* Periods owed.                                                           *)

MONTHS_PER_PERIOD == [monthly |-> 1, quarterly |-> 3]

GenerateAllPeriodsForYear(cadence) == 1 .. 12 \div MONTHS_PER_PERIOD[cadence]

EndMonth(cadence, p) == p * MONTHS_PER_PERIOD[cadence]

(* An accreditation that began within a period owes it.                    *)
FilterPeriodsFromDate(cadence, periods, from) ==
  {p \in periods : EndMonth(cadence, p) >= from}

(* Of the year of month now, the periods that ended before it.             *)
GenerateReportingPeriods(cadence, now, from) ==
  FilterPeriodsFromDate(cadence,
    {p \in GenerateAllPeriodsForYear(cadence) : EndMonth(cadence, p) < now}, from)

(* Whatever the month, the cadence and the start of the accreditation.     *)
ComputedPeriods ==
  {GenerateReportingPeriods(cadence, now, from) \cap Periods :
     cadence \in DOMAIN MONTHS_PER_PERIOD, now \in 1..12, from \in 1..12}

-----------------------------------------------------------------------------
(* Reports of a period.                                                    *)

ToSubmission(found, s) ==
  [id               |-> found[s].id,
   status           |-> found[s].status,
   submissionNumber |-> s[2],
   submittedAt      |-> found[s].submittedAt,
   required         |-> found[s].required]

OfPeriod(found, p) == {n \in 1..MaxSubmissions : found[<<p, n>>] # NoReport}

(* groupAsPeriodicReports: latest submission number first; the first is    *)
(* the period's current report, the others its previous submissions.       *)
BuildPeriodSummary(found, p) ==
  LET IsFound(s) == found[s] # NoReport
      ordered == SelectSeq([k \in 1..MaxSubmissions |-> <<p, MaxSubmissions + 1 - k>>], IsFound)
  IN  [k \in DOMAIN ordered |-> ToSubmission(found, ordered[k])]

(* A period owed and without report has none; one with reports is merged   *)
(* in though it is not owed.                                               *)
MergeReportingPeriods(found, computed) ==
  LET shown == computed \cup {p \in Periods : OfPeriod(found, p) # {}}
  IN  [p \in shown |->
         LET summary == BuildPeriodSummary(found, p)
         IN  IF summary = <<>>
             THEN [submissionNumber |-> 1, report |-> NoReport,
                   previousSubmissions |-> <<>>]
             ELSE [submissionNumber |-> Head(summary).submissionNumber,
                   report |-> Head(summary), previousSubmissions |-> Tail(summary)]]

(* Variant for mutation runs: the period's current report only.            *)
SelectCurrentReport(merged) ==
  IF merged.report # NoReport /\ merged.report.submittedAt # 0
  THEN <<merged.report>> ELSE <<>>

(* Those that carry the instant of a submission, in the order of their     *)
(* numbers, also once they are unsubmitted.                                *)
SelectSubmittedReports(merged) ==
  LET HasBeenSubmitted(report) == report # NoReport /\ report.submittedAt # 0
  IN  Reverse(SelectSeq(<<merged.report>> \o merged.previousSubmissions, HasBeenSubmitted))

-----------------------------------------------------------------------------
(* The calendar and the list of submissions.                               *)

Item(number, status, report) ==
  [submissionNumber |-> number, periodStatus |-> status, report |-> report]

(* due stands for overdue, too.                                            *)
DerivePeriodStatus(merged) ==
  IF merged.report = NoReport THEN "due" ELSE merged.report.status

LatestSubmitted(merged) ==
  LET Submitted(report) == report.status = "submitted"
      submitted == SelectSeq(<<merged.report>> \o merged.previousSubmissions, Submitted)
  IN  IF submitted = <<>> THEN NoReport ELSE Head(submitted)

(* Variant for mutation runs: the resubmission has the number of the       *)
(* report to be resubmitted.                                               *)
BuildCalendarSameNumber(merged) ==
  LET flagged == LatestSubmitted(merged)
  IN  IF flagged = NoReport \/ ~ flagged.required
      THEN <<Item(merged.submissionNumber, DerivePeriodStatus(merged), merged.report)>>
      ELSE <<Item(flagged.submissionNumber, "submitted", flagged),
             Item(flagged.submissionNumber, "requires_resubmission",
                  IF merged.report.submissionNumber > flagged.submissionNumber
                  THEN merged.report ELSE NoReport)>>

(* A period has one item, or two when its latest submitted report must be  *)
(* resubmitted: that report and the resubmission, begun or not.            *)
BuildCalendarPeriods(merged) ==
  LET flagged == LatestSubmitted(merged)
  IN  IF flagged = NoReport \/ ~ flagged.required
      THEN <<Item(merged.submissionNumber, DerivePeriodStatus(merged), merged.report)>>
      ELSE <<Item(flagged.submissionNumber, "submitted", flagged),
             Item(flagged.submissionNumber + 1, "requires_resubmission",
                  IF merged.report.submissionNumber > flagged.submissionNumber
                  THEN merged.report ELSE NoReport)>>

(* Variant for mutation runs: previous submissions are added whether or    *)
(* not the calendar shows them already.                                    *)
BuildEverySubmission(merged) ==
  LET items     == BuildCalendarPeriods(merged)
      Past(report) == report.status = "submitted"
      past      == SelectSeq(merged.previousSubmissions, Past)
  IN  items \o [k \in DOMAIN past |->
                  Item(past[k].submissionNumber, "submitted", past[k])]

(* expand=submissions: with those the calendar does not show.              *)
BuildAllSubmissionPeriods(merged) ==
  LET items     == BuildCalendarPeriods(merged)
      surfaced  == {items[k].report : k \in DOMAIN items}
      Historical(report) == report.status = "submitted" /\ report \notin surfaced
      past      == SelectSeq(merged.previousSubmissions, Historical)
      all       == items \o [k \in DOMAIN past |->
                     Item(past[k].submissionNumber, "submitted", past[k])]
  IN  SortSeq(all, LAMBDA a, b : a.submissionNumber < b.submissionNumber)

-----------------------------------------------------------------------------
(* The feed of the regulator and the public register.                      *)

(* A row for every submission, or a blank one.                             *)
SubmissionRows(merged) ==
  LET submitted == SelectSubmittedReports(merged)
  IN  IF submitted = <<>> THEN <<NoReport>> ELSE submitted

NoInstant == 0

(* Variant for mutation runs: the register shows the latest submission.    *)
LatestSubmittedDate(merged) ==
  LET submitted == SelectSubmittedReports(merged)
  IN  IF submitted = <<>> THEN NoInstant ELSE Last(submitted).submittedAt

OriginalSubmittedDate(merged) ==
  LET submitted == SelectSubmittedReports(merged)
  IN  IF submitted = <<>> THEN NoInstant ELSE Head(submitted).submittedAt

(* Merged with the periods of every month, so that a period with reports   *)
(* is always there.                                                        *)
PublicDate(found, p) ==
  IF OfPeriod(found, p) = {} THEN NoInstant
  ELSE OriginalSubmittedDate(MergeReportingPeriods(found, {})[p])

-----------------------------------------------------------------------------
(* What the contract tests ask of findPeriodicReports and                  *)
(* findAllPeriodicReports: a slot for every period with reports, ...       *)
SlotPerPeriod(found, p, summary) == summary = <<>> <=> OfPeriod(found, p) = {}

(* ... whose current report has the highest number and the others follow,  *)
CurrentIsHighest(found, p, summary) ==
  /\ Len(summary) = Cardinality(OfPeriod(found, p))
  /\ \A j, k \in DOMAIN summary :
       j < k => summary[j].submissionNumber > summary[k].submissionNumber

(* ... each with the instant of its submission, ...                        *)
SubmissionEmbedded(found, p, summary) ==
  \A k \in DOMAIN summary :
    summary[k].submittedAt = found[<<p, summary[k].submissionNumber>>].submittedAt

(* ... and whether it must be resubmitted.                                 *)
RequirementSurfaced(found, p, summary) ==
  \A k \in DOMAIN summary :
    summary[k].required = found[<<p, summary[k].submissionNumber>>].required

PeriodicReportsHonourContract(found) ==
  \A p \in Periods :
    LET summary == BuildPeriodSummary(found, p)
    IN  /\ SlotPerPeriod(found, p, summary)
        /\ CurrentIsHighest(found, p, summary)
        /\ SubmissionEmbedded(found, p, summary)
        /\ RequirementSurfaced(found, p, summary)
=============================================================================
