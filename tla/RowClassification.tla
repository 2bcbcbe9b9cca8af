------------------------- MODULE RowClassification -------------------------
(***************************************************************************)
(* What a row of a summary log is worth: the tables of each template, the  *)
(* waste-balance classification of a row, the projection of a row into its *)
(* stored state, the reporting periods of its dates, and the credited      *)
(* tonnage read back from stored states (domain/summary-logs/table-schemas,*)
(* waste-balances/domain, waste-records/application).                      *)
(*                                                                         *)
(* A date is the number of its month in one reporting year.  Weights and   *)
(* tonnages are in thousandths of a tonne as the operator wrote them, and  *)
(* in hundredths once rounded.                                             *)
(***************************************************************************)
EXTENDS Integers, Sequences, FiniteSetsExt

CONSTANTS
  NONE,                      \* an absent value
  ORS_VALIDATION_DISABLED    \* the sentinel for "no overseas sites to check"

-----------------------------------------------------------------------------
(* Templates and their tables.                                             *)

EXPORTER                    == "EXPORTER"
REPROCESSOR_INPUT           == "REPROCESSOR_INPUT"
REPROCESSOR_OUTPUT          == "REPROCESSOR_OUTPUT"
EXPORTER_REGISTERED_ONLY    == "EXPORTER_REGISTERED_ONLY"
REPROCESSOR_REGISTERED_ONLY == "REPROCESSOR_REGISTERED_ONLY"

REGISTERED_ONLY_PROCESSING_TYPES ==
  {EXPORTER_REGISTERED_ONLY, REPROCESSOR_REGISTERED_ONLY}

RECEIVED  == "received"
PROCESSED == "processed"
SENT_ON   == "sentOn"
EXPORTED  == "exported"

(* The record types of a template's tables; a record of another type has   *)
(* no schema there.                                                        *)
PROCESSING_TYPE_TABLES ==
  [t \in {EXPORTER, REPROCESSOR_INPUT, REPROCESSOR_OUTPUT}
         \cup REGISTERED_ONLY_PROCESSING_TYPES |->
     CASE t = EXPORTER                    -> {EXPORTED, SENT_ON}
       [] t = EXPORTER_REGISTERED_ONLY    -> {RECEIVED, EXPORTED, SENT_ON}
       [] t = REPROCESSOR_REGISTERED_ONLY -> {RECEIVED, SENT_ON}
       [] OTHER                           -> {RECEIVED, PROCESSED, SENT_ON}]

HasSchema(t, type) == type \in PROCESSING_TYPE_TABLES[t]

(* The tables that have a classifyForWasteBalance.                         *)
Classifies(t, type) ==
  <<t, type>> \in {<<EXPORTER, EXPORTED>>, <<REPROCESSOR_INPUT, RECEIVED>>,
                   <<REPROCESSOR_INPUT, SENT_ON>>, <<REPROCESSOR_OUTPUT, PROCESSED>>}

(* REPORTING_DATE_FIELDS: the columns that place a row in a period.        *)
ReportingDateFields(t, type) ==
  CASE type = RECEIVED -> {"received"}
    [] type = EXPORTED /\ t = EXPORTER -> {"received", "left"}
    [] type = EXPORTED /\ t # EXPORTER -> {"left", "repatriated"}
    [] OTHER -> {"left"}

(* The columns whose dates the accreditation must cover.                   *)
AccreditationDateFields(type) ==
  CASE type = RECEIVED -> {"received"}
    [] type = EXPORTED -> {"left", "osr"}
    [] OTHER -> {"left"}

-----------------------------------------------------------------------------
(* Rounding.                                                               *)

(* From thousandths to hundredths, half up; an unfilled amount is zero.    *)
RoundToTwoDecimalPlaces(n) == IF n = NONE THEN 0 ELSE (n + 5) \div 10

-----------------------------------------------------------------------------
(* Accreditations and overseas sites at a date.                            *)

IsWithinAccreditationDateRange(date, a) == a.validFrom <= date /\ date <= a.validTo

(* The last status change on or before the date; of two of one instant,    *)
(* the stable sort leaves the earlier entry first.                         *)
IsSuspendedOrCancelledAtDate(date, history) ==
  \E i \in DOMAIN history :
    /\ history[i].updatedAt <= date
    /\ \A j \in DOMAIN history :
         history[j].updatedAt <= date =>
           \/ history[j].updatedAt < history[i].updatedAt
           \/ history[j].updatedAt = history[i].updatedAt /\ i <= j
    /\ history[i].status \in {"suspended", "cancelled"}

IsAccreditedAtDates(dates, a) ==
  a # NONE =>
    /\ a.validFrom # NONE /\ a.validTo # NONE
    /\ \A d \in dates :
         /\ IsWithinAccreditationDateRange(d, a)
         /\ ~IsSuspendedOrCancelledAtDate(d, a.statusHistory)

CurrentStatus(a) == a.statusHistory[Len(a.statusHistory)].status

IsRegistrationAccredited(a) ==
  a # NONE /\ CurrentStatus(a) \in {"approved", "suspended"}

IsOrsApprovedAtDate(validFrom, date) == validFrom # NONE /\ validFrom <= date

-----------------------------------------------------------------------------
(* classifyForWasteBalance of each table.                                  *)

INCLUDED       == "INCLUDED"
EXCLUDED       == "EXCLUDED"
IGNORED        == "IGNORED"
REJECTED       == "REJECTED"
NOT_APPLICABLE == "NOT_APPLICABLE"

Without(outcome, reasons) ==
  [outcome |-> outcome, reasons |-> reasons, transactionAmount |-> 0]
Included(amount) ==
  [outcome |-> INCLUDED, reasons |-> {}, transactionAmount |-> amount]

(* Why a load whose dates are accredited does not count: the first reason  *)
(* in the order of the table's checks, or none.                            *)
ExportObstacles(data, sites) ==
  CASE data.remark = "stopped" -> {"WASTE_STOPPED"}
    [] data.remark = "refused" -> {"WASTE_REFUSED"}
    [] data.remark \notin {"stopped", "refused"}
       /\ sites # ORS_VALIDATION_DISABLED /\ data.osr \notin DOMAIN sites ->
         {"ORS_NOT_FOUND"}
    [] data.remark \notin {"stopped", "refused"}
       /\ sites # ORS_VALIDATION_DISABLED /\ data.osr \in DOMAIN sites
       /\ ~IsOrsApprovedAtDate(sites[data.osr], data.dates["left"]) ->
         {"ORS_NOT_APPROVED"}
    [] OTHER -> IF data.remark = "prnIssued" THEN {"PRN_ISSUED"} ELSE {}

ReceivedObstacles(data) == IF data.remark = "prnIssued" THEN {"PRN_ISSUED"} ELSE {}

ProcessedObstacles(data) ==
  IF data.remark = "weightAdded" THEN {} ELSE {"PRODUCT_WEIGHT_NOT_ADDED"}

Obstacles(type, data, sites) ==
  CASE type = EXPORTED  -> ExportObstacles(data, sites)
    [] type = RECEIVED  -> ReceivedObstacles(data)
    [] type = PROCESSED -> ProcessedObstacles(data)
    [] type = SENT_ON   -> {}

(* The column that credits: an exporter's interim-site tonnage when the    *)
(* load passed through one; a load sent on debits.                         *)
CreditedColumn(type, data) ==
  IF type = EXPORTED /\ data.interim THEN data.interimTonnage ELSE data.tonnage

TransactionAmount(type, data) ==
  LET amount == RoundToTwoDecimalPlaces(CreditedColumn(type, data))
  IN IF type = SENT_ON THEN -amount ELSE amount

ClassifyForWasteBalance(type, data, a, sites) ==
  IF ~data.filled THEN Without(EXCLUDED, {"MISSING_REQUIRED_FIELD"})
  ELSE IF ~IsAccreditedAtDates({data.dates[f] : f \in AccreditationDateFields(type)}, a)
  THEN Without(IGNORED, {"OUTSIDE_ACCREDITATION_PERIOD"})
  ELSE IF Obstacles(type, data, sites) # {}
  THEN Without(EXCLUDED, Obstacles(type, data, sites))
  ELSE Included(TransactionAmount(type, data))

(* classifyRecordForWasteBalance: of a record, under its template.         *)
ClassifyRecordForWasteBalance(t, type, data, a, sites) ==
  IF a = NONE \/ ~HasSchema(t, type) \/ ~Classifies(t, type)
  THEN Without(NOT_APPLICABLE, {})
  ELSE ClassifyForWasteBalance(type, data, a, sites)

(* getTargetAmount.                                                        *)
GetTargetAmount(classification) ==
  IF classification.outcome = INCLUDED THEN classification.transactionAmount ELSE 0

-----------------------------------------------------------------------------
(* Validation of a row (classifyRow): the schema, with its net weight      *)
(* check, then the fields the balance needs.                               *)

ValidateNetWeight(data) == data.net = data.gross - data.tare - data.pallet

ClassifyRow(t, type, data) ==
  IF ~data.valid \/ ~ValidateNetWeight(data) THEN REJECTED
  ELSE IF ~Classifies(t, type) \/ ~data.filled THEN EXCLUDED
  ELSE INCLUDED

(* markIgnoredByDateRange: as classified for the registration's            *)
(* accreditation, the overseas sites left out.                             *)
MarkIgnored(t, type, data, a) ==
  IF /\ Classifies(t, type)
     /\ ClassifyForWasteBalance(type, data, a, ORS_VALIDATION_DISABLED).outcome = IGNORED
  THEN IGNORED
  ELSE ClassifyRow(t, type, data)

-----------------------------------------------------------------------------
(* The stored state of a row (projectSummaryLogRowState).  A stored weight *)
(* stays in thousandths, so that it can be read as the operator's is.      *)

Coerced(n) == IF n = NONE THEN NONE ELSE 10 * RoundToTwoDecimalPlaces(n)

(* coerceStoredTonnages, the net weight derived again from its parts.      *)
CoerceStoredTonnages(data) ==
  LET gross  == Coerced(data.gross)
      tare   == Coerced(data.tare)
      pallet == Coerced(data.pallet)
  IN [data EXCEPT !.gross = gross, !.tare = tare, !.pallet = pallet,
                  !.net = gross - tare - pallet,
                  !.tonnage = Coerced(data.tonnage),
                  !.interimTonnage = Coerced(data.interimTonnage)]

(* A row is a record type and a row id.                                    *)
ProjectSummaryLogRowState(t, row, data, a, sites) ==
  [row            |-> row,
   processingType |-> t,
   data           |-> CoerceStoredTonnages(data),
   classification |-> ClassifyRecordForWasteBalance(t, row.type, data, a, sites)]

(* reclassifyWasteRecordState: a stored state read for today's context.    *)
ReclassifyWasteRecordState(s, a, sites) ==
  [s EXCEPT !.classification =
     ClassifyRecordForWasteBalance(s.processingType, s.row.type, s.data, a, sites)]

-----------------------------------------------------------------------------
(* Reporting periods.                                                      *)

MONTHLY   == "monthly"
QUARTERLY == "quarterly"

MONTHS_PER_PERIOD(cadence) == IF cadence = QUARTERLY THEN 3 ELSE 1

PeriodForDate(date, cadence) ==
  [cadence |-> cadence,
   period  |-> (date + MONTHS_PER_PERIOD(cadence) - 1) \div MONTHS_PER_PERIOD(cadence)]

(* The cadence the live path takes from the accreditation's status, and    *)
(* the one the back-fill takes from a row's template.                      *)
Cadence(a) == IF IsRegistrationAccredited(a) THEN MONTHLY ELSE QUARTERLY
CadenceForRow(t) == IF t \in REGISTERED_ONLY_PROCESSING_TYPES THEN QUARTERLY ELSE MONTHLY

(* The periods of the dates that a row carries.                            *)
PeriodsForData(t, type, data, cadence) ==
  {PeriodForDate(data.dates[f], cadence) :
     f \in {g \in ReportingDateFields(t, type) : data.dates[g] # NONE}}

-----------------------------------------------------------------------------
(* Credited tonnage of an accreditation, from the states of its rows.      *)

(* contributionFor: the table that credits under a template, the date that *)
(* places a row in a month, the tonnage and whether it credits.            *)
Contributes(t, type) == Classifies(t, type)

MonthOf(s) ==
  s.data.dates[CASE s.row.type = RECEIVED -> "received"
                 [] s.row.type = EXPORTED -> "osr"
                 [] OTHER -> "left"]

Credits(type) == type # SENT_ON

(* The rows placed in a month, the rows dropped, and the figures of one    *)
(* month.                                                                  *)
RowsOfMonth(states, month) ==
  {s \in states : Contributes(s.processingType, s.row.type) /\ MonthOf(s) = month}

SkippedRows(states, months) ==
  {s \in states : Contributes(s.processingType, s.row.type) /\ MonthOf(s) \notin months}

CreditedTonnageByMonth(states, months) ==
  [m \in months |->
     LET rows == RowsOfMonth(states, m)
         crediting == {s \in rows : Credits(s.row.type)}
     IN [totalCredited |->
           MapThenSumSet(LAMBDA s : RoundToTwoDecimalPlaces(CreditedColumn(s.row.type, s.data)),
                         crediting),
         eligibleForWasteBalance |->
           MapThenSumSet(LAMBDA s : GetTargetAmount(s.classification), crediting),
         sentOnDeductions |->
           MapThenSumSet(LAMBDA s : RoundToTwoDecimalPlaces(CreditedColumn(s.row.type, s.data)),
                         rows \ crediting)]]
=============================================================================
