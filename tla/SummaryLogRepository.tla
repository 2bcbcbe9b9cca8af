------------------------ MODULE SummaryLogRepository ------------------------
(***************************************************************************)
(* What the repository of summary logs promises, as its in-memory adapter  *)
(* carries it out (repositories/summary-logs/inmemory.js) and the contract *)
(* tests of both adapters check it: inserted once, updated under the       *)
(* version that was read, one log submitting at a time, and queries that   *)
(* list outcomes and nothing on its way to one.                            *)
(***************************************************************************)
EXTENDS Naturals, FiniteSets

CONSTANTS
  Logs,     \* summary logs of one registration
  NoPrior   \* answer of a search that finds no submitted log

VARIABLES
  logs      \* logs[l]: the document of l

Stored(l) == logs[l].version > 0

Others(l) == \A k \in Logs \ {l} : (logs[k])' = logs[k]

-----------------------------------------------------------------------------
(* Statuses.                                                               *)

VALID_TRANSITIONS ==
  [ preprocessing     |-> {"preprocessing", "rejected", "validating", "validation_failed"},
    validating        |-> {"validated", "invalid", "validation_failed"},
    rejected          |-> {},
    validated         |-> {"submitting"},
    invalid           |-> {},
    submitting        |-> {"submitted", "superseded", "submission_failed"},
    submitted         |-> {},
    superseded        |-> {},
    validation_failed |-> {},
    submission_failed |-> {} ]

SUMMARY_LOG_FAILURE_STATUS ==
  {"rejected", "invalid", "validation_failed", "submission_failed"}

TERMINAL_STATUS == {"submitted"} \cup SUMMARY_LOG_FAILURE_STATUS

(* STATUS_TO_TTL gives every status but one a date of expiry, which a      *)
(* document is always written with.                                        *)
NeverExpires(l) == logs[l].status = "submitted"

-----------------------------------------------------------------------------
(* Queries.                                                                *)

SubmittedLogs == {l \in Logs : Stored(l) /\ logs[l].status = "submitted"}

(* The most recent by the time of submission, whatever was inserted first. *)
FindLatestSubmitted ==
  IF SubmittedLogs = {} THEN NoPrior
  ELSE CHOOSE l \in SubmittedLogs :
         \A k \in SubmittedLogs : logs[k].submittedAt <= logs[l].submittedAt

FailedLogs ==
  {l \in Logs : Stored(l) /\ logs[l].status \in SUMMARY_LOG_FAILURE_STATUS}

(* The time of submission counts, whatever was inserted first.             *)
LastSuccessful ==
  IF SubmittedLogs = {} THEN 0 ELSE logs[FindLatestSubmitted].submittedAt

FindAllSummaryLogStats ==
  [ lastSuccessful  |-> LastSuccessful,
    successfulCount |-> Cardinality(SubmittedLogs),
    failedCount     |-> Cardinality(FailedLogs) ]

(* Submitted and failed logs; none that is on its way, none superseded.    *)
FindAllByOrgReg == {l \in Logs : Stored(l) /\ logs[l].status \in TERMINAL_STATUS}

-----------------------------------------------------------------------------
(* Operations.                                                             *)

(* An id is inserted once, whoever races.                                  *)
Insert(l) ==
  /\ ~ Stored(l)
  /\ (logs[l].status)' \in {"preprocessing", "rejected", "validating"}
  /\ (logs[l].version)' = 1
  /\ (logs[l].submittedAt)' = 0

(* The version advances by one, the fields that are not given stay.        *)
VersionAdvances(l) == Stored(l) /\ (logs[l].version)' = logs[l].version + 1

FieldsKept(l) == (logs[l].baseline)' = logs[l].baseline

Update(l) ==
  /\ VersionAdvances(l)
  /\ FieldsKept(l)
  /\ (logs[l].submittedAt)' = logs[l].submittedAt
  /\ (logs[l].status)' \in VALID_TRANSITIONS[logs[l].status]
  /\ (logs[l].status)' # "submitting"

(* Of those that race one succeeds; the others stay validated.             *)
TransitionToSubmittingExclusive(l) ==
  /\ VersionAdvances(l)
  /\ FieldsKept(l)
  /\ logs[l].status = "validated"
  /\ (logs[l].status)' = "submitting"
  /\ \A k \in Logs : logs[k].status # "submitting" /\ logs[k].submittedAt < (logs[l].submittedAt)'

Expire(l) == Stored(l) /\ ~ NeverExpires(l) /\ (logs[l].version)' = 0

(* A log is listed from the moment its outcome is stored, and the latest   *)
(* submitted one is the one submitted last.                                *)
Lists(l) ==
  /\ FindAllByOrgReg' \subseteq FindAllByOrgReg \cup {l}
  /\ FindAllByOrgReg \subseteq FindAllByOrgReg' \cup {l}
  /\ FindLatestSubmitted' \in {FindLatestSubmitted, l}

(* A success is counted once and for ever; a failure until it expires.     *)
Counts ==
  LET before == FindAllSummaryLogStats
      after  == FindAllSummaryLogStats'
  IN  /\ after.lastSuccessful >= before.lastSuccessful
      /\ \/ /\ after.successfulCount = before.successfulCount
            /\ after.failedCount \in (before.failedCount - 1)..(before.failedCount + 1)
         \/ /\ after.successfulCount = before.successfulCount + 1
            /\ after.failedCount = before.failedCount

Init == \A l \in Logs : ~ Stored(l)

Next ==
  \E l \in Logs :
    /\ Insert(l) \/ Update(l) \/ TransitionToSubmittingExclusive(l) \/ Expire(l)
    /\ Others(l)
    /\ Lists(l)
    /\ Counts

Spec == Init /\ [][Next]_logs
=============================================================================
