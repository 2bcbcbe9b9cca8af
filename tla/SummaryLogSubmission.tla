------------------------ MODULE SummaryLogSubmission ------------------------
(***************************************************************************)
(* The life of the summary logs of one registration: the upload callback,  *)
(* the validate and submit commands on the SQS queue, the worker that runs *)
(* them, the submission route and its exclusive transition, the ledger     *)
(* event a submission commits and the document's expiry                    *)
(* (routes/v1/.../summary-logs, repositories/summary-logs,                 *)
(* application/summary-logs, server/queue-consumer).                       *)
(*                                                                         *)
(* Contents of files and rows are left out.  A submission replaces the     *)
(* credit of the one before it, so the ledger is the sequence of the       *)
(* summary logs its events name, and the last one is what is credited.     *)
(***************************************************************************)
EXTENDS Naturals, FiniteSetsExt, SequencesExt

CONSTANTS
  Logs,           \* summary logs of the registration
  EmptyLogs,      \* those with no waste record, on an accredited registration
  Runs,           \* executions of a command that may be under way at once
  MaxReceive,     \* maxReceiveCount of the queue's redrive policy
  NoPrior,        \* NO_PRIOR_SUBMISSION
  Undefined,      \* an absent validatedAgainstSummaryLogId
  Disturbances    \* what goes on besides the requests and the worker

ASSUME LogAssumption ==
  EmptyLogs \subseteq Logs /\ {NoPrior, Undefined} \cap Logs = {} /\ NoPrior # Undefined
ASSUME ReceiveAssumption == MaxReceive \in Nat \ {0}

(* "failure": a call of a command fails.  "sendFailure": one of a request  *)
(* does.  "crash": a process dies.  "timeout": a command outlasts handleMessageTimeout.  "duplicate":*)
(* a message becomes visible while a command still runs on it.  "expiry":  *)
(* documents reach their expiresAt.  "report": a report of the             *)
(* registration is submitted.  "lag": reads are answered by a secondary    *)
(* that is behind.                                                         *)
ASSUME DisturbanceAssumption ==
  Disturbances \subseteq
    {"failure", "sendFailure", "crash", "timeout", "duplicate", "expiry",
     "report", "lag"}

VARIABLES
  snapshots,  \* states of the summary-logs collection, the last one current
  request,    \* request[l]: the request under way on l
  queue,      \* commands sent and not acknowledged
  run,        \* run[r]: a command being executed
  ledger,     \* summary logs named by the summary-log-submitted events
  closed      \* logs created before the latest submission of a report

vars == <<snapshots, request, queue, run, ledger, closed>>

-----------------------------------------------------------------------------
(* Documents.                                                              *)

PREPROCESSING     == "preprocessing"
REJECTED          == "rejected"
VALIDATING        == "validating"
INVALID           == "invalid"
VALIDATED         == "validated"
SUBMITTING        == "submitting"
SUBMITTED         == "submitted"
SUPERSEDED        == "superseded"
VALIDATION_FAILED == "validation_failed"
SUBMISSION_FAILED == "submission_failed"

SUMMARY_LOG_STATUS ==
  { PREPROCESSING, REJECTED, VALIDATING, INVALID, VALIDATED, SUBMITTING,
    SUBMITTED, SUPERSEDED, VALIDATION_FAILED, SUBMISSION_FAILED }

(* Statuses VALID_TRANSITIONS leads out of nowhere.                        *)
Settled == { REJECTED, INVALID, SUBMITTED, SUPERSEDED,
             VALIDATION_FAILED, SUBMISSION_FAILED }

VALIDATE == "validate"
SUBMIT   == "submit"

(* A document that was never inserted, or that the TTL index removed.      *)
NoDocument(why) ==
  [status |-> why, version |-> 0, baseline |-> Undefined, submittedAt |-> 0]

Document == [status      : SUMMARY_LOG_STATUS \cup {"none", "expired"},
             version     : Nat,
             baseline    : Logs \cup {NoPrior, Undefined},
             submittedAt : 0..Cardinality(Logs)]

Idle == [pc |-> "idle"]

Request ==
  {Idle} \cup
  [pc : {"write"}, to : SUMMARY_LOG_STATUS, version : Nat,
   baseline : Logs \cup {NoPrior, Undefined}] \cup
  [pc : {"send"}, command : {VALIDATE, SUBMIT}] \cup
  [pc : {"checkStale"}, version : Nat, baseline : Logs \cup {NoPrior, Undefined}]

Message == [command : {VALIDATE, SUBMIT}, log : Logs, receives : 0..MaxReceive]

(* live: the consumer still waits for this execution of its message.       *)
Run ==
  {Idle} \cup
  [pc : {"read", "persist", "checkReports", "commit", "finalise"},
   message : Message, version : Nat, live : BOOLEAN]

TypeOK ==
  /\ snapshots # <<>> /\ snapshots \in Seq([Logs -> Document])
  /\ request \in [Logs -> Request]
  /\ queue \subseteq Message
  /\ run \in [Runs -> Run]
  /\ ledger \in Seq(Logs)
  /\ closed \subseteq Logs

Docs == Last(snapshots)

(* What a read of the collection may answer from.                          *)
Readable == {snapshots[i] : i \in 1..Len(snapshots)}

(* The collection's current state is all a reader can be behind of, when   *)
(* reads do not lag.                                                       *)
Store(l, doc) ==
  LET docs == [Docs EXCEPT ![l] = doc]
  IN  snapshots' = IF "lag" \in Disturbances THEN Append(snapshots, docs) ELSE <<docs>>

(* Variant for mutation runs: an update filtered by its id alone.          *)
ExistsNow(l, version) == Docs[l].version > 0

(* The filter of update: the document still has the version that was read. *)
VersionMatches(l, version) == version > 0 /\ Docs[l].version = version

(* Variant for mutation runs: no $inc of the version.                      *)
UpdateKeepingVersion(l, status) == Store(l, [Docs[l] EXCEPT !.status = status])

(* update: the status moves and the version with it.                       *)
Update(l, status) ==
  Store(l, [Docs[l] EXCEPT !.status = status, !.version = @ + 1])

(* findLatestSubmittedForOrgReg, by submittedAt.                           *)
LatestSubmitted(docs) ==
  LET submitted == {l \in Logs : docs[l].status = SUBMITTED}
  IN  IF submitted = {} THEN NoPrior
      ELSE CHOOSE l \in submitted :
             \A k \in submitted : docs[k].submittedAt <= docs[l].submittedAt

BecomeRequest(l, q) == request' = [request EXCEPT ![l] = q]

BecomeRun(r, x) == run' = [run EXCEPT ![r] = x]

Init ==
  /\ snapshots = << [l \in Logs |-> NoDocument("none")] >>
  /\ request = [l \in Logs |-> Idle]
  /\ queue = {}
  /\ run = [r \in Runs |-> Idle]
  /\ ledger = <<>>
  /\ closed = {}

-----------------------------------------------------------------------------
(* The upload-completed callback.                                          *)

UploadStatusToSummaryLogStatus(fileStatus) ==
  CASE fileStatus = "rejected" -> REJECTED
    [] fileStatus = "pending"  -> PREPROCESSING
    [] fileStatus = "complete" -> VALIDATING

(* updateStatusBasedOnUpload reads the document and, to insert one that    *)
(* enters validating, the baseline of its staleness check.  Repeated       *)
(* pending callbacks, which rewrite the same document, are left out.       *)
UploadRead(l) ==
  /\ request[l].pc = "idle"
  /\ \E fileStatus \in {"rejected", "pending", "complete"} :
     \E found, latest \in Readable :
       LET to == UploadStatusToSummaryLogStatus(fileStatus)
       IN  /\ found[l].status \in {"none", PREPROCESSING} \ {to}
           /\ BecomeRequest(l,
                [pc |-> "write", to |-> to, version |-> found[l].version,
                 baseline |-> IF found[l].status = "none" /\ to = VALIDATING
                              THEN LatestSubmitted(latest) ELSE Undefined])
  /\ UNCHANGED <<snapshots, queue, run, ledger, closed>>

(* The document is inserted, or updated without its createdAt and baseline,*)
(* which the update schema strips; the validate command is sent after.     *)
UploadWrite(l) ==
  /\ request[l].pc = "write"
  /\ LET q == request[l]
         next == IF q.to = VALIDATING THEN [pc |-> "send", command |-> VALIDATE] ELSE Idle
     IN  \/ /\ q.version = 0 /\ Docs[l].status = "none"
            /\ Store(l, [status |-> q.to, version |-> 1,
                         baseline |-> q.baseline, submittedAt |-> 0])
            /\ BecomeRequest(l, next)
         \/ /\ VersionMatches(l, q.version)
            /\ Update(l, q.to)
            /\ BecomeRequest(l, next)
         \/ /\ q.version # Docs[l].version
            /\ BecomeRequest(l, Idle)
            /\ UNCHANGED snapshots
  /\ UNCHANGED <<queue, run, ledger, closed>>

(* sendCommandMessage.                                                     *)
Send(l) ==
  /\ request[l].pc = "send"
  /\ queue' = queue \cup {[command |-> request[l].command, log |-> l, receives |-> 0]}
  /\ BecomeRequest(l, Idle)
  /\ UNCHANGED <<snapshots, run, ledger, closed>>

-----------------------------------------------------------------------------
(* The submission route.                                                   *)

(* Variant: no unique index on the submitting log of a registration.       *)
AnyoneMaySubmit(l) == TRUE

(* Unique partial index: one submitting log per registration.              *)
NoneSubmitting(l) == \A k \in Logs \ {l} : Docs[k].status # SUBMITTING

(* transitionToSubmittingExclusive: the findOneAndUpdate; the reads before *)
(* it only refuse earlier.                                                 *)
TransitionToSubmitting(l) ==
  /\ request[l].pc = "idle"
  /\ Docs[l].status = VALIDATED
  /\ NoneSubmitting(l)
  /\ Store(l, [Docs[l] EXCEPT !.status = SUBMITTING, !.version = @ + 1,
                 !.submittedAt = 1 + Max({Docs[k].submittedAt : k \in Logs})])
  /\ BecomeRequest(l, [pc |-> "checkStale", version |-> Docs[l].version + 1,
                       baseline |-> Docs[l].baseline])
  /\ UNCHANGED <<queue, run, ledger, closed>>

(* handleStalenessCheck.                                                   *)
CheckStale(l) ==
  /\ request[l].pc = "checkStale"
  /\ \E docs \in Readable :
       IF request[l].baseline = LatestSubmitted(docs)
       THEN /\ BecomeRequest(l, [pc |-> "send", command |-> SUBMIT])
            /\ UNCHANGED snapshots
       ELSE /\ BecomeRequest(l, Idle)
            /\ IF VersionMatches(l, request[l].version)
               THEN Update(l, SUPERSEDED) ELSE UNCHANGED snapshots
  /\ UNCHANGED <<queue, run, ledger, closed>>

(* A request ends where it stands: a call of it failed, or its process died.*)
RequestFails(l) ==
  /\ {"sendFailure", "crash"} \cap Disturbances # {}
  /\ request[l].pc # "idle"
  /\ BecomeRequest(l, Idle)
  /\ UNCHANGED <<snapshots, queue, run, ledger, closed>>

-----------------------------------------------------------------------------
(* The command queue consumer.                                             *)

Receive(r) ==
  /\ run[r].pc = "idle"
  /\ \E m \in queue :
       LET received == [m EXCEPT !.receives = @ + 1]
       IN  /\ m.receives < MaxReceive
           /\ \/ "duplicate" \in Disturbances
              \/ \A x \in Runs : run[x].pc # "idle" /\ run[x].live => run[x].message # m
           /\ queue' = (queue \ {m}) \cup {received}
           /\ BecomeRun(r, [pc |-> "read", message |-> received,
                            version |-> 0, live |-> TRUE])
  /\ UNCHANGED <<snapshots, request, ledger, closed>>

(* The consumer deletes a message whose handler returned, unless it has    *)
(* stopped waiting for it.                                                 *)
Acknowledge(x) ==
  queue' = IF x.live
           THEN {m \in queue : m.command # x.message.command \/ m.log # x.message.log}
           ELSE queue

(* onFailure: markAsValidationFailed, markAsSubmissionFailed.  What it     *)
(* throws is swallowed.                                                    *)
OnFailure(x) ==
  LET l == x.message.log
      processing == IF x.message.command = VALIDATE
                    THEN {PREPROCESSING, VALIDATING} ELSE {SUBMITTING}
      failed == IF x.message.command = VALIDATE
                THEN VALIDATION_FAILED ELSE SUBMISSION_FAILED
  IN  \E docs \in Readable :
        IF docs[l].status \in processing /\ VersionMatches(l, docs[l].version)
        THEN Update(l, failed) ELSE UNCHANGED snapshots

(* Variant: the attempt after the last one that is made.                   *)
AfterFinalAttempt(receives) == receives > MaxReceive

IsFinalTransientAttempt(receives) == receives >= MaxReceive

(* handleCommandError: a permanent error is final and acknowledged; a      *)
(* transient one is thrown, so that the message is delivered again.        *)
PermanentError(r) ==
  /\ OnFailure(run[r])
  /\ Acknowledge(run[r])
  /\ BecomeRun(r, Idle)

TransientError(r) ==
  /\ IF IsFinalTransientAttempt(run[r].message.receives)
     THEN OnFailure(run[r]) ELSE UNCHANGED snapshots
  /\ BecomeRun(r, Idle)
  /\ UNCHANGED queue

(* The status the command asks of the document it finds.                   *)
ReadLog(r) ==
  /\ run[r].pc = "read"
  /\ LET m == run[r].message
         expected == IF m.command = VALIDATE THEN VALIDATING ELSE SUBMITTING
         first    == IF m.command = VALIDATE THEN "persist" ELSE "checkReports"
     IN  \E docs \in Readable :
           IF docs[m.log].status = expected
           THEN /\ BecomeRun(r, [run[r] EXCEPT !.pc = first, !.version = docs[m.log].version])
                /\ UNCHANGED <<snapshots, queue>>
           ELSE PermanentError(r)
  /\ UNCHANGED <<request, ledger, closed>>

(* A step that ends a command by moving its document on.                   *)
Complete(r, status) ==
  LET x == run[r]
  IN  IF VersionMatches(x.message.log, x.version)
      THEN Update(x.message.log, status) /\ Acknowledge(x) /\ BecomeRun(r, Idle)
      ELSE TransientError(r)

(* persistValidationResult.                                                *)
PersistValidation(r) ==
  /\ run[r].pc = "persist"
  /\ \E status \in {VALIDATED, INVALID} : Complete(r, status)
  /\ UNCHANGED <<request, ledger, closed>>

(* assertNoReportSubmittedSinceCreation.                                   *)
CheckReports(r) ==
  /\ run[r].pc = "checkReports"
  /\ IF run[r].message.log \in closed
     THEN PermanentError(r)
     ELSE BecomeRun(r, [run[r] EXCEPT !.pc = "commit"]) /\ UNCHANGED <<snapshots, queue>>
  /\ UNCHANGED <<request, ledger, closed>>

(* syncFromSummaryLog: the row states, which nothing reads until the event *)
(* that names their log, then the event, which a submission without waste  *)
(* records does not commit.                                                *)
CommitLedger(r) ==
  /\ run[r].pc = "commit"
  /\ LET l == run[r].message.log
     IN  ledger' = IF l \in EmptyLogs THEN ledger ELSE Append(ledger, l)
  /\ BecomeRun(r, [run[r] EXCEPT !.pc = "finalise"])
  /\ UNCHANGED <<snapshots, request, queue, closed>>

(* The end of syncAndFinalise.                                             *)
Finalise(r) ==
  /\ run[r].pc = "finalise"
  /\ Complete(r, SUBMITTED)
  /\ UNCHANGED <<request, ledger, closed>>

CommandFails(r) ==
  /\ "failure" \in Disturbances
  /\ run[r].pc # "idle"
  /\ TransientError(r)
  /\ UNCHANGED <<request, ledger, closed>>

WorkerDies(r) ==
  /\ "crash" \in Disturbances
  /\ run[r].pc # "idle"
  /\ BecomeRun(r, Idle)
  /\ UNCHANGED <<snapshots, request, queue, ledger, closed>>

(* timeout_error: the document is marked and the message visible again,    *)
(* the handler runs on.                                                    *)
Timeout(r) ==
  /\ "timeout" \in Disturbances
  /\ run[r].pc # "idle" /\ run[r].live
  /\ OnFailure(run[r])
  /\ BecomeRun(r, [run[r] EXCEPT !.live = FALSE])
  /\ UNCHANGED <<request, queue, ledger, closed>>

-----------------------------------------------------------------------------
(* Environment.                                                            *)

(* STATUS_TO_TTL: every document but a submitted one expires.              *)
Expire(l) ==
  /\ "expiry" \in Disturbances
  /\ Docs[l].version > 0 /\ Docs[l].status # SUBMITTED
  /\ Store(l, NoDocument("expired"))
  /\ UNCHANGED <<request, queue, run, ledger, closed>>

(* A report of the registration is submitted, after the createdAt of every *)
(* log inserted or about to be.                                            *)
ReportSubmitted ==
  /\ "report" \in Disturbances
  /\ closed' = {l \in Logs : Docs[l].version > 0 \/ request[l].pc = "write"}
  /\ closed' # closed
  /\ UNCHANGED <<snapshots, request, queue, run, ledger>>

Next ==
  \/ \E l \in Logs :
       \/ UploadRead(l)
       \/ UploadWrite(l)
       \/ Send(l)
       \/ TransitionToSubmitting(l)
       \/ CheckStale(l)
       \/ RequestFails(l)
       \/ Expire(l)
  \/ \E r \in Runs :
       \/ Receive(r)
       \/ ReadLog(r)
       \/ PersistValidation(r)
       \/ CheckReports(r)
       \/ CommitLedger(r)
       \/ Finalise(r)
       \/ CommandFails(r)
       \/ WorkerDies(r)
       \/ Timeout(r)
  \/ ReportSubmitted

Spec == Init /\ [][Next]_vars

(* A request that got as far as submitting goes on, a visible message is   *)
(* received, and a command that was received takes its steps.  Nobody need *)
(* upload or submit, and nothing need fail.                                *)
Fairness ==
  /\ \A l \in Logs : WF_vars(CheckStale(l)) /\ WF_vars(Send(l))
  /\ \A r \in Runs :
       /\ WF_vars(Receive(r))
       /\ WF_vars(ReadLog(r))
       /\ WF_vars(PersistValidation(r))
       /\ WF_vars(CheckReports(r))
       /\ WF_vars(CommitLedger(r))
       /\ WF_vars(Finalise(r))

FairSpec == Spec /\ Fairness

-----------------------------------------------------------------------------
(* Properties.                                                             *)

(* submit/post.js: whoever confirms a preview confirms it against the      *)
(* submission the preview was drawn up against.  Of two logs validated on  *)
(* one baseline at most one is submitted, whatever is retried, outlasts    *)
(* its timeout or expires between the check and the end of the submission. *)
SubmittedOnFreshBaseline ==
  [][\A l \in Logs :
       Docs[l].status # SUBMITTED /\ (Docs[l].status)' = SUBMITTED =>
         Docs[l].baseline = LatestSubmitted(Docs)]_vars

(* domain/summary-logs/status.js: what the operator was told is final.  A  *)
(* handler that runs on after its timeout, and a second delivery of its    *)
(* message, never turn one outcome into another.                           *)
SettledStaysSettled ==
  [][\A l \in Logs : Docs[l].status \in Settled =>
       (Docs[l].status)' \in {Docs[l].status, "expired"}]_vars

(* The credited submission is the one the registration's next upload is    *)
(* compared with: the ledger's latest event is of the log that was         *)
(* submitted last, or of one whose submission is still being retried.      *)
LedgerNamesLatestSubmitted ==
  IF ledger = <<>>
  THEN LatestSubmitted(Docs) = NoPrior
  ELSE \/ Docs[Last(ledger)].status = SUBMITTING
       \/ Last(ledger) = LatestSubmitted(Docs)

(* consumer.js: a log does not stay submitting.  Whatever fails, outlasts  *)
(* its timeout or is delivered twice, the last attempt submits it or marks *)
(* it failed.                                                              *)
SubmissionSettles ==
  \A l \in Logs : Docs[l].status = SUBMITTING ~> Docs[l].status # SUBMITTING

(* sync-from-summary-log.js: "a summary-log-submitted event marking that   *)
(* the summary log was submitted".                                         *)
EventMarksSubmitted ==
  \A i \in 1..Len(ledger) : Docs[ledger[i]].status \in {SUBMITTING, SUBMITTED}

(* sync-from-summary-log.js: "Every submission records a                   *)
(* summary-log-submitted event".                                           *)
EverySubmissionRecorded ==
  \A l \in Logs : Docs[l].status = SUBMITTED => l \in Range(ledger)

(* upload-completed/post.js: "Capture baseline for staleness detection     *)
(* when entering validating status".                                       *)
ValidatingHasBaseline ==
  \A l \in Logs : Docs[l].status = VALIDATING => Docs[l].baseline # Undefined

(* submit.js: "Fails submission if any report for this registration was    *)
(* submitted since the log's createdAt".                                   *)
NoCommitAfterReport ==
  [][ledger' # ledger => Last(ledger') \notin closed]_vars

-----------------------------------------------------------------------------
(* The repository as its callers may think of it.                          *)

Repository == INSTANCE SummaryLogRepository WITH logs <- Docs

(* Whatever the routes and the worker do at once, what they store comes to *)
(* the operations the contract tests ask of every adapter: no transition   *)
(* that is not listed, no second submitting log, no field lost, and logs   *)
(* that are listed once their outcome is stored.                           *)
HonoursContract == Repository!Spec
=============================================================================
