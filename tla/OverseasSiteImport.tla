------------------------- MODULE OverseasSiteImport -------------------------
(***************************************************************************)
(* Imports of overseas reprocessing sites: the import document, the upload *)
(* callback that adds its files and sends a command, and the command's     *)
(* execution, which for each file finds or creates the sites it lists and  *)
(* replaces the overseas sites of a registration (overseas-sites,          *)
(* server/queue-consumer).                                                 *)
(*                                                                         *)
(* All the files are of one registration.  A file is the set of sites it   *)
(* lists; the empty set is a file that is refused, by the parser or        *)
(* because its organisation or registration is not found.                  *)
(***************************************************************************)
EXTENDS Naturals, FiniteSets, SequencesExt

CONSTANTS
  Imports,
  Files,
  Upload,         \* Upload[i]: the files uploaded for import i, in order
  Sites,          \* sites, as findByProperties tells them apart
  Content,        \* Content[f]: the sites file f lists
  NoSite,         \* an overseas-sites id that no record has
  Executions,     \* executions of commands that may be under way at once
  MaxReceive,     \* maxReceiveCount of the queue's redrive policy
  MaxRecords,     \* bound on site records created
  MaxDisturbed,   \* bound on how often something goes wrong
  Disturbances    \* what may go wrong

ASSUME UploadAssumption ==
  /\ Upload \in [Imports -> Seq(Files)]
  /\ Content \in [Files -> SUBSET Sites]
  /\ NoSite \notin Sites
ASSUME BoundAssumption ==
  MaxReceive \in Nat \ {0} /\ {MaxRecords, MaxDisturbed} \subseteq Nat

(* "fault": a call of a command fails.  "sendFailure": sending one does.   *)
(* "crash": an execution's process dies.  "timeout": a command outlasts    *)
(* handleMessageTimeout.  "duplicate": a message becomes visible while a   *)
(* command still runs on it.  "expiry": a document reaches its expiresAt.  *)
ASSUME DisturbanceAssumption ==
  Disturbances \subseteq
    {"fault", "sendFailure", "crash", "timeout", "duplicate", "expiry"}

VARIABLES
  imports,       \* imports[i]: the document of the ors-imports collection
  stored,        \* uploaded files still in S3
  callback,      \* callback[i]: "idle", or "send": its command not yet sent
  queue,         \* commands sent and not acknowledged
  run,           \* run[e]: a command being executed
  records,       \* records[n]: the site of the n-th overseas-sites record
  registration,  \* the organisation's version, the registration's site ids
  applied,       \* imports that replaced the registration's sites (history)
  cut,           \* cut[i]: how executions of i went wrong (history)
  disturbed      \* how often something went wrong

vars == <<imports, stored, callback, queue, run, records, registration,
          applied, cut, disturbed>>

-----------------------------------------------------------------------------
(* Documents.                                                              *)

PREPROCESSING == "preprocessing"
PROCESSING    == "processing"
COMPLETED     == "completed"
FAILED        == "failed"

SUCCESS == "success"
FAILURE == "failure"

(* VALID_ORS_IMPORT_TRANSITIONS.                                           *)
VALID_ORS_IMPORT_TRANSITIONS ==
  [s \in {PREPROCESSING, PROCESSING, COMPLETED, FAILED} |->
     CASE s = PREPROCESSING -> {PROCESSING, FAILED}
       [] s = PROCESSING    -> {COMPLETED, FAILED}
       [] OTHER             -> {}]

ORS_IMPORT_TERMINAL_STATUSES ==
  {s \in DOMAIN VALID_ORS_IMPORT_TRANSITIONS : VALID_ORS_IMPORT_TRANSITIONS[s] = {}}

(* A document that was never inserted, or that the TTL index removed.      *)
NoImport(why) == [status |-> why, files |-> <<>>]

Exists(i) == imports[i].status \in DOMAIN VALID_ORS_IMPORT_TRANSITIONS

UploadedFile(f) == [file |-> f, result |-> "none"]

Ids == 1..MaxRecords

Idle == [pc |-> "idle"]

Message == [import : Imports, receives : 0..MaxReceive]

(* found: the document as it was read.  version: the organisation's, as it *)
(* was resolved.  live: the consumer still waits for this execution.       *)
Run ==
  {Idle} \cup
  [pc : {"read", "start", "fetch", "resolve", "find", "create",
         "delete", "record", "finish"},
   message : Message, live : BOOLEAN, files : Seq(Files),
   results : Seq({SUCCESS, FAILURE}), result : {"none", SUCCESS, FAILURE},
   version : Nat, todo : SUBSET Sites, site : Sites \cup {NoSite},
   map : SUBSET Ids]

TypeOK ==
  /\ imports \in
       [Imports -> [status : DOMAIN VALID_ORS_IMPORT_TRANSITIONS \cup {"none", "expired"},
                    files  : Seq([file : Files, result : {"none", SUCCESS, FAILURE}])]]
  /\ stored \subseteq Files
  /\ callback \in [Imports -> {"idle", "send"}]
  /\ queue \subseteq Message
  /\ run \in [Executions -> Run]
  /\ records \in [Ids -> Sites \cup {NoSite}]
  /\ registration \in [version : Nat, map : SUBSET Ids]
  /\ applied \subseteq Imports
  /\ cut \in [Imports -> SUBSET {"failed", "died", "overlapped"}]
  /\ disturbed \in 0..MaxDisturbed

Init ==
  /\ imports = [i \in Imports |-> NoImport("none")]
  /\ stored = {}
  /\ callback = [i \in Imports |-> "idle"]
  /\ queue = {}
  /\ run = [e \in Executions |-> Idle]
  /\ records = [n \in Ids |-> NoSite]
  /\ registration = [version |-> 0, map |-> {}]
  /\ applied = {}
  /\ cut = [i \in Imports |-> {}]
  /\ disturbed = 0

Become(e, x) == run' = [run EXCEPT ![e] = x]

(* One more thing goes wrong.                                              *)
Disturb(kind) ==
  /\ kind \in Disturbances
  /\ disturbed < MaxDisturbed
  /\ disturbed' = disturbed + 1

Cut(i, how) == cut' = [cut EXCEPT ![i] = @ \cup {how}]

(* updateStatus: filtered by $nin ORS_IMPORT_TERMINAL_STATUSES.            *)
UpdateStatus(i, status) ==
  imports' = IF Exists(i) /\ imports[i].status \notin ORS_IMPORT_TERMINAL_STATUSES
             THEN [imports EXCEPT ![i].status = status] ELSE imports

(* recordFileResult: filtered by the id alone.                             *)
RecordFileResult(i, index, result) ==
  imports' = IF Exists(i)
             THEN [imports EXCEPT ![i].files[index].result = result] ELSE imports

-----------------------------------------------------------------------------
(* Requests.                                                               *)

(* POST /v1/overseas-sites/imports.                                        *)
InitiateImport(i) ==
  /\ imports[i].status = "none"
  /\ imports' = [imports EXCEPT ![i] = NoImport(PREPROCESSING)]
  /\ UNCHANGED <<stored, callback, queue, run, records, registration, applied, cut, disturbed>>

(* POST .../upload-completed: the files that are complete are added, or    *)
(* the import fails.  The document read is only asked for its existence.   *)
UploadCompleted(i) ==
  /\ imports[i] = NoImport(PREPROCESSING)
  /\ \E complete \in {Upload[i], <<>>} :
       IF complete = <<>>
       THEN UpdateStatus(i, FAILED) /\ UNCHANGED <<stored, callback>>
       ELSE /\ imports' = [imports EXCEPT ![i].files =
                             [k \in 1..Len(complete) |-> UploadedFile(complete[k])]]
            /\ stored' = stored \cup ToSet(complete)
            /\ callback' = [callback EXCEPT ![i] = "send"]
  /\ UNCHANGED <<queue, run, records, registration, applied, cut, disturbed>>

(* importOverseasSites.                                                    *)
Send(i) ==
  /\ callback[i] = "send"
  /\ queue' = queue \cup {[import |-> i, receives |-> 0]}
  /\ callback' = [callback EXCEPT ![i] = "idle"]
  /\ UNCHANGED <<imports, stored, run, records, registration, applied, cut, disturbed>>

SendFails(i) ==
  /\ callback[i] = "send"
  /\ Disturb("sendFailure")
  /\ callback' = [callback EXCEPT ![i] = "idle"]
  /\ UNCHANGED <<imports, stored, queue, run, records, registration, applied, cut>>

-----------------------------------------------------------------------------
(* The command queue consumer.                                             *)

MayBeReceived(m) == m.receives < MaxReceive

(* sqs-consumer: an execution starts on a message.                         *)
Start(e, m) ==
  LET received == [m EXCEPT !.receives = @ + 1]
  IN  /\ run[e].pc = "idle"
      /\ MayBeReceived(m)
      /\ queue' = (queue \ {m}) \cup {received}
      /\ Become(e, [pc |-> "read", message |-> received, live |-> TRUE,
                    files |-> <<>>, results |-> <<>>, result |-> "none",
                    version |-> 0, todo |-> {}, site |-> NoSite, map |-> {}])

(* Executions that work on the message's import, whoever waits for them.   *)
At(m) == {x \in Executions : run[x].pc # "idle" /\ run[x].message.import = m.import}

(* A message is visible again once nobody waits for it.                    *)
Receive(e) ==
  /\ \E m \in queue : Start(e, m) /\ \A x \in At(m) : ~run[x].live
  /\ UNCHANGED <<imports, stored, callback, records, registration, applied, cut, disturbed>>

ReceiveAgain(e) ==
  /\ \E m \in queue :
       /\ Start(e, m)
       /\ \E x \in At(m) : run[x].live
       /\ Cut(m.import, "overlapped")
  /\ Disturb("duplicate")
  /\ UNCHANGED <<imports, stored, callback, records, registration, applied>>

(* The consumer deletes a message whose handler returned, unless it has    *)
(* stopped waiting for it.                                                 *)
Acknowledge(x) ==
  queue' = IF x.live
           THEN {m \in queue : m.import # x.message.import}
           ELSE queue

(* Variant: the attempt after the last one that is made.                   *)
AfterFinalAttempt(receives) == receives > MaxReceive

IsFinalTransientAttempt(receives) == receives >= MaxReceive

(* An execution that throws: onFailure at the last attempt; the message is *)
(* delivered again before it.                                              *)
TransientError(e) ==
  LET m == run[e].message
  IN  /\ IF IsFinalTransientAttempt(m.receives)
         THEN UpdateStatus(m.import, FAILED) ELSE UNCHANGED imports
      /\ Cut(m.import, "failed")
      /\ Become(e, Idle)
      /\ UNCHANGED queue

(* processOrsImport: a document that is missing is a permanent error, on   *)
(* which onFailure finds nothing to fail; one that is terminal is skipped. *)
ReadImport(e) ==
  LET i == run[e].message.import
  IN  /\ run[e].pc = "read"
      /\ IF Exists(i) /\ imports[i].status \notin ORS_IMPORT_TERMINAL_STATUSES
         THEN /\ Become(e, [run[e] EXCEPT !.pc = "start",
                              !.files = [k \in DOMAIN imports[i].files |-> imports[i].files[k].file]])
              /\ UNCHANGED queue
         ELSE Acknowledge(run[e]) /\ Become(e, Idle)
      /\ UNCHANGED <<imports, stored, callback, records, registration, applied, cut, disturbed>>

(* Whether the status was still open is not looked at.                     *)
StartProcessing(e) ==
  /\ run[e].pc = "start"
  /\ UpdateStatus(run[e].message.import, PROCESSING)
  /\ Become(e, [run[e] EXCEPT !.pc = IF run[e].files = <<>> THEN "finish" ELSE "fetch"])
  /\ UNCHANGED <<stored, callback, queue, records, registration, applied, cut, disturbed>>

File(x) == x.files[Len(x.results) + 1]

(* processFile fetches the file, and processImportFile parses it.  A file  *)
(* that is not in S3 is a failed one; a refused one is still deleted.      *)
FetchFile(e) ==
  LET x == run[e]
  IN  /\ x.pc = "fetch"
      /\ Become(e,
           IF File(x) \notin stored
           THEN [x EXCEPT !.pc = "record", !.result = FAILURE]
           ELSE IF Content[File(x)] = {}
           THEN [x EXCEPT !.pc = "delete", !.result = FAILURE]
           ELSE [x EXCEPT !.pc = "resolve"])
      /\ UNCHANGED <<imports, stored, callback, queue, records, registration, applied, cut, disturbed>>

(* resolveRegistration.                                                    *)
ResolveRegistration(e) ==
  /\ run[e].pc = "resolve"
  /\ Become(e, [run[e] EXCEPT !.pc = "find", !.version = registration.version,
                  !.todo = Content[File(run[e])], !.map = {}])
  /\ UNCHANGED <<imports, stored, callback, queue, records, registration, applied, cut, disturbed>>

FindByProperties(s) == {n \in Ids : records[n] = s}

(* findOrCreateOverseasSites: the next site is looked up.                  *)
FindSite(e) ==
  LET x == run[e]
  IN  /\ x.pc = "find"
      /\ x.todo # {}
      /\ \E s \in x.todo :
           IF FindByProperties(s) = {}
           THEN Become(e, [x EXCEPT !.pc = "create", !.site = s])
           ELSE \E n \in FindByProperties(s) :
                  Become(e, [x EXCEPT !.todo = @ \ {s}, !.map = @ \cup {n}])
      /\ UNCHANGED <<imports, stored, callback, queue, records, registration, applied, cut, disturbed>>

(* An id that no record ever had.                                          *)
InsertRecord(n, s) ==
  /\ records[n] = NoSite
  /\ \A k \in Ids : k < n => records[k] # NoSite
  /\ records' = [records EXCEPT ![n] = s]

CreateSite(e) ==
  LET x == run[e]
  IN  /\ x.pc = "create"
      /\ \E n \in Ids :
           /\ InsertRecord(n, x.site)
           /\ Become(e, [x EXCEPT !.pc = "find", !.todo = @ \ {x.site},
                           !.map = @ \cup {n}, !.site = NoSite])
      /\ UNCHANGED <<imports, stored, callback, queue, registration, applied, cut, disturbed>>

(* Variant: sites added to those the registration has.                     *)
MergeSites(map) == registration.map \cup map

OverseasSites(map) == map

(* replaceRegistrationOverseasSites; its false is a failed file.           *)
ReplaceSites(e) ==
  LET x == run[e]
  IN  /\ x.pc = "find"
      /\ x.todo = {}
      /\ IF registration.version = x.version
         THEN /\ registration' = [version |-> registration.version + 1,
                                  map     |-> OverseasSites(x.map)]
              /\ applied' = applied \cup {x.message.import}
              /\ Become(e, [x EXCEPT !.pc = "delete", !.result = SUCCESS])
         ELSE /\ Become(e, [x EXCEPT !.pc = "delete", !.result = FAILURE])
              /\ UNCHANGED <<registration, applied>>
      /\ UNCHANGED <<imports, stored, callback, queue, records, cut, disturbed>>

(* deleteByLocation.                                                       *)
DeleteFile(e) ==
  LET x == run[e]
  IN  /\ x.pc = "delete"
      /\ Become(e, [x EXCEPT !.pc = "record"])
      /\ stored' = stored \ {File(x)}
      /\ UNCHANGED <<imports, callback, queue, records, registration, applied, cut, disturbed>>

RecordResult(e) ==
  LET x == run[e]
      results == Append(x.results, x.result)
  IN  /\ x.pc = "record"
      /\ RecordFileResult(x.message.import, Len(results), x.result)
      /\ Become(e, [x EXCEPT !.results = results, !.result = "none", !.version = 0,
                      !.map = {}, !.todo = {}, !.site = NoSite,
                      !.pc = IF Len(results) = Len(x.files) THEN "finish" ELSE "fetch"])
      /\ UNCHANGED <<stored, callback, queue, records, registration, applied, cut, disturbed>>

(* Variant: a list of one failed file is not taken for all failed.         *)
AllOfSeveralFailed(results) == Len(results) > 1 /\ SUCCESS \notin ToSet(results)

AllFailed(results) == results # <<>> /\ SUCCESS \notin ToSet(results)

Finish(e) ==
  LET x == run[e]
  IN  /\ x.pc = "finish"
      /\ UpdateStatus(x.message.import, IF AllFailed(x.results) THEN FAILED ELSE COMPLETED)
      /\ Acknowledge(x)
      /\ Become(e, Idle)
      /\ UNCHANGED <<stored, callback, records, registration, applied, cut, disturbed>>

(* A call throws.  processFile turns it into a failed file, which stays in *)
(* S3, and swallows that of the deletion; elsewhere the execution fails.   *)
CallFails(e) ==
  LET x == run[e]
  IN  /\ Disturb("fault")
      /\ \/ /\ x.pc \in {"fetch", "resolve", "find", "create"}
            /\ Become(e, [x EXCEPT !.pc = "record", !.result = FAILURE])
            /\ UNCHANGED <<imports, queue, cut>>
         \/ /\ x.pc = "delete"
            /\ Become(e, [x EXCEPT !.pc = "record"])
            /\ UNCHANGED <<imports, queue, cut>>
         \/ /\ x.pc \in {"read", "start", "record", "finish"}
            /\ TransientError(e)
      /\ UNCHANGED <<stored, callback, records, registration, applied>>

Dies(e) ==
  /\ run[e].pc # "idle"
  /\ Disturb("crash")
  /\ Cut(run[e].message.import, "died")
  /\ Become(e, Idle)
  /\ UNCHANGED <<imports, stored, callback, queue, records, registration, applied>>

(* timeout_error: the import is failed and the message visible again, the  *)
(* handler runs on.                                                        *)
Timeout(e) ==
  LET i == run[e].message.import
  IN  /\ run[e].pc # "idle" /\ run[e].live
      /\ Disturb("timeout")
      /\ UpdateStatus(i, FAILED)
      /\ Cut(i, "failed")
      /\ Become(e, [run[e] EXCEPT !.live = FALSE])
      /\ UNCHANGED <<stored, callback, queue, records, registration, applied>>

-----------------------------------------------------------------------------
(* STATUS_TO_TTL: every document but a completed one expires.              *)
Expire(i) ==
  /\ Exists(i) /\ imports[i].status # COMPLETED
  /\ Disturb("expiry")
  /\ imports' = [imports EXCEPT ![i] = NoImport("expired")]
  /\ UNCHANGED <<stored, callback, queue, run, records, registration, applied, cut>>

Next ==
  \/ \E i \in Imports :
       InitiateImport(i) \/ UploadCompleted(i) \/ Send(i) \/ SendFails(i) \/ Expire(i)
  \/ \E e \in Executions :
       \/ Receive(e)
       \/ ReceiveAgain(e)
       \/ ReadImport(e)
       \/ StartProcessing(e)
       \/ FetchFile(e)
       \/ ResolveRegistration(e)
       \/ FindSite(e)
       \/ CreateSite(e)
       \/ ReplaceSites(e)
       \/ DeleteFile(e)
       \/ RecordResult(e)
       \/ Finish(e)
       \/ CallFails(e)
       \/ Dies(e)
       \/ Timeout(e)

(* A visible message is received and a command that was received takes its *)
(* steps.  Nobody need upload, and nothing need fail.                      *)
Fairness ==
  \A e \in Executions :
    /\ WF_vars(Receive(e))
    /\ WF_vars(ReadImport(e) \/ StartProcessing(e) \/ FetchFile(e)
               \/ ResolveRegistration(e) \/ FindSite(e) \/ CreateSite(e)
               \/ ReplaceSites(e) \/ DeleteFile(e) \/ RecordResult(e) \/ Finish(e))

Spec == Init /\ [][Next]_vars

FairSpec == Spec /\ Fairness

-----------------------------------------------------------------------------
(* Properties.                                                             *)

(* process-import.js: a completed import is complete.  Every file of it    *)
(* has its result and one of them a success, whatever executions failed,   *)
(* died or ran on before the one that completed it, unless a second one    *)
(* was started while it ran.                                               *)
CompletedReportsEveryFile ==
  \A i \in Imports : imports[i].status = COMPLETED /\ "overlapped" \notin cut[i] =>
    LET results == {imports[i].files[k].result : k \in DOMAIN imports[i].files}
    IN  "none" \notin results /\ SUCCESS \in results

(* process-import.js, process-import-file.js: an import is only reported   *)
(* to have failed if it changed no registration: whichever of its files    *)
(* were refused, met a version conflict or a failing call, as long as its  *)
(* executions ran to their end, one after the other.                       *)
FailedAppliesNothing ==
  \A i \in Imports :
    imports[i].status = FAILED /\ cut[i] = {} => i \notin applied

(* The status of an import tells what was done to the registration.        *)
StatusTellsWhatWasApplied ==
  /\ TypeOK
  /\ CompletedReportsEveryFile
  /\ FailedAppliesNothing

(* process-import-file.js: the sites of a registration are those one file  *)
(* lists, never a mixture of two imports' or part of one.                  *)
RegistrationMapsOneFile ==
  {records[n] : n \in registration.map} \in {{}} \cup {Content[f] : f \in Files}

(* ors-import-commands.js, consumer.js: an import whose command was sent   *)
(* reaches a terminal status, through failing calls, version conflicts and *)
(* timeouts, unless a process died or its document expired.                *)
EveryImportSettles ==
  \A i \in Imports :
    (\E m \in queue : m.import = i) ~>
      \/ imports[i].status \in ORS_IMPORT_TERMINAL_STATUSES \cup {"expired"}
      \/ "died" \in cut[i]

(* domain/import-status.js:53: "Writes to an import already in a terminal status  *)
(* are silently dropped by the repository to keep at-least-once SQS        *)
(* delivery idempotent."                                                   *)
TerminalImportsUnchanged ==
  [][\A i \in Imports : imports[i].status \in ORS_IMPORT_TERMINAL_STATUSES =>
       (imports[i])' \in {imports[i], NoImport("expired")}]_vars
=============================================================================
