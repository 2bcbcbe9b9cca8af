--------------------- MODULE SummaryLogSubmissionProofs ---------------------
(***************************************************************************)
(* Theorems about SummaryLogSubmission, for any logs, executions, number   *)
(* of deliveries and disturbances, lagging reads included but where said.  *)
(***************************************************************************)
EXTENDS SummaryLogSubmission, Induction, TLAPS

Fields == {"status", "version", "baseline", "submittedAt"}

(* A document has a version as long as it is there.                        *)
IsDocument(doc) ==
  /\ DOMAIN doc = Fields
  /\ doc.status \in SUMMARY_LOG_STATUS \cup {"none", "expired"}
  /\ doc.version \in Nat
  /\ doc.version = 0 <=> doc.status \in {"none", "expired"}

IsCollection(docs) == DOMAIN docs = Logs /\ \A l \in Logs : IsDocument(docs[l])

SnapshotsType ==
  /\ snapshots \in Seq({snapshots[i] : i \in 1..Len(snapshots)})
  /\ Len(snapshots) > 0
  /\ \A docs \in Readable : IsCollection(docs)

(* Whoever read this version of l, with one of these statuses, will find   *)
(* the same status for as long as the version matches.                     *)
Was(l, version, statuses) ==
  /\ version \in Nat
  /\ version > 0 =>
       \/ Docs[l].status = "expired"
       \/ Docs[l].version > version
       \/ Docs[l].version = version /\ Docs[l].status \in statuses

ReadsWere ==
  \A docs \in Readable, l \in Logs : Was(l, docs[l].version, {docs[l].status})

RequestHolds(l) ==
  LET q == request[l]
  IN  /\ q.pc = "write" =>
           /\ q.to \in {REJECTED, PREPROCESSING, VALIDATING}
           /\ Was(l, q.version, {PREPROCESSING})
      /\ q.pc = "send" => q.command \in {VALIDATE, SUBMIT}
      /\ q.pc = "checkStale" => Was(l, q.version, {SUBMITTING})

RunHolds(r) ==
  LET x == run[r]
  IN  /\ x.pc = "persist" =>
           x.message.command = VALIDATE /\ Was(x.message.log, x.version, {VALIDATING})
      /\ x.pc \in {"checkReports", "commit", "finalise"} =>
           x.message.command = SUBMIT /\ Was(x.message.log, x.version, {SUBMITTING})

Inv ==
  /\ SnapshotsType
  /\ DOMAIN request = Logs
  /\ queue \subseteq Message
  /\ run \in [Runs -> Run]
  /\ ReadsWere
  /\ \A l \in Logs : RequestHolds(l)
  /\ \A r \in Runs : RunHolds(r)

(* The moves of a document, with its expiry.                               *)
Moves ==
  ({"none", PREPROCESSING} \X {REJECTED, PREPROCESSING, VALIDATING})
    \cup ({PREPROCESSING} \X {VALIDATION_FAILED})
    \cup ({VALIDATING} \X {VALIDATED, INVALID, VALIDATION_FAILED})
    \cup {<<VALIDATED, SUBMITTING>>}
    \cup ({SUBMITTING} \X {SUBMITTED, SUPERSEDED, SUBMISSION_FAILED})
    \cup ((SUMMARY_LOG_STATUS \ {SUBMITTED}) \X {"expired"})

(* Who may move a document to submitting, and to submitted.                *)
Authorised(l, status) ==
  /\ status = SUBMITTING => NoneSubmitting(l)
  /\ status = SUBMITTED =>
       \E r \in Runs : run[r].pc = "finalise" /\ run[r].message.log = l

(* The fields a write leaves alone, and the time of a submission.           *)
Writes(l) ==
  \/ /\ Docs[l].status = "none"
     /\ (Docs[l].status)' \in {REJECTED, PREPROCESSING, VALIDATING}
     /\ (Docs[l].version)' = 1 /\ (Docs[l].submittedAt)' = 0
  \/ /\ Docs[l].version > 0 /\ (Docs[l].version)' = Docs[l].version + 1
     /\ (Docs[l].baseline)' = Docs[l].baseline
     /\ \/ /\ (Docs[l].status)' # SUBMITTING
           /\ (Docs[l].submittedAt)' = Docs[l].submittedAt
        \/ /\ Docs[l].status = VALIDATED /\ (Docs[l].status)' = SUBMITTING
           /\ (Docs[l].submittedAt)' = 1 + Max({Docs[k].submittedAt : k \in Logs})
  \/ Docs[l].version > 0 /\ (Docs[l])' = NoDocument("expired")

MovesOn(l) ==
  /\ SnapshotsType'
  /\ Writes(l)
  /\ Readable' \subseteq Readable \cup {Docs'}
  /\ "lag" \notin Disturbances => Readable' = {Docs'}
  /\ \A k \in Logs \ {l} : (Docs[k])' = Docs[k]
  /\ <<Docs[l].status, (Docs[l].status)'>> \in Moves
  /\ Authorised(l, (Docs[l].status)')
  /\ \/ (Docs[l].version)' = Docs[l].version + 1
     \/ (Docs[l].status)' = "expired"

DocsMove == snapshots' = snapshots \/ \E l \in Logs : MovesOn(l)

-----------------------------------------------------------------------------
(* Facts about the collection.                                             *)

LEMMA DocsReadable == ASSUME SnapshotsType PROVE Docs \in Readable /\ IsCollection(Docs)
  BY DEF SnapshotsType, Readable, Docs, Last

LEMMA StatusesDiffer == SUMMARY_LOG_STATUS \cap {"none", "expired"} = {}
  BY DEF SUMMARY_LOG_STATUS, PREPROCESSING, REJECTED, VALIDATING, INVALID, VALIDATED,
         SUBMITTING, SUBMITTED, SUPERSEDED, VALIDATION_FAILED, SUBMISSION_FAILED

(* What Store leaves: the collection with one document replaced, and       *)
(* nothing else to read that was not there before.                         *)
LEMMA Stored ==
  ASSUME SnapshotsType, NEW l \in Logs, NEW doc, IsDocument(doc), Store(l, doc)
  PROVE  /\ SnapshotsType'
         /\ Docs' = [Docs EXCEPT ![l] = doc]
         /\ Readable' \subseteq Readable \cup {Docs'}
         /\ "lag" \notin Disturbances => Readable' = {Docs'}
         /\ (Docs[l])' = doc
         /\ \A k \in Logs \ {l} : (Docs[k])' = Docs[k]
  <1> DEFINE docs == [Docs EXCEPT ![l] = doc]
             S == {snapshots[i] : i \in 1..Len(snapshots)} \cup {docs}
  <1>1. IsCollection(Docs)
    BY DocsReadable
  <1>2. docs[l] = doc /\ \A k \in Logs \ {l} : docs[k] = Docs[k]
    BY <1>1 DEF IsCollection
  <1>3. IsCollection(docs)
    BY <1>1, <1>2 DEF IsCollection
  <1>4. CASE "lag" \in Disturbances /\ snapshots' = Append(snapshots, docs)
    <2>1. snapshots \in Seq(S)
      BY DEF SnapshotsType
    <2> HIDE DEF S, docs
    <2>2. docs \in S
      BY DEF S
    <2>3. /\ snapshots' \in Seq(S)
          /\ Len(snapshots') = Len(snapshots) + 1
          /\ snapshots'[Len(snapshots')] = docs
          /\ \A i \in 1..Len(snapshots) : snapshots'[i] = snapshots[i]
      BY <1>4, <2>1, <2>2
    <2>4. Len(snapshots) \in Nat
      BY <2>1
    <2>5. Docs' = docs
      BY <2>3 DEF Docs, Last
    <2>6. Readable' \subseteq Readable \cup {docs}
      BY <2>3, <2>4 DEF Readable
    <2>7. snapshots' \in Seq({snapshots'[i] : i \in 1..Len(snapshots')})
      BY <2>3, <2>4
    <2>8. SnapshotsType'
      BY <1>3, <2>3, <2>4, <2>6, <2>7 DEF SnapshotsType
    <2> QED
      BY <1>2, <1>4, <2>5, <2>6, <2>8 DEF docs
  <1>5. CASE snapshots' = <<docs>>
    <2> HIDE DEF docs
    <2>1. Len(snapshots') = 1 /\ snapshots'[1] = docs
      BY <1>5
    <2>2. Docs' = docs
      BY <2>1 DEF Docs, Last
    <2>3. Readable' = {docs}
      BY <2>1 DEF Readable
    <2>4. {snapshots'[i] : i \in 1..Len(snapshots')} = {docs}
      BY <2>1
    <2>5. SnapshotsType'
      BY <1>3, <1>5, <2>1, <2>3, <2>4 DEF SnapshotsType
    <2> QED
      BY <1>2, <2>2, <2>3, <2>5 DEF docs
  <1> QED
    BY <1>4, <1>5 DEF Store

(* A document that was never there, or expired, is not moved by a version. *)
LEMMA UpdateMoves ==
  ASSUME SnapshotsType, NEW l \in Logs, Docs[l].version > 0, NEW status,
         Update(l, status), <<Docs[l].status, status>> \in Moves,
         status \notin {SUBMITTING, "expired"}, Authorised(l, status)
  PROVE  MovesOn(l)
  <1> DEFINE doc == [Docs[l] EXCEPT !.status = status, !.version = @ + 1]
  <1>1. IsDocument(Docs[l])
    BY DocsReadable DEF IsCollection
  <1>2. status \in SUMMARY_LOG_STATUS
    BY DEF Moves, SUMMARY_LOG_STATUS
  <1>3. DOMAIN doc = Fields /\ doc.status = status /\ doc.version = Docs[l].version + 1
    BY <1>1 DEF IsDocument, Fields
  <1>4. IsDocument(doc)
    BY <1>1, <1>2, <1>3, StatusesDiffer DEF IsDocument
  <1>5. Store(l, doc)
    BY DEF Update
  <1>6. doc.baseline = Docs[l].baseline /\ doc.submittedAt = Docs[l].submittedAt
    BY <1>1 DEF IsDocument, Fields
  <1> HIDE DEF doc
  <1>7. (Docs[l])' = doc
    BY <1>4, <1>5, Stored
  <1>8. Writes(l)
    BY <1>3, <1>6, <1>7 DEF Writes
  <1> QED
    BY <1>3, <1>4, <1>5, <1>8, Stored DEF MovesOn

(* What a reader knows of a document stays true when the document, or      *)
(* another one, moves on.                                                  *)
LEMMA WasStays ==
  ASSUME SnapshotsType, DocsMove, NEW l \in Logs, NEW version, NEW statuses,
         Was(l, version, statuses)
  PROVE  Was(l, version, statuses)'
  <1>1. CASE snapshots' = snapshots
    BY <1>1 DEF Was, Docs
  <1>2. ASSUME NEW k \in Logs, MovesOn(k)
        PROVE  Was(l, version, statuses)'
    <2>1. CASE k # l
      BY <1>2, <2>1 DEF Was, MovesOn
    <2>2. CASE k = l
      <3>1. Docs[l].status # "expired"
        BY <1>2, <2>2 DEF MovesOn, Moves, SUMMARY_LOG_STATUS, PREPROCESSING, REJECTED,
           VALIDATING, INVALID, VALIDATED, SUBMITTING, SUBMITTED, SUPERSEDED,
           VALIDATION_FAILED, SUBMISSION_FAILED
      <3>2. Docs[l].version \in Nat
        BY DocsReadable DEF IsCollection, IsDocument
      <3> QED
        BY <1>2, <2>2, <3>1, <3>2 DEF MovesOn, Was
    <2> QED
      BY <2>1, <2>2
  <1> QED
    BY <1>1, <1>2 DEF DocsMove

(* What is stored was read by nobody yet; what was readable stays so.      *)
LEMMA ReadsStay ==
  ASSUME SnapshotsType, DocsMove, ReadsWere
  PROVE  SnapshotsType' /\ ReadsWere'
  <1>1. CASE snapshots' = snapshots
    BY <1>1 DEF SnapshotsType, ReadsWere, Readable, Was, Docs
  <1>2. ASSUME NEW k \in Logs, MovesOn(k)
        PROVE  SnapshotsType' /\ ReadsWere'
    <2>1. SnapshotsType' /\ Readable' \subseteq Readable \cup {Docs'}
      BY <1>2 DEF MovesOn
    <2>2. ASSUME NEW docs \in Readable', NEW l \in Logs
          PROVE  Was(l, docs[l].version, {docs[l].status})'
      <3>1. CASE docs \in Readable
        <4>1. Was(l, docs[l].version, {docs[l].status})
          BY <3>1 DEF ReadsWere
        <4> QED
          BY <4>1, WasStays
      <3>2. CASE docs = Docs'
        <4>1. docs[l].version \in Nat
          BY <2>1, <2>2 DEF SnapshotsType, IsCollection, IsDocument
        <4> QED
          BY <3>2, <4>1 DEF Was
      <3> QED
        BY <2>1, <3>1, <3>2
    <2> QED
      BY <2>1, <2>2 DEF ReadsWere
  <1> QED
    BY <1>1, <1>2 DEF DocsMove

(* A write under a version finds the status its reader found.              *)
LEMMA MatchedWas ==
  ASSUME SnapshotsType, NEW l \in Logs, NEW version, NEW statuses,
         Was(l, version, statuses), VersionMatches(l, version)
  PROVE  Docs[l].version > 0 /\ Docs[l].status \in statuses
  <1>1. IsDocument(Docs[l])
    BY DocsReadable DEF IsCollection
  <1> QED
    BY <1>1 DEF IsDocument, Was, VersionMatches

-----------------------------------------------------------------------------
(* The steps.                                                              *)

(* What is held by requests and executions that do not step stays true.    *)
LEMMA HeldStays ==
  ASSUME Inv, DocsMove
  PROVE  /\ \A l \in Logs : request'[l] = request[l] => RequestHolds(l)'
         /\ \A r \in Runs : run'[r] = run[r] => RunHolds(r)'
  <1> USE DEF Inv
  <1>1. ASSUME NEW l \in Logs, request'[l] = request[l]
        PROVE  RequestHolds(l)'
    <2>1. PICK q : q = request[l]
      OBVIOUS
    <2>2. RequestHolds(l)
      OBVIOUS
    <2>3. q.pc = "write" => Was(l, q.version, {PREPROCESSING})'
      BY <2>1, <2>2, WasStays DEF RequestHolds
    <2>4. q.pc = "checkStale" => Was(l, q.version, {SUBMITTING})'
      BY <2>1, <2>2, WasStays DEF RequestHolds
    <2>5. request'[l] = q
      BY <1>1, <2>1
    <2> QED
      BY <2>1, <2>2, <2>3, <2>4, <2>5 DEF RequestHolds
  <1>2. ASSUME NEW r \in Runs, run'[r] = run[r]
        PROVE  RunHolds(r)'
    <2>1. PICK x : x = run[r]
      OBVIOUS
    <2>2. RunHolds(r)
      OBVIOUS
    <2>3. x.pc # "idle" => x.message.log \in Logs
      BY <2>1 DEF Run, Idle, Message
    <2>4. x.pc = "persist" => Was(x.message.log, x.version, {VALIDATING})'
      BY <2>1, <2>2, <2>3, WasStays DEF RunHolds
    <2>5. x.pc \in {"checkReports", "commit", "finalise"}
            => Was(x.message.log, x.version, {SUBMITTING})'
      BY <2>1, <2>2, <2>3, WasStays DEF RunHolds
    <2>6. run'[r] = x
      BY <1>2, <2>1
    <2> QED
      BY <2>1, <2>2, <2>4, <2>5, <2>6 DEF RunHolds
  <1> QED
    BY <1>1, <1>2

(* A step of a request leaves the worker alone.                            *)
LEMMA RequestStep ==
  ASSUME Inv, DocsMove, NEW l \in Logs, NEW q, BecomeRequest(l, q),
         RequestHolds(l)', queue' \subseteq Message, run' = run
  PROVE  Inv'
  <1>1. DOMAIN request' = Logs /\ \A k \in Logs \ {l} : request'[k] = request[k]
    BY DEF BecomeRequest, Inv
  <1>2. SnapshotsType' /\ ReadsWere'
    BY ReadsStay DEF Inv
  <1>3. \A k \in Logs : RequestHolds(k)'
    BY <1>1, HeldStays
  <1>4. \A r \in Runs : RunHolds(r)'
    BY HeldStays
  <1> QED
    BY <1>1, <1>2, <1>3, <1>4 DEF Inv

(* A step of the worker leaves the requests alone.                         *)
LEMMA RunStep ==
  ASSUME Inv, DocsMove, NEW r \in Runs, NEW x \in Run, BecomeRun(r, x),
         RunHolds(r)', queue' \subseteq Message, request' = request
  PROVE  Inv'
  <1>1. run' \in [Runs -> Run] /\ \A k \in Runs \ {r} : run'[k] = run[k]
    BY DEF BecomeRun, Inv
  <1>2. SnapshotsType' /\ ReadsWere'
    BY ReadsStay DEF Inv
  <1>3. \A l \in Logs : RequestHolds(l)'
    BY HeldStays
  <1>4. \A k \in Runs : RunHolds(k)'
    BY <1>1, HeldStays
  <1> QED
    BY <1>1, <1>2, <1>3, <1>4 DEF Inv

LEMMA UploadReadStep ==
  ASSUME Inv, NEW l \in Logs, UploadRead(l)
  PROVE  DocsMove /\ Inv'
  <1>1. PICK fileStatus \in {"rejected", "pending", "complete"}, found, latest \in Readable :
          LET to == UploadStatusToSummaryLogStatus(fileStatus)
          IN  /\ found[l].status \in {"none", PREPROCESSING} \ {to}
              /\ BecomeRequest(l,
                   [pc |-> "write", to |-> to, version |-> found[l].version,
                    baseline |-> IF found[l].status = "none" /\ to = VALIDATING
                                 THEN LatestSubmitted(latest) ELSE Undefined])
    BY DEF UploadRead
  <1>2. DocsMove
    BY DEF UploadRead, DocsMove
  <1>3. UploadStatusToSummaryLogStatus(fileStatus) \in {REJECTED, PREPROCESSING, VALIDATING}
    BY DEF UploadStatusToSummaryLogStatus
  <1>4. Was(l, found[l].version, {PREPROCESSING})
    <2>1. IsDocument(found[l])
      BY DEF Inv, SnapshotsType, IsCollection
    <2>2. Was(l, found[l].version, {found[l].status})
      BY DEF Inv, ReadsWere
    <2> QED
      BY <1>1, <2>1, <2>2 DEF IsDocument, Was
  <1>5. RequestHolds(l)'
    <2>1. /\ request'[l].pc = "write"
          /\ request'[l].to = UploadStatusToSummaryLogStatus(fileStatus)
          /\ request'[l].version = found[l].version
      BY <1>1 DEF BecomeRequest, Inv
    <2>2. Was(l, found[l].version, {PREPROCESSING})'
      BY <1>2, <1>4, WasStays DEF Inv
    <2> QED
      BY <1>3, <2>1, <2>2 DEF RequestHolds
  <1> QED
    BY <1>1, <1>2, <1>5, RequestStep DEF UploadRead, Inv

(* A step that leaves the documents alone.                                 *)
LEMMA NothingMoves == ASSUME UNCHANGED snapshots PROVE DocsMove
  BY DEF DocsMove

(* An update of a document whose status is what its writer read.           *)
LEMMA UpdateOf ==
  ASSUME Inv, NEW l \in Logs, NEW version, NEW statuses, NEW status,
         Was(l, version, statuses), VersionMatches(l, version),
         statuses \X {status} \subseteq Moves, status \notin {SUBMITTING, "expired"},
         Update(l, status),
         Authorised(l, status)
  PROVE  DocsMove
  <1>1. Docs[l].version > 0 /\ Docs[l].status \in statuses
    BY MatchedWas DEF Inv
  <1>2. MovesOn(l)
    BY <1>1, UpdateMoves DEF Inv
  <1> QED
    BY <1>2 DEF DocsMove

LEMMA UploadWriteStep ==
  ASSUME Inv, NEW l \in Logs, UploadWrite(l)
  PROVE  DocsMove /\ Inv'
  <1>1. PICK q : q = request[l]
    OBVIOUS
  <1> DEFINE next == IF q.to = VALIDATING THEN [pc |-> "send", command |-> VALIDATE] ELSE Idle
             doc == [status |-> q.to, version |-> 1, baseline |-> q.baseline, submittedAt |-> 0]
  <1>2. /\ q.to \in {REJECTED, PREPROCESSING, VALIDATING}
        /\ Was(l, q.version, {PREPROCESSING})
    BY <1>1 DEF Inv, RequestHolds, UploadWrite
  <1>3. BecomeRequest(l, next) \/ BecomeRequest(l, Idle)
    BY <1>1 DEF UploadWrite
  <1>4. DocsMove
    <2>1. CASE Docs[l].status = "none" /\ Store(l, doc)
      <3>1. IsDocument(doc)
        BY <1>2 DEF IsDocument, Fields, SUMMARY_LOG_STATUS, REJECTED, PREPROCESSING, VALIDATING
      <3>2. Docs[l].version = 0
        BY <2>1, DocsReadable DEF Inv, IsCollection, IsDocument
      <3>3. /\ SnapshotsType'
            /\ Readable' \subseteq Readable \cup {Docs'}
            /\ "lag" \notin Disturbances => Readable' = {Docs'}
            /\ \A k \in Logs \ {l} : (Docs[k])' = Docs[k]
            /\ (Docs[l])' = doc
        <4> HIDE DEF doc
        <4> QED BY <2>1, <3>1, Stored DEF Inv
      <3>4. <<Docs[l].status, (Docs[l].status)'>> \in Moves
        BY <1>2, <2>1, <3>3 DEF Moves
      <3>5. Writes(l)
        BY <1>2, <2>1, <3>3 DEF Writes
      <3>6. MovesOn(l)
        BY <1>2, <3>2, <3>3, <3>4, <3>5 DEF MovesOn, Authorised, REJECTED, PREPROCESSING,
           VALIDATING, SUBMITTING, SUBMITTED
      <3> QED
        BY <3>6 DEF DocsMove
    <2>2. CASE VersionMatches(l, q.version) /\ Update(l, q.to)
      <3>1. /\ {PREPROCESSING} \X {q.to} \subseteq Moves /\ q.to \notin {SUBMITTING, "expired"}
            /\ Authorised(l, q.to)
        BY <1>2 DEF Moves, Authorised, REJECTED, PREPROCESSING, VALIDATING, SUBMITTING, SUBMITTED
      <3> QED
        BY <1>2, <2>2, <3>1, UpdateOf
    <2>3. CASE UNCHANGED snapshots
      BY <2>3, NothingMoves
    <2> QED
      BY <1>1, <2>1, <2>2, <2>3 DEF UploadWrite
  <1>5. RequestHolds(l)'
    BY <1>3 DEF RequestHolds, BecomeRequest, Inv, Idle
  <1> QED
    BY <1>3, <1>4, <1>5, RequestStep DEF UploadWrite, Inv

LEMMA SendStep ==
  ASSUME Inv, NEW l \in Logs, Send(l)
  PROVE  DocsMove /\ Inv'
  <1>1. DocsMove
    BY NothingMoves DEF Send
  <1>2. request[l].command \in {VALIDATE, SUBMIT}
    BY DEF Inv, RequestHolds, Send
  <1>3. [command |-> request[l].command, log |-> l, receives |-> 0] \in Message
    BY <1>2, ReceiveAssumption DEF Message
  <1>4. queue' \subseteq Message
    BY <1>3 DEF Inv, Send
  <1>5. RequestHolds(l)'
    BY DEF RequestHolds, BecomeRequest, Inv, Idle, Send
  <1> QED
    BY <1>1, <1>4, <1>5, RequestStep DEF Send

LEMMA TransitionStep ==
  ASSUME Inv, NEW l \in Logs, TransitionToSubmitting(l)
  PROVE  DocsMove /\ Inv'
  <1> DEFINE at == 1 + Max({Docs[k].submittedAt : k \in Logs})
             doc == [Docs[l] EXCEPT !.status = SUBMITTING, !.version = @ + 1, !.submittedAt = at]
  <1>1. IsDocument(Docs[l])
    BY DocsReadable DEF Inv, IsCollection
  <1>2. DOMAIN doc = Fields /\ doc.status = SUBMITTING /\ doc.version = Docs[l].version + 1
    BY <1>1 DEF IsDocument, Fields
  <1>3. IsDocument(doc)
    BY <1>1, <1>2 DEF IsDocument, SUMMARY_LOG_STATUS, SUBMITTING
  <1>4. Store(l, doc) /\ Docs[l].status = VALIDATED
    BY DEF TransitionToSubmitting
  <1>5. MovesOn(l) /\ (Docs[l])' = doc
    <2>3. doc.baseline = Docs[l].baseline /\ doc.submittedAt = at
      BY <1>1 DEF IsDocument, Fields
    <2>4. Docs[l].version > 0
      BY <1>1, <1>4 DEF IsDocument, VALIDATED
    <2> HIDE DEF doc
    <2>1. /\ SnapshotsType'
          /\ Readable' \subseteq Readable \cup {Docs'}
          /\ "lag" \notin Disturbances => Readable' = {Docs'}
          /\ \A k \in Logs \ {l} : (Docs[k])' = Docs[k]
          /\ (Docs[l])' = doc
      BY <1>3, <1>4, Stored DEF Inv
    <2>2. <<VALIDATED, SUBMITTING>> \in Moves /\ Authorised(l, SUBMITTING)
      BY DEF Moves, Authorised, TransitionToSubmitting, SUBMITTING, SUBMITTED
    <2>5. Writes(l)
      BY <1>2, <1>4, <2>1, <2>3, <2>4 DEF Writes
    <2> QED
      BY <1>2, <1>4, <2>1, <2>2, <2>5 DEF MovesOn
  <1>6. DocsMove
    BY <1>5 DEF DocsMove
  <1>7. RequestHolds(l)'
    <2>1. request'[l].pc = "checkStale" /\ request'[l].version = Docs[l].version + 1
      BY DEF TransitionToSubmitting, BecomeRequest, Inv
    <2>2. (Docs[l].version)' = Docs[l].version + 1 /\ (Docs[l].status)' = SUBMITTING
      BY <1>2, <1>5
    <2> QED
      BY <1>1, <2>1, <2>2 DEF RequestHolds, Was, IsDocument
  <1> QED
    BY <1>6, <1>7, RequestStep DEF TransitionToSubmitting, Inv

LEMMA CheckStaleStep ==
  ASSUME Inv, NEW l \in Logs, CheckStale(l)
  PROVE  DocsMove /\ Inv'
  <1>1. PICK q : q = request[l]
    OBVIOUS
  <1>2. Was(l, q.version, {SUBMITTING})
    BY <1>1 DEF Inv, RequestHolds, CheckStale
  <1>3. BecomeRequest(l, [pc |-> "send", command |-> SUBMIT]) \/ BecomeRequest(l, Idle)
    BY DEF CheckStale
  <1>4. DocsMove
    <2>1. /\ {SUBMITTING} \X {SUPERSEDED} \subseteq Moves /\ SUPERSEDED \notin {SUBMITTING, "expired"}
          /\ Authorised(l, SUPERSEDED)
      BY DEF Moves, Authorised, SUPERSEDED, SUBMITTING, SUBMITTED
    <2>2. CASE VersionMatches(l, q.version) /\ Update(l, SUPERSEDED)
      BY <1>2, <2>1, <2>2, UpdateOf
    <2> QED
      BY <1>1, <2>2, NothingMoves DEF CheckStale
  <1>5. RequestHolds(l)'
    BY <1>3 DEF RequestHolds, BecomeRequest, Inv, Idle
  <1> QED
    BY <1>3, <1>4, <1>5, RequestStep DEF CheckStale, Inv

LEMMA RequestFailsStep ==
  ASSUME Inv, NEW l \in Logs, RequestFails(l)
  PROVE  DocsMove /\ Inv'
  <1>1. DocsMove
    BY NothingMoves DEF RequestFails
  <1>2. RequestHolds(l)'
    BY DEF RequestHolds, BecomeRequest, Inv, Idle, RequestFails
  <1> QED
    BY <1>1, <1>2, RequestStep DEF RequestFails, Inv

LEMMA ExpireStep ==
  ASSUME Inv, NEW l \in Logs, Expire(l)
  PROVE  DocsMove /\ Inv'
  <1>1. IsDocument(Docs[l])
    BY DocsReadable DEF Inv, IsCollection
  <1>2. IsDocument(NoDocument("expired"))
    BY DEF IsDocument, NoDocument, Fields
  <1>3. /\ SnapshotsType'
        /\ Readable' \subseteq Readable \cup {Docs'}
        /\ "lag" \notin Disturbances => Readable' = {Docs'}
        /\ \A k \in Logs \ {l} : (Docs[k])' = Docs[k]
        /\ (Docs[l])' = NoDocument("expired")
    BY <1>2, Stored DEF Expire, Inv
  <1>4. (Docs[l].status)' = "expired"
    BY <1>3 DEF NoDocument
  <1>5. <<Docs[l].status, "expired">> \in Moves
    BY <1>1 DEF Expire, IsDocument, Moves
  <1>6. DocsMove
    BY <1>3, <1>4, <1>5 DEF Expire, DocsMove, MovesOn, Writes, Authorised, SUBMITTING, SUBMITTED
  <1>7. SnapshotsType' /\ ReadsWere'
    BY <1>6, ReadsStay DEF Inv
  <1> QED
    BY <1>6, <1>7, HeldStays DEF Expire, Inv

LEMMA ReportStep ==
  ASSUME Inv, ReportSubmitted
  PROVE  DocsMove /\ Inv'
  <1>1. DocsMove
    BY NothingMoves DEF ReportSubmitted
  <1>2. SnapshotsType' /\ ReadsWere'
    BY <1>1, ReadsStay DEF Inv
  <1> QED
    BY <1>1, <1>2, HeldStays DEF ReportSubmitted, Inv

Steps == {"read", "persist", "checkReports", "commit", "finalise"}

LEMMA RunType ==
  ASSUME Inv, NEW r \in Runs, run[r].pc # "idle"
  PROVE  /\ run[r] \in [pc : Steps, message : Message, version : Nat, live : BOOLEAN]
         /\ run[r].message.log \in Logs
         /\ run[r].message.command \in {VALIDATE, SUBMIT}
         /\ \A x \in [pc : Steps, message : Message, version : Nat, live : BOOLEAN] : x \in Run
  <1>1. run[r] \in [pc : Steps, message : Message, version : Nat, live : BOOLEAN]
    BY DEF Inv, Run, Idle, Steps
  <1>2. run[r].message \in Message
    BY <1>1
  <1> QED
    BY <1>1, <1>2 DEF Run, Steps, Message

LEMMA OnFailureMoves ==
  ASSUME Inv, NEW r \in Runs, run[r].pc # "idle", OnFailure(run[r])
  PROVE  DocsMove
  <1>1. PICK x : x = run[r]
    OBVIOUS
  <1> DEFINE l == x.message.log
             processing == IF x.message.command = VALIDATE
                           THEN {PREPROCESSING, VALIDATING} ELSE {SUBMITTING}
             failed == IF x.message.command = VALIDATE
                       THEN VALIDATION_FAILED ELSE SUBMISSION_FAILED
  <1>2. l \in Logs
    BY <1>1, RunType
  <1>3. PICK docs \in Readable :
          IF docs[l].status \in processing /\ VersionMatches(l, docs[l].version)
          THEN Update(l, failed) ELSE UNCHANGED snapshots
    BY <1>1 DEF OnFailure
  <1>4. \A status \in processing : <<status, failed>> \in Moves
    BY DEF Moves
  <1>5. failed \notin {SUBMITTING, "expired"} /\ Authorised(l, failed)
    BY DEF Authorised, VALIDATION_FAILED, SUBMISSION_FAILED, SUBMITTING, SUBMITTED
  <1> HIDE DEF l, processing, failed
  <1>6. Was(l, docs[l].version, {docs[l].status})
    BY <1>2 DEF Inv, ReadsWere
  <1>7. CASE docs[l].status \in processing /\ VersionMatches(l, docs[l].version)
    <2>1. {docs[l].status} \X {failed} \subseteq Moves
      BY <1>4, <1>7
    <2>2. Update(l, failed)
      BY <1>3, <1>7
    <2> QED
      BY <1>2, <1>5, <1>6, <1>7, <2>1, <2>2, UpdateOf
  <1>8. CASE ~ (docs[l].status \in processing /\ VersionMatches(l, docs[l].version))
    BY <1>3, <1>8, NothingMoves
  <1> QED
    BY <1>7, <1>8

(* An execution that ends, however it does.                                *)
LEMMA RunEnds ==
  ASSUME Inv, DocsMove, NEW r \in Runs, BecomeRun(r, Idle),
         queue' \subseteq queue, request' = request
  PROVE  Inv'
  <1>1. RunHolds(r)'
    BY DEF RunHolds, BecomeRun, Inv, Idle
  <1>2. Idle \in Run
    BY DEF Run
  <1> QED
    BY <1>1, <1>2, RunStep DEF Inv

LEMMA TransientErrorStep ==
  ASSUME Inv, NEW r \in Runs, run[r].pc # "idle", TransientError(r), request' = request
  PROVE  DocsMove /\ Inv'
  <1>1. DocsMove
    BY OnFailureMoves, NothingMoves DEF TransientError
  <1> QED
    BY <1>1, RunEnds DEF TransientError

LEMMA PermanentErrorStep ==
  ASSUME Inv, NEW r \in Runs, run[r].pc # "idle", PermanentError(r), request' = request
  PROVE  DocsMove /\ Inv'
  <1>1. DocsMove
    BY OnFailureMoves DEF PermanentError
  <1>2. queue' \subseteq queue
    BY DEF PermanentError, Acknowledge
  <1> QED
    BY <1>1, <1>2, RunEnds DEF PermanentError

LEMMA CompleteStep ==
  ASSUME Inv, NEW r \in Runs, run[r].pc # "idle", NEW status, Complete(r, status),
         request' = request, NEW statuses,
         Was(run[r].message.log, run[r].version, statuses),
         statuses \X {status} \subseteq Moves, status \notin {SUBMITTING, "expired"},
         Authorised(run[r].message.log, status)
  PROVE  DocsMove /\ Inv'
  <1>1. PICK x : x = run[r]
    OBVIOUS
  <1>2. x.message.log \in Logs
    BY <1>1, RunType
  <1>3. CASE /\ VersionMatches(x.message.log, x.version)
             /\ Update(x.message.log, status) /\ Acknowledge(x) /\ BecomeRun(r, Idle)
    <2>1. DocsMove
      BY <1>1, <1>2, <1>3, UpdateOf
    <2>2. queue' \subseteq queue
      BY <1>3 DEF Acknowledge
    <2> QED
      BY <1>3, <2>1, <2>2, RunEnds
  <1>4. CASE TransientError(r)
    BY <1>4, TransientErrorStep
  <1> QED
    BY <1>1, <1>3, <1>4 DEF Complete

LEMMA ReceiveStep ==
  ASSUME Inv, NEW r \in Runs, Receive(r)
  PROVE  DocsMove /\ Inv'
  <1>1. DocsMove
    BY NothingMoves DEF Receive
  <1>2. PICK m \in queue :
          /\ m.receives < MaxReceive
          /\ queue' = (queue \ {m}) \cup {[m EXCEPT !.receives = @ + 1]}
          /\ BecomeRun(r, [pc |-> "read", message |-> [m EXCEPT !.receives = @ + 1],
                           version |-> 0, live |-> TRUE])
    BY DEF Receive
  <1>3. [m EXCEPT !.receives = @ + 1] \in Message
    BY <1>2, ReceiveAssumption DEF Inv, Message
  <1>4. queue' \subseteq Message
    BY <1>2, <1>3 DEF Inv
  <1>5. [pc |-> "read", message |-> [m EXCEPT !.receives = @ + 1],
         version |-> 0, live |-> TRUE] \in Run
    BY <1>3 DEF Run
  <1>6. RunHolds(r)'
    BY <1>2 DEF RunHolds, BecomeRun, Inv
  <1> QED
    BY <1>1, <1>2, <1>4, <1>5, <1>6, RunStep DEF Receive

LEMMA ReadLogStep ==
  ASSUME Inv, NEW r \in Runs, ReadLog(r)
  PROVE  DocsMove /\ Inv'
  <1>1. PICK x : x = run[r]
    OBVIOUS
  <1> DEFINE m == x.message
             expected == IF m.command = VALIDATE THEN VALIDATING ELSE SUBMITTING
             first    == IF m.command = VALIDATE THEN "persist" ELSE "checkReports"
  <1>2. run[r].pc # "idle" /\ request' = request
    BY DEF ReadLog
  <1>3. PICK docs \in Readable :
          IF docs[m.log].status = expected
          THEN /\ BecomeRun(r, [run[r] EXCEPT !.pc = first, !.version = docs[m.log].version])
               /\ UNCHANGED <<snapshots, queue>>
          ELSE PermanentError(r)
    BY <1>1 DEF ReadLog
  <1>4. CASE PermanentError(r)
    BY <1>2, <1>4, PermanentErrorStep
  <1>5. CASE /\ docs[m.log].status = expected
             /\ BecomeRun(r, [run[r] EXCEPT !.pc = first, !.version = docs[m.log].version])
             /\ UNCHANGED <<snapshots, queue>>
    <2>1. DocsMove
      BY <1>5, NothingMoves
    <2>2. m.log \in Logs /\ m.command \in {VALIDATE, SUBMIT}
      BY <1>1, <1>2, RunType
    <2>3. Was(m.log, docs[m.log].version, {expected})
      BY <1>5, <2>2 DEF Inv, ReadsWere
    <2>4. Was(m.log, docs[m.log].version, {expected})'
      <3> HIDE DEF m, expected
      <3> QED BY <2>1, <2>2, <2>3, WasStays DEF Inv
    <2>5. docs[m.log].version \in Nat
      BY <2>3 DEF Was
    <2>6. [run[r] EXCEPT !.pc = first, !.version = docs[m.log].version] \in Run
      BY <1>2, <2>5, RunType DEF Steps
    <2>7. /\ run'[r].pc = first
          /\ run'[r].message = m
          /\ run'[r].version = docs[m.log].version
      <3>1. DOMAIN run[r] = {"pc", "message", "version", "live"}
        BY <1>2 DEF Inv, Run, Idle
      <3> QED BY <1>1, <1>5, <3>1 DEF BecomeRun, Inv
    <2>8. RunHolds(r)'
      BY <2>2, <2>4, <2>7 DEF RunHolds, VALIDATE, SUBMIT
    <2> QED
      BY <1>2, <1>5, <2>1, <2>6, <2>8, RunStep DEF Inv
  <1> QED
    BY <1>3, <1>4, <1>5

LEMMA PersistStep ==
  ASSUME Inv, NEW r \in Runs, PersistValidation(r)
  PROVE  DocsMove /\ Inv'
  <1>1. PICK status \in {VALIDATED, INVALID} : Complete(r, status)
    BY DEF PersistValidation
  <1>2. run[r].pc # "idle" /\ request' = request
    BY DEF PersistValidation
  <1>3. Was(run[r].message.log, run[r].version, {VALIDATING})
    BY DEF PersistValidation, Inv, RunHolds
  <1>4. /\ {VALIDATING} \X {status} \subseteq Moves /\ status \notin {SUBMITTING, "expired"}
        /\ Authorised(run[r].message.log, status)
    BY DEF Moves, Authorised, VALIDATED, INVALID, SUBMITTING, SUBMITTED
  <1> QED
    BY <1>1, <1>2, <1>3, <1>4, CompleteStep

(* An execution that goes on with what it read.                            *)
LEMMA RunGoesOn ==
  ASSUME Inv, NEW r \in Runs, NEW step \in {"commit", "finalise"},
         run[r].pc \in {"checkReports", "commit"},
         BecomeRun(r, [run[r] EXCEPT !.pc = step]), UNCHANGED <<snapshots, queue, request>>
  PROVE  DocsMove /\ Inv'
  <1>1. DocsMove
    BY NothingMoves
  <1>2. PICK x : x = run[r]
    OBVIOUS
  <1>3. x \in [pc : Steps, message : Message, version : Nat, live : BOOLEAN]
    BY <1>2, RunType
  <1>4. [x EXCEPT !.pc = step] \in Run
    BY <1>3, RunType, <1>2 DEF Steps
  <1>5. /\ run'[r].pc = step
        /\ run'[r].message = x.message
        /\ run'[r].version = x.version
    BY <1>2, <1>3 DEF BecomeRun, Inv
  <1>6. x.message.command = SUBMIT /\ Was(x.message.log, x.version, {SUBMITTING})
    BY <1>2 DEF Inv, RunHolds
  <1>7. Was(x.message.log, x.version, {SUBMITTING})'
    BY <1>1, <1>2, <1>6, RunType, WasStays DEF Inv
  <1>8. RunHolds(r)'
    BY <1>5, <1>6, <1>7 DEF RunHolds
  <1> QED
    BY <1>1, <1>2, <1>4, <1>8, RunStep DEF Inv

LEMMA CheckReportsStep ==
  ASSUME Inv, NEW r \in Runs, CheckReports(r)
  PROVE  DocsMove /\ Inv'
  <1>1. CASE PermanentError(r)
    BY <1>1, PermanentErrorStep DEF CheckReports
  <1>2. CASE /\ BecomeRun(r, [run[r] EXCEPT !.pc = "commit"])
             /\ UNCHANGED <<snapshots, queue>>
    BY <1>2, RunGoesOn DEF CheckReports
  <1> QED
    BY <1>1, <1>2 DEF CheckReports

LEMMA CommitLedgerStep ==
  ASSUME Inv, NEW r \in Runs, CommitLedger(r)
  PROVE  DocsMove /\ Inv'
  BY RunGoesOn DEF CommitLedger

LEMMA FinaliseStep ==
  ASSUME Inv, NEW r \in Runs, Finalise(r)
  PROVE  DocsMove /\ Inv'
  <1>1. Was(run[r].message.log, run[r].version, {SUBMITTING})
    BY DEF Finalise, Inv, RunHolds
  <1>2. /\ {SUBMITTING} \X {SUBMITTED} \subseteq Moves /\ SUBMITTED \notin {SUBMITTING, "expired"}
        /\ Authorised(run[r].message.log, SUBMITTED)
    BY DEF Finalise, Moves, Authorised, SUBMITTING, SUBMITTED
  <1> QED
    BY <1>1, <1>2, CompleteStep DEF Finalise

LEMMA WorkerDiesStep ==
  ASSUME Inv, NEW r \in Runs, WorkerDies(r)
  PROVE  DocsMove /\ Inv'
  <1>1. DocsMove
    BY NothingMoves DEF WorkerDies
  <1> QED
    BY <1>1, RunEnds DEF WorkerDies

(* Who is no longer waited for goes on with what it read before.           *)
LEMMA TimeoutStep ==
  ASSUME Inv, NEW r \in Runs, Timeout(r)
  PROVE  DocsMove /\ Inv'
  <1>1. DocsMove
    BY OnFailureMoves DEF Timeout
  <1>2. PICK x : x = run[r]
    OBVIOUS
  <1>3. x \in [pc : Steps, message : Message, version : Nat, live : BOOLEAN]
    BY <1>2, RunType DEF Timeout
  <1>4. [x EXCEPT !.live = FALSE] \in Run
    BY <1>3, <1>2, RunType DEF Timeout
  <1>5. BecomeRun(r, [x EXCEPT !.live = FALSE])
    BY <1>2 DEF Timeout
  <1>6. /\ run'[r].pc = x.pc
        /\ run'[r].message = x.message
        /\ run'[r].version = x.version
    BY <1>3, <1>5 DEF BecomeRun, Inv
  <1>7. x.message.log \in Logs /\ RunHolds(r)
    BY <1>2, RunType DEF Inv, Timeout
  <1>8. x.pc = "persist" => Was(x.message.log, x.version, {VALIDATING})'
    BY <1>1, <1>2, <1>7, WasStays DEF Inv, RunHolds
  <1>9. x.pc \in {"checkReports", "commit", "finalise"}
          => Was(x.message.log, x.version, {SUBMITTING})'
    BY <1>1, <1>2, <1>7, WasStays DEF Inv, RunHolds
  <1>10. RunHolds(r)'
    BY <1>2, <1>6, <1>7, <1>8, <1>9 DEF RunHolds
  <1> QED
    BY <1>1, <1>4, <1>5, <1>10, RunStep DEF Timeout, Inv

-----------------------------------------------------------------------------
(* The theorems.                                                           *)

LEMMA InvInit == Init => Inv
  <1> SUFFICES ASSUME Init PROVE Inv
    OBVIOUS
  <1> DEFINE docs == [l \in Logs |-> NoDocument("none")]
  <1>1. snapshots = <<docs>>
    BY DEF Init
  <1>2. \A l \in Logs : IsDocument(docs[l])
    BY DEF IsDocument, NoDocument, Fields
  <1>3. IsCollection(docs)
    BY <1>2 DEF IsCollection
  <1> HIDE DEF docs
  <1>4. Readable = {docs} /\ Docs = docs
    BY <1>1 DEF Readable, Docs, Last
  <1>5. {snapshots[i] : i \in 1..Len(snapshots)} = {docs}
    BY <1>1
  <1>6. SnapshotsType
    BY <1>1, <1>3, <1>4, <1>5 DEF SnapshotsType
  <1>7. ReadsWere
    BY <1>2, <1>4 DEF ReadsWere, Was, IsDocument
  <1>8. run \in [Runs -> Run]
    BY DEF Init, Run
  <1>9. (\A l \in Logs : RequestHolds(l)) /\ (\A r \in Runs : RunHolds(r))
    BY DEF Init, RequestHolds, RunHolds, Idle
  <1> QED
    BY <1>6, <1>7, <1>8, <1>9 DEF Inv, Init

LEMMA InvNext == Inv /\ [Next]_vars => DocsMove /\ Inv'
  <1> SUFFICES ASSUME Inv, [Next]_vars PROVE DocsMove /\ Inv'
    OBVIOUS
  <1>1. CASE UNCHANGED vars
    <2>1. DocsMove
      BY <1>1, NothingMoves DEF vars
    <2>2. SnapshotsType' /\ ReadsWere'
      BY <2>1, ReadsStay DEF Inv
    <2> QED
      BY <1>1, <2>1, <2>2, HeldStays DEF vars, Inv
  <1>2. ASSUME NEW l \in Logs,
               \/ UploadRead(l) \/ UploadWrite(l) \/ Send(l) \/ TransitionToSubmitting(l)
               \/ CheckStale(l) \/ RequestFails(l) \/ Expire(l)
        PROVE  DocsMove /\ Inv'
    BY <1>2, UploadReadStep, UploadWriteStep, SendStep, TransitionStep, CheckStaleStep,
       RequestFailsStep, ExpireStep
  <1>3. ASSUME NEW r \in Runs,
               \/ Receive(r) \/ ReadLog(r) \/ PersistValidation(r) \/ CheckReports(r)
               \/ CommitLedger(r) \/ Finalise(r) \/ WorkerDies(r) \/ Timeout(r)
        PROVE  DocsMove /\ Inv'
    BY <1>3, ReceiveStep, ReadLogStep, PersistStep, CheckReportsStep, CommitLedgerStep,
       FinaliseStep, WorkerDiesStep, TimeoutStep
  <1>4. ASSUME NEW r \in Runs, CommandFails(r)
        PROVE  DocsMove /\ Inv'
    BY <1>4, TransientErrorStep DEF CommandFails
  <1>5. CASE ReportSubmitted
    BY <1>5, ReportStep
  <1> QED
    BY <1>1, <1>2, <1>3, <1>4, <1>5 DEF Next

(* What is found by a reader, is carried by a message, or is held by a     *)
(* request or an execution is what a document was at the version that goes *)
(* with it.                                                                *)
THEOREM ReadersKnowWhatWas == Spec => []Inv
  <1>1. Inv /\ [Next]_vars => Inv'
    BY InvNext
  <1> QED
    BY InvInit, <1>1, PTL DEF Spec

(* domain/summary-logs/status.js: what the operator was told is final,     *)
(* whatever is delivered twice, retried, outlasts its timeout, dies or     *)
(* reads from a collection that lags behind.                               *)
THEOREM OutcomesAreFinal == Spec => SettledStaysSettled
  <1>1. ASSUME DocsMove, NEW l \in Logs, Docs[l].status \in Settled
        PROVE  (Docs[l].status)' \in {Docs[l].status, "expired"}
    <2>1. CASE snapshots' = snapshots
      BY <2>1 DEF Docs
    <2>2. ASSUME NEW k \in Logs, MovesOn(k)
          PROVE  (Docs[l].status)' \in {Docs[l].status, "expired"}
      <3>1. CASE k # l
        BY <2>2, <3>1 DEF MovesOn
      <3>2. CASE k = l
        BY <1>1, <2>2, <3>2 DEF MovesOn, Moves, Settled, PREPROCESSING, REJECTED,
           VALIDATING, INVALID, VALIDATED, SUBMITTING, SUBMITTED, SUPERSEDED,
           VALIDATION_FAILED, SUBMISSION_FAILED
      <3> QED
        BY <3>1, <3>2
    <2> QED
      BY <1>1, <2>1, <2>2 DEF DocsMove
  <1>2. Inv /\ [Next]_vars =>
          [\A l \in Logs : Docs[l].status \in Settled =>
             (Docs[l].status)' \in {Docs[l].status, "expired"}]_vars
    BY <1>1, InvNext
  <1> QED
    BY <1>2, ReadersKnowWhatWas, PTL DEF Spec, SettledStaysSettled

-----------------------------------------------------------------------------
(***************************************************************************)
(* A theorem about SummaryLogSubmission that needs reads that do not lag:  *)
(* what is submitted was validated against the submission before it.       *)
(***************************************************************************)

(* Where a log that was submitting can be.                                 *)
Since == {SUBMITTING, SUBMITTED, SUPERSEDED, SUBMISSION_FAILED, "expired"}

OneSubmitting ==
  \A k, l \in Logs :
    Docs[k].status = SUBMITTING /\ Docs[l].status = SUBMITTING => k = l

(* The log is past its staleness check, and as fresh as when it passed.    *)
Confirmed(l) ==
  /\ Docs[l].status \in Since
  /\ Docs[l].status = SUBMITTING => Docs[l].baseline = LatestSubmitted(Docs)

(* The request holds the baseline of the log it will check.                *)
Checks(l, baseline) ==
  /\ Docs[l].status \in Since
  /\ Docs[l].status = SUBMITTING => Docs[l].baseline = baseline

(* The logs whose submission a request, a message or an execution carries. *)
Underway ==
  {l \in Logs :
     \/ request[l].pc = "send" /\ request[l].command = SUBMIT
     \/ \E m \in queue : m.command = SUBMIT /\ m.log = l
     \/ \E r \in Runs : /\ run[r].pc # "idle"
                        /\ run[r].message.command = SUBMIT /\ run[r].message.log = l}

FreshInv ==
  /\ Readable = {Docs}
  /\ OneSubmitting
  /\ \A l \in Underway : Confirmed(l)
  /\ \A l \in Logs : request[l].pc = "checkStale" => Checks(l, request[l].baseline)

-----------------------------------------------------------------------------
(* The documents.                                                          *)

(* Who was submitting is done with it once moved on, and nobody else is    *)
(* submitted but who was submitting.                                       *)
LEMMA MovesFromSubmitting ==
  ASSUME NEW from, NEW to, <<from, to>> \in Moves
  PROVE  /\ from \in Since => to \in Since \ {SUBMITTING}
         /\ from # SUBMITTED
         /\ to = SUBMITTED => from = SUBMITTING
  BY DEF Moves, Since, SUMMARY_LOG_STATUS, PREPROCESSING, REJECTED, VALIDATING, INVALID,
     VALIDATED, SUBMITTING, SUBMITTED, SUPERSEDED, VALIDATION_FAILED, SUBMISSION_FAILED

LEMMA OneStaysSubmitting ==
  ASSUME DocsMove, OneSubmitting
  PROVE  OneSubmitting'
  <1>1. CASE snapshots' = snapshots
    BY <1>1 DEF OneSubmitting, Docs
  <1>2. ASSUME NEW k \in Logs, MovesOn(k)
        PROVE  OneSubmitting'
    BY <1>2 DEF MovesOn, OneSubmitting, Authorised, NoneSubmitting
  <1> QED
    BY <1>1, <1>2 DEF DocsMove

(* The latest submission is a function of the submitted documents.         *)
LEMMA LatestStays ==
  ASSUME NEW docs, NEW then,
         \A l \in Logs : docs[l].status = SUBMITTED <=> then[l].status = SUBMITTED,
         \A l \in Logs : docs[l].status = SUBMITTED => docs[l] = then[l]
  PROVE  LatestSubmitted(docs) = LatestSubmitted(then)
  <1> DEFINE S == {l \in Logs : docs[l].status = SUBMITTED}
             T == {l \in Logs : then[l].status = SUBMITTED}
             P(l) == \A k \in S : docs[k].submittedAt <= docs[l].submittedAt
             Q(l) == \A k \in T : then[k].submittedAt <= then[l].submittedAt
  <1>1. S = T
    OBVIOUS
  <1>2. \A l \in S : P(l) <=> Q(l)
    OBVIOUS
  <1>3. LatestSubmitted(docs) = IF S = {} THEN NoPrior ELSE CHOOSE l \in S : P(l)
    BY DEF LatestSubmitted
  <1>4. LatestSubmitted(then) = IF T = {} THEN NoPrior ELSE CHOOSE l \in T : Q(l)
    BY DEF LatestSubmitted
  <1>5. (CHOOSE l \in S : P(l)) = (CHOOSE l \in T : Q(l))
    <2> HIDE DEF S, T, P, Q
    <2>1. (CHOOSE l \in S : P(l)) = (CHOOSE l \in S : Q(l))
      BY <1>2, Zenon
    <2>2. (CHOOSE l \in S : Q(l)) = (CHOOSE l \in T : Q(l))
      BY <1>1
    <2> QED
      BY <2>1, <2>2
  <1>6. CASE S = {}
    BY <1>1, <1>3, <1>4, <1>6
  <1>7. CASE S # {}
    <2>1. LatestSubmitted(docs) = CHOOSE l \in S : P(l)
      BY <1>3, <1>7
    <2>2. LatestSubmitted(then) = CHOOSE l \in T : Q(l)
      BY <1>1, <1>4, <1>7
    <2> HIDE DEF S, T, P, Q
    <2> QED
      BY <1>5, <2>1, <2>2
  <1> QED
    BY <1>6, <1>7

(* As long as one log is submitting no other is submitted.                 *)
LEMMA ConfirmedStays ==
  ASSUME DocsMove, OneSubmitting, NEW l \in Logs, Confirmed(l)
  PROVE  Confirmed(l)'
  <1>1. CASE snapshots' = snapshots
    BY <1>1 DEF Confirmed, Docs
  <1>2. ASSUME NEW k \in Logs, MovesOn(k)
        PROVE  Confirmed(l)'
    <2>1. CASE k = l
      BY <1>2, <2>1, MovesFromSubmitting DEF MovesOn, Confirmed
    <2>2. CASE k # l
      <3>1. (Docs[l])' = Docs[l]
        BY <1>2, <2>2 DEF MovesOn
      <3>2. CASE Docs[l].status = SUBMITTING
        <4>1. Docs[k].status # SUBMITTING
          BY <2>2, <3>2 DEF OneSubmitting
        <4>2. Docs[k].status # SUBMITTED /\ (Docs[k].status)' # SUBMITTED
          BY <1>2, <4>1, MovesFromSubmitting DEF MovesOn
        <4>3. \A j \in Logs \ {k} : (Docs[j])' = Docs[j]
          BY <1>2 DEF MovesOn
        <4>4. PICK docs : docs = Docs
          OBVIOUS
        <4>5. PICK then : then = Docs'
          OBVIOUS
        <4>6. LatestSubmitted(docs) = LatestSubmitted(then)
          BY <4>2, <4>3, <4>4, <4>5, LatestStays
        <4>7. LatestSubmitted(Docs)' = LatestSubmitted(Docs')
          BY DEF LatestSubmitted
        <4> QED
          BY <3>1, <4>4, <4>5, <4>6, <4>7 DEF Confirmed
      <3> QED
        BY <3>1, <3>2 DEF Confirmed
    <2> QED
      BY <2>1, <2>2
  <1> QED
    BY <1>1, <1>2 DEF DocsMove

LEMMA ChecksStays ==
  ASSUME DocsMove, NEW l \in Logs, NEW baseline, Checks(l, baseline)
  PROVE  Checks(l, baseline)'
  <1>1. CASE snapshots' = snapshots
    BY <1>1 DEF Checks, Docs
  <1>2. ASSUME NEW k \in Logs, MovesOn(k)
        PROVE  Checks(l, baseline)'
    BY <1>2, MovesFromSubmitting DEF MovesOn, Checks
  <1> QED
    BY <1>1, <1>2 DEF DocsMove

-----------------------------------------------------------------------------
(* The steps.                                                              *)

(* A step whose carriers carry what was carried before, or what it         *)
(* confirms, and whose checks are those of before, or one it begins.       *)
LEMMA FreshStays ==
  ASSUME FreshInv, DocsMove, "lag" \notin Disturbances,
         \A l \in Underway' : l \in Underway \/ Confirmed(l)',
         \A l \in Logs : request'[l].pc = "checkStale" =>
           request'[l] = request[l] \/ Checks(l, request[l].baseline)'
  PROVE  FreshInv'
  <1>1. Readable' = {Docs'}
    <2>1. CASE snapshots' = snapshots
      BY <2>1 DEF FreshInv, Readable, Docs
    <2> QED
      BY <2>1 DEF DocsMove, MovesOn
  <1>2. OneSubmitting'
    BY OneStaysSubmitting DEF FreshInv
  <1>3. ASSUME NEW l \in Underway'
        PROVE  Confirmed(l)'
    <2>1. l \in Underway => l \in Logs /\ Confirmed(l)
      BY DEF FreshInv, Underway
    <2> QED
      BY <2>1, ConfirmedStays DEF FreshInv
  <1>4. ASSUME NEW l \in Logs, (request[l].pc = "checkStale")'
        PROVE  Checks(l, request[l].baseline)'
    <2>1. CASE request'[l] = request[l]
      <3>1. PICK baseline : baseline = request[l].baseline
        OBVIOUS
      <3>2. Checks(l, baseline)
        BY <1>4, <2>1, <3>1 DEF FreshInv
      <3>3. Checks(l, baseline)'
        BY <3>2, ChecksStays
      <3> QED
        BY <2>1, <3>1, <3>3
    <2> QED
      BY <1>4, <2>1
  <1> QED
    BY <1>1, <1>2, <1>3, <1>4 DEF FreshInv

(* A step of a request that sends nothing confirmed by itself.             *)
LEMMA RequestStepFresh ==
  ASSUME Inv, FreshInv, DocsMove, "lag" \notin Disturbances, NEW l \in Logs,
         run' = run, \A k \in Logs \ {l} : request'[k] = request[k],
         request'[l].pc # "checkStale",
         request'[l].pc = "send" => request'[l].command = VALIDATE,
         \A m \in queue' : m \in queue \/ m.command = VALIDATE \/ (m.log = l /\ l \in Underway)
  PROVE  FreshInv'
  <1>1. \A k \in Underway' : k \in Underway
    BY DEF Underway, VALIDATE, SUBMIT
  <1>2. \A k \in Logs : request'[k].pc = "checkStale" => request'[k] = request[k]
    OBVIOUS
  <1> QED
    BY <1>1, <1>2, FreshStays

(* A step of an execution that carries what it carried.                    *)
LEMMA RunStepFresh ==
  ASSUME Inv, FreshInv, DocsMove, "lag" \notin Disturbances, NEW r \in Runs, NEW x,
         BecomeRun(r, x), request' = request,
         x.pc = "idle" \/ x.message.command # SUBMIT \/ x.message.log \in Underway,
         \A m \in queue' :
           \/ m \in queue
           \/ m.command # SUBMIT
           \/ m.log \in Underway
  PROVE  FreshInv'
  <1>1. run'[r] = x /\ \A k \in Runs \ {r} : run'[k] = run[k]
    BY DEF BecomeRun, Inv
  <1>2. \A k \in Underway' : k \in Underway
    BY <1>1 DEF Underway
  <1> QED
    BY <1>2, FreshStays

LEMMA TransitionFresh ==
  ASSUME Inv, FreshInv, DocsMove, "lag" \notin Disturbances, NEW l \in Logs,
         TransitionToSubmitting(l)
  PROVE  FreshInv'
  <1> DEFINE at == 1 + Max({Docs[k].submittedAt : k \in Logs})
             doc == [Docs[l] EXCEPT !.status = SUBMITTING, !.version = @ + 1, !.submittedAt = at]
  <1>1. IsDocument(Docs[l])
    BY DocsReadable DEF Inv, IsCollection
  <1>2. DOMAIN doc = Fields /\ doc.status = SUBMITTING /\ doc.baseline = Docs[l].baseline
        /\ doc.version = Docs[l].version + 1
    BY <1>1 DEF IsDocument, Fields
  <1>3. IsDocument(doc)
    BY <1>1, <1>2 DEF IsDocument, SUMMARY_LOG_STATUS, SUBMITTING
  <1>4. (Docs[l])' = doc
    <2>1. Store(l, doc)
      BY DEF TransitionToSubmitting
    <2> HIDE DEF doc
    <2> QED
      BY <1>3, <2>1, Stored DEF Inv
  <1>5. /\ request'[l].pc = "checkStale" /\ request'[l].baseline = Docs[l].baseline
        /\ \A k \in Logs \ {l} : request'[k] = request[k]
    BY DEF TransitionToSubmitting, BecomeRequest, Inv
  <1>6. Checks(l, request[l].baseline)'
    BY <1>2, <1>4, <1>5 DEF Checks, Since
  <1>7. \A k \in Underway' : k \in Underway
    BY <1>5 DEF Underway, TransitionToSubmitting
  <1> QED
    BY <1>5, <1>6, <1>7, FreshStays

(* The check compares with the latest submission there is.                 *)
LEMMA CheckStaleFresh ==
  ASSUME Inv, FreshInv, DocsMove, "lag" \notin Disturbances, NEW l \in Logs, CheckStale(l)
  PROVE  FreshInv'
  <1>1. run' = run /\ queue' = queue
    BY DEF CheckStale
  <1>2. CASE BecomeRequest(l, Idle)
    <2>1. request'[l].pc = "idle" /\ \A k \in Logs \ {l} : request'[k] = request[k]
      BY <1>2 DEF BecomeRequest, Idle, Inv
    <2>2. /\ request'[l].pc # "checkStale"
          /\ request'[l].pc = "send" => request'[l].command = VALIDATE
      BY <2>1
    <2>3. \A m \in queue' : m \in queue \/ m.command = VALIDATE \/ (m.log = l /\ l \in Underway)
      BY <1>1
    <2> QED
      BY <1>1, <2>1, <2>2, <2>3, RequestStepFresh
  <1>3. CASE ~BecomeRequest(l, Idle)
    <2>1. /\ request[l].baseline = LatestSubmitted(Docs)
          /\ BecomeRequest(l, [pc |-> "send", command |-> SUBMIT])
          /\ UNCHANGED snapshots
      BY <1>3 DEF CheckStale, FreshInv
    <2>2. Confirmed(l)
      BY <2>1 DEF CheckStale, FreshInv, Checks, Confirmed
    <2>3. Confirmed(l)'
      BY <2>1, <2>2 DEF Confirmed, Docs
    <2>4. request'[l].pc = "send" /\ \A k \in Logs \ {l} : request'[k] = request[k]
      BY <2>1 DEF BecomeRequest, Inv
    <2>5. \A k \in Underway' : k \in Underway \/ k = l
      BY <1>1, <2>4 DEF Underway
    <2> QED
      BY <2>3, <2>4, <2>5, FreshStays
  <1> QED
    BY <1>2, <1>3

LEMMA RequestsFresh ==
  ASSUME Inv, FreshInv, DocsMove, "lag" \notin Disturbances, NEW l \in Logs,
         \/ UploadRead(l) \/ UploadWrite(l) \/ Send(l) \/ RequestFails(l)
  PROVE  FreshInv'
  <1>1. run' = run /\ \A k \in Logs \ {l} : request'[k] = request[k]
    BY DEF UploadRead, UploadWrite, Send, RequestFails, BecomeRequest, Inv
  <1>2. /\ request'[l].pc # "checkStale"
        /\ request'[l].pc = "send" => request'[l].command = VALIDATE
    BY DEF UploadRead, UploadWrite, Send, RequestFails, BecomeRequest, Inv, Idle
  <1>3. \A m \in queue' : m \in queue \/ m.command = VALIDATE \/ (m.log = l /\ l \in Underway)
    <2>1. CASE Send(l)
      <3>1. PICK m : m = [command |-> request[l].command, log |-> l, receives |-> 0]
        OBVIOUS
      <3>2. queue' = queue \cup {m} /\ m.log = l /\ m.command = request[l].command
        BY <2>1, <3>1 DEF Send
      <3>3. request[l].pc = "send" /\ request[l].command \in {VALIDATE, SUBMIT}
        BY <2>1 DEF Send, Inv, RequestHolds
      <3>4. m.command = SUBMIT => l \in Underway
        BY <3>2, <3>3 DEF Underway
      <3> QED
        BY <3>2, <3>3, <3>4
    <2>2. CASE queue' = queue
      BY <2>2
    <2> QED
      BY <2>1, <2>2 DEF UploadRead, UploadWrite, RequestFails
  <1> QED
    BY <1>1, <1>2, <1>3, RequestStepFresh

(* Every step of an execution but its first keeps its message or ends it.  *)
LEMMA ExecutionKeeps ==
  ASSUME Inv, NEW r \in Runs,
         \/ ReadLog(r) \/ PersistValidation(r) \/ CheckReports(r) \/ CommitLedger(r)
         \/ Finalise(r) \/ CommandFails(r) \/ WorkerDies(r) \/ Timeout(r)
  PROVE  /\ request' = request /\ queue' \subseteq queue
         /\ run[r].pc # "idle"
         /\ \E x : /\ BecomeRun(r, x)
                   /\ x.pc = "idle" \/ x.message = run[r].message
  <1>1. \A x : Acknowledge(x) => queue' \subseteq queue
    BY DEF Acknowledge
  <1>2. request' = request /\ run[r].pc # "idle"
    BY DEF ReadLog, PersistValidation, CheckReports, CommitLedger, Finalise, CommandFails,
       WorkerDies, Timeout
  <1>3. run[r] \in [pc : Steps, message : Message, version : Nat, live : BOOLEAN]
    BY <1>2, RunType
  <1>4. \A step, version :
          [run[r] EXCEPT !.pc = step, !.version = version].message = run[r].message
    BY <1>3
  <1>5. \A step : [run[r] EXCEPT !.pc = step].message = run[r].message
    BY <1>3
  <1>6. [run[r] EXCEPT !.live = FALSE].message = run[r].message
    BY <1>3
  <1>7. queue' \subseteq queue
    BY <1>1 DEF ReadLog, PersistValidation, CheckReports, CommitLedger, Finalise,
       CommandFails, WorkerDies, Timeout, PermanentError, TransientError, Complete
  <1>8. ASSUME BecomeRun(r, Idle)
        PROVE  \E x : BecomeRun(r, x) /\ (x.pc = "idle" \/ x.message = run[r].message)
    BY <1>8 DEF Idle
  <1>9. \E x : BecomeRun(r, x) /\ (x.pc = "idle" \/ x.message = run[r].message)
    <2>1. CASE ReadLog(r)
      <3>1. CASE BecomeRun(r, Idle)
        BY <1>8, <3>1
      <3>2. CASE ~BecomeRun(r, Idle)
        <4>1. PICK step, version : BecomeRun(r, [run[r] EXCEPT !.pc = step, !.version = version])
          BY <2>1, <3>2 DEF ReadLog, PermanentError
        <4> QED
          BY <1>4, <4>1
      <3> QED
        BY <3>1, <3>2
    <2>2. CASE PersistValidation(r) \/ Finalise(r)
      BY <1>8, <2>2 DEF PersistValidation, Finalise, Complete, TransientError
    <2>3. CASE CheckReports(r) \/ CommitLedger(r)
      BY <1>5, <1>8, <2>3 DEF CheckReports, CommitLedger, PermanentError
    <2>4. CASE CommandFails(r) \/ WorkerDies(r)
      BY <1>8, <2>4 DEF CommandFails, WorkerDies, TransientError
    <2>5. CASE Timeout(r)
      BY <1>6, <2>5 DEF Timeout
    <2> QED
      BY <2>1, <2>2, <2>3, <2>4, <2>5
  <1> QED
    BY <1>2, <1>7, <1>9

LEMMA ExecutionsFresh ==
  ASSUME Inv, FreshInv, DocsMove, "lag" \notin Disturbances, NEW r \in Runs,
         \/ Receive(r)
         \/ ReadLog(r) \/ PersistValidation(r) \/ CheckReports(r) \/ CommitLedger(r)
         \/ Finalise(r) \/ CommandFails(r) \/ WorkerDies(r) \/ Timeout(r)
  PROVE  FreshInv'
  <1>1. CASE Receive(r)
    <2>1. PICK m \in queue :
            /\ queue' = (queue \ {m}) \cup {[m EXCEPT !.receives = @ + 1]}
            /\ BecomeRun(r, [pc |-> "read", message |-> [m EXCEPT !.receives = @ + 1],
                             version |-> 0, live |-> TRUE])
      BY <1>1 DEF Receive
    <2>2. PICK received : received = [m EXCEPT !.receives = @ + 1]
      OBVIOUS
    <2>3. received.command = m.command /\ received.log = m.log /\ m.log \in Logs
      BY <2>2 DEF Inv, Message
    <2>4. received.command # SUBMIT \/ received.log \in Underway
      BY <2>3 DEF Underway
    <2>5. BecomeRun(r, [pc |-> "read", message |-> received, version |-> 0, live |-> TRUE])
      BY <2>1, <2>2
    <2>6. \A n \in queue' : n \in queue \/ n.command # SUBMIT \/ n.log \in Underway
      BY <2>1, <2>2, <2>4
    <2>7. request' = request
      BY <1>1 DEF Receive
    <2> QED
      BY <2>4, <2>5, <2>6, <2>7, RunStepFresh
  <1>2. CASE ~Receive(r)
    <2>1. /\ request' = request /\ queue' \subseteq queue
          /\ run[r].pc # "idle"
      BY <1>2, ExecutionKeeps
    <2>2. PICK x : /\ BecomeRun(r, x)
                   /\ x.pc = "idle" \/ x.message = run[r].message
      BY <1>2, ExecutionKeeps
    <2>3. run[r].message.command # SUBMIT \/ run[r].message.log \in Underway
      BY <2>1, RunType DEF Underway
    <2> QED
      BY <2>1, <2>2, <2>3, RunStepFresh
  <1> QED
    BY <1>1, <1>2

LEMMA FreshNext ==
  ASSUME Inv, FreshInv, "lag" \notin Disturbances, [Next]_vars
  PROVE  FreshInv'
  <1>1. DocsMove
    BY InvNext
  <1>2. CASE request' = request /\ queue' = queue /\ run' = run
    BY <1>1, <1>2, FreshStays DEF Underway
  <1>3. CASE UNCHANGED vars \/ ReportSubmitted \/ \E l \in Logs : Expire(l)
    BY <1>2, <1>3 DEF vars, ReportSubmitted, Expire
  <1>4. ASSUME NEW l \in Logs,
               \/ UploadRead(l) \/ UploadWrite(l) \/ Send(l) \/ TransitionToSubmitting(l)
               \/ CheckStale(l) \/ RequestFails(l)
        PROVE  FreshInv'
    BY <1>1, <1>4, RequestsFresh, TransitionFresh, CheckStaleFresh
  <1>5. ASSUME NEW r \in Runs,
               \/ Receive(r)
               \/ ReadLog(r) \/ PersistValidation(r) \/ CheckReports(r) \/ CommitLedger(r)
               \/ Finalise(r) \/ CommandFails(r) \/ WorkerDies(r) \/ Timeout(r)
        PROVE  FreshInv'
    BY <1>1, <1>5, ExecutionsFresh
  <1> QED
    BY <1>3, <1>4, <1>5 DEF Next

LEMMA FreshInit == Init => FreshInv
  <1> SUFFICES ASSUME Init PROVE FreshInv
    OBVIOUS
  <1> DEFINE docs == [l \in Logs |-> NoDocument("none")]
  <1>1. \A l \in Logs : docs[l].status = "none"
    BY DEF NoDocument
  <1>2. snapshots = <<docs>>
    BY DEF Init
  <1> HIDE DEF docs
  <1>3. Readable = {Docs} /\ Docs = docs
    BY <1>2 DEF Readable, Docs, Last
  <1>4. OneSubmitting
    BY <1>1, <1>3 DEF OneSubmitting, SUBMITTING
  <1>5. Underway = {} /\ \A l \in Logs : request[l].pc # "checkStale"
    BY DEF Init, Underway, Idle
  <1> QED
    BY <1>3, <1>4, <1>5 DEF FreshInv

(* Only the execution that carries a log submits it.                       *)
LEMMA SubmittedIsConfirmed ==
  ASSUME Inv, FreshInv, DocsMove, NEW l \in Logs,
         Docs[l].status # SUBMITTED, (Docs[l].status)' = SUBMITTED
  PROVE  Docs[l].baseline = LatestSubmitted(Docs)
  <1>1. snapshots' # snapshots
    BY DEF Docs
  <1>2. MovesOn(l)
    BY <1>1 DEF DocsMove, MovesOn
  <1>3. PICK r \in Runs : run[r].pc = "finalise" /\ run[r].message.log = l
    BY <1>2 DEF MovesOn, Authorised
  <1>4. l \in Underway
    BY <1>3 DEF Underway, Inv, RunHolds
  <1>5. Docs[l].status = SUBMITTING
    BY <1>2, MovesFromSubmitting DEF MovesOn
  <1> QED
    BY <1>4, <1>5 DEF FreshInv, Confirmed

(* submit/post.js: a log is submitted only while the submission it was     *)
(* validated against is the latest of its registration, whatever fails,    *)
(* dies, outlasts its timeout, is delivered twice or expires between the   *)
(* check of it and the end of the submission: as long as the check reads   *)
(* what is stored.                                                         *)
THEOREM SubmissionsAreFresh ==
  ASSUME "lag" \notin Disturbances
  PROVE  Spec => SubmittedOnFreshBaseline
  <1>1. Init => Inv /\ FreshInv
    BY InvInit, FreshInit
  <1>2. Inv /\ FreshInv /\ [Next]_vars => Inv' /\ FreshInv'
    BY InvNext, FreshNext
  <1>3. Inv /\ FreshInv /\ [Next]_vars =>
          [\A l \in Logs :
             Docs[l].status # SUBMITTED /\ (Docs[l].status)' = SUBMITTED =>
               Docs[l].baseline = LatestSubmitted(Docs)]_vars
    BY InvNext, SubmittedIsConfirmed
  <1> QED
    BY <1>1, <1>2, <1>3, PTL DEF Spec, SubmittedOnFreshBaseline

-----------------------------------------------------------------------------
(* SummaryLogSubmission implements SummaryLogRepository: what requests and *)
(* executions store comes to the operations the contract tests ask of      *)
(* every adapter.  The times of submission are drawn from the largest that *)
(* is stored, so there are finitely many logs.                             *)

(* No two logs share a time of submission, and who is submitted has one.   *)
Dated(docs) ==
  /\ \A l \in Logs : docs[l].submittedAt \in Nat
  /\ \A l \in Logs : docs[l].status \in {SUBMITTING, SUBMITTED} => docs[l].submittedAt > 0
  /\ \A k, l \in Logs :
       docs[k].submittedAt = docs[l].submittedAt => k = l \/ docs[l].submittedAt = 0

DatedInv == Inv /\ Dated(Docs)

LEMMA NextTimeIsLater ==
  ASSUME IsFiniteSet(Logs), Logs # {}, Dated(Docs)
  PROVE  LET at == 1 + Max({Docs[k].submittedAt : k \in Logs})
         IN  at \in Nat /\ at > 0 /\ \A k \in Logs : Docs[k].submittedAt < at
  <1> DEFINE f == [k \in Logs |-> Docs[k].submittedAt]
             T == {Docs[k].submittedAt : k \in Logs}
  <1>1. \A k \in Logs : f[k] \in Nat
    BY DEF Dated
  <1>2. PICK x \in Logs : \A y \in Logs : f[y] <= f[x]
    <2> HIDE DEF f
    <2> QED BY <1>1, Greatest
  <1>3. T \subseteq Nat /\ f[x] \in T /\ \A t \in T : f[x] >= t
    BY <1>1, <1>2
  <1>4. \A k \in Logs : Docs[k].submittedAt \in T
    OBVIOUS
  <1> HIDE DEF T
  <1>5. Max(T) \in T /\ \A t \in T : Max(T) >= t
    BY <1>3 DEF Max
  <1>6. Max(T) \in Nat
    BY <1>3, <1>5
  <1>7. \A k \in Logs : Docs[k].submittedAt \in Nat /\ Docs[k].submittedAt <= Max(T)
    BY <1>4, <1>5 DEF Dated
  <1>8. /\ 1 + Max(T) \in Nat /\ 1 + Max(T) > 0
        /\ \A k \in Logs : Docs[k].submittedAt < 1 + Max(T)
    BY <1>6, <1>7
  <1> QED
    BY <1>8 DEF T

LEMMA DatedStays ==
  ASSUME IsFiniteSet(Logs), DatedInv, NEW l \in Logs, MovesOn(l)
  PROVE  Dated(Docs')
  <1>1. <<Docs[l].status, (Docs[l].status)'>> \in Moves
    BY DEF MovesOn
  <1>2. PICK docs : docs = Docs
    OBVIOUS
  <1>3. PICK then : then = Docs'
    OBVIOUS
  <1>4. Dated(docs) /\ \A k \in Logs \ {l} : then[k] = docs[k]
    BY <1>2, <1>3 DEF DatedInv, MovesOn
  <1>5. CASE /\ then[l].status \in {REJECTED, PREPROCESSING, VALIDATING}
             /\ then[l].submittedAt = 0
    BY <1>3, <1>4, <1>5 DEF Dated, REJECTED, PREPROCESSING, VALIDATING, SUBMITTING, SUBMITTED
  <1>6. CASE /\ then[l].status # SUBMITTING
             /\ then[l].submittedAt = docs[l].submittedAt
    <2>1. then[l].status = SUBMITTED => docs[l].status = SUBMITTING
      BY <1>1, <1>2, <1>3, MovesFromSubmitting
    <2> QED
      BY <1>3, <1>4, <1>6, <2>1 DEF Dated
  <1>7. CASE then[l].submittedAt = 1 + Max({docs[k].submittedAt : k \in Logs})
    <2>1. /\ then[l].submittedAt \in Nat /\ then[l].submittedAt > 0
          /\ \A k \in Logs : docs[k].submittedAt < then[l].submittedAt
      BY <1>2, <1>7, NextTimeIsLater DEF DatedInv
    <2> QED
      BY <1>3, <1>4, <2>1 DEF Dated
  <1>8. CASE then[l] = NoDocument("expired")
    BY <1>3, <1>4, <1>8 DEF Dated, NoDocument, SUBMITTING, SUBMITTED
  <1>9. Writes(l)
    BY DEF MovesOn
  <1> QED
    BY <1>2, <1>3, <1>5, <1>6, <1>7, <1>8, <1>9 DEF Writes

LEMMA DatedInvariance ==
  ASSUME IsFiniteSet(Logs)
  PROVE  Spec => []DatedInv
  <1>1. ASSUME Init PROVE DatedInv
    <2>1. Docs = [l \in Logs |-> NoDocument("none")]
      BY <1>1 DEF Init, Docs, Last
    <2>2. \A l \in Logs : Docs[l].submittedAt = 0 /\ Docs[l].status = "none"
      BY <2>1 DEF NoDocument
    <2> QED
      BY <1>1, <2>2, InvInit DEF DatedInv, Dated, SUBMITTING, SUBMITTED
  <1>2. ASSUME DatedInv, [Next]_vars PROVE DatedInv'
    <2>1. DocsMove /\ Inv'
      BY <1>2, InvNext DEF DatedInv
    <2>2. Dated(Docs')
      <3>1. CASE snapshots' = snapshots
        BY <1>2, <3>1 DEF DatedInv, Docs
      <3> QED
        BY <1>2, <2>1, <3>1, DatedStays DEF DocsMove
    <2>3. Dated(Docs)'
      BY <2>2 DEF Dated
    <2> QED
      BY <2>1, <2>3 DEF DatedInv
  <1> QED
    BY <1>1, <1>2, PTL DEF Spec

(* The latest submission is one, and only one has its time.                *)
LEMMA LatestIs ==
  ASSUME IsFiniteSet(Logs), NEW docs, Dated(docs), NEW x \in Logs,
         docs[x].status = SUBMITTED
  PROVE  /\ LatestSubmitted(docs) \in Logs
         /\ docs[LatestSubmitted(docs)].status = SUBMITTED
         /\ \A l \in Logs : docs[l].status = SUBMITTED =>
              docs[l].submittedAt <= docs[LatestSubmitted(docs)].submittedAt
         /\ \A l \in Logs :
              docs[l].status = SUBMITTED
                /\ docs[l].submittedAt >= docs[LatestSubmitted(docs)].submittedAt
                => l = LatestSubmitted(docs)
  <1> DEFINE S == {l \in Logs : docs[l].status = SUBMITTED}
             f == [l \in Logs |-> docs[l].submittedAt]
  <1>1. S # {} /\ IsFiniteSet(S) /\ S \subseteq Logs
    BY FS_Subset
  <1>2. \A l \in S : f[l] \in Nat /\ f[l] > 0
    BY DEF Dated
  <1>3. \E l \in S : \A k \in S : f[k] <= f[l]
    <2> HIDE DEF S, f
    <2> QED BY <1>1, <1>2, Greatest
  <1>4. \E l \in S : \A k \in S : docs[k].submittedAt <= docs[l].submittedAt
    BY <1>1, <1>3
  <1>5. LatestSubmitted(docs) =
          CHOOSE l \in S : \A k \in S : docs[k].submittedAt <= docs[l].submittedAt
    BY <1>1 DEF LatestSubmitted
  <1>6. /\ LatestSubmitted(docs) \in S
        /\ \A k \in S : docs[k].submittedAt <= docs[LatestSubmitted(docs)].submittedAt
    BY <1>4, <1>5
  <1> QED
    BY <1>2, <1>6 DEF Dated

(* What is stored has a version; the repository looks for the submitted    *)
(* logs that are stored, the service for the submitted ones.               *)
LEMMA LatestOfRepository ==
  Inv => /\ \A l \in Logs : Docs[l].version \in Nat
         /\ \A l \in Logs : Docs[l].version > 0 <=> Docs[l].status \notin {"none", "expired"}
         /\ Repository!SubmittedLogs = {l \in Logs : Docs[l].status = SUBMITTED}
         /\ Repository!FindLatestSubmitted = LatestSubmitted(Docs)
  <1> SUFFICES ASSUME Inv
               PROVE  /\ \A l \in Logs : Docs[l].version \in Nat
                      /\ \A l \in Logs :
                           Docs[l].version > 0 <=> Docs[l].status \notin {"none", "expired"}
                      /\ Repository!SubmittedLogs = {l \in Logs : Docs[l].status = SUBMITTED}
                      /\ Repository!FindLatestSubmitted = LatestSubmitted(Docs)
    OBVIOUS
  <1> DEFINE S == {l \in Logs : Docs[l].status = SUBMITTED}
  <1>1. \A l \in Logs : IsDocument(Docs[l])
    BY DocsReadable DEF Inv, IsCollection
  <1>2. Repository!SubmittedLogs = S
    BY <1>1 DEF Repository!SubmittedLogs, Repository!Stored, IsDocument, SUBMITTED
  <1>3. Repository!FindLatestSubmitted = LatestSubmitted(Docs)
    BY <1>2 DEF Repository!FindLatestSubmitted, LatestSubmitted
  <1> QED
    BY <1>1, <1>2, <1>3 DEF IsDocument

LEMMA LatestOfRepositoryNext ==
  Inv' => /\ \A l \in Logs : (Docs[l].version)' \in Nat
          /\ \A l \in Logs :
               (Docs[l].version)' > 0 <=> (Docs[l].status)' \notin {"none", "expired"}
          /\ Repository!SubmittedLogs' = {l \in Logs : (Docs[l].status)' = SUBMITTED}
          /\ Repository!FindLatestSubmitted' = LatestSubmitted(Docs')
  <1>1. (Inv => /\ \A l \in Logs : Docs[l].version \in Nat
                /\ \A l \in Logs : Docs[l].version > 0 <=> Docs[l].status \notin {"none", "expired"}
                /\ Repository!SubmittedLogs = {l \in Logs : Docs[l].status = SUBMITTED}
                /\ Repository!FindLatestSubmitted = LatestSubmitted(Docs))'
    BY LatestOfRepository, PTL
  <1>2. LatestSubmitted(Docs)' = LatestSubmitted(Docs')
    BY DEF LatestSubmitted
  <1> QED
    BY <1>1, <1>2

(* Every move but an expiry is a transition the contract lists.            *)
LEMMA MovesAreValid ==
  ASSUME NEW from, NEW to, <<from, to>> \in Moves, from # "none", to # "expired"
  PROVE  to \in Repository!VALID_TRANSITIONS[from]
  BY DEF Moves, Repository!VALID_TRANSITIONS, PREPROCESSING, REJECTED, VALIDATING,
     INVALID, VALIDATED, SUBMITTING, SUBMITTED, SUPERSEDED, VALIDATION_FAILED,
     SUBMISSION_FAILED

(* One document that moves on is one operation of the repository.          *)
LEMMA OneOperation ==
  ASSUME IsFiniteSet(Logs), DatedInv, Inv', NEW l \in Logs, MovesOn(l)
  PROVE  \/ Repository!Insert(l) \/ Repository!Update(l)
         \/ Repository!TransitionToSubmittingExclusive(l) \/ Repository!Expire(l)
  <1>1. <<Docs[l].status, (Docs[l].status)'>> \in Moves
    BY DEF MovesOn
  <1>2. /\ Docs[l].version \in Nat
        /\ Docs[l].version > 0 <=> Docs[l].status \notin {"none", "expired"}
    BY LatestOfRepository DEF DatedInv
  <1>3. CASE /\ Docs[l].status = "none"
             /\ (Docs[l].status)' \in {REJECTED, PREPROCESSING, VALIDATING}
             /\ (Docs[l].version)' = 1 /\ (Docs[l].submittedAt)' = 0
    BY <1>2, <1>3 DEF Repository!Insert, Repository!Stored, REJECTED, PREPROCESSING, VALIDATING
  <1>4. CASE /\ Docs[l].version > 0 /\ (Docs[l].version)' = Docs[l].version + 1
             /\ (Docs[l].baseline)' = Docs[l].baseline
    <2>1. Repository!VersionAdvances(l) /\ Repository!FieldsKept(l)
      BY <1>4 DEF Repository!VersionAdvances, Repository!FieldsKept, Repository!Stored
    <2>2. (Docs[l].status)' # "expired"
      BY <1>2, <1>4, LatestOfRepositoryNext
    <2>3. CASE /\ (Docs[l].status)' # SUBMITTING
               /\ (Docs[l].submittedAt)' = Docs[l].submittedAt
      <3>1. (Docs[l].status)' \in Repository!VALID_TRANSITIONS[Docs[l].status]
        BY <1>1, <1>2, <1>4, <2>2, MovesAreValid
      <3> QED
        BY <2>1, <2>3, <3>1 DEF Repository!Update, SUBMITTING
    <2>4. CASE /\ Docs[l].status = VALIDATED /\ (Docs[l].status)' = SUBMITTING
               /\ (Docs[l].submittedAt)' = 1 + Max({Docs[k].submittedAt : k \in Logs})
      <3>1. \A k \in Logs : Docs[k].submittedAt < (Docs[l].submittedAt)'
        BY <2>4, NextTimeIsLater DEF DatedInv
      <3>2. \A k \in Logs : Docs[k].status # SUBMITTING
        BY <2>4 DEF MovesOn, Authorised, NoneSubmitting, SUBMITTING, VALIDATED
      <3> QED
        BY <2>1, <2>4, <3>1, <3>2 DEF Repository!TransitionToSubmittingExclusive,
           SUBMITTING, VALIDATED
    <2>5. Writes(l)
      BY DEF MovesOn
    <2> QED
      BY <1>2, <1>4, <2>2, <2>3, <2>4, <2>5 DEF Writes, NoDocument
  <1>5. CASE Docs[l].version > 0 /\ (Docs[l])' = NoDocument("expired")
    <2>1. Docs[l].status # SUBMITTED
      BY <1>1, MovesFromSubmitting
    <2> QED
      BY <1>5, <2>1 DEF Repository!Expire, Repository!Stored, Repository!NeverExpires,
         NoDocument, SUBMITTED
  <1>6. Writes(l)
    BY DEF MovesOn
  <1> QED
    BY <1>3, <1>4, <1>5, <1>6 DEF Writes

(* Who becomes submitted was submitting, and nobody else changes.          *)
LEMMA SubmittedGrow ==
  ASSUME Inv, Inv', NEW l \in Logs, MovesOn(l)
  PROVE  /\ l \notin Repository!SubmittedLogs
         /\ Repository!SubmittedLogs' =
              IF (Docs[l].status)' = SUBMITTED THEN Repository!SubmittedLogs \cup {l}
              ELSE Repository!SubmittedLogs
         /\ (Docs[l].status)' = SUBMITTED => Docs[l].status = SUBMITTING
  <1>1. /\ Docs[l].status # SUBMITTED
        /\ (Docs[l].status)' = SUBMITTED => Docs[l].status = SUBMITTING
    BY MovesFromSubmitting DEF MovesOn
  <1>2. \A k \in Logs \ {l} : (Docs[k].status)' = Docs[k].status
    BY DEF MovesOn
  <1>3. /\ Repository!SubmittedLogs = {k \in Logs : Docs[k].status = SUBMITTED}
        /\ Repository!SubmittedLogs' = {k \in Logs : (Docs[k].status)' = SUBMITTED}
    BY LatestOfRepository, LatestOfRepositoryNext
  <1> QED
    BY <1>1, <1>2, <1>3

(* The latest submission stays, or is the log just submitted.              *)
LEMMA LatestAdvances ==
  ASSUME IsFiniteSet(Logs), DatedInv, Inv', Dated(Docs'), NEW l \in Logs, MovesOn(l)
  PROVE  /\ LatestSubmitted(Docs') \in {LatestSubmitted(Docs), l}
         /\ \A k \in Logs : Docs[k].status = SUBMITTED =>
              Docs[k].submittedAt <= Docs'[LatestSubmitted(Docs')].submittedAt
         /\ \A k \in Logs : Docs'[k].status # SUBMITTED => Docs[k].status # SUBMITTED
  <1>1. PICK docs : docs = Docs
    OBVIOUS
  <1>2. PICK then : then = Docs'
    OBVIOUS
  <1>3. /\ Dated(docs) /\ Dated(then)
        /\ \A k \in Logs \ {l} : then[k] = docs[k]
        /\ docs[l].status # SUBMITTED
    BY <1>1, <1>2, MovesFromSubmitting DEF DatedInv, MovesOn
  <1>4. CASE \E x \in Logs : then[x].status = SUBMITTED
    <2> DEFINE y == LatestSubmitted(then)
    <2>1. /\ y \in Logs /\ then[y].status = SUBMITTED
          /\ \A k \in Logs : then[k].status = SUBMITTED =>
               then[k].submittedAt <= then[y].submittedAt
      BY <1>3, <1>4, LatestIs
    <2> HIDE DEF y
    <2>2. CASE y # l
      <3>1. docs[y].status = SUBMITTED /\ docs[y] = then[y]
        BY <1>3, <2>1, <2>2
      <3>2. /\ LatestSubmitted(docs) \in Logs
            /\ docs[LatestSubmitted(docs)].status = SUBMITTED
            /\ \A k \in Logs :
                 docs[k].status = SUBMITTED
                   /\ docs[k].submittedAt >= docs[LatestSubmitted(docs)].submittedAt
                   => k = LatestSubmitted(docs)
        BY <1>3, <2>1, <3>1, LatestIs
      <3>3. docs[LatestSubmitted(docs)] = then[LatestSubmitted(docs)]
        BY <1>3, <3>2
      <3>4. docs[y].submittedAt >= docs[LatestSubmitted(docs)].submittedAt
        BY <1>3, <2>1, <3>1, <3>2, <3>3 DEF Dated
      <3>5. y = LatestSubmitted(docs)
        BY <2>1, <3>1, <3>2, <3>4
      <3> QED
        BY <1>1, <1>2, <1>3, <2>1, <3>5 DEF y
    <2>3. CASE y = l
      BY <1>1, <1>2, <1>3, <2>1, <2>3 DEF y
    <2> QED
      BY <2>2, <2>3
  <1>5. CASE ~ \E x \in Logs : then[x].status = SUBMITTED
    <2>1. ~ \E x \in Logs : docs[x].status = SUBMITTED
      BY <1>3, <1>5
    <2>2. LatestSubmitted(docs) = NoPrior /\ LatestSubmitted(then) = NoPrior
      BY <1>5, <2>1 DEF LatestSubmitted
    <2> QED
      BY <1>1, <1>2, <2>1, <2>2
  <1> QED
    BY <1>4, <1>5

LEMMA OneListed ==
  ASSUME IsFiniteSet(Logs), DatedInv, Inv', Dated(Docs'), NEW l \in Logs, MovesOn(l)
  PROVE  Repository!Lists(l)
  <1>1. \A k \in Logs \ {l} : (Docs[k])' = Docs[k]
    BY DEF MovesOn
  <1>2. /\ Repository!FindAllByOrgReg' \subseteq Repository!FindAllByOrgReg \cup {l}
        /\ Repository!FindAllByOrgReg \subseteq Repository!FindAllByOrgReg' \cup {l}
    BY <1>1 DEF Repository!FindAllByOrgReg, Repository!Stored
  <1>3. Repository!FindLatestSubmitted' \in {Repository!FindLatestSubmitted, l}
    BY LatestAdvances, LatestOfRepository, LatestOfRepositoryNext DEF DatedInv
  <1> QED
    BY <1>2, <1>3 DEF Repository!Lists

LEMMA SameCardinality == \A S : Repository!Cardinality(S) = Cardinality(S)
  BY DEF Cardinality, Repository!Cardinality

(* A success is counted once, as a failure never was one.                  *)
LEMMA OneCounted ==
  ASSUME IsFiniteSet(Logs), DatedInv, Inv', Dated(Docs'), NEW l \in Logs, MovesOn(l)
  PROVE  Repository!Counts
  <1> DEFINE S == Repository!SubmittedLogs
             F == Repository!FailedLogs
  <1>1. S \subseteq Logs /\ F \subseteq Logs /\ IsFiniteSet(S) /\ IsFiniteSet(F)
    BY FS_Subset DEF Repository!SubmittedLogs, Repository!FailedLogs
  <1>2. Cardinality(S) \in Nat /\ Cardinality(F) \in Nat
    BY <1>1, FS_CardinalityType
  <1>3. \A k \in Logs \ {l} : (Docs[k])' = Docs[k]
    BY DEF MovesOn
  <1>4. /\ F' \subseteq F \cup {l} /\ F \subseteq F' \cup {l} /\ l \in Logs
    BY <1>3 DEF Repository!FailedLogs, Repository!Stored
  <1>5. F' = F \/ F' = F \cup {l} \/ F' = F \ {l}
    BY <1>4
  <1>6. /\ l \notin S
        /\ S' = IF (Docs[l].status)' = SUBMITTED THEN S \cup {l} ELSE S
        /\ (Docs[l].status)' = SUBMITTED => Docs[l].status = SUBMITTING
    BY SubmittedGrow DEF DatedInv
  <1>7. (Docs[l].status)' = SUBMITTED => F' = F
    <2> SUFFICES ASSUME (Docs[l].status)' = SUBMITTED PROVE F' = F
      OBVIOUS
    <2>1. l \notin F /\ l \notin F'
      BY <1>6 DEF Repository!FailedLogs, Repository!SUMMARY_LOG_FAILURE_STATUS, SUBMITTING, SUBMITTED
    <2> QED
      BY <1>5, <2>1
  <1>8. /\ Repository!LastSuccessful' >= Repository!LastSuccessful
    <2>1. /\ S = {k \in Logs : Docs[k].status = SUBMITTED}
          /\ S' = {k \in Logs : (Docs[k].status)' = SUBMITTED}
          /\ Repository!FindLatestSubmitted = LatestSubmitted(Docs)
          /\ Repository!FindLatestSubmitted' = LatestSubmitted(Docs')
      BY LatestOfRepository, LatestOfRepositoryNext DEF DatedInv
    <2>2. Repository!LastSuccessful =
            IF S = {} THEN 0 ELSE Docs[LatestSubmitted(Docs)].submittedAt
      BY <2>1 DEF Repository!LastSuccessful
    <2>3. Repository!LastSuccessful' =
            IF S' = {} THEN 0 ELSE Docs'[LatestSubmitted(Docs')].submittedAt
      BY <2>1 DEF Repository!LastSuccessful
    <2>4. S \subseteq S'
      BY <1>6
    <2>5. CASE S' # {}
      <3>1. PICK then : then = Docs'
        OBVIOUS
      <3>2. PICK x \in Logs : then[x].status = SUBMITTED
        BY <2>1, <2>5, <3>1
      <3>3. Dated(then)
        BY <3>1
      <3>4. LatestSubmitted(then) \in Logs
        BY <3>2, <3>3, LatestIs
      <3>5. then[LatestSubmitted(then)].submittedAt \in Nat
        BY <3>3, <3>4 DEF Dated
      <3>6. CASE S = {}
        BY <2>2, <2>3, <2>5, <3>1, <3>5, <3>6
      <3>7. CASE S # {}
        <4>1. PICK docs : docs = Docs
          OBVIOUS
        <4>2. PICK y \in Logs : docs[y].status = SUBMITTED
          BY <2>1, <3>7, <4>1
        <4>3. LatestSubmitted(docs) \in Logs /\ docs[LatestSubmitted(docs)].status = SUBMITTED
          BY <4>1, <4>2, LatestIs DEF DatedInv
        <4>4. docs[LatestSubmitted(docs)].submittedAt \in Nat
          BY <4>1, <4>3 DEF Dated, DatedInv
        <4>5. docs[LatestSubmitted(docs)].submittedAt <= then[LatestSubmitted(then)].submittedAt
          BY <3>1, <4>1, <4>3, LatestAdvances
        <4> QED
          BY <2>2, <2>3, <2>5, <3>1, <3>5, <3>7, <4>1, <4>4, <4>5
      <3> QED
        BY <3>6, <3>7
    <2> QED
      BY <2>2, <2>3, <2>4, <2>5
  <1>9. CASE (Docs[l].status)' = SUBMITTED
    <2>1. Cardinality(S') = Cardinality(S) + 1 /\ Cardinality(F') = Cardinality(F)
      BY <1>1, <1>6, <1>7, <1>9, FS_AddElement
    <2> QED
      BY <1>8, <2>1, SameCardinality DEF Repository!Counts, Repository!FindAllSummaryLogStats
  <1>10. CASE (Docs[l].status)' # SUBMITTED
    <2>1. Cardinality(S') = Cardinality(S)
      BY <1>6, <1>10
    <2>2. Cardinality(F') \in (Cardinality(F) - 1)..(Cardinality(F) + 1)
      <3>1. CASE F' = F
        BY <1>2, <3>1
      <3>2. CASE F' = F \cup {l}
        <4>1. Cardinality(F \cup {l}) \in {Cardinality(F), Cardinality(F) + 1}
          <5> HIDE DEF F
          <5> QED BY <1>1, FS_AddElement
        <4> QED
          BY <1>2, <3>2, <4>1
      <3>3. CASE F' = F \ {l}
        <4>1. Cardinality(F \ {l}) \in {Cardinality(F), Cardinality(F) - 1}
          <5> HIDE DEF F
          <5> QED BY <1>1, FS_RemoveElement
        <4> QED
          BY <1>2, <3>3, <4>1
      <3> QED
        BY <1>5, <3>1, <3>2, <3>3
    <2> QED
      BY <1>8, <2>1, <2>2, SameCardinality DEF Repository!Counts, Repository!FindAllSummaryLogStats
  <1> QED
    BY <1>9, <1>10

(* The repository of summary logs keeps its contract whatever the routes   *)
(* and the worker do at once, for any disturbances: no transition that is  *)
(* not listed, no second submitting log, no field lost, the latest         *)
(* submission the one submitted last, each success counted once.           *)
THEOREM SubmissionHonoursContract ==
  ASSUME IsFiniteSet(Logs)
  PROVE  Spec => HonoursContract
  <1>1. ASSUME Init PROVE Repository!Init
    <2>1. Docs = [l \in Logs |-> NoDocument("none")]
      BY <1>1 DEF Init, Docs, Last
    <2> QED
      BY <2>1 DEF Repository!Init, Repository!Stored, NoDocument
  <1>2. ASSUME DatedInv, DatedInv', [Next]_vars
        PROVE  [Repository!Next]_Docs
    <2>1. DocsMove /\ Inv' /\ Dated(Docs')
      <3>1. Dated(Docs)'
        BY <1>2 DEF DatedInv
      <3> QED
        BY <1>2, <3>1, InvNext DEF DatedInv, Dated
    <2>2. CASE snapshots' = snapshots
      BY <2>2 DEF Docs
    <2>3. ASSUME NEW l \in Logs, MovesOn(l)
          PROVE  Repository!Next
      <3>1. Repository!Others(l)
        BY <2>3 DEF MovesOn, Repository!Others
      <3> QED
        BY <1>2, <2>1, <2>3, <3>1, OneOperation, OneListed, OneCounted DEF Repository!Next
    <2> QED
      BY <2>1, <2>2, <2>3 DEF DocsMove
  <1>3. Spec => []DatedInv
    BY DatedInvariance
  <1> QED
    BY <1>1, <1>2, <1>3, PTL DEF Spec, HonoursContract, Repository!Spec
=============================================================================
