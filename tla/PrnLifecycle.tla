---------------------------- MODULE PrnLifecycle ----------------------------
(***************************************************************************)
(* The lifecycle of packaging recycling notes on one waste balance         *)
(* (packaging-recycling-notes/application, domain, repository, routes).    *)
(*                                                                         *)
(* A transition is event first: the PRN is read, its command appended to   *)
(* the ledger, the event folded onto the PRN as read, and the whole        *)
(* document replaced if its version has not moved.  Nothing is compensated:*)
(* a document left behind is brought up to date when it is next projected. *)
(*                                                                         *)
(* The fold, decision and insertion of a ledger command are one step here, *)
(* taken at the head of the ledger or refused, which is what               *)
(* WasteBalanceLedgerProofs!DecisionsAreAtHead establishes of them.        *)
(***************************************************************************)
EXTENDS LedgerBalance, SequencesExt

CONSTANTS
  PRNs,           \* packaging recycling notes
  Requests,       \* HTTP requests in flight
  PrnAmounts,     \* tonnages a PRN may carry
  Credit,         \* credit total of the summary log that opened the ledger
  NumberBases,    \* random parts a PRN number may draw
  SuffixAttempts, \* PRN numbers tried before issuance gives up
  MaxEvents,      \* bound: no event is appended beyond this many
  Disturbances    \* what the environment does besides serving requests

ASSUME PrnAssumption == "none" \notin PRNs
ASSUME TonnageAssumption == PrnAmounts \subseteq Nat \ {0} /\ Credit \in Nat
ASSUME BoundAssumption == SuffixAttempts \in Nat \ {0} /\ MaxEvents \in Nat

(* "failure": a process dies or a database call fails.  "race": two        *)
(* requests work on one PRN at once.  "lag": reads are answered by a       *)
(* secondary that is behind.  "regulator": the accreditation's status is   *)
(* changed.                                                                *)
ASSUME DisturbanceAssumption ==
  Disturbances \subseteq {"failure", "race", "lag", "regulator"}

VARIABLES
  ledger,         \* events of the balance; an event's number is its position
  docs,           \* docs[p]: the versions of the document of p, the last current
  req,            \* req[r]: the locals of request r
  accreditation   \* status of the accreditation that owns the balance

vars == <<ledger, docs, req, accreditation>>

-----------------------------------------------------------------------------
(* Statuses, actors and transitions.                                       *)

DRAFT                  == "draft"
AWAITING_AUTHORISATION == "awaiting_authorisation"
AWAITING_ACCEPTANCE    == "awaiting_acceptance"
ACCEPTED               == "accepted"
AWAITING_CANCELLATION  == "awaiting_cancellation"
CANCELLED              == "cancelled"
DELETED                == "deleted"
DISCARDED              == "discarded"

PRN_STATUS == { DRAFT, AWAITING_AUTHORISATION, AWAITING_ACCEPTANCE, ACCEPTED,
                AWAITING_CANCELLATION, CANCELLED, DELETED, DISCARDED }

REPROCESSOR_EXPORTER == "reprocessor_exporter"
SIGNATORY            == "signatory"
PRODUCER             == "producer"

PRN_STATUS_TRANSITIONS ==
  { <<DRAFT, AWAITING_AUTHORISATION, REPROCESSOR_EXPORTER>>,
    <<DRAFT, DISCARDED, REPROCESSOR_EXPORTER>>,
    <<AWAITING_AUTHORISATION, AWAITING_ACCEPTANCE, SIGNATORY>>,
    <<AWAITING_AUTHORISATION, DELETED, SIGNATORY>>,
    <<AWAITING_ACCEPTANCE, ACCEPTED, PRODUCER>>,
    <<AWAITING_ACCEPTANCE, AWAITING_CANCELLATION, PRODUCER>>,
    <<AWAITING_CANCELLATION, CANCELLED, SIGNATORY>> }

ValidTransition(from, to, actor) == <<from, to, actor>> \in PRN_STATUS_TRANSITIONS

(* Who the caller of the internal route must be, given the status read.    *)
INTERNAL_ACTOR_BY_STATUS(status) ==
  CASE status = DRAFT -> REPROCESSOR_EXPORTER
    [] status \in {AWAITING_AUTHORISATION, AWAITING_CANCELLATION} -> SIGNATORY
    [] OTHER -> "none"

(* Variant for mutation runs: the completed cancellation of an issued PRN  *)
(* credits like the deletion of a pending one.                             *)
CancelledLikeDeleted(from, to) ==
  CASE <<from, to>> = <<DRAFT, AWAITING_AUTHORISATION>> -> PRN_CREATED
    [] <<from, to>> = <<AWAITING_AUTHORISATION, AWAITING_ACCEPTANCE>> -> PRN_ISSUED
    [] <<from, to>> = <<AWAITING_ACCEPTANCE, ACCEPTED>> -> PRN_ACCEPTED
    [] <<from, to>> = <<AWAITING_ACCEPTANCE, AWAITING_CANCELLATION>> -> PRN_REJECTED
    [] to \in {DELETED, CANCELLED} -> PRN_CREATION_CANCELLED

(* The event each transition appends, which is also the status it projects.*)
TRANSITION_TO_COMMAND(from, to) ==
  CASE <<from, to>> = <<DRAFT, AWAITING_AUTHORISATION>> -> PRN_CREATED
    [] <<from, to>> = <<AWAITING_AUTHORISATION, AWAITING_ACCEPTANCE>> -> PRN_ISSUED
    [] <<from, to>> = <<AWAITING_ACCEPTANCE, ACCEPTED>> -> PRN_ACCEPTED
    [] <<from, to>> = <<AWAITING_ACCEPTANCE, AWAITING_CANCELLATION>> -> PRN_REJECTED
    [] <<from, to>> = <<AWAITING_AUTHORISATION, DELETED>> -> PRN_CREATION_CANCELLED
    [] <<from, to>> = <<AWAITING_CANCELLATION, CANCELLED>> -> PRN_CANCELLED_AFTER_ISSUE

LEDGER_EVENT_KIND_TO_PRN_STATUS(kind) ==
  CASE kind = PRN_CREATED -> AWAITING_AUTHORISATION
    [] kind = PRN_ISSUED -> AWAITING_ACCEPTANCE
    [] kind = PRN_ACCEPTED -> ACCEPTED
    [] kind = PRN_REJECTED -> AWAITING_CANCELLATION
    [] kind = PRN_CREATION_CANCELLED -> DELETED
    [] kind = PRN_CANCELLED_AFTER_ISSUE -> CANCELLED

-----------------------------------------------------------------------------
(* Documents, events and the locals of a request.                          *)

(* A PRN number is a random part and the suffix of the attempt that drew   *)
(* it; watermark is lastAppliedEventNumber, 0 when absent.                 *)
NoNumber == <<0, 0>>
PrnNumber == {NoNumber} \cup (NumberBases \X (1..SuffixAttempts))

PrnDocument == [status : PRN_STATUS, tonnage : PrnAmounts, number : PrnNumber,
                watermark : 0..MaxEvents, history : Seq(PRN_STATUS)]

Event == [kind : EventKinds, prn : PRNs \cup {"none"}, closing : BalanceSnapshot]

Phases == {"idle", "readTail", "checkAccreditation", "append", "persist", "discard"}

(* A request is idle or works on a PRN: the document it read, projected or *)
(* not, the version of that document and the status asked for.             *)
IdleRequest == [pc |-> "idle"]

ActiveRequest == [pc : Phases \ {"idle"}, prn : PRNs, doc : PrnDocument,
                  version : Nat \ {0}, target : PRN_STATUS,
                  attempt : 1..SuffixAttempts]

TypeOK ==
  /\ ledger \in Seq(Event)
  /\ docs \in [PRNs -> Seq(PrnDocument)]
  /\ req \in [Requests -> {IdleRequest} \cup ActiveRequest]
  /\ accreditation \in {"approved", "suspended", "cancelled"}

Exists(p) == docs[p] # <<>>
Current(p) == Last(docs[p])

Balance == Last(ledger).closing

(* The events of p numbered after a watermark, among the first n.          *)
TailNumbers(p, watermark, n) ==
  {i \in (watermark + 1)..n : ledger[i].prn = p}

(* Variant: a fold that forgets to advance lastAppliedEventNumber.         *)
ApplyEventKeepingWatermark(doc, number, kind) ==
  LET status == LEDGER_EVENT_KIND_TO_PRN_STATUS(kind)
  IN  [doc EXCEPT !.status = status, !.history = Append(@, status)]

(* Variant: the status of the event does not reach the PRN.                *)
ApplyEventKeepingStatus(doc, number, kind) ==
  [doc EXCEPT !.watermark = number, !.history = Append(@, doc.status)]

(* foldPrnFromTailEvents: each event moves the status, the watermark and   *)
(* the history; the version and the number are left alone.                 *)
ApplyEvent(doc, number, kind) ==
  LET status == LEDGER_EVENT_KIND_TO_PRN_STATUS(kind)
  IN  [doc EXCEPT !.status = status,
                  !.watermark = number,
                  !.history = Append(@, status)]

(* Variant: events folded latest first, a tail query without its sort.     *)
FoldTailBackwards(doc, numbers) ==
  FoldLeft(LAMBDA d, i : ApplyEvent(d, i, ledger[i].kind),
           doc, SetToSortSeq(numbers, >))

(* The events with these numbers, folded onto the document in their order. *)
FoldTail(doc, numbers) ==
  LET fold[n \in 0..Len(ledger)] ==
        IF n = 0 THEN doc
        ELSE IF n \in numbers THEN ApplyEvent(fold[n - 1], n, ledger[n].kind)
        ELSE fold[n - 1]
  IN  fold[Len(ledger)]

(* projectFromStreamTail: a deleted PRN is returned as it is.              *)
ProjectFromStreamTail(p, doc, n) ==
  IF doc.status = DELETED THEN doc
                          ELSE FoldTail(doc, TailNumbers(p, doc.watermark, n))

-----------------------------------------------------------------------------
(* Environment.                                                            *)

(* The versions of a document, and the ledger prefixes, a read may return. *)
ReadableVersions(p) ==
  IF "lag" \in Disturbances THEN 1..Len(docs[p]) ELSE {Len(docs[p])} \ {0}

ReadablePrefixes ==
  IF "lag" \in Disturbances THEN 1..Len(ledger) ELSE {Len(ledger)}

(* A request may start work on p.                                          *)
MayWorkOn(p) ==
  \/ "race" \in Disturbances
  \/ \A r \in Requests : req[r].pc # "idle" => req[r].prn # p

Become(r, o) == req' = [req EXCEPT ![r] = o]

Stop(r) == Become(r, IdleRequest)

Init ==
  /\ ledger = << [kind |-> SUMMARY_LOG_SUBMITTED, prn |-> "none",
                  closing |-> ClosingForSummaryLogSubmitted(ZERO_BALANCE, Credit, 0)] >>
  /\ docs = [p \in PRNs |-> <<>>]
  /\ req = [r \in Requests |-> IdleRequest]
  /\ accreditation = "approved"

-----------------------------------------------------------------------------
(* The requests.                                                           *)

(* POST packaging-recycling-notes: a draft, on any accreditation that is   *)
(* not cancelled.                                                          *)
Post(p) ==
  /\ ~Exists(p)
  /\ accreditation # "cancelled"
  /\ \E a \in PrnAmounts :
       docs' = [docs EXCEPT ![p] =
                  << [status |-> DRAFT, tonnage |-> a, number |-> NoNumber,
                      watermark |-> 0, history |-> <<DRAFT>>] >>]
  /\ UNCHANGED <<ledger, req, accreditation>>

(* Where the write of a validated transition starts: a discarded draft is  *)
(* stamped, an issuance looks at the accreditation before the ledger.      *)
FirstWriteStep(from, to) ==
  CASE <<from, to>> = <<DRAFT, DISCARDED>> -> "discard"
    [] to = AWAITING_ACCEPTANCE -> "checkAccreditation"
    [] OTHER -> "append"

(* POST .../{id}/status: the document is read as it is stored, without the *)
(* events after its watermark; an invalid transition ends the request.     *)
InternalRead(r) ==
  /\ req[r].pc = "idle"
  /\ \E p \in PRNs, to \in PRN_STATUS :
       \E v \in ReadableVersions(p) :
         LET doc == docs[p][v]
         IN  /\ MayWorkOn(p)
             /\ ValidTransition(doc.status, to, INTERNAL_ACTOR_BY_STATUS(doc.status))
             /\ Become(r, [pc |-> FirstWriteStep(doc.status, to), prn |-> p,
                           doc |-> doc, version |-> v, target |-> to, attempt |-> 1])
  /\ UNCHANGED <<ledger, docs, accreditation>>

(* POST packaging-recycling-notes/{prnNumber}/accept and /reject: the PRN  *)
(* is found by its number ...                                              *)
ExternalRead(r) ==
  /\ req[r].pc = "idle"
  /\ \E p \in PRNs, to \in {ACCEPTED, AWAITING_CANCELLATION} :
       \E v \in ReadableVersions(p) :
         /\ MayWorkOn(p)
         /\ docs[p][v].number # NoNumber
         /\ Become(r, [pc |-> "readTail", prn |-> p, doc |-> docs[p][v],
                       version |-> v, target |-> to, attempt |-> 1])
  /\ UNCHANGED <<ledger, docs, accreditation>>

(* ... and projected from the events after its watermark.                  *)
ReadTail(r) ==
  /\ req[r].pc = "readTail"
  /\ \E n \in ReadablePrefixes :
       LET doc == ProjectFromStreamTail(req[r].prn, req[r].doc, n)
       IN  IF ValidTransition(doc.status, req[r].target, PRODUCER)
           THEN Become(r, [req[r] EXCEPT !.pc = "append", !.doc = doc])
           ELSE Stop(r)
  /\ UNCHANGED <<ledger, docs, accreditation>>

(* assertAccreditationCanIssue.                                            *)
CheckAccreditation(r) ==
  /\ req[r].pc = "checkAccreditation"
  /\ IF accreditation \in {"suspended", "cancelled"}
     THEN Stop(r)
     ELSE Become(r, [req[r] EXCEPT !.pc = "append"])
  /\ UNCHANGED <<ledger, docs, accreditation>>

(* applyPrnBalanceCommand: an insufficient balance ends the request, else  *)
(* the event is committed and folded onto the PRN as it was read.          *)
AppendEvent(r) ==
  /\ req[r].pc = "append"
  /\ Len(ledger) < MaxEvents
  /\ LET o      == req[r]
         kind   == TRANSITION_TO_COMMAND(o.doc.status, o.target)
         amount == o.doc.tonnage
     IN  IF Sufficient(Balance, kind, amount)
         THEN /\ ledger' = Append(ledger,
                    [kind |-> kind, prn |-> o.prn,
                     closing |-> ClosingForPrn(Balance, kind, amount)])
              /\ Become(r, [o EXCEPT !.pc = "persist",
                                     !.doc = ApplyEvent(@, Len(ledger) + 1, kind)])
         ELSE Stop(r) /\ UNCHANGED ledger
  /\ UNCHANGED <<docs, accreditation>>

(* Another writer of the ledger took the slot: LedgerSlotConflictError.    *)
AppendConflict(r) ==
  /\ req[r].pc = "append"
  /\ Stop(r)
  /\ UNCHANGED <<ledger, docs, accreditation>>

(* Variant: a replacement filtered by the watermark alone.                 *)
MatchesWatermarkOnly(o) == o.doc.watermark >= Current(o.prn).watermark

(* The compare-and-set of persistProjection and updateStatus: the stored   *)
(* version is the one read, the watermark does not move back.              *)
Matches(o) ==
  /\ o.version = Len(docs[o.prn])
  /\ o.doc.watermark >= Current(o.prn).watermark

(* Variant: an index on prnNumber that is not unique.                      *)
NumberNeverTaken(p, number) == FALSE

(* Unique index on prnNumber.                                              *)
NumberTaken(p, number) ==
  \E q \in PRNs \ {p} : Exists(q) /\ Current(q).number = number

Replace(p, doc) == docs' = [docs EXCEPT ![p] = Append(@, doc)]

(* persistProjection; a version conflict is the caller's, the event stays. *)
Persist(r) ==
  /\ req[r].pc = "persist"
  /\ req[r].target # AWAITING_ACCEPTANCE
  /\ IF Matches(req[r]) THEN Replace(req[r].prn, req[r].doc) ELSE UNCHANGED docs
  /\ Stop(r)
  /\ UNCHANGED <<ledger, accreditation>>

(* Variant: a collision ends the issuance.                                 *)
NeverRetried(attempt) == FALSE

(* Another suffix is left after this attempt.                              *)
RetriesLeft(attempt) == attempt < SuffixAttempts

(* persistProjectionWithIssuanceRetry: a number drawn per attempt, the     *)
(* next suffix tried when it is taken, an error after the last one.        *)
PersistIssued(r) ==
  /\ req[r].pc = "persist"
  /\ req[r].target = AWAITING_ACCEPTANCE
  /\ \E base \in NumberBases :
       LET o      == req[r]
           number == <<base, o.attempt>>
       IN  \/ /\ ~Matches(o)
              /\ Stop(r) /\ UNCHANGED docs
           \/ /\ Matches(o) /\ ~NumberTaken(o.prn, number)
              /\ Replace(o.prn, [o.doc EXCEPT !.number = number])
              /\ Stop(r)
           \/ /\ Matches(o) /\ NumberTaken(o.prn, number)
              /\ IF RetriesLeft(o.attempt)
                 THEN Become(r, [o EXCEPT !.attempt = @ + 1])
                 ELSE Stop(r)
              /\ UNCHANGED docs
  /\ UNCHANGED <<ledger, accreditation>>

(* updateStatus of a discarded draft, which has no event.                  *)
Discard(r) ==
  /\ req[r].pc = "discard"
  /\ LET o == req[r]
     IN  IF Matches(o)
         THEN Replace(o.prn, [Current(o.prn) EXCEPT
                                !.status = o.target,
                                !.history = Append(@, o.target)])
         ELSE UNCHANGED docs
  /\ Stop(r)
  /\ UNCHANGED <<ledger, accreditation>>

(* The process dies, or the next database call fails.                      *)
Fail(r) ==
  /\ "failure" \in Disturbances
  /\ req[r].pc # "idle"
  /\ Stop(r)
  /\ UNCHANGED <<ledger, docs, accreditation>>

(* A regulator suspends, reinstates or cancels the accreditation, or       *)
(* cancels it with its registration.  "approved" stands for every status   *)
(* that leaves issuing open.                                               *)
AccreditationTransitions ==
  { <<"approved", "suspended">>, <<"suspended", "approved">>,
    <<"suspended", "cancelled">>, <<"cancelled", "approved">>,
    <<"approved", "cancelled">> }

ChangeAccreditation ==
  /\ "regulator" \in Disturbances
  /\ \E t \in AccreditationTransitions :
       accreditation = t[1] /\ accreditation' = t[2]
  /\ UNCHANGED <<ledger, docs, req>>

Next ==
  \/ \E p \in PRNs : Post(p)
  \/ \E r \in Requests :
       \/ InternalRead(r)
       \/ ExternalRead(r)
       \/ ReadTail(r)
       \/ CheckAccreditation(r)
       \/ AppendEvent(r)
       \/ AppendConflict(r)
       \/ Persist(r)
       \/ PersistIssued(r)
       \/ Discard(r)
       \/ Fail(r)
  \/ ChangeAccreditation

Spec == Init /\ [][Next]_vars

-----------------------------------------------------------------------------
(* Properties that hold whatever the environment does.                     *)

(* performPersistProjection: a document is replaced as a whole by one that *)
(* was built from a read of it, so a lost update would erase a transition  *)
(* somebody was told about.  Whatever races, a stored history only grows,  *)
(* and the number a producer was given stays: of two issuances of one PRN, *)
(* each drawing its own number, only one is ever stored.                   *)
HistoryOnlyGrows ==
  [][\A p \in PRNs : Exists(p) =>
       /\ IsPrefix(Current(p).history, (Current(p).history)')
       /\ (Current(p).number)' # Current(p).number => Current(p).number = NoNumber]_vars

(* The projection of a PRN as it stands: stored document and whole ledger. *)
Projected(p) == ProjectFromStreamTail(p, Current(p), Len(ledger))

EventsOf(p) == TailNumbers(p, 0, Len(ledger))

(* get-projected-prn.js: however many documents were left behind by failed *)
(* or refused writes, folding the tail onto what is stored ends in the     *)
(* status of the PRN's last event, unless a deletion was stored.           *)
CatchUpReachesLedger ==
  \A p \in PRNs : Exists(p) /\ EventsOf(p) # {} =>
    \/ Current(p).status = DELETED
    \/ LET last == CHOOSE i \in EventsOf(p) : \A j \in EventsOf(p) : j <= i
       IN  Projected(p).status = LEDGER_EVENT_KIND_TO_PRN_STATUS(ledger[last].kind)

(* Every stored document is well-typed and the fold of events of its own,  *)
(* up to its watermark: the event at the watermark is one of the PRN's and *)
(* set the status, unless the draft was discarded beside it.               *)
WatermarkNamesOwnEvent ==
  /\ TypeOK
  /\ \A p \in PRNs : \A v \in 1..Len(docs[p]) :
       LET doc == docs[p][v]
       IN  IF doc.watermark = 0
           THEN doc.status \in {DRAFT, DISCARDED}
           ELSE /\ doc.watermark \in EventsOf(p)
                /\ doc.status = LEDGER_EVENT_KIND_TO_PRN_STATUS(ledger[doc.watermark].kind)

(* repository/contract: the documents, whichever requests wrote them from  *)
(* whichever reads, behave as the repository's contract promises.          *)
Repository ==
  INSTANCE PrnRepository WITH
    prns <- [p \in PRNs |->
               IF Exists(p)
               THEN [version   |-> Len(docs[p]),      status |-> Current(p).status,
                     history   |-> Current(p).history, number |-> Current(p).number,
                     watermark |-> Current(p).watermark]
               ELSE [version |-> 0]]

HonoursContract == Repository!Spec

-----------------------------------------------------------------------------
(* Properties of the balance.                                              *)

Ringfencing == {AWAITING_AUTHORISATION, AWAITING_ACCEPTANCE, ACCEPTED,
                AWAITING_CANCELLATION}
Issued == Ringfencing \ {AWAITING_AUTHORISATION}

TonnageIn(statuses) ==
  MapThenSumSet(LAMBDA p : Current(p).tonnage,
                {p \in PRNs : Exists(p) /\ Projected(p).status \in statuses})

(* The balance and the PRNs agree: the tonnage not available is that of    *)
(* the PRNs created and not deleted or cancelled, the tonnage debited that *)
(* of the PRNs issued and not cancelled.                                   *)
BalanceMatchesPrns ==
  /\ Balance.availableAmount = Credit - TonnageIn(Ringfencing)
  /\ Balance.amount = Credit - TonnageIn(Issued)

(* update-status-concurrency.test.js: "debits the waste balance only once  *)
(* when two issuances race for the same PRN", and likewise for the other   *)
(* transitions: a PRN has at most one event of each kind.                  *)
BalanceMovedOnce ==
  \A i, j \in 2..Len(ledger) :
    ledger[i].prn = ledger[j].prn /\ ledger[i].kind = ledger[j].kind => i = j

(* update-status.js: "a partial failure (event appended, doc not           *)
(* persisted) is recovered by the read-side catch-up": a PRN no request is *)
(* working on that projects as issued can be found by its number.          *)
IssuedPrnHasNumber ==
  \A p \in PRNs :
    (/\ Exists(p)
     /\ \A r \in Requests : req[r].pc # "idle" => req[r].prn # p
     /\ Projected(p).status \in Issued) => Projected(p).number # NoNumber

(* domain/model.js, PRN_STATUS_TRANSITIONS: a stored PRN moves along its    *)
(* transitions, so that an accepted one stays accepted, although the       *)
(* document written is a fold of events that other requests appended.      *)
StatusFollowsTransitions ==
  [][\A p \in PRNs : Exists(p) /\ (Current(p).status)' # Current(p).status =>
       \E actor \in {REPROCESSOR_EXPORTER, SIGNATORY, PRODUCER} :
         ValidTransition(Current(p).status, (Current(p).status)', actor)]_vars

(* update-status.js: "a suspended or cancelled accreditation is never      *)
(* debited".                                                               *)
SuspendedNeverDebited ==
  [][(accreditation \in {"suspended", "cancelled"}) =>
       (Balance.amount)' >= Balance.amount]_vars
=============================================================================
