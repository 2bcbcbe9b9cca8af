------------------------- MODULE PrnLifecycleProofs -------------------------
(***************************************************************************)
(* Theorems about PrnLifecycle, for any PRNs, requests, amounts and        *)
(* events.  Under every disturbance stored documents are folds of their    *)
(* own events, and what is folded onto them ends at the ledger; without    *)
(* lost writes and races the balance is that of the PRNs.                  *)
(***************************************************************************)
EXTENDS PrnLifecycle, Induction

-----------------------------------------------------------------------------
(* The invariant.                                                          *)

(* Statuses a PRN has before a number is drawn for it, or without one.     *)
Unnumbered == {DRAFT, AWAITING_AUTHORISATION, DISCARDED, DELETED}

Actors == {REPROCESSOR_EXPORTER, SIGNATORY, PRODUCER}

(* The status is that of the event at the watermark, one of the PRN's own. *)
Follows(p, doc) ==
  IF doc.watermark = 0
  THEN doc.status \in {DRAFT, DISCARDED}
  ELSE /\ doc.watermark \in EventsOf(p)
       /\ doc.status = LEDGER_EVENT_KIND_TO_PRN_STATUS(ledger[doc.watermark].kind)

(* The history ends in the current status.                                 *)
Whole(doc) == doc.history # <<>> /\ Last(doc.history) = doc.status

DocHolds(p, doc) ==
  /\ Follows(p, doc) /\ Whole(doc)
  /\ doc.status \in Unnumbered => doc.number = NoNumber

DocsHold == \A p \in PRNs : \A v \in 1..Len(docs[p]) : DocHolds(p, docs[p][v])

LedgerHolds ==
  /\ ledger # <<>>
  /\ Len(ledger) = 1 \/ Len(ledger) <= MaxEvents
  /\ ledger[1].prn = "none"
  /\ \A i \in 1..Len(ledger) : ledger[i].prn \in PRNs => ledger[i].kind \in PrnKinds

NumbersUnique ==
  \A p, q \in PRNs : Exists(p) /\ Exists(q) /\ p # q =>
    Current(p).number = NoNumber \/ Current(p).number # Current(q).number

(* The document a request carries continues the one it read, at the        *)
(* version it read it at.                                                  *)
Continues(o, source) ==
  /\ o.doc.number = source.number
  /\ IsPrefix(source.history, o.doc.history)

(* And its step is one the document's status admits.                       *)
Admits(o, source) ==
  CASE o.pc = "readTail" -> o.target \in {ACCEPTED, AWAITING_CANCELLATION}
    [] o.pc = "checkAccreditation" ->
         o.doc.status = AWAITING_AUTHORISATION /\ o.target = AWAITING_ACCEPTANCE
    [] o.pc = "append" ->
         o.target # DISCARDED /\ \E actor \in Actors : ValidTransition(o.doc.status, o.target, actor)
    [] o.pc = "persist" ->
         /\ o.doc.status = o.target /\ o.target # DISCARDED
         /\ source.history # o.doc.history
    [] o.pc = "discard" ->
         o.doc = source /\ o.doc.status = DRAFT /\ o.target = DISCARDED

RequestHolds(o) ==
  /\ o.version \in 1..Len(docs[o.prn])
  /\ Continues(o, docs[o.prn][o.version])
  /\ Admits(o, docs[o.prn][o.version])
  /\ Follows(o.prn, o.doc) /\ Whole(o.doc)
  /\ o.pc # "readTail" /\ o.target \in Unnumbered \cup {AWAITING_ACCEPTANCE}
       => o.doc.number = NoNumber

Valid(o) == o = IdleRequest \/ (o \in ActiveRequest /\ RequestHolds(o))

Inv ==
  /\ TypeOK /\ LedgerHolds /\ NumbersUnique /\ DocsHold
  /\ \A r \in Requests : Valid(req[r])

-----------------------------------------------------------------------------
(* Statuses, kinds and sequences.                                          *)

LEMMA StatusOfKind ==
  ASSUME NEW kind \in PrnKinds
  PROVE  LEDGER_EVENT_KIND_TO_PRN_STATUS(kind) \in PRN_STATUS \ {DRAFT, DISCARDED}
  BY DEF PrnKinds, LEDGER_EVENT_KIND_TO_PRN_STATUS, PRN_STATUS, PRN_CREATED, PRN_ISSUED,
     PRN_ACCEPTED, PRN_REJECTED, PRN_CREATION_CANCELLED, PRN_CANCELLED_AFTER_ISSUE,
     DRAFT, AWAITING_AUTHORISATION, AWAITING_ACCEPTANCE, ACCEPTED, AWAITING_CANCELLATION,
     CANCELLED, DELETED, DISCARDED

(* The event a transition appends projects the status it leads to.         *)
LEMMA CommandReaches ==
  ASSUME NEW from, NEW to, NEW actor, ValidTransition(from, to, actor), to # DISCARDED
  PROVE  /\ TRANSITION_TO_COMMAND(from, to) \in PrnKinds
         /\ LEDGER_EVENT_KIND_TO_PRN_STATUS(TRANSITION_TO_COMMAND(from, to)) = to
  BY DEF ValidTransition, PRN_STATUS_TRANSITIONS, TRANSITION_TO_COMMAND,
     PrnKinds, LEDGER_EVENT_KIND_TO_PRN_STATUS, PRN_CREATED, PRN_ISSUED,
     PRN_ACCEPTED, PRN_REJECTED, PRN_CREATION_CANCELLED, PRN_CANCELLED_AFTER_ISSUE,
     DRAFT, AWAITING_AUTHORISATION, AWAITING_ACCEPTANCE, ACCEPTED, AWAITING_CANCELLATION,
     CANCELLED, DELETED, DISCARDED

LEMMA PrefixPointwise ==
  ASSUME NEW S, NEW s \in Seq(S), NEW t \in Seq(S)
  PROVE  IsPrefix(s, t) <=> Len(s) <= Len(t) /\ \A i \in 1..Len(s) : s[i] = t[i]
  BY DEF IsPrefix

LEMMA PrefixOfItself ==
  ASSUME NEW S, NEW s \in Seq(S) PROVE IsPrefix(s, s)
  BY PrefixPointwise

LEMMA PrefixOfAppend ==
  ASSUME NEW S, NEW s \in Seq(S), NEW t \in Seq(S), NEW x \in S, IsPrefix(s, t)
  PROVE  IsPrefix(s, Append(t, x)) /\ s # Append(t, x)
  <1>1. Len(s) <= Len(t) /\ \A i \in 1..Len(s) : s[i] = t[i]
    BY PrefixPointwise
  <1>2. Append(t, x) \in Seq(S) /\ Len(Append(t, x)) = Len(t) + 1
        /\ \A i \in 1..Len(t) : Append(t, x)[i] = t[i]
    OBVIOUS
  <1>3. Len(s) \in Nat /\ Len(t) \in Nat
    OBVIOUS
  <1>4. Len(s) <= Len(Append(t, x)) /\ s # Append(t, x)
    BY <1>1, <1>2, <1>3
  <1>5. \A i \in 1..Len(s) : s[i] = Append(t, x)[i]
    BY <1>1, <1>2, <1>3
  <1> QED
    BY <1>2, <1>4, <1>5, PrefixPointwise

LEMMA PrefixTransitive ==
  ASSUME NEW S, NEW s \in Seq(S), NEW t \in Seq(S), NEW u \in Seq(S),
         IsPrefix(s, t), IsPrefix(t, u)
  PROVE  IsPrefix(s, u)
  <1>1. /\ Len(s) <= Len(t) /\ \A i \in 1..Len(s) : s[i] = t[i]
        /\ Len(t) <= Len(u) /\ \A i \in 1..Len(t) : t[i] = u[i]
    BY PrefixPointwise
  <1>2. Len(s) \in Nat /\ Len(t) \in Nat /\ Len(u) \in Nat
    OBVIOUS
  <1>3. Len(s) <= Len(u) /\ \A i \in 1..Len(s) : s[i] = u[i]
    BY <1>1, <1>2
  <1> QED
    BY <1>3, PrefixPointwise

(* The closing balance of a PRN's event is a balance.                      *)
LEMMA SnapshotClosed ==
  ASSUME NEW opening \in BalanceSnapshot, NEW kind \in PrnKinds, NEW amount \in Int
  PROVE  ClosingForPrn(opening, kind, amount) \in BalanceSnapshot
  BY DEF BalanceSnapshot, ClosingForPrn, PrnKinds, PRN_CREATED, PRN_ISSUED,
     PRN_ACCEPTED, PRN_REJECTED, PRN_CREATION_CANCELLED, PRN_CANCELLED_AFTER_ISSUE

-----------------------------------------------------------------------------
(* Folding events onto a document.                                         *)

LEMMA EventApplied ==
  ASSUME NEW doc \in PrnDocument, NEW number \in 1..MaxEvents, NEW kind \in PrnKinds
  PROVE  LET d == ApplyEvent(doc, number, kind)
         IN  /\ d \in PrnDocument
             /\ d.status = LEDGER_EVENT_KIND_TO_PRN_STATUS(kind)
             /\ d.watermark = number
             /\ d.number = doc.number /\ d.tonnage = doc.tonnage
             /\ d.history = Append(doc.history, d.status)
             /\ Whole(d)
  <1> DEFINE status  == LEDGER_EVENT_KIND_TO_PRN_STATUS(kind)
             history == Append(doc.history, status)
             d == [doc EXCEPT !.status = status, !.watermark = number, !.history = history]
  <1>1. status \in PRN_STATUS
    BY StatusOfKind
  <1>2. ApplyEvent(doc, number, kind) = d
    BY DEF ApplyEvent
  <1> HIDE DEF status
  <1>3. doc.history \in Seq(PRN_STATUS)
    BY DEF PrnDocument
  <1>4. history \in Seq(PRN_STATUS) /\ history # <<>> /\ Last(history) = status
    BY <1>1, <1>3 DEF Last
  <1>5. history = Append(doc.history, status)
    OBVIOUS
  <1> HIDE DEF history
  <1>6. number \in 0..MaxEvents
    BY BoundAssumption
  <1>7. d \in PrnDocument
    BY <1>1, <1>4, <1>6 DEF PrnDocument
  <1>8. /\ d.status = status /\ d.watermark = number /\ d.number = doc.number
        /\ d.tonnage = doc.tonnage /\ d.history = history
    BY DEF PrnDocument
  <1> HIDE DEF d
  <1> QED
    BY <1>2, <1>4, <1>5, <1>7, <1>8 DEF Whole, status

(* The recursive function of FoldTail, over the first k events.            *)
Folds(f, doc, numbers, k) ==
  f = [n \in 0..k |->
         IF n = 0 THEN doc
         ELSE IF n \in numbers THEN ApplyEvent(f[n - 1], n, ledger[n].kind)
         ELSE f[n - 1]]

LEMMA FoldExists ==
  ASSUME NEW doc, NEW numbers
  PROVE  \A k \in Nat : \E f : Folds(f, doc, numbers, k)
  <1> DEFINE S == {k \in Nat : \E f : Folds(f, doc, numbers, k)}
  <1>1. 0 \in S
    <2> DEFINE g == [n \in 0..0 |-> doc]
    <2>1. Folds(g, doc, numbers, 0)
      BY DEF Folds
    <2> QED
      BY <2>1
  <1>2. ASSUME NEW k \in Nat, k \in S PROVE k + 1 \in S
    <2>1. PICK f : Folds(f, doc, numbers, k)
      BY <1>2
    <2> DEFINE next == IF k + 1 \in numbers THEN ApplyEvent(f[k], k + 1, ledger[k + 1].kind)
                       ELSE f[k]
               g == [n \in 0..(k + 1) |-> IF n = k + 1 THEN next ELSE f[n]]
    <2>2. \A n \in 0..k : g[n] = f[n]
      OBVIOUS
    <2>3. ASSUME NEW n \in 0..(k + 1)
          PROVE  g[n] = IF n = 0 THEN doc
                        ELSE IF n \in numbers THEN ApplyEvent(g[n - 1], n, ledger[n].kind)
                        ELSE g[n - 1]
      <3>1. CASE n = k + 1
        <4>1. g[n] = next /\ n # 0 /\ n - 1 = k /\ g[k] = f[k]
          BY <3>1, <2>2
        <4> HIDE DEF g
        <4> QED
          BY <4>1, <3>1
      <3>2. CASE n = 0
        BY <3>2, <2>1 DEF Folds
      <3>3. CASE n \in 1..k
        <4>1. g[n] = f[n] /\ g[n - 1] = f[n - 1]
          BY <3>3, <2>2
        <4>2. f[n] = IF n \in numbers THEN ApplyEvent(f[n - 1], n, ledger[n].kind)
                     ELSE f[n - 1]
          BY <3>3, <2>1 DEF Folds
        <4> HIDE DEF g
        <4> QED
          BY <3>3, <4>1, <4>2
      <3> QED
        BY <3>1, <3>2, <3>3
    <2>4. g = [n \in 0..(k + 1) |-> g[n]]
      OBVIOUS
    <2> HIDE DEF g
    <2>5. Folds(g, doc, numbers, k + 1)
      BY <2>3, <2>4 DEF Folds
    <2> QED
      BY <2>5
  <1> HIDE DEF S
  <1>3. \A k \in Nat : k \in S
    BY <1>1, <1>2, SetInduction
  <1> QED
    BY <1>3 DEF S

LEMMA FoldTailIsFold ==
  ASSUME NEW doc, NEW numbers, Len(ledger) \in Nat
  PROVE  \E f : Folds(f, doc, numbers, Len(ledger)) /\ FoldTail(doc, numbers) = f[Len(ledger)]
  <1> DEFINE f == CHOOSE f : Folds(f, doc, numbers, Len(ledger))
  <1>1. Folds(f, doc, numbers, Len(ledger))
    BY FoldExists
  <1>2. FoldTail(doc, numbers) = f[Len(ledger)]
    BY DEF FoldTail, Folds
  <1> QED
    BY <1>1, <1>2

(* What has been folded after the first k events.                          *)
Folded(d, doc, numbers, k) ==
  /\ d \in PrnDocument /\ Whole(d)
  /\ d.number = doc.number /\ d.tonnage = doc.tonnage
  /\ IsPrefix(doc.history, d.history)
  /\ \/ d = doc /\ \A n \in numbers : n > k
     \/ /\ d.watermark \in numbers /\ d.watermark <= k
        /\ \A n \in numbers : n <= k => n <= d.watermark
        /\ d.status = LEDGER_EVENT_KIND_TO_PRN_STATUS(ledger[d.watermark].kind)

LEMMA FoldingOne ==
  ASSUME NEW doc \in PrnDocument, NEW numbers \in SUBSET (1..MaxEvents), NEW k \in Nat, NEW d,
         Folded(d, doc, numbers, k),
         k + 1 \in numbers => ledger[k + 1].kind \in PrnKinds
  PROVE  Folded(IF k + 1 \in numbers THEN ApplyEvent(d, k + 1, ledger[k + 1].kind) ELSE d,
                doc, numbers, k + 1)
  <1>1. d \in PrnDocument /\ \A n \in numbers : n \in Nat
    BY BoundAssumption DEF Folded
  <1>2. CASE k + 1 \notin numbers
    <2>1. \A n \in numbers : (n > k <=> n > k + 1) /\ (n <= k <=> n <= k + 1)
      BY <1>1, <1>2
    <2>2. \A n \in numbers : n <= k => n <= k + 1
      BY <1>1
    <2> QED
      BY <1>2, <2>1, <2>2 DEF Folded
  <1>3. CASE k + 1 \in numbers
    <2> DEFINE kind == ledger[k + 1].kind
               e == ApplyEvent(d, k + 1, kind)
    <2>1. k + 1 \in 1..MaxEvents /\ kind \in PrnKinds
      BY <1>3
    <2>2. /\ e \in PrnDocument /\ Whole(e)
          /\ e.status = LEDGER_EVENT_KIND_TO_PRN_STATUS(kind)
          /\ e.watermark = k + 1
          /\ e.number = d.number /\ e.tonnage = d.tonnage
          /\ e.history = Append(d.history, e.status)
      BY <1>1, <2>1, EventApplied
    <2> HIDE DEF e
    <2>3. IsPrefix(doc.history, e.history)
      <3>1. doc.history \in Seq(PRN_STATUS) /\ d.history \in Seq(PRN_STATUS) /\ e.status \in PRN_STATUS
        BY <1>1, <2>2 DEF PrnDocument
      <3> QED
        BY <2>2, <3>1, PrefixOfAppend DEF Folded
    <2>4. \A n \in numbers : n <= k + 1 => n <= e.watermark
      BY <2>2
    <2>5. e.watermark \in numbers /\ e.watermark <= k + 1
      BY <1>3, <2>2
    <2>6. Folded(e, doc, numbers, k + 1)
      BY <2>2, <2>3, <2>4, <2>5 DEF Folded
    <2> QED
      BY <1>3, <2>6 DEF e
  <1> QED
    BY <1>2, <1>3

(* By induction over the events: what FoldTail makes of a document.        *)
LEMMA TailFolded ==
  ASSUME NEW doc \in PrnDocument, Whole(doc),
         NEW numbers \in SUBSET (1..MaxEvents), Len(ledger) \in Nat,
         \A n \in numbers : n <= Len(ledger) /\ ledger[n].kind \in PrnKinds
  PROVE  Folded(FoldTail(doc, numbers), doc, numbers, Len(ledger))
  <1>1. PICK f : Folds(f, doc, numbers, Len(ledger)) /\ FoldTail(doc, numbers) = f[Len(ledger)]
    BY FoldTailIsFold
  <1> DEFINE S == {k \in Nat : k <= Len(ledger) => Folded(f[k], doc, numbers, k)}
  <1>2. 0 \in S
    <2>1. f[0] = doc
      BY <1>1 DEF Folds
    <2>2. doc.history \in Seq(PRN_STATUS)
      BY DEF PrnDocument
    <2>3. IsPrefix(doc.history, doc.history)
      BY <2>2, PrefixOfItself
    <2>4. \A n \in numbers : n > 0
      BY BoundAssumption
    <2> QED
      BY <2>1, <2>3, <2>4 DEF Folded
  <1>3. ASSUME NEW k \in Nat, k \in S PROVE k + 1 \in S
    <2> SUFFICES ASSUME k + 1 <= Len(ledger) PROVE Folded(f[k + 1], doc, numbers, k + 1)
      OBVIOUS
    <2>1. Folded(f[k], doc, numbers, k)
      BY <1>3
    <2>2. f[k + 1] = IF k + 1 \in numbers THEN ApplyEvent(f[k], k + 1, ledger[k + 1].kind)
                     ELSE f[k]
      <3>1. k + 1 \in 0..Len(ledger) /\ k + 1 # 0 /\ (k + 1) - 1 = k
        OBVIOUS
      <3> QED
        BY <1>1, <3>1 DEF Folds
    <2> QED
      BY <2>1, <2>2, FoldingOne
  <1> HIDE DEF S
  <1>4. Len(ledger) \in S
    BY <1>2, <1>3, SetInduction
  <1> QED
    BY <1>1, <1>4 DEF S

(* The events of a PRN after a watermark.                                  *)
LEMMA TailOfPrn ==
  ASSUME TypeOK, LedgerHolds, NEW p \in PRNs, NEW watermark \in Nat, NEW n \in 1..Len(ledger)
  PROVE  /\ Len(ledger) \in Nat
         /\ TailNumbers(p, watermark, n) \subseteq 2..Len(ledger)
         /\ TailNumbers(p, watermark, n) \subseteq 1..MaxEvents
         /\ \A i \in TailNumbers(p, watermark, n) :
              ledger[i].prn = p /\ ledger[i].kind \in PrnKinds /\ i > watermark
  <1>1. ledger \in Seq(Event) /\ Len(ledger) \in Nat
    BY DEF TypeOK
  <1>2. ASSUME NEW i \in TailNumbers(p, watermark, n)
        PROVE  /\ i \in 1..Len(ledger) /\ i > watermark
               /\ ledger[i].prn = p
    BY <1>1 DEF TailNumbers
  <1>3. ASSUME NEW i \in TailNumbers(p, watermark, n) PROVE i # 1
    BY <1>2, <1>3, PrnAssumption DEF LedgerHolds
  <1> QED
    BY <1>1, <1>2, <1>3, BoundAssumption DEF LedgerHolds

LEMMA Projecting ==
  ASSUME TypeOK, LedgerHolds, NEW p \in PRNs, NEW doc \in PrnDocument,
         Follows(p, doc), Whole(doc), NEW n \in 1..Len(ledger)
  PROVE  LET d == ProjectFromStreamTail(p, doc, n)
         IN  /\ d \in PrnDocument /\ Follows(p, d) /\ Whole(d)
             /\ d.number = doc.number /\ d.tonnage = doc.tonnage
             /\ IsPrefix(doc.history, d.history)
             /\ doc.status = DELETED \/ Folded(d, doc, TailNumbers(p, doc.watermark, n), Len(ledger))
  <1> DEFINE numbers == TailNumbers(p, doc.watermark, n)
             d == FoldTail(doc, numbers)
  <1>1. doc.watermark \in Nat /\ doc.history \in Seq(PRN_STATUS)
    BY BoundAssumption DEF PrnDocument
  <1>2. /\ Len(ledger) \in Nat /\ numbers \subseteq 2..Len(ledger) /\ numbers \subseteq 1..MaxEvents
        /\ \A i \in numbers : ledger[i].prn = p /\ ledger[i].kind \in PrnKinds /\ i > doc.watermark
    BY <1>1, TailOfPrn
  <1>3. CASE doc.status = DELETED
    BY <1>1, <1>3, PrefixOfItself DEF ProjectFromStreamTail
  <1>4. CASE doc.status # DELETED
    <2>1. ProjectFromStreamTail(p, doc, n) = d
      BY <1>4 DEF ProjectFromStreamTail
    <2>2. \A i \in numbers : i <= Len(ledger) /\ ledger[i].kind \in PrnKinds
      BY <1>2
    <2> HIDE DEF numbers
    <2>3. Folded(d, doc, numbers, Len(ledger))
      BY <1>2, <2>2, TailFolded
    <2> HIDE DEF d
    <2>4. Follows(p, d)
      <3>1. CASE d = doc
        BY <3>1
      <3>2. CASE d.watermark \in numbers
        <4>0. \A i \in numbers : i \in 1..Len(ledger) /\ i # 0 /\ ledger[i].prn = p
          BY <1>2
        <4>1. d.watermark \in 1..Len(ledger) /\ d.watermark # 0 /\ ledger[d.watermark].prn = p
          BY <3>2, <4>0
        <4>2. d.watermark \in EventsOf(p)
          BY <1>2, <4>1 DEF EventsOf, TailNumbers
        <4>3. d = doc \/ d.status = LEDGER_EVENT_KIND_TO_PRN_STATUS(ledger[d.watermark].kind)
          BY <2>3 DEF Folded
        <4> QED
          BY <4>1, <4>2, <4>3 DEF Follows
      <3> QED
        BY <2>3, <3>1, <3>2 DEF Folded
    <2> QED
      BY <2>1, <2>3, <2>4 DEF Folded, numbers
  <1> QED
    BY <1>3, <1>4

-----------------------------------------------------------------------------
(* What stays while ledger and documents grow.                             *)

LedgerGrows ==
  /\ Len(ledger) <= Len(ledger)'
  /\ \A i \in 1..Len(ledger) : ledger'[i] = ledger[i]

DocsGrow ==
  \A p \in PRNs :
    /\ Len(docs[p]) <= Len(docs'[p])
    /\ \A v \in 1..Len(docs[p]) : docs'[p][v] = docs[p][v]

LEMMA Typed ==
  ASSUME TypeOK
  PROVE  /\ ledger \in Seq(Event) /\ Len(ledger) \in Nat
         /\ \A p \in PRNs : docs[p] \in Seq(PrnDocument) /\ Len(docs[p]) \in Nat
         /\ \A p \in PRNs : \A v \in 1..Len(docs[p]) : docs[p][v] \in PrnDocument
         /\ \A p \in PRNs : Exists(p) => /\ Len(docs[p]) \in 1..Len(docs[p])
                                         /\ Current(p) = docs[p][Len(docs[p])]
  <1>1. \A p \in PRNs : docs[p] \in Seq(PrnDocument)
    BY DEF TypeOK
  <1>2. \A p \in PRNs : docs[p] # <<>> => Len(docs[p]) \in 1..Len(docs[p])
    BY <1>1
  <1> QED
    BY <1>1, <1>2 DEF TypeOK, Exists, Current, Last

LEMMA NothingGrows ==
  ASSUME TypeOK
  PROVE  /\ ledger' = ledger => LedgerGrows
         /\ docs' = docs => DocsGrow
  BY Typed DEF LedgerGrows, DocsGrow

LEMMA FollowsOn ==
  ASSUME TypeOK, TypeOK', LedgerGrows, NEW p \in PRNs, NEW doc, Follows(p, doc)
  PROVE  Follows(p, doc)'
  <1>1. CASE doc.watermark = 0
    BY <1>1 DEF Follows
  <1>2. CASE doc.watermark # 0
    <2>1. doc.watermark \in EventsOf(p)
          /\ doc.status = LEDGER_EVENT_KIND_TO_PRN_STATUS(ledger[doc.watermark].kind)
      BY <1>2 DEF Follows
    <2>2. doc.watermark \in 1..Len(ledger) /\ ledger[doc.watermark].prn = p
      BY <2>1, Typed DEF EventsOf, TailNumbers
    <2>3. Len(ledger) \in Nat /\ Len(ledger') \in Nat
      BY DEF TypeOK
    <2>4. doc.watermark \in 1..Len(ledger') /\ ledger'[doc.watermark] = ledger[doc.watermark]
      BY <2>2, <2>3 DEF LedgerGrows
    <2>5. (doc.watermark \in EventsOf(p))'
      BY <2>2, <2>3, <2>4 DEF EventsOf, TailNumbers
    <2> QED
      BY <1>2, <2>1, <2>4, <2>5 DEF Follows
  <1> QED
    BY <1>1, <1>2

LEMMA StaysValid ==
  ASSUME TypeOK, TypeOK', LedgerGrows, DocsGrow, NEW o, Valid(o)
  PROVE  Valid(o)'
  <1>1. CASE o = IdleRequest
    BY <1>1 DEF Valid
  <1>2. CASE o \in ActiveRequest /\ RequestHolds(o)
    <2>1. o.prn \in PRNs /\ o.version \in 1..Len(docs[o.prn])
      BY <1>2 DEF ActiveRequest, RequestHolds
    <2>2. Len(docs[o.prn]) \in Nat /\ Len(docs'[o.prn]) \in Nat
      BY <2>1 DEF TypeOK
    <2>3. o.version \in 1..Len(docs'[o.prn]) /\ docs'[o.prn][o.version] = docs[o.prn][o.version]
      BY <2>1, <2>2 DEF DocsGrow
    <2>4. Follows(o.prn, o.doc)'
      BY <1>2, <2>1, FollowsOn DEF RequestHolds
    <2>5. RequestHolds(o)'
      BY <1>2, <2>3, <2>4 DEF RequestHolds
    <2> QED
      BY <1>2, <2>5 DEF Valid
  <1> QED
    BY <1>1, <1>2 DEF Valid

(* Requests other than r keep what they have.                              *)
LEMMA OneRequestMoves ==
  ASSUME Inv, TypeOK', LedgerGrows, DocsGrow, LedgerHolds', NumbersUnique', DocsHold',
         NEW r \in Requests, NEW o, Become(r, o), Valid(o)'
  PROVE  Inv'
  <1>1. req' = [req EXCEPT ![r] = o] /\ TypeOK
    BY DEF Become, Inv
  <1>2. ASSUME NEW q \in Requests PROVE Valid(req[q])'
    <2>1. PICK x : x = req'[q]
      OBVIOUS
    <2>2. x = o \/ x = req[q]
      BY <1>1, <2>1 DEF TypeOK
    <2>3. Valid(x)'
      BY <1>1, <2>2, StaysValid DEF Inv
    <2> QED
      BY <2>1, <2>3 DEF Valid, RequestHolds, Continues, Admits, Follows, EventsOf, TailNumbers
  <1> QED
    BY <1>2 DEF Inv

(* A step of a request that writes nothing.                                *)
LEMMA OnlyRequestMoves ==
  ASSUME Inv, NEW r \in Requests, NEW o, Become(r, o), Valid(o),
         UNCHANGED <<ledger, docs, accreditation>>
  PROVE  Inv'
  <1>1. TypeOK
    BY DEF Inv
  <1>2. o \in {IdleRequest} \cup ActiveRequest
    BY DEF Valid
  <1>3. TypeOK'
    BY <1>1, <1>2 DEF TypeOK, Become
  <1>4. LedgerGrows /\ DocsGrow
    BY <1>1, NothingGrows
  <1>5. LedgerHolds' /\ NumbersUnique'
    BY DEF Inv, LedgerHolds, NumbersUnique, Exists, Current
  <1>6. DocsHold'
    BY DEF Inv, DocsHold, DocHolds, Follows, EventsOf, TailNumbers
  <1>7. Valid(o)'
    BY <1>1, <1>3, <1>4, StaysValid
  <1> QED
    BY <1>3, <1>4, <1>5, <1>6, <1>7, OneRequestMoves

LEMMA IdleIsValid == Valid(IdleRequest)
  BY DEF Valid

LEMMA ActiveIsValid ==
  ASSUME Inv, NEW r \in Requests, req[r].pc # "idle"
  PROVE  req[r] \in ActiveRequest /\ RequestHolds(req[r])
  BY DEF Inv, Valid, IdleRequest

(* A document is added to those of p.                                      *)
LEMMA DocumentAdded ==
  ASSUME Inv, NEW p \in PRNs, NEW doc \in PrnDocument, DocHolds(p, doc),
         docs' = [docs EXCEPT ![p] = Append(docs[p], doc)],
         \/ doc.number = NoNumber
         \/ Exists(p) /\ doc.number = Current(p).number
         \/ ~NumberTaken(p, doc.number),
         UNCHANGED <<ledger, accreditation>>
  PROVE  DocsGrow /\ LedgerGrows /\ NumbersUnique' /\ DocsHold' /\ LedgerHolds'
         /\ docs' \in [PRNs -> Seq(PrnDocument)]
         /\ (Exists(p) /\ Current(p) = doc)'
  <1>1. TypeOK /\ docs \in [PRNs -> Seq(PrnDocument)] /\ Len(docs[p]) \in Nat
    BY Typed DEF Inv, TypeOK
  <1>2. LedgerGrows
    BY <1>1, NothingGrows
  <1>3. docs'[p] = Append(docs[p], doc) /\ \A q \in PRNs \ {p} : docs'[q] = docs[q]
    BY <1>1
  <1>4. /\ docs'[p] \in Seq(PrnDocument) /\ Len(docs'[p]) = Len(docs[p]) + 1
        /\ docs'[p][Len(docs[p]) + 1] = doc /\ docs'[p] # <<>>
        /\ \A v \in 1..Len(docs[p]) : docs'[p][v] = docs[p][v]
    BY <1>1, <1>3
  <1>5. docs' \in [PRNs -> Seq(PrnDocument)]
    BY <1>1, <1>4
  <1>6. DocsGrow
    <2>1. ASSUME NEW q \in PRNs PROVE Len(docs[q]) <= Len(docs'[q])
                 /\ \A v \in 1..Len(docs[q]) : docs'[q][v] = docs[q][v]
      <3>1. CASE q = p
        BY <1>1, <1>4, <3>1
      <3>2. CASE q # p
        BY <1>1, <1>3, <3>2, Typed
      <3> QED
        BY <3>1, <3>2
    <2> QED
      BY <2>1 DEF DocsGrow
  <1>7. DocsHold'
    <2>1. ASSUME NEW q \in PRNs, NEW v \in 1..Len(docs'[q]) PROVE DocHolds(q, docs'[q][v])
      <3>1. CASE q = p /\ v = Len(docs[p]) + 1
        BY <1>4, <3>1
      <3>2. CASE q # p \/ v # Len(docs[p]) + 1
        <4>1. v \in 1..Len(docs[q]) /\ docs'[q][v] = docs[q][v]
          BY <1>1, <1>3, <1>4, <3>2
        <4> QED
          BY <4>1 DEF Inv, DocsHold
      <3> QED
        BY <3>1, <3>2
    <2> QED
      BY <2>1 DEF DocsHold, DocHolds, Follows, EventsOf, TailNumbers
  <1>8. (Exists(p) /\ Current(p) = doc)'
    BY <1>4 DEF Exists, Current, Last
  <1>9. NumbersUnique'
    <2>1. \A q \in PRNs \ {p} : (Exists(q)' <=> Exists(q)) /\ Current(q)' = Current(q)
      BY <1>3 DEF Exists, Current
    <2>2. \A q \in PRNs \ {p} : Exists(q) =>
            \/ doc.number = NoNumber \/ Current(q).number = NoNumber
            \/ doc.number # Current(q).number
      BY DEF Inv, NumbersUnique, NumberTaken
    <2>3. ASSUME NEW q \in PRNs, NEW s \in PRNs, q # s, Exists(q)', Exists(s)'
          PROVE  (Current(q).number = NoNumber \/ Current(q).number # Current(s).number)'
      <3>1. CASE q = p
        BY <1>8, <2>1, <2>2, <2>3, <3>1
      <3>2. CASE s = p
        BY <1>8, <2>1, <2>2, <2>3, <3>2
      <3>3. CASE q # p /\ s # p
        BY <2>1, <2>3, <3>3 DEF Inv, NumbersUnique
      <3> QED
        BY <3>1, <3>2, <3>3
    <2> QED
      BY <2>3 DEF NumbersUnique
  <1> QED
    BY <1>2, <1>5, <1>6, <1>7, <1>8, <1>9 DEF Inv, LedgerHolds

(* What a write makes of a document: history and watermark move on, and a  *)
(* number is given only where there was none.                              *)
Extends(before, after) ==
  /\ IsPrefix(before.history, after.history) /\ before.history # after.history
  /\ Whole(after)
  /\ after.watermark >= before.watermark
  /\ after.number # before.number => before.number = NoNumber

Drafts(p) ==
  \E a \in PrnAmounts :
    docs'[p] = << [status |-> DRAFT, tonnage |-> a, number |-> NoNumber,
                   watermark |-> 0, history |-> <<DRAFT>>] >>

(* A step writes no document, drafts one or extends one.                   *)
DocsMove ==
  \/ docs' = docs
  \/ \E p \in PRNs :
       /\ \A q \in PRNs \ {p} : docs'[q] = docs[q]
       /\ Len(docs'[p]) = Len(docs[p]) + 1
       /\ \/ ~Exists(p) /\ Drafts(p)
          \/ Exists(p) /\ Exists(p)' /\ Extends(Current(p), Current(p)')

LEMMA NoRequestMoves ==
  ASSUME Inv, TypeOK', LedgerGrows, DocsGrow, LedgerHolds', NumbersUnique', DocsHold',
         req' = req
  PROVE  Inv'
  <1>1. TypeOK
    BY DEF Inv
  <1>2. ASSUME NEW q \in Requests PROVE Valid(req[q])'
    <2>1. PICK x : x = req[q]
      OBVIOUS
    <2>2. Valid(x)'
      BY <1>1, <2>1, StaysValid DEF Inv
    <2> QED
      BY <2>1, <2>2 DEF Valid, RequestHolds, Continues, Admits, Follows, EventsOf, TailNumbers
  <1> QED
    BY <1>2 DEF Inv

(* A request stops after it wrote a document that extends the stored one.  *)
LEMMA RequestWrites ==
  ASSUME Inv, NEW r \in Requests, NEW p \in PRNs, Exists(p),
         NEW doc \in PrnDocument, DocHolds(p, doc), Extends(Current(p), doc),
         doc.number = Current(p).number \/ ~NumberTaken(p, doc.number),
         Replace(p, doc), Stop(r), UNCHANGED <<ledger, accreditation>>
  PROVE  Inv' /\ DocsMove
  <1>0. TypeOK
    BY DEF Inv
  <1>1. docs' = [docs EXCEPT ![p] = Append(docs[p], doc)]
    BY DEF Replace
  <1>2. DocsGrow /\ LedgerGrows /\ NumbersUnique' /\ DocsHold' /\ LedgerHolds'
        /\ docs' \in [PRNs -> Seq(PrnDocument)]
        /\ (Exists(p) /\ Current(p) = doc)'
    BY <1>1, DocumentAdded
  <1>3. TypeOK'
    BY <1>0, <1>2 DEF TypeOK, Stop, Become
  <1>4. Valid(IdleRequest)'
    BY DEF Valid
  <1>5. Inv'
    BY <1>2, <1>3, <1>4, OneRequestMoves DEF Stop
  <1>6. Len(docs'[p]) = Len(docs[p]) + 1 /\ \A q \in PRNs \ {p} : docs'[q] = docs[q]
    BY <1>0, <1>1, Typed DEF TypeOK
  <1>7. Extends(Current(p), Current(p)')
    BY <1>2 DEF Extends, Whole
  <1> QED
    BY <1>2, <1>5, <1>6, <1>7 DEF DocsMove

-----------------------------------------------------------------------------
(* One lemma per action.                                                   *)

LEMMA InitHolds == Init => Inv
  <1> SUFFICES ASSUME Init PROVE Inv
    OBVIOUS
  <1> DEFINE closing == ClosingForSummaryLogSubmitted(ZERO_BALANCE, Credit, 0)
             opened == [kind |-> SUMMARY_LOG_SUBMITTED, prn |-> "none", closing |-> closing]
  <1>1. closing \in BalanceSnapshot
    BY TonnageAssumption DEF ClosingForSummaryLogSubmitted, ZERO_BALANCE, BalanceSnapshot
  <1>2. ledger = <<opened>>
    BY DEF Init
  <1> HIDE DEF closing
  <1>3. opened \in Event
    BY <1>1 DEF Event, EventKinds
  <1>4. ledger \in Seq(Event) /\ Len(ledger) = 1 /\ ledger # <<>>
        /\ ledger[1].prn = "none"
    BY <1>2, <1>3
  <1>5. TypeOK
    BY <1>4 DEF Init, TypeOK
  <1>6. LedgerHolds
    BY <1>4, PrnAssumption DEF LedgerHolds
  <1>7. NumbersUnique /\ DocsHold
    BY DEF Init, NumbersUnique, Exists, DocsHold
  <1>8. \A r \in Requests : Valid(req[r])
    BY DEF Init, Valid
  <1> QED
    BY <1>5, <1>6, <1>7, <1>8 DEF Inv

LEMMA PostHolds ==
  ASSUME Inv, NEW p \in PRNs, Post(p)
  PROVE  Inv' /\ DocsMove
  <1>0. TypeOK
    BY DEF Inv
  <1>1. PICK a \in PrnAmounts :
          docs' = [docs EXCEPT ![p] = << [status |-> DRAFT, tonnage |-> a, number |-> NoNumber,
                                          watermark |-> 0, history |-> <<DRAFT>>] >>]
    BY DEF Post
  <1> DEFINE history == <<DRAFT>>
             doc == [status |-> DRAFT, tonnage |-> a, number |-> NoNumber,
                     watermark |-> 0, history |-> history]
  <1>2. docs[p] = <<>> /\ ~Exists(p)
    BY DEF Post, Exists
  <1>3. docs' = [docs EXCEPT ![p] = Append(docs[p], doc)]
    BY <1>1, <1>2
  <1>4. history \in Seq(PRN_STATUS) /\ history # <<>> /\ Last(history) = DRAFT
    BY DEF PRN_STATUS, Last
  <1> HIDE DEF history
  <1>5. doc \in PrnDocument
    BY <1>4, BoundAssumption DEF PrnDocument, PRN_STATUS, PrnNumber
  <1>6. DocHolds(p, doc)
    BY <1>4 DEF DocHolds, Follows, Whole
  <1>7. /\ DocsGrow /\ LedgerGrows /\ NumbersUnique' /\ DocsHold' /\ LedgerHolds'
        /\ docs' \in [PRNs -> Seq(PrnDocument)]
    <2>1. doc.number = NoNumber
      OBVIOUS
    <2> HIDE DEF doc
    <2> QED
      BY <1>3, <1>5, <1>6, <2>1, DocumentAdded DEF Post
  <1>8. TypeOK' /\ req' = req
    BY <1>0, <1>7 DEF TypeOK, Post
  <1>9. Inv'
    BY <1>7, <1>8, NoRequestMoves
  <1>10. /\ \A q \in PRNs \ {p} : docs'[q] = docs[q]
         /\ Len(docs'[p]) = Len(docs[p]) + 1 /\ Drafts(p)
    BY <1>0, <1>1, <1>2 DEF TypeOK, Drafts
  <1> QED
    BY <1>2, <1>9, <1>10 DEF DocsMove

(* A version a read may return.                                            *)
LEMMA Readable ==
  ASSUME Inv, NEW p \in PRNs, NEW v \in ReadableVersions(p)
  PROVE  /\ v \in 1..Len(docs[p]) /\ v \in Nat \ {0}
         /\ docs[p][v] \in PrnDocument /\ DocHolds(p, docs[p][v])
         /\ IsPrefix(docs[p][v].history, docs[p][v].history)
  <1>1. TypeOK /\ Len(docs[p]) \in Nat
    BY Typed DEF Inv
  <1>2. v \in 1..Len(docs[p])
    BY <1>1 DEF ReadableVersions
  <1>3. docs[p][v] \in PrnDocument
    BY <1>1, <1>2, Typed
  <1>4. docs[p][v].history \in Seq(PRN_STATUS)
    BY <1>3 DEF PrnDocument
  <1> QED
    BY <1>1, <1>2, <1>3, <1>4, PrefixOfItself DEF Inv, DocsHold

LEMMA InternalReadHolds ==
  ASSUME Inv, NEW r \in Requests, InternalRead(r)
  PROVE  Inv'
  <1>0. PICK p \in PRNs, to \in PRN_STATUS : \E v \in ReadableVersions(p) :
          /\ ValidTransition(docs[p][v].status, to, INTERNAL_ACTOR_BY_STATUS(docs[p][v].status))
          /\ Become(r, [pc |-> FirstWriteStep(docs[p][v].status, to), prn |-> p,
                        doc |-> docs[p][v], version |-> v, target |-> to, attempt |-> 1])
    BY DEF InternalRead
  <1>1. PICK v \in ReadableVersions(p) :
          /\ ValidTransition(docs[p][v].status, to, INTERNAL_ACTOR_BY_STATUS(docs[p][v].status))
          /\ Become(r, [pc |-> FirstWriteStep(docs[p][v].status, to), prn |-> p,
                        doc |-> docs[p][v], version |-> v, target |-> to, attempt |-> 1])
    BY <1>0
  <1> DEFINE doc == docs[p][v]
             from == docs[p][v].status
             o == [pc |-> FirstWriteStep(from, to), prn |-> p, doc |-> doc,
                   version |-> v, target |-> to, attempt |-> 1]
  <1>2. /\ v \in 1..Len(docs[p]) /\ v \in Nat \ {0} /\ doc \in PrnDocument
        /\ DocHolds(p, doc) /\ IsPrefix(doc.history, doc.history)
    BY Readable
  <1>3. PICK actor : actor = INTERNAL_ACTOR_BY_STATUS(from)
    OBVIOUS
  <1>4. ValidTransition(from, to, actor)
    BY <1>1, <1>3
  <1>5. /\ actor \in Actors
        /\ to \in Unnumbered \cup {AWAITING_ACCEPTANCE} => from \in Unnumbered
        /\ to = AWAITING_ACCEPTANCE <=> from = AWAITING_AUTHORISATION /\ to # DELETED
        /\ to = DISCARDED => from = DRAFT
    BY <1>4 DEF ValidTransition, PRN_STATUS_TRANSITIONS, Actors, Unnumbered,
       DRAFT, AWAITING_AUTHORISATION, AWAITING_ACCEPTANCE, ACCEPTED, AWAITING_CANCELLATION,
       CANCELLED, DELETED, DISCARDED
  <1>6. \/ FirstWriteStep(from, to) = "discard" /\ from = DRAFT /\ to = DISCARDED
        \/ FirstWriteStep(from, to) = "checkAccreditation" /\ to = AWAITING_ACCEPTANCE
        \/ FirstWriteStep(from, to) = "append" /\ to # DISCARDED
    BY <1>5 DEF FirstWriteStep, DISCARDED, AWAITING_ACCEPTANCE
  <1>7. 1 \in 1..SuffixAttempts
    BY BoundAssumption
  <1> HIDE DEF from, doc
  <1>8. o \in ActiveRequest
    BY <1>2, <1>6, <1>7 DEF ActiveRequest, Phases
  <1>9. /\ o.prn = p /\ o.doc = doc /\ o.version = v /\ o.target = to
        /\ o.pc = FirstWriteStep(from, to)
    OBVIOUS
  <1>10. Become(r, o) /\ docs[p][v] = doc /\ doc.status = from
    BY <1>1 DEF doc, from
  <1> HIDE DEF o
  <1>11. Admits(o, doc)
    BY <1>4, <1>5, <1>6, <1>9, <1>10 DEF Admits
  <1>12. RequestHolds(o)
    BY <1>2, <1>5, <1>9, <1>10, <1>11 DEF RequestHolds, Continues, DocHolds
  <1>13. UNCHANGED <<ledger, docs, accreditation>>
    BY DEF InternalRead
  <1> QED
    BY <1>8, <1>10, <1>12, <1>13, OnlyRequestMoves DEF Valid

LEMMA ExternalReadHolds ==
  ASSUME Inv, NEW r \in Requests, ExternalRead(r)
  PROVE  Inv'
  <1>0. PICK p \in PRNs, to \in {ACCEPTED, AWAITING_CANCELLATION} : \E v \in ReadableVersions(p) :
          Become(r, [pc |-> "readTail", prn |-> p, doc |-> docs[p][v],
                     version |-> v, target |-> to, attempt |-> 1])
    BY DEF ExternalRead
  <1>1. PICK v \in ReadableVersions(p) :
          Become(r, [pc |-> "readTail", prn |-> p, doc |-> docs[p][v],
                     version |-> v, target |-> to, attempt |-> 1])
    BY <1>0
  <1> DEFINE doc == docs[p][v]
             o == [pc |-> "readTail", prn |-> p, doc |-> doc,
                   version |-> v, target |-> to, attempt |-> 1]
  <1>2. /\ v \in 1..Len(docs[p]) /\ v \in Nat \ {0} /\ doc \in PrnDocument
        /\ DocHolds(p, doc) /\ IsPrefix(doc.history, doc.history)
    BY Readable
  <1>3. 1 \in 1..SuffixAttempts /\ to \in PRN_STATUS
    BY BoundAssumption DEF PRN_STATUS
  <1>4. Become(r, o) /\ docs[p][v] = doc
    BY <1>1
  <1> HIDE DEF doc
  <1>5. o \in ActiveRequest
    BY <1>2, <1>3 DEF ActiveRequest, Phases
  <1>6. /\ o.prn = p /\ o.doc = doc /\ o.version = v /\ o.target = to /\ o.pc = "readTail"
    OBVIOUS
  <1> HIDE DEF o
  <1>7. RequestHolds(o)
    BY <1>2, <1>4, <1>6 DEF RequestHolds, Continues, Admits, DocHolds
  <1>8. UNCHANGED <<ledger, docs, accreditation>>
    BY DEF ExternalRead
  <1> QED
    BY <1>4, <1>5, <1>7, <1>8, OnlyRequestMoves DEF Valid

LEMMA ReadTailHolds ==
  ASSUME Inv, NEW r \in Requests, ReadTail(r)
  PROVE  Inv'
  <1> DEFINE p == req[r].prn
             source == docs[p][req[r].version]
  <1>1. TypeOK /\ LedgerHolds /\ UNCHANGED <<ledger, docs, accreditation>>
    BY DEF Inv, ReadTail
  <1>2. req[r] \in ActiveRequest /\ RequestHolds(req[r]) /\ req[r].pc = "readTail"
    BY ActiveIsValid DEF ReadTail
  <1>3. PICK n \in ReadablePrefixes :
          LET doc == ProjectFromStreamTail(p, req[r].doc, n)
          IN  IF ValidTransition(doc.status, req[r].target, PRODUCER)
              THEN Become(r, [req[r] EXCEPT !.pc = "append", !.doc = doc])
              ELSE Stop(r)
    BY DEF ReadTail
  <1>4. n \in 1..Len(ledger)
    BY <1>1, Typed DEF ReadablePrefixes, LedgerHolds
  <1>5. p \in PRNs /\ req[r].doc \in PrnDocument /\ req[r].version \in 1..Len(docs[p])
    BY <1>2 DEF ActiveRequest, RequestHolds
  <1> DEFINE doc == ProjectFromStreamTail(p, req[r].doc, n)
             o == [req[r] EXCEPT !.pc = "append", !.doc = doc]
  <1>6. /\ doc \in PrnDocument /\ Follows(p, doc) /\ Whole(doc)
        /\ doc.number = req[r].doc.number
        /\ IsPrefix(req[r].doc.history, doc.history)
    BY <1>1, <1>2, <1>4, <1>5, Projecting DEF RequestHolds
  <1>7. CASE ~ValidTransition(doc.status, req[r].target, PRODUCER)
    BY <1>1, <1>3, <1>7, IdleIsValid, OnlyRequestMoves DEF Stop
  <1>8. CASE ValidTransition(doc.status, req[r].target, PRODUCER)
    <2>1. Become(r, o)
      BY <1>3, <1>8
    <2> HIDE DEF doc
    <2>2. o \in ActiveRequest
      BY <1>2, <1>6 DEF ActiveRequest, Phases
    <2>3. /\ o.prn = p /\ o.version = req[r].version /\ o.target = req[r].target
          /\ o.doc = doc /\ o.pc = "append"
      BY <1>2 DEF ActiveRequest
    <2> HIDE DEF o
    <2>4. /\ req[r].doc.number = source.number /\ IsPrefix(source.history, req[r].doc.history)
          /\ req[r].target \in {ACCEPTED, AWAITING_CANCELLATION}
      BY <1>2 DEF RequestHolds, Continues, Admits
    <2>5. IsPrefix(source.history, doc.history)
      <3>1. /\ source.history \in Seq(PRN_STATUS) /\ req[r].doc.history \in Seq(PRN_STATUS)
            /\ doc.history \in Seq(PRN_STATUS)
        BY <1>1, <1>5, <1>6, Typed DEF PrnDocument
      <3> QED
        BY <1>6, <2>4, <3>1, PrefixTransitive
    <2>6. Admits(o, source)
      BY <1>8, <2>3, <2>4 DEF Admits, Actors, ACCEPTED, AWAITING_CANCELLATION, DISCARDED
    <2>7. o.target \notin Unnumbered \cup {AWAITING_ACCEPTANCE}
      BY <2>3, <2>4 DEF Unnumbered, DRAFT, AWAITING_AUTHORISATION, AWAITING_ACCEPTANCE,
         ACCEPTED, AWAITING_CANCELLATION, DELETED, DISCARDED
    <2>8. RequestHolds(o)
      BY <1>5, <1>6, <2>3, <2>4, <2>5, <2>6, <2>7 DEF RequestHolds, Continues
    <2> QED
      BY <1>1, <2>1, <2>2, <2>8, OnlyRequestMoves DEF Valid
  <1> QED
    BY <1>7, <1>8

LEMMA CheckAccreditationHolds ==
  ASSUME Inv, NEW r \in Requests, CheckAccreditation(r)
  PROVE  Inv'
  <1>1. UNCHANGED <<ledger, docs, accreditation>>
    BY DEF CheckAccreditation
  <1>2. req[r] \in ActiveRequest /\ RequestHolds(req[r]) /\ req[r].pc = "checkAccreditation"
    BY ActiveIsValid DEF CheckAccreditation
  <1> DEFINE o == [req[r] EXCEPT !.pc = "append"]
  <1>3. Stop(r) \/ Become(r, o)
    BY DEF CheckAccreditation
  <1>4. o \in ActiveRequest
    BY <1>2 DEF ActiveRequest, Phases
  <1>5. /\ o.prn = req[r].prn /\ o.version = req[r].version /\ o.target = req[r].target
        /\ o.doc = req[r].doc /\ o.pc = "append"
    BY <1>2 DEF ActiveRequest
  <1> HIDE DEF o
  <1>6. o.doc.status = AWAITING_AUTHORISATION /\ o.target = AWAITING_ACCEPTANCE
    BY <1>2, <1>5 DEF RequestHolds, Admits
  <1>7. ValidTransition(o.doc.status, o.target, SIGNATORY) /\ SIGNATORY \in Actors
        /\ o.target # DISCARDED
    BY <1>6 DEF ValidTransition, PRN_STATUS_TRANSITIONS, Actors, AWAITING_ACCEPTANCE, DISCARDED
  <1>8. Admits(o, docs[o.prn][o.version])
    BY <1>5, <1>7 DEF Admits
  <1>9. RequestHolds(o)
    BY <1>2, <1>5, <1>8 DEF RequestHolds, Continues
  <1> QED
    BY <1>1, <1>3, <1>4, <1>9, IdleIsValid, OnlyRequestMoves DEF Valid, Stop

(* The event appended is the PRN's, and the document folded from it        *)
(* follows it.                                                             *)
LEMMA AppendEventHolds ==
  ASSUME Inv, NEW r \in Requests, AppendEvent(r)
  PROVE  Inv'
  <1>0. PICK old, source, number :
          old = req[r] /\ source = docs[old.prn][old.version] /\ number = Len(ledger) + 1
    OBVIOUS
  <1> DEFINE p      == old.prn
             kind   == TRANSITION_TO_COMMAND(old.doc.status, old.target)
             close  == ClosingForPrn(Balance, kind, old.doc.tonnage)
             event  == [kind |-> kind, prn |-> p, closing |-> close]
             doc    == ApplyEvent(old.doc, number, kind)
             o      == [old EXCEPT !.pc = "persist", !.doc = doc]
  <1>1. TypeOK /\ LedgerHolds /\ NumbersUnique /\ DocsHold /\ UNCHANGED <<docs, accreditation>>
    BY DEF Inv, AppendEvent
  <1>2. old \in ActiveRequest /\ RequestHolds(old) /\ old.pc = "append"
    BY <1>0, ActiveIsValid DEF AppendEvent
  <1>3. /\ p \in PRNs /\ old.doc \in PrnDocument /\ old.version \in 1..Len(docs[p])
        /\ old.doc.tonnage \in Int /\ old.doc.history \in Seq(PRN_STATUS)
    <2>1. old.doc \in PrnDocument
      BY <1>2 DEF ActiveRequest
    <2>2. old.doc.tonnage \in PrnAmounts /\ old.doc.history \in Seq(PRN_STATUS)
      BY <2>1 DEF PrnDocument
    <2>3. \A a \in PrnAmounts : a \in Int
      BY TonnageAssumption
    <2> QED
      BY <1>2, <2>1, <2>2, <2>3 DEF ActiveRequest, RequestHolds
  <1>4. ledger \in Seq(Event) /\ Len(ledger) \in Nat
    BY <1>1 DEF TypeOK
  <1>5. PICK actor \in Actors : ValidTransition(old.doc.status, old.target, actor)
    BY <1>2 DEF RequestHolds, Admits
  <1>6. old.target # DISCARDED
    BY <1>2 DEF RequestHolds, Admits
  <1>7. kind \in PrnKinds /\ LEDGER_EVENT_KIND_TO_PRN_STATUS(kind) = old.target
    BY <1>5, <1>6, CommandReaches
  <1>8. number \in 1..MaxEvents
    BY <1>0, <1>4, BoundAssumption DEF AppendEvent
  <1>9. CASE Stop(r) /\ UNCHANGED ledger
    BY <1>1, <1>9, IdleIsValid, OnlyRequestMoves DEF Stop
  <1>10. CASE ledger' = Append(ledger, event) /\ Become(r, o)
    <2>1. close \in BalanceSnapshot
      <3>1. Balance \in BalanceSnapshot
        <4>1. Len(ledger) \in 1..Len(ledger)
          BY <1>1, <1>4 DEF LedgerHolds
        <4>2. ledger[Len(ledger)] \in Event
          BY <1>4, <4>1
        <4> QED
          BY <4>2 DEF Balance, Last, Event
      <3> HIDE DEF kind
      <3> QED
        BY <1>3, <1>7, <3>1, SnapshotClosed
    <2> HIDE DEF close, kind
    <2>2. event \in Event /\ event.prn = p /\ event.kind = kind
      BY <1>3, <1>7, <2>1 DEF Event, EventKinds
    <2> HIDE DEF event
    <2>3. /\ ledger' \in Seq(Event) /\ Len(ledger') = number /\ ledger'[number] = event
          /\ \A i \in 1..Len(ledger) : ledger'[i] = ledger[i]
      BY <1>0, <1>4, <1>10, <2>2
    <2>4. LedgerGrows /\ DocsGrow
      BY <1>0, <1>1, <1>4, <2>3, NothingGrows DEF LedgerGrows
    <2>5. /\ doc \in PrnDocument /\ Whole(doc)
          /\ doc.status = old.target /\ doc.watermark = number
          /\ doc.number = old.doc.number
          /\ doc.history = Append(old.doc.history, doc.status)
      BY <1>3, <1>7, <1>8, EventApplied
    <2> HIDE DEF doc
    <2>6. o \in ActiveRequest
      BY <1>2, <2>5 DEF ActiveRequest, Phases
    <2>7. /\ o.prn = p /\ o.version = old.version /\ o.target = old.target
          /\ o.doc = doc /\ o.pc = "persist"
      BY <1>2 DEF ActiveRequest
    <2> HIDE DEF o
    <2>8. TypeOK'
      BY <1>1, <1>10, <2>3, <2>6 DEF TypeOK, Become
    <2>9. LedgerHolds'
      <3>1. Len(ledger') <= MaxEvents /\ ledger' # <<>>
        BY <1>0, <1>4, <1>8, <2>3
      <3>2. ledger'[1].prn = "none"
        BY <1>1, <1>4, <2>3 DEF LedgerHolds
      <3>3. ASSUME NEW i \in 1..Len(ledger'), ledger'[i].prn \in PRNs
            PROVE  ledger'[i].kind \in PrnKinds
        <4>1. i = number \/ i \in 1..Len(ledger)
          BY <1>0, <1>4, <2>3
        <4> QED
          BY <1>1, <1>7, <2>2, <2>3, <3>3, <4>1 DEF LedgerHolds
      <3> QED
        BY <3>1, <3>2, <3>3 DEF LedgerHolds
    <2>10. NumbersUnique'
      BY <1>1 DEF NumbersUnique, Exists, Current
    <2>11. DocsHold'
      <3>1. ASSUME NEW q \in PRNs, NEW v \in 1..Len(docs[q]) PROVE DocHolds(q, docs[q][v])'
        <4>1. PICK d : d = docs[q][v]
          OBVIOUS
        <4>2. DocHolds(q, d)
          BY <1>1, <4>1 DEF DocsHold
        <4>3. Follows(q, d)'
          BY <1>1, <2>4, <2>8, <4>2, FollowsOn DEF DocHolds
        <4>4. docs'[q][v] = d
          BY <1>1, <4>1
        <4> QED
          BY <4>2, <4>3, <4>4 DEF DocHolds, Whole, Follows, EventsOf, TailNumbers
      <3> QED
        BY <1>1, <3>1 DEF DocsHold
    <2>12. Valid(o)'
      <3>1. source.history \in Seq(PRN_STATUS) /\ doc.status \in PRN_STATUS
        <4>1. source \in PrnDocument
          BY <1>0, <1>1, <1>3, Typed
        <4> QED
          BY <2>5, <4>1 DEF PrnDocument
      <3>2. old.doc.number = source.number /\ IsPrefix(source.history, old.doc.history)
        BY <1>0, <1>2 DEF RequestHolds, Continues
      <3>3. IsPrefix(source.history, doc.history) /\ source.history # doc.history
        <4>1. PICK s \in Seq(PRN_STATUS), t \in Seq(PRN_STATUS), x \in PRN_STATUS :
                s = source.history /\ t = old.doc.history /\ x = doc.status
          BY <1>3, <3>1
        <4>2. IsPrefix(s, Append(t, x)) /\ s # Append(t, x)
          BY <3>2, <4>1, PrefixOfAppend
        <4> QED
          BY <2>5, <4>1, <4>2
      <3>4. docs'[o.prn][o.version] = source /\ o.version \in 1..Len(docs'[o.prn])
        BY <1>0, <1>1, <1>3, <2>7
      <3>5. Admits(o, source) /\ Continues(o, source)
        BY <1>6, <2>5, <2>7, <3>2, <3>3 DEF Admits, Continues
      <3>6. Follows(p, doc)'
        <4>1. number \in 1..Len(ledger') /\ ledger'[number].prn = p /\ number # 0
          BY <1>0, <1>4, <2>2, <2>3
        <4>2. (number \in EventsOf(p))'
          BY <1>0, <1>4, <2>3, <4>1 DEF EventsOf, TailNumbers
        <4>3. doc.status = LEDGER_EVENT_KIND_TO_PRN_STATUS(ledger'[number].kind)
          BY <1>7, <2>2, <2>3, <2>5
        <4>4. doc.watermark \in EventsOf(p)' /\ doc.watermark # 0
          BY <2>5, <2>3, <4>1, <4>2 DEF EventsOf, TailNumbers
        <4> QED
          BY <2>5, <4>3, <4>4 DEF Follows
      <3>7. o.target \in Unnumbered \cup {AWAITING_ACCEPTANCE} => doc.number = NoNumber
        BY <1>2, <2>5, <2>7 DEF RequestHolds
      <3>8. RequestHolds(o)'
        BY <2>5, <2>7, <3>4, <3>5, <3>6, <3>7 DEF RequestHolds, Admits, Continues
      <3> QED
        BY <2>6, <3>8 DEF Valid
    <2> QED
      BY <1>10, <2>4, <2>8, <2>9, <2>10, <2>11, <2>12, OneRequestMoves
  <1> QED
    BY <1>0, <1>9, <1>10 DEF AppendEvent

LEMMA AppendConflictHolds ==
  ASSUME Inv, NEW r \in Requests, AppendConflict(r) \/ Fail(r)
  PROVE  Inv'
  BY IdleIsValid, OnlyRequestMoves DEF AppendConflict, Fail, Stop

(* A request whose compare-and-set matches read what is stored.            *)
LEMMA MatchedIsCurrent ==
  ASSUME Inv, NEW r \in Requests, req[r].pc # "idle", Matches(req[r])
  PROVE  /\ req[r].prn \in PRNs /\ Exists(req[r].prn)
         /\ docs[req[r].prn][req[r].version] = Current(req[r].prn)
         /\ Current(req[r].prn) \in PrnDocument /\ DocHolds(req[r].prn, Current(req[r].prn))
         /\ req[r].doc.watermark >= Current(req[r].prn).watermark
  <1>1. req[r] \in ActiveRequest /\ RequestHolds(req[r]) /\ TypeOK
    BY ActiveIsValid DEF Inv
  <1> DEFINE p == req[r].prn
             v == req[r].version
  <1>2. p \in PRNs /\ v \in 1..Len(docs[p]) /\ v = Len(docs[p])
    BY <1>1 DEF ActiveRequest, RequestHolds, Matches
  <1>3. docs[p] \in Seq(PrnDocument) /\ docs[p] # <<>>
    BY <1>1, <1>2, Typed
  <1>4. Exists(p) /\ Current(p) = docs[p][v] /\ docs[p][v] \in PrnDocument
    BY <1>1, <1>2, <1>3 DEF Exists, Current, Last
  <1>5. DocHolds(p, docs[p][v])
    BY <1>2 DEF Inv, DocsHold
  <1> QED
    BY <1>2, <1>4, <1>5 DEF Matches

LEMMA PersistHolds ==
  ASSUME Inv, NEW r \in Requests, Persist(r)
  PROVE  Inv' /\ DocsMove
  <1> DEFINE o == req[r]
             p == o.prn
  <1>1. o \in ActiveRequest /\ RequestHolds(o) /\ o.pc = "persist"
    BY ActiveIsValid DEF Persist
  <1>2. CASE ~Matches(o)
    <2>1. UNCHANGED <<ledger, docs, accreditation>> /\ Become(r, IdleRequest)
      BY <1>2 DEF Persist, Stop
    <2> QED
      BY <2>1, IdleIsValid, OnlyRequestMoves DEF DocsMove
  <1>3. CASE Matches(o)
    <2>1. /\ p \in PRNs /\ Exists(p) /\ docs[p][o.version] = Current(p)
          /\ o.doc.watermark >= Current(p).watermark
      BY <1>1, <1>3, MatchedIsCurrent DEF Persist
    <2>2. o.doc \in PrnDocument
      BY <1>1 DEF ActiveRequest
    <2>3. /\ o.doc.number = Current(p).number
          /\ IsPrefix(Current(p).history, o.doc.history)
          /\ Current(p).history # o.doc.history
          /\ o.doc.status = o.target /\ o.target # DISCARDED
      BY <1>1, <2>1 DEF RequestHolds, Continues, Admits
    <2>4. DocHolds(p, o.doc) /\ Extends(Current(p), o.doc)
      BY <1>1, <2>1, <2>3 DEF RequestHolds, DocHolds, Extends
    <2>5. Replace(p, o.doc) /\ Stop(r) /\ UNCHANGED <<ledger, accreditation>>
      BY <1>3 DEF Persist
    <2> QED
      BY <2>1, <2>2, <2>3, <2>4, <2>5, RequestWrites
  <1> QED
    BY <1>2, <1>3

LEMMA PersistIssuedHolds ==
  ASSUME Inv, NEW r \in Requests, PersistIssued(r)
  PROVE  Inv' /\ DocsMove
  <1> DEFINE o == req[r]
             p == o.prn
  <1>1. o \in ActiveRequest /\ RequestHolds(o) /\ o.pc = "persist" /\ o.target = AWAITING_ACCEPTANCE
    BY ActiveIsValid DEF PersistIssued
  <1>2. PICK base \in NumberBases :
          LET number == <<base, o.attempt>>
          IN  \/ ~Matches(o) /\ Stop(r) /\ UNCHANGED docs
              \/ /\ Matches(o) /\ ~NumberTaken(p, number)
                 /\ Replace(p, [o.doc EXCEPT !.number = number])
                 /\ Stop(r)
              \/ /\ Matches(o)
                 /\ IF RetriesLeft(o.attempt)
                    THEN Become(r, [o EXCEPT !.attempt = @ + 1])
                    ELSE Stop(r)
                 /\ UNCHANGED docs
    BY DEF PersistIssued
  <1>3. UNCHANGED <<ledger, accreditation>>
    BY DEF PersistIssued
  <1> DEFINE number == <<base, o.attempt>>
             doc    == [o.doc EXCEPT !.number = number]
             retry  == [o EXCEPT !.attempt = o.attempt + 1]
  <1>4. CASE Stop(r) /\ UNCHANGED docs
    BY <1>3, <1>4, IdleIsValid, OnlyRequestMoves DEF DocsMove, Stop
  <1>5. CASE /\ Matches(o) /\ ~NumberTaken(p, number) /\ Replace(p, doc) /\ Stop(r)
    <2>1. /\ p \in PRNs /\ Exists(p) /\ docs[p][o.version] = Current(p)
          /\ o.doc.watermark >= Current(p).watermark
      BY <1>1, <1>5, MatchedIsCurrent
    <2>2. o.doc \in PrnDocument /\ o.attempt \in 1..SuffixAttempts
      BY <1>1 DEF ActiveRequest
    <2>3. number \in PrnNumber
      BY <2>2 DEF PrnNumber
    <2>4. /\ o.doc.number = Current(p).number /\ o.doc.number = NoNumber
          /\ IsPrefix(Current(p).history, o.doc.history)
          /\ Current(p).history # o.doc.history
          /\ o.doc.status = AWAITING_ACCEPTANCE
      BY <1>1, <2>1 DEF RequestHolds, Continues, Admits
    <2> HIDE DEF number
    <2>5. /\ doc \in PrnDocument /\ doc.number = number
          /\ doc.status = o.doc.status /\ doc.watermark = o.doc.watermark
          /\ doc.history = o.doc.history
      BY <2>2, <2>3 DEF PrnDocument
    <2> HIDE DEF doc
    <2>6. Follows(p, doc) /\ Whole(doc)
      BY <1>1, <2>5 DEF RequestHolds, Follows, Whole
    <2>7. AWAITING_ACCEPTANCE \notin Unnumbered
      BY DEF Unnumbered, AWAITING_ACCEPTANCE, DRAFT, AWAITING_AUTHORISATION, DISCARDED, DELETED
    <2>8. DocHolds(p, doc) /\ Extends(Current(p), doc)
      BY <2>1, <2>4, <2>5, <2>6, <2>7 DEF DocHolds, Extends
    <2> QED
      BY <1>3, <1>5, <2>1, <2>5, <2>8, RequestWrites
  <1>6. CASE Become(r, retry) /\ RetriesLeft(o.attempt) /\ UNCHANGED docs
    <2>1. o.attempt + 1 \in 1..SuffixAttempts
      BY <1>1, <1>6, BoundAssumption DEF ActiveRequest, RetriesLeft
    <2>2. retry \in ActiveRequest
      BY <1>1, <2>1 DEF ActiveRequest
    <2>3. /\ retry.prn = p /\ retry.version = o.version /\ retry.target = o.target
          /\ retry.doc = o.doc /\ retry.pc = o.pc
      BY <1>1 DEF ActiveRequest
    <2> HIDE DEF retry
    <2>4. Admits(retry, docs[p][o.version]) /\ Continues(retry, docs[p][o.version])
      BY <1>1, <2>3 DEF RequestHolds, Admits, Continues
    <2>5. RequestHolds(retry)
      BY <1>1, <2>3, <2>4 DEF RequestHolds
    <2> QED
      BY <1>3, <1>6, <2>2, <2>5, OnlyRequestMoves DEF Valid, DocsMove
  <1> QED
    BY <1>2, <1>4, <1>5, <1>6

LEMMA DiscardHolds ==
  ASSUME Inv, NEW r \in Requests, Discard(r)
  PROVE  Inv' /\ DocsMove
  <1> DEFINE o == req[r]
             p == o.prn
             history == Append(Current(p).history, DISCARDED)
             doc == [Current(p) EXCEPT !.status = DISCARDED, !.history = history]
  <1>1. o \in ActiveRequest /\ RequestHolds(o) /\ o.pc = "discard"
    BY ActiveIsValid DEF Discard
  <1>2. CASE ~Matches(o)
    <2>1. UNCHANGED <<ledger, docs, accreditation>> /\ Become(r, IdleRequest)
      BY <1>2 DEF Discard, Stop
    <2> QED
      BY <2>1, IdleIsValid, OnlyRequestMoves DEF DocsMove
  <1>3. CASE Matches(o)
    <2>1. /\ p \in PRNs /\ Exists(p) /\ docs[p][o.version] = Current(p)
          /\ Current(p) \in PrnDocument /\ DocHolds(p, Current(p))
      BY <1>1, <1>3, MatchedIsCurrent
    <2>2. o.target = DISCARDED /\ Current(p).status = DRAFT
      BY <1>1, <2>1 DEF RequestHolds, Admits
    <2>3. Current(p).history \in Seq(PRN_STATUS) /\ DISCARDED \in PRN_STATUS
      BY <2>1 DEF PrnDocument, PRN_STATUS
    <2>4. /\ history \in Seq(PRN_STATUS) /\ history # <<>> /\ Last(history) = DISCARDED
          /\ IsPrefix(Current(p).history, history) /\ Current(p).history # history
      <3>1. IsPrefix(Current(p).history, Current(p).history)
        BY <2>3, PrefixOfItself
      <3>2. history \in Seq(PRN_STATUS) /\ history # <<>> /\ Last(history) = DISCARDED
        BY <2>3 DEF Last
      <3> QED
        BY <2>3, <3>1, <3>2, PrefixOfAppend
    <2>5. Replace(p, doc) /\ Stop(r) /\ UNCHANGED <<ledger, accreditation>>
      BY <1>3, <2>2 DEF Discard
    <2>6. Current(p).watermark = 0
      <3>1. ASSUME Current(p).watermark # 0 PROVE FALSE
        <4>1. Current(p).watermark \in EventsOf(p)
              /\ DRAFT = LEDGER_EVENT_KIND_TO_PRN_STATUS(ledger[Current(p).watermark].kind)
          BY <2>1, <2>2, <3>1 DEF DocHolds, Follows
        <4>2. ledger[Current(p).watermark].kind \in PrnKinds
          BY <2>1, <4>1, Typed DEF Inv, LedgerHolds, EventsOf, TailNumbers
        <4> QED
          BY <4>1, <4>2, StatusOfKind
      <3> QED
        BY <3>1
    <2> HIDE DEF history
    <2>7. /\ doc \in PrnDocument /\ doc.status = DISCARDED /\ doc.watermark = 0
          /\ doc.history = history /\ doc.number = Current(p).number
      BY <2>1, <2>3, <2>4, <2>6 DEF PrnDocument
    <2> HIDE DEF doc
    <2>8. Current(p).number = NoNumber
      BY <2>1, <2>2 DEF DocHolds, Unnumbered
    <2>9. DocHolds(p, doc) /\ Extends(Current(p), doc)
      BY <2>4, <2>6, <2>7, <2>8 DEF DocHolds, Follows, Whole, Extends
    <2> QED
      BY <2>1, <2>5, <2>7, <2>9, RequestWrites
  <1> QED
    BY <1>2, <1>3

LEMMA StutterHolds ==
  ASSUME Inv, UNCHANGED <<ledger, docs, req>>, accreditation' \in {"approved", "suspended", "cancelled"}
  PROVE  Inv'
  <1>1. TypeOK /\ TypeOK'
    BY DEF Inv, TypeOK
  <1>2. LedgerGrows /\ DocsGrow
    BY <1>1, NothingGrows
  <1>3. LedgerHolds' /\ NumbersUnique' /\ DocsHold'
    BY DEF Inv, LedgerHolds, NumbersUnique, Exists, Current, DocsHold, DocHolds, Follows,
       EventsOf, TailNumbers
  <1> QED
    BY <1>1, <1>2, <1>3, NoRequestMoves

(* Every step keeps the invariant and writes at most one document, which   *)
(* extends the one it replaces.                                            *)
LEMMA StepHolds ==
  ASSUME Inv, [Next]_vars
  PROVE  Inv' /\ DocsMove
  <1>1. ASSUME NEW p \in PRNs, Post(p) PROVE Inv' /\ DocsMove
    BY <1>1, PostHolds
  <1>2. ASSUME NEW r \in Requests, InternalRead(r) PROVE Inv' /\ DocsMove
    BY <1>2, InternalReadHolds DEF InternalRead, DocsMove
  <1>3. ASSUME NEW r \in Requests, ExternalRead(r) PROVE Inv' /\ DocsMove
    BY <1>3, ExternalReadHolds DEF ExternalRead, DocsMove
  <1>4. ASSUME NEW r \in Requests, ReadTail(r) PROVE Inv' /\ DocsMove
    BY <1>4, ReadTailHolds DEF ReadTail, DocsMove
  <1>5. ASSUME NEW r \in Requests, CheckAccreditation(r) PROVE Inv' /\ DocsMove
    BY <1>5, CheckAccreditationHolds DEF CheckAccreditation, DocsMove
  <1>6. ASSUME NEW r \in Requests, AppendEvent(r) PROVE Inv' /\ DocsMove
    BY <1>6, AppendEventHolds DEF AppendEvent, DocsMove
  <1>7. ASSUME NEW r \in Requests, AppendConflict(r) \/ Fail(r) PROVE Inv' /\ DocsMove
    BY <1>7, AppendConflictHolds DEF AppendConflict, Fail, DocsMove
  <1>8. ASSUME NEW r \in Requests, Persist(r) PROVE Inv' /\ DocsMove
    BY <1>8, PersistHolds
  <1>9. ASSUME NEW r \in Requests, PersistIssued(r) PROVE Inv' /\ DocsMove
    BY <1>9, PersistIssuedHolds
  <1>10. ASSUME NEW r \in Requests, Discard(r) PROVE Inv' /\ DocsMove
    BY <1>10, DiscardHolds
  <1>11. CASE ChangeAccreditation
    BY <1>11, StutterHolds DEF ChangeAccreditation, AccreditationTransitions, DocsMove
  <1>12. CASE UNCHANGED vars
    BY <1>12, StutterHolds DEF vars, DocsMove, Inv, TypeOK
  <1> QED
    BY <1>1, <1>2, <1>3, <1>4, <1>5, <1>6, <1>7, <1>8, <1>9, <1>10, <1>11, <1>12 DEF Next

LEMMA InvHolds == Spec => []Inv
  BY InitHolds, StepHolds, PTL DEF Spec

-----------------------------------------------------------------------------
(* The theorems.                                                           *)

(* Stored documents are folds of their own events: the watermark of every  *)
(* version names one of the PRN's events, and the status is the one that   *)
(* event projects, whichever requests raced, failed or read late.          *)
THEOREM WatermarksNameOwnEvents == Spec => []WatermarkNamesOwnEvent
  <1>1. Inv => WatermarkNamesOwnEvent
    BY DEF Inv, WatermarkNamesOwnEvent, DocsHold, DocHolds, Follows
  <1> QED
    BY <1>1, InvHolds, PTL

(* The latest of a PRN's events is the one a member as late as any names.  *)
LEMMA LatestIs ==
  ASSUME NEW S \in SUBSET Nat, NEW m \in S, \A j \in S : j <= m
  PROVE  (CHOOSE i \in S : \A j \in S : j <= i) = m
  <1>1. \A i \in S : (\A j \in S : j <= i) => i <= m /\ m <= i /\ i \in Nat /\ m \in Nat
    OBVIOUS
  <1>2. \A i \in S : (\A j \in S : j <= i) => i = m
    BY <1>1
  <1> QED
    BY <1>2

(* Folding the events after the watermark onto what is stored ends in the  *)
(* status of the PRN's last event, however many writes of documents were   *)
(* lost or refused, unless a deletion was stored.                          *)
THEOREM CatchUpReachesTheLedger == Spec => []CatchUpReachesLedger
  <1>1. ASSUME Inv PROVE CatchUpReachesLedger
    <2> SUFFICES ASSUME NEW p \in PRNs, Exists(p), EventsOf(p) # {}, Current(p).status # DELETED
                 PROVE  Projected(p).status = LEDGER_EVENT_KIND_TO_PRN_STATUS(
                          ledger[CHOOSE i \in EventsOf(p) : \A j \in EventsOf(p) : j <= i].kind)
      BY DEF CatchUpReachesLedger
    <2> DEFINE doc     == Current(p)
               d       == Projected(p)
               numbers == TailNumbers(p, doc.watermark, Len(ledger))
    <2>1. TypeOK /\ LedgerHolds /\ Len(ledger) \in Nat
      BY <1>1, Typed DEF Inv
    <2>2. doc \in PrnDocument /\ DocHolds(p, doc)
      BY <1>1, <2>1, Typed DEF Inv, DocsHold
    <2>3. Len(ledger) \in 1..Len(ledger)
      BY <2>1 DEF LedgerHolds, TypeOK
    <2>4. Follows(p, d) /\ Folded(d, doc, numbers, Len(ledger))
      BY <2>1, <2>2, <2>3, Projecting DEF Projected, DocHolds
    <2>5. doc.watermark \in Nat
      BY <2>2, BoundAssumption DEF PrnDocument
    <2>6. /\ EventsOf(p) \subseteq 1..Len(ledger)
          /\ numbers = {i \in EventsOf(p) : i > doc.watermark}
      BY <2>1, <2>5 DEF EventsOf, TailNumbers
    <2> HIDE DEF doc, d, numbers
    <2>7. d.watermark \in EventsOf(p) /\ \A j \in EventsOf(p) : j <= d.watermark
      <3>1. CASE d = doc /\ \A n \in numbers : n > Len(ledger)
        <4>1. numbers = {}
          BY <2>1, <2>6, <3>1
        <4>2. \A j \in EventsOf(p) : j \in Nat /\ j # 0 /\ j <= doc.watermark
          BY <2>1, <2>5, <2>6, <4>1
        <4>3. doc.watermark # 0
          BY <2>5, <4>2
        <4> QED
          BY <2>4, <3>1, <4>2, <4>3 DEF Follows
      <3>2. CASE d.watermark \in numbers /\ \A n \in numbers : n <= Len(ledger) => n <= d.watermark
        <4>1. d.watermark \in EventsOf(p) /\ d.watermark > doc.watermark /\ d.watermark \in Nat
          BY <2>1, <2>6, <3>2
        <4>2. ASSUME NEW j \in EventsOf(p) PROVE j <= d.watermark
          <5>1. j \in Nat /\ j <= Len(ledger)
            BY <2>1, <2>6
          <5>2. CASE j \in numbers
            BY <3>2, <5>1, <5>2
          <5>3. CASE j \notin numbers
            BY <2>5, <2>6, <4>1, <5>1, <5>3
          <5> QED
            BY <5>2, <5>3
        <4> QED
          BY <4>1, <4>2
      <3> QED
        BY <2>4, <3>1, <3>2 DEF Folded
    <2>8. (CHOOSE i \in EventsOf(p) : \A j \in EventsOf(p) : j <= i) = d.watermark
      <3>1. EventsOf(p) \in SUBSET Nat
        BY <2>1, <2>6
      <3> QED
        BY <2>7, <3>1, LatestIs
    <2>9. d.watermark # 0
      BY <2>1, <2>6, <2>7
    <2>10. d.status = LEDGER_EVENT_KIND_TO_PRN_STATUS(ledger[d.watermark].kind)
      BY <2>4, <2>9 DEF Follows
    <2> QED
      BY <2>8, <2>10 DEF d
  <1> QED
    BY <1>1, InvHolds, PTL

(* A stored history only grows and a number once given stays: no write     *)
(* loses another, however the requests interleave.                         *)
THEOREM HistoriesOnlyGrow == Spec => HistoryOnlyGrows
  <1>1. ASSUME Inv, [Next]_vars
        PROVE  [\A p \in PRNs : Exists(p) =>
                  /\ IsPrefix(Current(p).history, (Current(p).history)')
                  /\ (Current(p).number)' # Current(p).number => Current(p).number = NoNumber]_vars
    <2> SUFFICES ASSUME NEW p \in PRNs, Exists(p)
                 PROVE  /\ IsPrefix(Current(p).history, (Current(p).history)')
                        /\ (Current(p).number)' # Current(p).number => Current(p).number = NoNumber
      OBVIOUS
    <2>1. DocsMove
      BY <1>1, StepHolds
    <2>2. CASE docs'[p] = docs[p]
      <3>1. Current(p).history \in Seq(PRN_STATUS)
        BY <1>1, Typed DEF Inv, PrnDocument
      <3>2. Current(p)' = Current(p)
        BY <2>2 DEF Current
      <3> QED
        BY <3>1, <3>2, PrefixOfItself
    <2>3. CASE Extends(Current(p), Current(p)')
      BY <2>3 DEF Extends
    <2> QED
      BY <2>1, <2>2, <2>3 DEF DocsMove
  <1> QED
    BY <1>1, InvHolds, PTL DEF Spec, HistoryOnlyGrows

(* The document of p as the contract of the repository sees it.            *)
Seen(p) ==
  IF Exists(p)
  THEN [version   |-> Len(docs[p]),       status |-> Current(p).status,
        history   |-> Current(p).history, number |-> Current(p).number,
        watermark |-> Current(p).watermark]
  ELSE [version |-> 0]

LEMMA Seeing ==
  ASSUME TypeOK, NEW p \in PRNs
  PROVE  Repository!Exists(p) <=> Exists(p)
  <1>1. Len(docs[p]) \in Nat /\ (Exists(p) => Len(docs[p]) # 0)
    BY Typed DEF TypeOK, Exists
  <1>2. Exists(p) => Seen(p).version # 0
    BY <1>1 DEF Seen
  <1> QED
    BY <1>2 DEF Repository!Exists, Repository!NotFound, Seen

(* The documents honour the contract of the repository: each write creates *)
(* a draft or moves one document on from the version its writer read, and  *)
(* no two PRNs come to share a number.                                     *)
THEOREM RepositoryHonoured == Spec => HonoursContract
  <1>1. Init => Repository!Init
    BY DEF Init, Exists, Repository!Init, Repository!NotFound
  <1>2. ASSUME Inv, [Next]_vars
        PROVE  [Repository!Next]_([p \in PRNs |-> Seen(p)])
    <2>1. Inv' /\ DocsMove /\ TypeOK /\ TypeOK'
      BY <1>2, StepHolds DEF Inv
    <2>2. CASE docs' = docs
      BY <2>2 DEF Seen, Exists, Current
    <2>3. CASE docs' # docs
      <3>1. PICK p \in PRNs :
              /\ \A q \in PRNs \ {p} : docs'[q] = docs[q]
              /\ Len(docs'[p]) = Len(docs[p]) + 1
              /\ \/ ~Exists(p) /\ Drafts(p)
                 \/ Exists(p) /\ Exists(p)' /\ Extends(Current(p), Current(p)')
        BY <2>1, <2>3 DEF DocsMove
      <3>2. \A q \in PRNs \ {p} : Seen(q)' = Seen(q)
        BY <3>1 DEF Seen, Exists, Current
      <3>3. Repository!NumbersUnique'
        <4> SUFFICES ASSUME NEW q \in PRNs, NEW s \in PRNs, q # s,
                            Repository!Exists(q)', Repository!Exists(s)'
                     PROVE  (Seen(q).number = NoNumber \/ Seen(q).number # Seen(s).number)'
          BY DEF Repository!NumbersUnique, Seen
        <4>1. Exists(q)' /\ Exists(s)'
          BY <2>1, Seeing DEF Repository!Exists, Repository!NotFound, Exists
        <4> QED
          BY <2>1, <4>1 DEF Inv, NumbersUnique, Seen
      <3>4. CASE ~Exists(p) /\ Drafts(p)
        <4>1. Repository!Create(p)
          <5>1. PICK a \in PrnAmounts :
                  docs'[p] = << [status |-> DRAFT, tonnage |-> a, number |-> NoNumber,
                                 watermark |-> 0, history |-> <<DRAFT>>] >>
            BY <3>4 DEF Drafts
          <5>2. Seen(p)' = [version |-> 1, status |-> DRAFT, history |-> <<DRAFT>>,
                            number |-> NoNumber, watermark |-> 0]
            BY <5>1 DEF Seen, Exists, Current, Last
          <5>3. ~Repository!Exists(p)
            BY <2>1, <3>4, Seeing
          <5> QED
            BY <5>2, <5>3 DEF Repository!Create, Repository!Drafted, Seen, DRAFT
        <4> QED
          BY <3>2, <3>3, <4>1 DEF Repository!Next, Seen
      <3>5. CASE Exists(p) /\ Exists(p)' /\ Extends(Current(p), Current(p)')
        <4>1. Repository!PersistProjection(p)
          <5>1. /\ Seen(p).version = Len(docs[p]) /\ Seen(p)'.version = Len(docs[p]) + 1
                /\ Seen(p).history = Current(p).history
                /\ Seen(p)'.history = Current(p)'.history
                /\ Seen(p).number = Current(p).number /\ Seen(p)'.number = Current(p)'.number
                /\ Seen(p).watermark = Current(p).watermark
                /\ Seen(p)'.watermark = Current(p)'.watermark
                /\ Seen(p)'.status = Current(p)'.status
            BY <3>1, <3>5 DEF Seen
          <5>2. Repository!Exists(p)
            BY <2>1, <3>5, Seeing
          <5>3. Repository!ProjectionAdvances(Seen(p), Seen(p)')
            BY <5>1 DEF Repository!ProjectionAdvances
          <5>4. Repository!StoredInFull(Seen(p), Seen(p)')
            BY <3>5, <5>1 DEF Repository!StoredInFull, Repository!IsStrictPrefix,
               Repository!IsPrefix, Repository!Last, IsPrefix, Last, Extends, Whole
          <5>5. Repository!NumberAssigned(Seen(p), Seen(p)')
            BY <3>5, <5>1 DEF Repository!NumberAssigned, Extends
          <5>6. Repository!ProjectionWatermark(Seen(p), Seen(p)')
            BY <3>5, <5>1 DEF Repository!ProjectionWatermark, Extends
          <5> QED
            BY <5>2, <5>3, <5>4, <5>5, <5>6 DEF Repository!PersistProjection, Seen
        <4> QED
          BY <3>2, <3>3, <4>1 DEF Repository!Next, Seen
      <3> QED
        BY <3>1, <3>4, <3>5
    <2> QED
      BY <2>2, <2>3
  <1> QED
    BY <1>1, <1>2, InvHolds, PTL DEF Spec, HonoursContract, Repository!Spec, Seen

-----------------------------------------------------------------------------
(* Where nothing but a regulator disturbs the PRNs: no write is lost, no   *)
(* two requests work on one PRN, reads are current.  Then the balance is   *)
(* that of the PRNs, and an issued PRN has a number.                       *)

(* The environment of the theorems, and as many suffixes to try as there   *)
(* are PRNs that could have taken one.                                     *)
Undisturbed ==
  /\ Disturbances \subseteq {"regulator"}
  /\ IsFiniteSet(PRNs) /\ Cardinality(PRNs) <= SuffixAttempts

-----------------------------------------------------------------------------
(* The invariant of undisturbed requests.                                  *)

Idle(p) == \A r \in Requests : req[r].pc # "idle" => req[r].prn # p

(* No event of p is missing from its document.                             *)
Settled(p) == \A i \in EventsOf(p) : Exists(p) /\ i <= Current(p).watermark

(* A request about to store a document has appended the one event of the   *)
(* PRN that the stored document lacks.                                     *)
Ahead(o) ==
  LET stored == Current(o.prn)
  IN  /\ stored.status # DELETED
      /\ o.doc.watermark > stored.watermark
      /\ \A i \in EventsOf(o.prn) : i <= stored.watermark \/ i = o.doc.watermark
      /\ o.doc.tonnage = stored.tonnage
      /\ o.target \in Issued \ {AWAITING_ACCEPTANCE} => o.doc.number # NoNumber

Fresh(o) ==
  /\ o.version = Len(docs[o.prn])
  /\ IF o.pc = "persist" THEN Ahead(o)
     ELSE o.doc = Current(o.prn) /\ Settled(o.prn) /\ o.attempt = 1

(* Each suffix tried before this one is that of another PRN's number.      *)
Tried(o) ==
  \A a \in 1..(o.attempt - 1) :
    \E q \in PRNs \ {o.prn} : Exists(q) /\ Current(q).number[2] = a

Alone ==
  \A r, s \in Requests :
    req[r].pc # "idle" /\ req[s].pc # "idle" /\ req[r].prn = req[s].prn => r = s

Settling == \A p \in PRNs : Idle(p) => Settled(p)

AllFresh == \A r \in Requests : req[r].pc # "idle" => Fresh(req[r])

AllTried == \A r \in Requests : req[r].pc # "idle" => Tried(req[r])

Numbered ==
  \A p \in PRNs : Exists(p) /\ Current(p).status \in Issued => Current(p).number # NoNumber

Calm == Alone /\ Settling /\ AllFresh /\ AllTried /\ Numbered

-----------------------------------------------------------------------------
(* What a PRN projects as.                                                 *)

LEMMA SettledProjects ==
  ASSUME Inv, NEW p \in PRNs, Exists(p), Settled(p)
  PROVE  /\ Projected(p) = Current(p)
         /\ ProjectFromStreamTail(p, Current(p), Len(ledger)) = Current(p)
  <1> DEFINE doc == Current(p)
             d   == Projected(p)
             numbers == TailNumbers(p, doc.watermark, Len(ledger))
  <1>1. TypeOK /\ LedgerHolds /\ Len(ledger) \in Nat /\ Len(ledger) \in 1..Len(ledger)
    BY Typed DEF Inv, LedgerHolds, TypeOK
  <1>2. doc \in PrnDocument /\ DocHolds(p, doc)
    BY <1>1, Typed DEF Inv, DocsHold
  <1>3. doc.watermark \in Nat
    BY <1>2, BoundAssumption DEF PrnDocument
  <1>4. CASE doc.status = DELETED
    BY <1>4 DEF Projected, ProjectFromStreamTail
  <1>5. CASE doc.status # DELETED
    <2>1. Folded(d, doc, numbers, Len(ledger))
      BY <1>1, <1>2, <1>5, Projecting DEF Projected, DocHolds
    <2>2. numbers = {}
      BY <1>1, <1>3 DEF Settled, EventsOf, TailNumbers
    <2> QED
      BY <2>1, <2>2 DEF Folded, Projected
  <1> QED
    BY <1>4, <1>5

LEMMA AheadProjects ==
  ASSUME Inv, NEW r \in Requests, req[r].pc = "persist", Ahead(req[r]), Exists(req[r].prn)
  PROVE  /\ Projected(req[r].prn).status = req[r].doc.status
         /\ req[r].doc.watermark \in EventsOf(req[r].prn)
  <1> DEFINE o   == req[r]
             p   == o.prn
             doc == Current(p)
             d   == Projected(p)
             w   == o.doc.watermark
             numbers == TailNumbers(p, doc.watermark, Len(ledger))
  <1>1. TypeOK /\ LedgerHolds /\ Len(ledger) \in Nat /\ Len(ledger) \in 1..Len(ledger)
    BY Typed DEF Inv, LedgerHolds, TypeOK
  <1>2. o \in ActiveRequest /\ RequestHolds(o) /\ p \in PRNs
    BY ActiveIsValid DEF ActiveRequest
  <1>3. doc \in PrnDocument /\ DocHolds(p, doc)
    BY <1>1, <1>2, Typed DEF Inv, DocsHold
  <1>4. doc.watermark \in Nat /\ w \in Nat
    BY <1>2, <1>3, BoundAssumption DEF PrnDocument, ActiveRequest
  <1>5. w # 0 /\ w > doc.watermark /\ doc.status # DELETED
    BY <1>4 DEF Ahead
  <1>6. w \in EventsOf(p) /\ o.doc.status = LEDGER_EVENT_KIND_TO_PRN_STATUS(ledger[w].kind)
    BY <1>2, <1>5 DEF RequestHolds, Follows
  <1>7. Folded(d, doc, numbers, Len(ledger))
    BY <1>1, <1>2, <1>3, <1>5, Projecting DEF Projected, DocHolds
  <1>8. numbers = {w}
    <2>1. \A i \in EventsOf(p) : i \in Nat /\ (i <= doc.watermark \/ i = w)
      BY <1>1 DEF Ahead, EventsOf, TailNumbers
    <2>2. numbers = {i \in EventsOf(p) : i > doc.watermark}
      BY <1>1, <1>4 DEF EventsOf, TailNumbers
    <2> QED
      BY <1>4, <1>5, <1>6, <2>1, <2>2
  <1>9. w <= Len(ledger)
    BY <1>1, <1>6 DEF EventsOf, TailNumbers
  <1>10. d.watermark = w /\ d.status = LEDGER_EVENT_KIND_TO_PRN_STATUS(ledger[w].kind)
    BY <1>1, <1>4, <1>7, <1>8, <1>9 DEF Folded
  <1> QED
    BY <1>6, <1>10

-----------------------------------------------------------------------------
(* One PRN and one request move.                                           *)

LEMMA OneMoves ==
  ASSUME Inv, Calm, NEW r \in Requests, NEW p \in PRNs, NEW o, Become(r, o),
         req[r].pc = "idle" \/ req[r].prn = p,
         o.pc = "idle" \/ o.prn = p,
         \A s \in Requests \ {r} : req[s].pc # "idle" => req[s].prn # p,
         \A q \in PRNs \ {p} : docs'[q] = docs[q] /\ EventsOf(q)' = EventsOf(q),
         o.pc = "idle" => Settled(p)',
         o.pc # "idle" => Fresh(o)'
  PROVE  Alone' /\ Settling' /\ AllFresh'
  <1>0. TypeOK
    BY DEF Inv
  <1>1. req'[r] = o /\ \A s \in Requests \ {r} : req'[s] = req[s]
    BY <1>0 DEF Become, TypeOK
  <1>2. Alone'
    BY <1>1 DEF Calm, Alone
  <1>3. ASSUME NEW q \in PRNs, Idle(q)' PROVE Settled(q)'
    <2>1. CASE q = p
      BY <1>1, <1>3, <2>1 DEF Idle
    <2>2. CASE q # p
      <3>1. Idle(q)
        BY <1>1, <1>3, <2>2 DEF Idle
      <3>2. Settled(q)
        BY <3>1 DEF Calm, Settling
      <3> QED
        BY <2>2, <3>2 DEF Settled, Exists, Current
    <2> QED
      BY <2>1, <2>2
  <1>4. ASSUME NEW s \in Requests, req'[s].pc # "idle" PROVE Fresh(req[s])'
    <2>1. PICK x : x = req'[s]
      OBVIOUS
    <2>2. CASE s = r
      BY <1>1, <1>4, <2>2 DEF Fresh, Ahead, Settled, EventsOf, TailNumbers, Exists, Current
    <2>3. CASE s # r
      <3>1. x = req[s] /\ x.pc # "idle" /\ Fresh(x) /\ x.prn # p
        BY <1>1, <1>4, <2>1, <2>3 DEF Calm, AllFresh
      <3>2. x.prn \in PRNs
        BY <3>1, ActiveIsValid DEF ActiveRequest
      <3>3. docs'[x.prn] = docs[x.prn] /\ EventsOf(x.prn)' = EventsOf(x.prn)
        BY <3>1, <3>2
      <3>4. Fresh(x)'
        BY <3>1, <3>3 DEF Fresh, Ahead, Settled, Exists, Current
      <3> QED
        BY <2>1, <3>4 DEF Fresh, Ahead, Settled, EventsOf, TailNumbers, Exists, Current
    <2> QED
      BY <2>2, <2>3
  <1> QED
    BY <1>2, <1>3, <1>4 DEF Settling, AllFresh

(* The suffixes taken stay taken while documents are extended.             *)
LEMMA StaysTried ==
  ASSUME Inv, Inv', DocsMove, NEW o, Tried(o)
  PROVE  Tried(o)'
  <1> SUFFICES ASSUME NEW a \in 1..(o.attempt - 1)
               PROVE  \E q \in PRNs \ {o.prn} : (Exists(q) /\ Current(q).number[2] = a)'
    BY DEF Tried
  <1>1. PICK q \in PRNs \ {o.prn} : Exists(q) /\ Current(q).number[2] = a
    BY DEF Tried
  <1>2. CASE docs'[q] = docs[q]
    BY <1>1, <1>2 DEF Exists, Current
  <1>3. CASE Exists(q)' /\ Extends(Current(q), Current(q)')
    <2>1. Current(q).number # NoNumber
      <3>1. a # 0 \/ a \notin Int
        OBVIOUS
      <3>2. NoNumber[2] = 0
        BY DEF NoNumber
      <3> QED
        BY <1>1, <3>1, <3>2
    <2> QED
      BY <1>1, <1>3, <2>1 DEF Extends
  <1> QED
    BY <1>1, <1>2, <1>3 DEF DocsMove

LEMMA TriedMoves ==
  ASSUME Inv, Inv', DocsMove, Calm, NEW r \in Requests, NEW o, Become(r, o),
         o.pc # "idle" => Tried(o)'
  PROVE  AllTried'
  <1>1. req'[r] = o /\ \A s \in Requests \ {r} : req'[s] = req[s]
    BY DEF Become, Inv, TypeOK
  <1>2. ASSUME NEW s \in Requests, req'[s].pc # "idle" PROVE Tried(req[s])'
    <2>1. PICK x : x = req'[s]
      OBVIOUS
    <2>2. CASE s = r
      BY <1>1, <1>2, <2>2 DEF Tried, Exists, Current
    <2>3. CASE s # r
      <3>1. x = req[s] /\ Tried(x)
        BY <1>1, <1>2, <2>1, <2>3 DEF Calm, AllTried
      <3>2. Tried(x)'
        BY <3>1, StaysTried
      <3> QED
        BY <2>1, <3>2 DEF Tried, Exists, Current
    <2> QED
      BY <2>2, <2>3
  <1> QED
    BY <1>2 DEF AllTried

(* A step of a request that writes neither an event nor a document.        *)
LEMMA OnlyRequestCalm ==
  ASSUME Inv, Inv', Calm, NEW r \in Requests, NEW p \in PRNs, NEW o, Become(r, o),
         req[r].pc = "idle" \/ req[r].prn = p,
         o.pc = "idle" \/ o.prn = p,
         \A s \in Requests \ {r} : req[s].pc # "idle" => req[s].prn # p,
         o.pc = "idle" => Settled(p),
         o.pc # "idle" => Fresh(o) /\ Tried(o),
         UNCHANGED <<ledger, docs>>
  PROVE  Calm'
  <1>1. \A q \in PRNs : docs'[q] = docs[q] /\ EventsOf(q)' = EventsOf(q)
    BY DEF EventsOf, TailNumbers
  <1>2. o.pc = "idle" => Settled(p)'
    BY <1>1 DEF Settled, Exists, Current
  <1>3. o.pc # "idle" => Fresh(o)' /\ Tried(o)'
    BY DEF Fresh, Ahead, Settled, Tried, Exists, Current, EventsOf, TailNumbers
  <1>4. DocsMove
    BY DEF DocsMove
  <1>5. Numbered'
    BY DEF Calm, Numbered, Exists, Current
  <1>6. AllTried'
    BY <1>3, <1>4, TriedMoves
  <1>7. Alone' /\ Settling' /\ AllFresh'
    BY <1>1, <1>2, <1>3, OneMoves
  <1> QED
    BY <1>5, <1>6, <1>7 DEF Calm

(* A request that reads, reads what is stored and settled.                 *)
LEMMA ReadsCurrent ==
  ASSUME Undisturbed, Inv, Calm, NEW r \in Requests, req[r].pc = "idle",
         NEW p \in PRNs, NEW v \in ReadableVersions(p), MayWorkOn(p)
  PROVE  /\ v = Len(docs[p]) /\ docs[p][v] = Current(p) /\ Exists(p) /\ Settled(p)
         /\ \A s \in Requests \ {r} : req[s].pc # "idle" => req[s].prn # p
  <1>1. v = Len(docs[p]) /\ Idle(p)
    BY DEF Undisturbed, ReadableVersions, MayWorkOn, Idle
  <1>2. v \in 1..Len(docs[p])
    BY Readable
  <1>3. Settled(p)
    BY <1>1 DEF Calm, Settling
  <1> QED
    BY <1>1, <1>2, <1>3, Typed DEF Inv, TypeOK, Idle, Exists, Current, Last

LEMMA InternalReadCalm ==
  ASSUME Undisturbed, Inv, Inv', Calm, NEW r \in Requests, InternalRead(r)
  PROVE  Calm'
  <1>0. PICK p \in PRNs, to \in PRN_STATUS : \E v \in ReadableVersions(p) :
          /\ MayWorkOn(p)
          /\ Become(r, [pc |-> FirstWriteStep(docs[p][v].status, to), prn |-> p,
                        doc |-> docs[p][v], version |-> v, target |-> to, attempt |-> 1])
    BY DEF InternalRead
  <1>1. PICK v \in ReadableVersions(p) :
          /\ MayWorkOn(p)
          /\ Become(r, [pc |-> FirstWriteStep(docs[p][v].status, to), prn |-> p,
                        doc |-> docs[p][v], version |-> v, target |-> to, attempt |-> 1])
    BY <1>0
  <1> DEFINE o == [pc |-> FirstWriteStep(docs[p][v].status, to), prn |-> p,
                   doc |-> docs[p][v], version |-> v, target |-> to, attempt |-> 1]
  <1>2. /\ v = Len(docs[p]) /\ docs[p][v] = Current(p) /\ Exists(p) /\ Settled(p)
        /\ \A s \in Requests \ {r} : req[s].pc # "idle" => req[s].prn # p
    BY <1>1, ReadsCurrent DEF InternalRead
  <1>3. o.pc # "idle" /\ o.pc # "persist" /\ o.prn = p /\ o.attempt = 1
        /\ o.version = v /\ o.doc = docs[p][v]
    BY DEF FirstWriteStep
  <1>4. Become(r, o) /\ req[r].pc = "idle" /\ UNCHANGED <<ledger, docs>>
    BY <1>1 DEF InternalRead
  <1> HIDE DEF o
  <1>5. Fresh(o) /\ Tried(o)
    BY <1>2, <1>3 DEF Fresh, Tried
  <1> QED
    BY <1>2, <1>3, <1>4, <1>5, OnlyRequestCalm

LEMMA ExternalReadCalm ==
  ASSUME Undisturbed, Inv, Inv', Calm, NEW r \in Requests, ExternalRead(r)
  PROVE  Calm'
  <1>0. PICK p \in PRNs, to \in {ACCEPTED, AWAITING_CANCELLATION} : \E v \in ReadableVersions(p) :
          /\ MayWorkOn(p)
          /\ Become(r, [pc |-> "readTail", prn |-> p, doc |-> docs[p][v],
                        version |-> v, target |-> to, attempt |-> 1])
    BY DEF ExternalRead
  <1>1. PICK v \in ReadableVersions(p) :
          /\ MayWorkOn(p)
          /\ Become(r, [pc |-> "readTail", prn |-> p, doc |-> docs[p][v],
                        version |-> v, target |-> to, attempt |-> 1])
    BY <1>0
  <1> DEFINE o == [pc |-> "readTail", prn |-> p, doc |-> docs[p][v],
                   version |-> v, target |-> to, attempt |-> 1]
  <1>2. /\ v = Len(docs[p]) /\ docs[p][v] = Current(p) /\ Exists(p) /\ Settled(p)
        /\ \A s \in Requests \ {r} : req[s].pc # "idle" => req[s].prn # p
    BY <1>1, ReadsCurrent DEF ExternalRead
  <1>3. o.pc # "idle" /\ o.pc # "persist" /\ o.prn = p /\ o.attempt = 1
        /\ o.version = v /\ o.doc = docs[p][v]
    OBVIOUS
  <1>4. Become(r, o) /\ req[r].pc = "idle" /\ UNCHANGED <<ledger, docs>>
    BY <1>1 DEF ExternalRead
  <1> HIDE DEF o
  <1>5. Fresh(o) /\ Tried(o)
    BY <1>2, <1>3 DEF Fresh, Tried
  <1> QED
    BY <1>2, <1>3, <1>4, <1>5, OnlyRequestCalm

(* A working request is alone on its PRN, which exists.                    *)
LEMMA Working ==
  ASSUME Inv, Calm, NEW r \in Requests, req[r].pc # "idle"
  PROVE  /\ req[r] \in ActiveRequest /\ RequestHolds(req[r])
         /\ req[r].prn \in PRNs /\ Exists(req[r].prn)
         /\ Current(req[r].prn) = docs[req[r].prn][req[r].version]
         /\ Current(req[r].prn) \in PrnDocument
         /\ DocHolds(req[r].prn, Current(req[r].prn))
         /\ Fresh(req[r]) /\ Tried(req[r])
         /\ \A s \in Requests \ {r} : req[s].pc # "idle" => req[s].prn # req[r].prn
  <1>1. req[r] \in ActiveRequest /\ RequestHolds(req[r]) /\ TypeOK
    BY ActiveIsValid DEF Inv
  <1>2. Fresh(req[r]) /\ Tried(req[r])
    BY DEF Calm, AllFresh, AllTried
  <1>3. req[r].prn \in PRNs /\ req[r].version \in 1..Len(docs[req[r].prn])
        /\ req[r].version = Len(docs[req[r].prn])
    BY <1>1, <1>2 DEF ActiveRequest, RequestHolds, Fresh
  <1>4. docs[req[r].prn] \in Seq(PrnDocument) /\ docs[req[r].prn] # <<>>
    BY <1>1, <1>3, Typed
  <1>5. /\ Exists(req[r].prn) /\ Current(req[r].prn) = docs[req[r].prn][req[r].version]
        /\ Current(req[r].prn) \in PrnDocument
    BY <1>1, <1>3, <1>4 DEF Exists, Current, Last
  <1>6. DocHolds(req[r].prn, Current(req[r].prn))
    BY <1>3, <1>5 DEF Inv, DocsHold
  <1> QED
    BY <1>1, <1>2, <1>3, <1>5, <1>6 DEF Calm, Alone

LEMMA StopCalm ==
  ASSUME Inv, Inv', Calm, NEW r \in Requests, req[r].pc # "idle", req[r].pc # "persist",
         Stop(r), UNCHANGED <<ledger, docs>>
  PROVE  Calm'
  <1>1. /\ req[r].prn \in PRNs /\ Settled(req[r].prn)
        /\ \A s \in Requests \ {r} : req[s].pc # "idle" => req[s].prn # req[r].prn
    BY Working DEF Fresh
  <1>2. IdleRequest.pc = "idle" /\ Become(r, IdleRequest)
    BY DEF Stop, IdleRequest
  <1> QED
    BY <1>1, <1>2, OnlyRequestCalm

(* A request moves on to another step with the document it read.           *)
LEMMA MoveCalm ==
  ASSUME Inv, Inv', Calm, NEW r \in Requests, req[r].pc # "idle", req[r].pc # "persist",
         NEW o, Become(r, o), o.pc # "idle", o.pc # "persist", o.prn = req[r].prn,
         o.version = req[r].version, o.doc = req[r].doc, o.attempt = req[r].attempt,
         UNCHANGED <<ledger, docs>>
  PROVE  Calm'
  <1>1. /\ req[r].prn \in PRNs /\ Fresh(req[r])
        /\ \A s \in Requests \ {r} : req[s].pc # "idle" => req[s].prn # req[r].prn
    BY Working
  <1>2. Fresh(o) /\ Tried(o)
    BY <1>1 DEF Fresh, Tried
  <1> QED
    BY <1>1, <1>2, OnlyRequestCalm

LEMMA ReadTailCalm ==
  ASSUME Undisturbed, Inv, Inv', Calm, NEW r \in Requests, ReadTail(r)
  PROVE  Calm'
  <1> DEFINE p == req[r].prn
             o == [req[r] EXCEPT !.pc = "append", !.doc = Current(p)]
  <1>1. req[r].pc = "readTail" /\ UNCHANGED <<ledger, docs>>
    BY DEF ReadTail
  <1>2. /\ req[r] \in ActiveRequest /\ p \in PRNs /\ Exists(p)
        /\ req[r].doc = Current(p) /\ Settled(p)
    BY <1>1, Working DEF Fresh
  <1>3. ProjectFromStreamTail(p, req[r].doc, Len(ledger)) = Current(p)
    BY <1>2, SettledProjects
  <1>4. Stop(r) \/ Become(r, o)
    BY <1>3 DEF ReadTail, Undisturbed, ReadablePrefixes
  <1>5. /\ o.pc = "append" /\ o.prn = p /\ o.version = req[r].version
        /\ o.doc = req[r].doc /\ o.attempt = req[r].attempt
    BY <1>2 DEF ActiveRequest
  <1> HIDE DEF o
  <1> QED
    BY <1>1, <1>4, <1>5, StopCalm, MoveCalm

LEMMA CheckAccreditationCalm ==
  ASSUME Inv, Inv', Calm, NEW r \in Requests, CheckAccreditation(r)
  PROVE  Calm'
  <1> DEFINE o == [req[r] EXCEPT !.pc = "append"]
  <1>1. req[r].pc = "checkAccreditation" /\ UNCHANGED <<ledger, docs>>
        /\ (Stop(r) \/ Become(r, o))
    BY DEF CheckAccreditation
  <1>2. req[r] \in ActiveRequest
    BY <1>1, Working
  <1>3. /\ o.pc = "append" /\ o.prn = req[r].prn /\ o.version = req[r].version
        /\ o.doc = req[r].doc /\ o.attempt = req[r].attempt
    BY <1>2 DEF ActiveRequest
  <1> HIDE DEF o
  <1> QED
    BY <1>1, <1>3, StopCalm, MoveCalm

(* What the append of an event does, to p and to the others.               *)
Commits(r, old, p, number, kind) ==
  /\ old = req[r] /\ p = old.prn
  /\ ledger' = Append(ledger, [kind |-> kind, prn |-> p,
                               closing |-> ClosingForPrn(Balance, kind, old.doc.tonnage)])
  /\ Become(r, [old EXCEPT !.pc = "persist", !.doc = ApplyEvent(old.doc, number, kind)])
  /\ old.doc = Current(p) /\ number \in 1..MaxEvents /\ kind \in PrnKinds
  /\ kind = TRANSITION_TO_COMMAND(old.doc.status, old.target)
  /\ old.target # DISCARDED
  /\ \E actor : ValidTransition(Current(p).status, old.target, actor)
  /\ EventsOf(p)' = EventsOf(p) \cup {number}
  /\ \A q \in PRNs \ {p} : EventsOf(q)' = EventsOf(q)
  /\ \A i \in EventsOf(p) : i < number

LEMMA Committed ==
  ASSUME Inv, Calm, NEW r \in Requests, AppendEvent(r), ~Stop(r)
  PROVE  \E old, p, number, kind : Commits(r, old, p, number, kind)
  <1>0. PICK old, p, number, kind :
          /\ old = req[r] /\ p = old.prn /\ number = Len(ledger) + 1
          /\ kind = TRANSITION_TO_COMMAND(old.doc.status, old.target)
    OBVIOUS
  <1>1. req[r].pc = "append"
    BY DEF AppendEvent
  <1>2. /\ old \in ActiveRequest /\ RequestHolds(old) /\ p \in PRNs /\ old.doc = Current(p)
    BY <1>0, <1>1, Working DEF Fresh
  <1>3. ledger \in Seq(Event) /\ Len(ledger) \in Nat
    BY DEF Inv, TypeOK
  <1> DEFINE event == [kind |-> kind, prn |-> p,
                       closing |-> ClosingForPrn(Balance, kind, old.doc.tonnage)]
  <1>4. /\ ledger' = Append(ledger, event) /\ Len(ledger) < MaxEvents
        /\ Become(r, [old EXCEPT !.pc = "persist", !.doc = ApplyEvent(old.doc, number, kind)])
    BY <1>0 DEF AppendEvent
  <1>5. event.prn = p
    OBVIOUS
  <1>6. /\ Len(ledger') = number /\ ledger'[number] = event
        /\ \A i \in 1..Len(ledger) : ledger'[i] = ledger[i]
    <2> HIDE DEF event
    <2> QED
      BY <1>0, <1>3, <1>4
  <1> HIDE DEF event
  <1>7. /\ old.target # DISCARDED
        /\ \E actor : ValidTransition(old.doc.status, old.target, actor)
    BY <1>0, <1>1, <1>2 DEF RequestHolds, Admits
  <1>8. kind \in PrnKinds
    BY <1>0, <1>7, CommandReaches
  <1>9. number \in 1..MaxEvents
    BY <1>0, <1>3, <1>4, BoundAssumption
  <1>10. \A q \in PRNs : EventsOf(q) = {i \in 1..Len(ledger) : ledger[i].prn = q}
    BY <1>3 DEF EventsOf, TailNumbers
  <1>11. \A q \in PRNs : EventsOf(q)' = {i \in 1..number : ledger'[i].prn = q}
    BY <1>0, <1>3, <1>6 DEF EventsOf, TailNumbers
  <1>12. 1..number = 1..Len(ledger) \cup {number} /\ \A i \in 1..Len(ledger) : i < number
    BY <1>0, <1>3
  <1>13. EventsOf(p)' = EventsOf(p) \cup {number} /\ \A i \in EventsOf(p) : i < number
    BY <1>2, <1>5, <1>6, <1>10, <1>11, <1>12
  <1>14. ASSUME NEW q \in PRNs \ {p} PROVE EventsOf(q)' = EventsOf(q)
    <2>1. EventsOf(q)' = {i \in 1..number : ledger'[i].prn = q}
      BY <1>11
    <2>2. ledger'[number].prn # q
      BY <1>5, <1>6
    <2> QED
      BY <1>6, <1>10, <1>12, <2>1, <2>2
  <1> QED
    BY <1>0, <1>2, <1>4, <1>7, <1>8, <1>9, <1>13, <1>14 DEF event, Commits

(* A request that stops has not appended.                                  *)
LEMMA StoppedAppend ==
  ASSUME Inv, NEW r \in Requests, AppendEvent(r), Stop(r)
  PROVE  ledger' = ledger
  <1> SUFFICES ASSUME ledger' # ledger PROVE FALSE
    OBVIOUS
  <1>1. req' = [req EXCEPT ![r] = [req[r] EXCEPT !.pc = "persist",
                  !.doc = ApplyEvent(req[r].doc, Len(ledger) + 1,
                             TRANSITION_TO_COMMAND(req[r].doc.status, req[r].target))]]
    BY DEF AppendEvent, Become
  <1>2. req[r] \in ActiveRequest
    BY ActiveIsValid DEF AppendEvent
  <1>3. req'[r].pc = "persist"
    BY <1>1, <1>2 DEF Inv, TypeOK, ActiveRequest
  <1>4. req'[r].pc = "idle"
    BY DEF Stop, Become, Inv, TypeOK, IdleRequest
  <1> QED
    BY <1>3, <1>4

LEMMA AppendEventCalm ==
  ASSUME Inv, Inv', Calm, NEW r \in Requests, AppendEvent(r)
  PROVE  Calm'
  <1>1. req[r].pc = "append" /\ UNCHANGED docs
    BY DEF AppendEvent
  <1>2. CASE Stop(r)
    <2>1. UNCHANGED ledger
      BY <1>2, StoppedAppend
    <2> QED
      BY <1>1, <1>2, <2>1, StopCalm
  <1>3. CASE ~Stop(r)
    <2>1. PICK old, p, number, kind : Commits(r, old, p, number, kind)
      BY <1>3, Committed
    <2> DEFINE doc == ApplyEvent(old.doc, number, kind)
               o   == [old EXCEPT !.pc = "persist", !.doc = doc]
    <2>2. /\ Become(r, o)
          /\ old.doc = Current(p) /\ number \in 1..MaxEvents /\ kind \in PrnKinds
          /\ \E actor : ValidTransition(Current(p).status, old.target, actor)
          /\ EventsOf(p)' = EventsOf(p) \cup {number}
          /\ \A q \in PRNs \ {p} : EventsOf(q)' = EventsOf(q)
          /\ \A i \in EventsOf(p) : i < number
      BY <2>1 DEF Commits
    <2>3. /\ old \in ActiveRequest /\ p \in PRNs /\ Exists(p)
          /\ old.doc \in PrnDocument /\ DocHolds(p, old.doc)
          /\ old.version = Len(docs[p]) /\ Settled(p) /\ old.attempt = 1
          /\ \A s \in Requests \ {r} : req[s].pc # "idle" => req[s].prn # p
      BY <1>1, <2>1, <2>2, Working DEF Fresh, Commits
    <2>4. /\ doc \in PrnDocument /\ doc.watermark = number
          /\ doc.number = old.doc.number /\ doc.tonnage = old.doc.tonnage
      BY <2>2, <2>3, EventApplied
    <2> HIDE DEF doc
    <2>5. /\ o.pc = "persist" /\ o.prn = p /\ o.version = old.version /\ o.doc = doc
          /\ o.target = old.target /\ o.attempt = 1
      <3>1. old \in ActiveRequest
        BY <2>3
      <3>2. /\ o.pc = "persist" /\ o.prn = old.prn /\ o.version = old.version /\ o.doc = doc
            /\ o.target = old.target /\ o.attempt = old.attempt
        BY <3>1 DEF ActiveRequest
      <3> QED
        BY <2>1, <2>3, <3>2 DEF Commits
    <2> HIDE DEF o
    <2>6. (Current(p) = old.doc /\ Exists(p))'
      <3>1. docs'[p] = docs[p]
        BY <1>1
      <3> QED
        BY <2>2, <2>3, <3>1 DEF Current, Exists
    <2>7. old.doc.status # DELETED
          /\ (old.target \in Issued \ {AWAITING_ACCEPTANCE} => old.doc.status = AWAITING_ACCEPTANCE)
      BY <2>2 DEF ValidTransition, PRN_STATUS_TRANSITIONS, Issued, Ringfencing,
         DRAFT, AWAITING_AUTHORISATION, AWAITING_ACCEPTANCE, ACCEPTED, AWAITING_CANCELLATION,
         CANCELLED, DELETED, DISCARDED
    <2>8. old.target \in Issued \ {AWAITING_ACCEPTANCE} => doc.number # NoNumber
      <3>1. AWAITING_ACCEPTANCE \in Issued
        BY DEF Issued, Ringfencing, AWAITING_ACCEPTANCE, AWAITING_AUTHORISATION
      <3> QED
        BY <2>2, <2>3, <2>4, <2>7, <3>1 DEF Calm, Numbered
    <2>9. old.doc.watermark < number
      <3>1. old.doc.watermark = 0 \/ old.doc.watermark \in EventsOf(p)
        BY <2>3 DEF DocHolds, Follows
      <3> QED
        BY <2>2, <3>1
    <2>10. \A i \in EventsOf(p) : i <= old.doc.watermark
      BY <2>2, <2>3 DEF Settled
    <2>11. doc.watermark > old.doc.watermark
      BY <2>2, <2>3, <2>4, <2>9, BoundAssumption DEF PrnDocument
    <2>12. Ahead(o)'
      <3>1. \A i \in EventsOf(p)' : i <= old.doc.watermark \/ i = doc.watermark
        BY <2>2, <2>4, <2>10
      <3> QED
        BY <2>4, <2>5, <2>6, <2>7, <2>8, <2>11, <3>1 DEF Ahead
    <2>13. Fresh(o)' /\ Tried(o)'
      BY <1>1, <2>3, <2>5, <2>12 DEF Fresh, Tried
    <2>14. \A q \in PRNs \ {p} : docs'[q] = docs[q] /\ EventsOf(q)' = EventsOf(q)
      BY <1>1, <2>2
    <2>15. Alone' /\ Settling' /\ AllFresh'
      BY <2>1, <2>2, <2>3, <2>5, <2>13, <2>14, OneMoves DEF Commits
    <2>16. AllTried'
      BY <1>1, <2>2, <2>13, TriedMoves DEF DocsMove
    <2>17. Numbered'
      BY <1>1 DEF Calm, Numbered, Exists, Current
    <2> QED
      BY <2>15, <2>16, <2>17 DEF Calm
  <1> QED
    BY <1>2, <1>3

(* A request stores the document that has every event of its PRN.          *)
LEMMA ReplaceCalm ==
  ASSUME Inv, Inv', DocsMove, Calm, NEW r \in Requests, req[r].pc # "idle",
         NEW p \in PRNs, p = req[r].prn, NEW doc, Replace(p, doc), Stop(r), UNCHANGED ledger,
         \A i \in EventsOf(p) : i <= doc.watermark,
         doc.status \in Issued => doc.number # NoNumber
  PROVE  Calm'
  <1>1. docs' = [docs EXCEPT ![p] = Append(docs[p], doc)] /\ docs[p] \in Seq(PrnDocument)
    BY Typed DEF Replace, Inv
  <1>2. docs'[p] = Append(docs[p], doc) /\ \A q \in PRNs \ {p} : docs'[q] = docs[q]
    BY <1>1 DEF Inv, TypeOK
  <1>3. docs'[p] \in Seq(PrnDocument)
    BY DEF Inv, TypeOK
  <1>4. (Exists(p) /\ Current(p) = doc)'
    <2>1. docs'[p] # <<>> /\ docs'[p][Len(docs'[p])] = doc
      <3>1. doc \in PrnDocument \/ doc \notin PrnDocument
        OBVIOUS
      <3>2. Len(docs'[p]) = Len(docs[p]) + 1 /\ docs'[p][Len(docs[p]) + 1] = doc
        BY <1>1, <1>2
      <3> QED
        BY <1>1, <1>3, <3>2
    <2> QED
      BY <2>1 DEF Exists, Current, Last
  <1>5. \A q \in PRNs : EventsOf(q)' = EventsOf(q)
    BY DEF EventsOf, TailNumbers
  <1>6. Settled(p)'
    BY <1>4, <1>5 DEF Settled
  <1>7. IdleRequest.pc = "idle" /\ Become(r, IdleRequest)
    BY DEF Stop, IdleRequest
  <1>8. \A s \in Requests \ {r} : req[s].pc # "idle" => req[s].prn # p
    BY Working
  <1>9. Alone' /\ Settling' /\ AllFresh'
    BY <1>2, <1>5, <1>6, <1>7, <1>8, OneMoves
  <1>10. AllTried'
    BY <1>7, TriedMoves
  <1>11. Numbered'
    <2>1. \A q \in PRNs \ {p} : (Exists(q)' <=> Exists(q)) /\ Current(q)' = Current(q)
      BY <1>2 DEF Exists, Current
    <2> QED
      BY <1>4, <2>1 DEF Calm, Numbered
  <1> QED
    BY <1>9, <1>10, <1>11 DEF Calm

(* The document a request is about to store passes the compare-and-set.    *)
LEMMA AheadMatches ==
  ASSUME Inv, Calm, NEW r \in Requests, req[r].pc = "persist"
  PROVE  /\ Matches(req[r]) /\ req[r].prn \in PRNs
         /\ req[r] \in ActiveRequest /\ RequestHolds(req[r])
         /\ req[r].doc.status = req[r].target
         /\ \A i \in EventsOf(req[r].prn) : i <= req[r].doc.watermark
         /\ req[r].target \in Issued \ {AWAITING_ACCEPTANCE} => req[r].doc.number # NoNumber
  <1> DEFINE o == req[r]
             stored == Current(o.prn)
  <1>1. /\ o \in ActiveRequest /\ RequestHolds(o) /\ o.prn \in PRNs /\ Exists(o.prn)
        /\ stored \in PrnDocument /\ o.version = Len(docs[o.prn]) /\ Ahead(o)
    BY Working DEF Fresh
  <1>2. /\ o.doc.watermark \in Nat /\ stored.watermark \in Nat
        /\ o.doc.watermark > stored.watermark
    BY <1>1, BoundAssumption DEF PrnDocument, ActiveRequest, Ahead
  <1>3. \A i \in EventsOf(o.prn) : i \in Nat /\ (i <= stored.watermark \/ i = o.doc.watermark)
    BY <1>1, Typed DEF Ahead, EventsOf, TailNumbers, Inv
  <1>4. o.doc.status = o.target
    BY <1>1 DEF RequestHolds, Admits
  <1> QED
    BY <1>1, <1>2, <1>3, <1>4 DEF Matches, Ahead

LEMMA PersistCalm ==
  ASSUME Inv, Inv', DocsMove, Calm, NEW r \in Requests, Persist(r)
  PROVE  Calm'
  <1>1. req[r].pc = "persist" /\ req[r].target # AWAITING_ACCEPTANCE
    BY DEF Persist
  <1>2. Replace(req[r].prn, req[r].doc) /\ Stop(r) /\ UNCHANGED ledger
    BY <1>1, AheadMatches DEF Persist
  <1> QED
    BY <1>1, <1>2, AheadMatches, ReplaceCalm

(* Each suffix tried is another PRN's, and there are fewer other PRNs than *)
(* suffixes: one of the tries succeeds.                                    *)
LEMMA SuffixLeft ==
  ASSUME Undisturbed, Inv, NEW o \in ActiveRequest, Tried(o),
         NEW base, NumberTaken(o.prn, <<base, o.attempt>>)
  PROVE  o.attempt < SuffixAttempts
  <1> SUFFICES ASSUME o.attempt = SuffixAttempts PROVE FALSE
    BY BoundAssumption DEF ActiveRequest
  <1> DEFINE Others == PRNs \ {o.prn}
             Taken(a) == CHOOSE q \in Others : Exists(q) /\ Current(q).number[2] = a
             f == [a \in 1..SuffixAttempts |-> Taken(a)]
  <1>1. \A a \in 1..SuffixAttempts : \E q \in Others : Exists(q) /\ Current(q).number[2] = a
    <2> SUFFICES ASSUME NEW a \in 1..SuffixAttempts
                 PROVE  \E q \in Others : Exists(q) /\ Current(q).number[2] = a
      OBVIOUS
    <2>1. CASE a = SuffixAttempts
      <3>1. PICK q \in Others : Exists(q) /\ Current(q).number = <<base, o.attempt>>
        BY DEF NumberTaken
      <3> QED
        BY <2>1, <3>1
    <2>2. CASE a # SuffixAttempts
      <3>1. a \in 1..(o.attempt - 1)
        BY <2>2, BoundAssumption
      <3> QED
        BY <3>1 DEF Tried
    <2> QED
      BY <2>1, <2>2
  <1>2. \A a \in 1..SuffixAttempts : Taken(a) \in Others /\ Current(Taken(a)).number[2] = a
    BY <1>1
  <1> HIDE DEF Taken, Others
  <1>3. f \in [1..SuffixAttempts -> Others]
        /\ \A a, b \in 1..SuffixAttempts : f[a] = f[b] => a = b
    BY <1>2
  <1>4. IsFiniteSet(Others) /\ Cardinality(Others) = Cardinality(PRNs) - 1
    <2>1. o.prn \in PRNs
      BY DEF ActiveRequest
    <2> QED
      BY <2>1, FS_RemoveElement DEF Undisturbed, Others
  <1>5. IsFiniteSet(1..SuffixAttempts) /\ Cardinality(1..SuffixAttempts) = SuffixAttempts
    BY FS_Interval, BoundAssumption
  <1>6. Cardinality(PRNs) \in Nat /\ Cardinality(PRNs) <= SuffixAttempts
    BY FS_CardinalityType DEF Undisturbed
  <1>7. Cardinality(Others) < Cardinality(1..SuffixAttempts)
    BY <1>4, <1>5, <1>6, BoundAssumption
  <1>8. PICK a \in 1..SuffixAttempts, b \in 1..SuffixAttempts : a # b /\ f[a] = f[b]
    <2> HIDE DEF f
    <2> QED
      BY <1>3, <1>4, <1>5, <1>7, FS_PigeonHole
  <1> QED
    BY <1>3, <1>8

LEMMA PersistIssuedCalm ==
  ASSUME Undisturbed, Inv, Inv', DocsMove, Calm, NEW r \in Requests, PersistIssued(r)
  PROVE  Calm'
  <1> DEFINE o == req[r]
             p == o.prn
  <1>1. o.pc = "persist" /\ o.target = AWAITING_ACCEPTANCE /\ UNCHANGED ledger
    BY DEF PersistIssued
  <1>2. /\ Matches(o) /\ p \in PRNs /\ o \in ActiveRequest
        /\ o.doc.status = AWAITING_ACCEPTANCE
        /\ \A i \in EventsOf(p) : i <= o.doc.watermark
    BY <1>1, AheadMatches
  <1>3. /\ Fresh(o) /\ Tried(o)
        /\ \A s \in Requests \ {r} : req[s].pc # "idle" => req[s].prn # p
    BY <1>1, Working
  <1>4. PICK base \in NumberBases :
          LET number == <<base, o.attempt>>
          IN  \/ /\ Replace(p, [o.doc EXCEPT !.number = number])
                 /\ Stop(r)
              \/ /\ NumberTaken(p, number)
                 /\ IF RetriesLeft(o.attempt)
                    THEN Become(r, [o EXCEPT !.attempt = @ + 1])
                    ELSE Stop(r)
                 /\ UNCHANGED docs
    BY <1>2 DEF PersistIssued
  <1> DEFINE number == <<base, o.attempt>>
             doc    == [o.doc EXCEPT !.number = number]
             retry  == [o EXCEPT !.attempt = o.attempt + 1]
  <1>5. CASE Replace(p, doc) /\ Stop(r)
    <2>1. o.attempt \in Nat /\ o.attempt # 0 /\ o.doc \in PrnDocument
      BY <1>2, BoundAssumption DEF ActiveRequest
    <2>2. doc.number = number /\ number # NoNumber /\ doc.watermark = o.doc.watermark
      BY <2>1 DEF NoNumber, PrnDocument
    <2>3. PICK d : d = doc
      OBVIOUS
    <2>4. /\ Replace(p, d) /\ \A i \in EventsOf(p) : i <= d.watermark
          /\ d.status \in Issued => d.number # NoNumber
      BY <1>2, <1>5, <2>2, <2>3
    <2>5. PICK q : q = p
      OBVIOUS
    <2> QED
      BY <1>1, <1>2, <1>5, <2>4, <2>5, ReplaceCalm
  <1>6. CASE /\ NumberTaken(p, number) /\ UNCHANGED docs
             /\ IF RetriesLeft(o.attempt) THEN Become(r, retry) ELSE Stop(r)
    <2>1. o.attempt < SuffixAttempts
      BY <1>2, <1>3, <1>6, SuffixLeft
    <2>2. Become(r, retry)
      BY <1>6, <2>1 DEF RetriesLeft
    <2>3. /\ retry.prn = p /\ retry.version = o.version /\ retry.target = o.target
          /\ retry.doc = o.doc /\ retry.pc = "persist" /\ retry.attempt = o.attempt + 1
      BY <1>1, <1>2 DEF ActiveRequest
    <2> HIDE DEF retry
    <2>4. Fresh(retry)
      BY <1>1, <1>3, <2>3 DEF Fresh, Ahead
    <2>5. Tried(retry)
      <3> SUFFICES ASSUME NEW a \in 1..o.attempt
                   PROVE  \E q \in PRNs \ {p} : Exists(q) /\ Current(q).number[2] = a
        <4>1. o.attempt \in Nat
          BY <1>2, BoundAssumption DEF ActiveRequest
        <4> QED
          BY <2>3, <4>1 DEF Tried
      <3>1. CASE a = o.attempt
        <4>1. PICK q \in PRNs \ {p} : Exists(q) /\ Current(q).number = number
          BY <1>6 DEF NumberTaken
        <4> QED
          BY <3>1, <4>1
      <3>2. CASE a # o.attempt
        <4>1. o.attempt \in Nat
          BY <1>2, BoundAssumption DEF ActiveRequest
        <4>2. a \in 1..(o.attempt - 1)
          BY <3>2, <4>1
        <4> QED
          BY <1>3, <4>2 DEF Tried
      <3> QED
        BY <3>1, <3>2
    <2> QED
      BY <1>1, <1>2, <1>3, <1>6, <2>2, <2>3, <2>4, <2>5, OnlyRequestCalm
  <1> QED
    BY <1>4, <1>5, <1>6

LEMMA DiscardCalm ==
  ASSUME Inv, Inv', DocsMove, Calm, NEW r \in Requests, Discard(r)
  PROVE  Calm'
  <1> DEFINE o == req[r]
             p == o.prn
  <1>1. o.pc = "discard" /\ UNCHANGED ledger /\ Stop(r)
    BY DEF Discard
  <1>2. /\ o \in ActiveRequest /\ RequestHolds(o) /\ Exists(p)
        /\ o.doc = Current(p) /\ o.version = Len(docs[p]) /\ Settled(p)
        /\ Current(p) \in PrnDocument
    BY <1>1, Working DEF Fresh
  <1>3. o.target = DISCARDED /\ Current(p).watermark \in Nat
    BY <1>1, <1>2, BoundAssumption DEF RequestHolds, Admits, PrnDocument
  <1>4. Matches(o)
    BY <1>2, <1>3 DEF Matches
  <1>5. PICK d : d = [Current(p) EXCEPT !.status = o.target, !.history = Append(@, o.target)]
    OBVIOUS
  <1>6. Replace(p, d)
    BY <1>4, <1>5 DEF Discard
  <1>7. d.status = DISCARDED /\ d.watermark = Current(p).watermark
    BY <1>2, <1>3, <1>5 DEF PrnDocument
  <1>8. d.status \notin Issued
    BY <1>7 DEF Issued, Ringfencing, DISCARDED, AWAITING_AUTHORISATION, AWAITING_ACCEPTANCE,
       ACCEPTED, AWAITING_CANCELLATION
  <1>9. \A i \in EventsOf(p) : i <= d.watermark
    BY <1>2, <1>7 DEF Settled
  <1>10. PICK q : q = p
    OBVIOUS
  <1>11. q \in PRNs /\ q = req[r].prn
    BY <1>2, <1>10 DEF ActiveRequest
  <1>12. Replace(q, d) /\ \A i \in EventsOf(q) : i <= d.watermark
    BY <1>6, <1>9, <1>10
  <1> QED
    BY <1>1, <1>8, <1>11, <1>12, ReplaceCalm

LEMMA PostCalm ==
  ASSUME Inv, Inv', DocsMove, Calm, NEW p \in PRNs, Post(p)
  PROVE  Calm'
  <1>1. PICK a \in PrnAmounts :
          docs' = [docs EXCEPT ![p] = << [status |-> DRAFT, tonnage |-> a, number |-> NoNumber,
                                          watermark |-> 0, history |-> <<DRAFT>>] >>]
    BY DEF Post
  <1>2. /\ req' = req /\ ledger' = ledger /\ ~Exists(p)
        /\ \A q \in PRNs \ {p} : docs'[q] = docs[q]
        /\ docs'[p] = << [status |-> DRAFT, tonnage |-> a, number |-> NoNumber,
                          watermark |-> 0, history |-> <<DRAFT>>] >>
    BY <1>1 DEF Post, Inv, TypeOK
  <1>3. (Exists(p) /\ Current(p).status = DRAFT)'
    BY <1>2 DEF Exists, Current, Last
  <1>4. \A r \in Requests : req[r].pc # "idle" => req[r].prn \in PRNs \ {p}
    BY <1>2, Working
  <1>5. \A q \in PRNs : EventsOf(q)' = EventsOf(q)
    BY <1>2 DEF EventsOf, TailNumbers
  <1>6. \A q \in PRNs \ {p} : (Exists(q)' <=> Exists(q)) /\ Current(q)' = Current(q)
    BY <1>2 DEF Exists, Current
  <1>7. Alone' /\ Settling'
    <2>1. EventsOf(p) = {}
      BY <1>2, <1>4 DEF Calm, Settling, Idle, Settled
    <2>2. Settled(p)'
      BY <1>5, <2>1 DEF Settled
    <2>3. ASSUME NEW q \in PRNs \ {p}, Idle(q)' PROVE Settled(q)'
      <3>1. Idle(q)
        BY <1>2, <2>3 DEF Idle
      <3> QED
        BY <1>5, <1>6, <3>1 DEF Calm, Settling, Settled
    <2> QED
      BY <1>2, <2>2, <2>3 DEF Calm, Alone, Settling
  <1>8. ASSUME NEW r \in Requests, req'[r].pc # "idle" PROVE Fresh(req[r])' /\ Tried(req[r])'
    <2>1. PICK x : x = req[r]
      OBVIOUS
    <2>2. x.prn \in PRNs \ {p} /\ Fresh(x) /\ Tried(x)
      BY <1>2, <1>4, <1>8, <2>1 DEF Calm, AllFresh, AllTried
    <2>3. docs'[x.prn] = docs[x.prn] /\ EventsOf(x.prn)' = EventsOf(x.prn)
      BY <1>2, <1>5, <2>2
    <2>4. Fresh(x)'
      BY <2>2, <2>3 DEF Fresh, Ahead, Settled, Exists, Current
    <2>5. Tried(x)'
      BY <2>2, StaysTried
    <2> QED
      BY <1>2, <2>1, <2>4, <2>5 DEF Fresh, Ahead, Settled, EventsOf, TailNumbers, Tried, Exists, Current
  <1>9. Numbered'
    <2>1. DRAFT \notin Issued
      BY DEF Issued, Ringfencing, DRAFT, AWAITING_AUTHORISATION, AWAITING_ACCEPTANCE,
         ACCEPTED, AWAITING_CANCELLATION
    <2> QED
      BY <1>3, <1>6, <2>1 DEF Calm, Numbered
  <1> QED
    BY <1>7, <1>8, <1>9 DEF Calm, AllFresh, AllTried

LEMMA UnchangedCalm ==
  ASSUME Calm, UNCHANGED <<ledger, docs, req>>
  PROVE  Calm'
  BY DEF Calm, Alone, Settling, Idle, AllFresh, AllTried, Numbered, Fresh, Ahead, Settled,
     EventsOf, TailNumbers, Tried, Exists, Current

LEMMA StepCalm ==
  ASSUME Undisturbed, Inv, Inv', DocsMove, Calm, [Next]_vars
  PROVE  Calm'
  <1>1. ASSUME NEW p \in PRNs, Post(p) PROVE Calm'
    BY <1>1, PostCalm
  <1>2. ASSUME NEW r \in Requests, InternalRead(r) PROVE Calm'
    BY <1>2, InternalReadCalm
  <1>3. ASSUME NEW r \in Requests, ExternalRead(r) PROVE Calm'
    BY <1>3, ExternalReadCalm
  <1>4. ASSUME NEW r \in Requests, ReadTail(r) PROVE Calm'
    BY <1>4, ReadTailCalm
  <1>5. ASSUME NEW r \in Requests, CheckAccreditation(r) PROVE Calm'
    BY <1>5, CheckAccreditationCalm
  <1>6. ASSUME NEW r \in Requests, AppendEvent(r) PROVE Calm'
    BY <1>6, AppendEventCalm
  <1>7. ASSUME NEW r \in Requests, AppendConflict(r) PROVE Calm'
    BY <1>7, StopCalm DEF AppendConflict
  <1>8. ASSUME NEW r \in Requests, Persist(r) PROVE Calm'
    BY <1>8, PersistCalm
  <1>9. ASSUME NEW r \in Requests, PersistIssued(r) PROVE Calm'
    BY <1>9, PersistIssuedCalm
  <1>10. ASSUME NEW r \in Requests, Discard(r) PROVE Calm'
    BY <1>10, DiscardCalm
  <1>11. ASSUME NEW r \in Requests, Fail(r) PROVE Calm'
    BY <1>11 DEF Fail, Undisturbed
  <1>12. CASE ChangeAccreditation
    BY <1>12, UnchangedCalm DEF ChangeAccreditation
  <1>13. CASE UNCHANGED vars
    BY <1>13, UnchangedCalm DEF vars
  <1> QED
    BY <1>1, <1>2, <1>3, <1>4, <1>5, <1>6, <1>7, <1>8, <1>9, <1>10, <1>11, <1>12, <1>13
    DEF Next

LEMMA InitCalm == Init => Calm
  <1> SUFFICES ASSUME Init PROVE Calm
    OBVIOUS
  <1>1. \A p \in PRNs : EventsOf(p) = {}
    <2>1. Len(ledger) = 1 /\ ledger[1].prn = "none"
      BY DEF Init
    <2> QED
      BY <2>1, PrnAssumption DEF EventsOf, TailNumbers
  <1> QED
    BY <1>1 DEF Init, Calm, Alone, Settling, AllFresh, AllTried, Numbered, Settled, Exists,
       IdleRequest

LEMMA CalmHolds ==
  ASSUME Undisturbed
  PROVE  Spec => [](Inv /\ Calm)
  <1>1. Init => Inv /\ Calm
    BY InitHolds, InitCalm
  <1>2. Inv /\ Calm /\ [Next]_vars => (Inv /\ Calm)'
    BY StepHolds, StepCalm
  <1> QED
    BY <1>1, <1>2, PTL DEF Spec

-----------------------------------------------------------------------------
(* What the PRNs weigh.                                                    *)

Tonnages == [p \in PRNs |-> Current(p).tonnage]

Counted(statuses) == {p \in PRNs : Exists(p) /\ Projected(p).status \in statuses}

(* The recursive function of TonnageIn is that of a sum.                   *)
LEMMA TonnageIsSum ==
  ASSUME Undisturbed, NEW statuses
  PROVE  TonnageIn(statuses) = SumOf(Tonnages, Counted(statuses))
  <1> DEFINE D == Counted(statuses)
             f == Tonnages
             Iter(g) == g = [s \in SUBSET D |->
                               IF s = {} THEN 0
                               ELSE Current(CHOOSE x \in s : TRUE).tonnage
                                    + g[s \ {CHOOSE x \in s : TRUE}]]
             h == CHOOSE g : Iter(g)
  <1>1. IsFiniteSet(D)
    BY FS_Subset DEF Undisturbed, Counted
  <1>2. TonnageIn(statuses) = h[D]
    BY DEF TonnageIn, MapThenSumSet, MapThenFoldSet, Counted
  <1>3. ASSUME NEW g PROVE IsSum(g, f, D) <=> Iter(g)
    <2>1. ASSUME NEW s \in SUBSET D, s # {}
          PROVE  f[Chosen(s)] = Current(CHOOSE x \in s : TRUE).tonnage
      <3>1. Chosen(s) \in s
        BY <2>1, ChosenIsMember
      <3>2. Chosen(s) \in PRNs
        BY <3>1 DEF Counted
      <3> QED
        BY <3>2 DEF Tonnages, Chosen
    <2>2. \A s \in SUBSET D :
            SumStep(g, f, s) = IF s = {} THEN 0
                               ELSE Current(CHOOSE x \in s : TRUE).tonnage
                                    + g[s \ {CHOOSE x \in s : TRUE}]
      BY <2>1 DEF SumStep, Chosen
    <2> QED
      BY <2>2 DEF IsSum
  <1>4. PICK g : IsSum(g, f, D)
    BY <1>1, SumExists
  <1>5. Iter(h)
    <2>1. Iter(g)
      BY <1>3, <1>4
    <2> HIDE DEF Iter
    <2> QED
      BY <2>1
  <1>6. IsSum(h, f, D)
    BY <1>3, <1>5
  <1>7. PICK k : IsSum(k, f, D) /\ SumOf(f, D) = k[D]
    BY <1>1, SumIs
  <1>8. h[D] = k[D]
    <2>1. D \in SUBSET (D \cap D)
      OBVIOUS
    <2> HIDE DEF D, f, h
    <2> QED
      BY <1>1, <1>6, <1>7, <2>1, SumAgrees
  <1> QED
    BY <1>2, <1>7, <1>8

(* The same of the next state.                                             *)
LEMMA TonnageIsSumNext ==
  ASSUME Undisturbed, NEW statuses
  PROVE  TonnageIn(statuses)' = SumOf(Tonnages', Counted(statuses)')
  <1>1. TonnageIn(statuses) = SumOf(Tonnages, Counted(statuses))
    BY TonnageIsSum
  <1>2. (TonnageIn(statuses) = SumOf(Tonnages, Counted(statuses)))'
    BY <1>1, PTL
  <1> QED
    BY <1>2

Weight(p, statuses) ==
  IF Exists(p) /\ Projected(p).status \in statuses THEN Current(p).tonnage ELSE 0

LEMMA Weighing ==
  ASSUME Inv, NEW p \in PRNs, Exists(p)
  PROVE  Current(p).tonnage \in Int
  <1>1. Current(p) \in PrnDocument
    BY Typed DEF Inv
  <1>2. \A a \in PrnAmounts : a \in Int
    BY TonnageAssumption
  <1> QED
    BY <1>1, <1>2 DEF PrnDocument

(* Where one PRN moves, the tonnage moves by what it weighs.               *)
LEMMA TonnageMoves ==
  ASSUME Undisturbed, Inv, Inv', NEW p \in PRNs, NEW statuses,
         \A q \in PRNs \ {p} :
           /\ docs'[q] = docs[q]
           /\ Exists(q) => (Projected(q).status)' = Projected(q).status
  PROVE  /\ TonnageIn(statuses) \in Int
         /\ TonnageIn(statuses)' =
              TonnageIn(statuses) - Weight(p, statuses) + Weight(p, statuses)'
  <1>1. PICK D, E, f, e :
          /\ D = Counted(statuses) /\ E = Counted(statuses)'
          /\ f = Tonnages /\ e = Tonnages'
    OBVIOUS
  <1>2. TonnageIn(statuses) = SumOf(f, D) /\ TonnageIn(statuses)' = SumOf(e, E)
    BY <1>1, TonnageIsSum, TonnageIsSumNext
  <1>3. /\ IsFiniteSet(D) /\ IsFiniteSet(E)
    <2>1. D \in SUBSET PRNs /\ E \in SUBSET PRNs
      BY <1>1 DEF Counted
    <2> QED
      BY <2>1, FS_Subset DEF Undisturbed
  <1>4. \A q \in PRNs \ {p} :
          (Exists(q)' <=> Exists(q)) /\ Current(q)' = Current(q)
    BY DEF Exists, Current
  <1>5. D \ {p} = E \ {p}
    BY <1>1, <1>4 DEF Counted
  <1>6. \A x \in D : x \in PRNs /\ Exists(x) /\ f[x] = Current(x).tonnage
    BY <1>1 DEF Counted, Tonnages
  <1>7. \A x \in E : x \in PRNs /\ Exists(x)' /\ e[x] = (Current(x).tonnage)'
    BY <1>1 DEF Counted, Tonnages
  <1>8. \A x \in D : f[x] \in Int
    BY <1>6, Weighing
  <1>9. \A x \in E : e[x] \in Int
    <2>1. ASSUME NEW x \in PRNs, Exists(x)' PROVE (Current(x).tonnage \in Int)'
      <3>1. Current(x)' \in PrnDocument
        <4>1. docs'[x] \in Seq(PrnDocument) /\ docs'[x] # <<>>
          BY <2>1 DEF Inv, TypeOK, Exists
        <4> QED
          BY <4>1 DEF Current, Last
      <3>2. \A a \in PrnAmounts : a \in Int
        BY TonnageAssumption
      <3> QED
        BY <3>1, <3>2 DEF PrnDocument
    <2> QED
      BY <1>7, <2>1
  <1>10. \A x \in D \ {p} : f[x] = e[x]
    BY <1>4, <1>5, <1>6, <1>7
  <1>11. /\ SumOf(f, D) \in Int
         /\ SumOf(e, E) = SumOf(f, D) - (IF p \in D THEN f[p] ELSE 0) + (IF p \in E THEN e[p] ELSE 0)
    BY <1>3, <1>5, <1>8, <1>9, <1>10, SumMoves
  <1>12. Weight(p, statuses) = (IF p \in D THEN f[p] ELSE 0)
    BY <1>1, <1>6 DEF Weight, Counted
  <1>13. Weight(p, statuses)' = (IF p \in E THEN e[p] ELSE 0)
    BY <1>1, <1>7 DEF Weight, Counted
  <1> QED
    BY <1>2, <1>11, <1>12, <1>13

-----------------------------------------------------------------------------
(* The status a PRN projects as: that of the document about to be stored,  *)
(* or that of the one which is.                                            *)

Storing(r, p) == req[r].pc = "persist" /\ req[r].prn = p

Stands(p, status) ==
  IF \E r \in Requests : Storing(r, p)
  THEN \E r \in Requests : Storing(r, p) /\ req[r].doc.status = status
  ELSE Current(p).status = status

Standing == \A p \in PRNs : Exists(p) => Stands(p, Projected(p).status)

LEMMA StandingHolds == Inv /\ Calm => Standing
  <1> SUFFICES ASSUME Inv, Calm, NEW p \in PRNs, Exists(p) PROVE Stands(p, Projected(p).status)
    BY DEF Standing
  <1>1. CASE \E r \in Requests : Storing(r, p)
    <2>1. PICK r \in Requests : Storing(r, p)
      BY <1>1
    <2>2. Projected(p).status = req[r].doc.status
      <3>1. Ahead(req[r])
        BY <2>1, Working DEF Storing, Fresh
      <3> QED
        BY <2>1, <3>1, AheadProjects DEF Storing
    <2> QED
      BY <2>1, <2>2 DEF Stands
  <1>2. CASE ~ \E r \in Requests : Storing(r, p)
    <2>1. Settled(p)
      <3>1. CASE Idle(p)
        BY <3>1 DEF Calm, Settling
      <3>2. CASE ~Idle(p)
        BY <1>2, <3>2, Working DEF Idle, Storing, Fresh
      <3> QED
        BY <3>1, <3>2
    <2>2. Projected(p) = Current(p)
      BY <2>1, SettledProjects
    <2> QED
      BY <1>2, <2>2 DEF Stands
  <1> QED
    BY <1>1, <1>2

(* A PRN projects as one status.                                           *)
LEMMA StandsOnce ==
  ASSUME Alone, NEW p, NEW s, NEW t, Stands(p, s), Stands(p, t)
  PROVE  s = t
  BY DEF Stands, Storing, Alone

(* Where requests at p alone move, the other PRNs stand as they stood.     *)
LEMMA OthersStand ==
  ASSUME Inv, Standing, Standing', Calm, Calm', NEW p \in PRNs,
         \A x \in Requests :
           \/ req'[x] = req[x]
           \/ /\ req[x].pc = "idle" \/ req[x].prn = p
              /\ req'[x].pc = "idle" \/ req'[x].prn = p,
         NEW q \in PRNs \ {p}, docs'[q] = docs[q], Exists(q)
  PROVE  (Projected(q).status)' = Projected(q).status
  <1>1. \A x \in Requests : Storing(x, q)' <=> Storing(x, q)
    BY DEF Storing
  <1>2. \A x \in Requests : Storing(x, q) => req'[x] = req[x]
    BY DEF Storing
  <1>3. PICK s : s = Projected(q).status
    OBVIOUS
  <1>4. Stands(q, s)
    BY <1>3 DEF Standing
  <1>5. Stands(q, s)'
    BY <1>1, <1>2, <1>4 DEF Stands, Current
  <1>6. PICK t : t = (Projected(q).status)'
    OBVIOUS
  <1>7. Stands(q, t)'
    BY <1>6 DEF Standing, Exists, Stands, Storing, Current
  <1>8. s = t
    <2>1. Alone'
      BY DEF Calm
    <2> QED
      BY <1>5, <1>7, <2>1 DEF Stands, Storing, Alone
  <1> QED
    BY <1>3, <1>6, <1>8

LEMMA StandsAsStored ==
  ASSUME Standing, NEW p \in PRNs, Exists(p), \A r \in Requests : ~Storing(r, p)
  PROVE  Projected(p).status = Current(p).status
  BY DEF Standing, Stands

-----------------------------------------------------------------------------
(* The balance.                                                            *)

(* What the event of a transition moves is what the PRN weighs.            *)
LEMMA ClosingMoves ==
  ASSUME NEW from, NEW to, NEW actor, ValidTransition(from, to, actor), to # DISCARDED,
         NEW opening \in BalanceSnapshot, NEW amount \in Int
  PROVE  LET closing == ClosingForPrn(opening, TRANSITION_TO_COMMAND(from, to), amount)
         IN  /\ closing.availableAmount = opening.availableAmount
                  + (IF from \in Ringfencing THEN amount ELSE 0)
                  - (IF to \in Ringfencing THEN amount ELSE 0)
             /\ closing.amount = opening.amount
                  + (IF from \in Issued THEN amount ELSE 0)
                  - (IF to \in Issued THEN amount ELSE 0)
  <1>1. opening.amount \in Int /\ opening.availableAmount \in Int
    BY DEF BalanceSnapshot
  <1> DEFINE kind == TRANSITION_TO_COMMAND(from, to)
  <1> USE DEF DRAFT, AWAITING_AUTHORISATION, AWAITING_ACCEPTANCE, ACCEPTED,
         AWAITING_CANCELLATION, CANCELLED, DELETED, DISCARDED
  <1>2. \/ /\ kind = PRN_CREATED
           /\ from \notin Ringfencing /\ to \in Ringfencing /\ from \notin Issued /\ to \notin Issued
        \/ /\ kind = PRN_ISSUED
           /\ from \in Ringfencing /\ to \in Ringfencing /\ from \notin Issued /\ to \in Issued
        \/ /\ kind \in {PRN_ACCEPTED, PRN_REJECTED}
           /\ from \in Ringfencing /\ to \in Ringfencing /\ from \in Issued /\ to \in Issued
        \/ /\ kind = PRN_CREATION_CANCELLED
           /\ from \in Ringfencing /\ to \notin Ringfencing /\ from \notin Issued /\ to \notin Issued
        \/ /\ kind = PRN_CANCELLED_AFTER_ISSUE
           /\ from \in Ringfencing /\ to \notin Ringfencing /\ from \in Issued /\ to \notin Issued
    BY DEF ValidTransition, PRN_STATUS_TRANSITIONS, TRANSITION_TO_COMMAND, Issued, Ringfencing
  <1> HIDE DEF kind
  <1>3. LET closing == ClosingForPrn(opening, kind, amount)
        IN  /\ kind = PRN_CREATED => /\ closing.availableAmount = opening.availableAmount - amount
                                     /\ closing.amount = opening.amount
            /\ kind = PRN_ISSUED => /\ closing.availableAmount = opening.availableAmount
                                    /\ closing.amount = opening.amount - amount
            /\ kind \in {PRN_ACCEPTED, PRN_REJECTED} => closing = opening
            /\ kind = PRN_CREATION_CANCELLED =>
                 /\ closing.availableAmount = opening.availableAmount + amount
                 /\ closing.amount = opening.amount
            /\ kind = PRN_CANCELLED_AFTER_ISSUE =>
                 /\ closing.availableAmount = opening.availableAmount + amount
                 /\ closing.amount = opening.amount + amount
    BY DEF ClosingForPrn, BalanceSnapshot, PRN_CREATED, PRN_ISSUED,
       PRN_ACCEPTED, PRN_REJECTED, PRN_CREATION_CANCELLED, PRN_CANCELLED_AFTER_ISSUE
  <1>4. PICK closing : closing = ClosingForPrn(opening, kind, amount)
    OBVIOUS
  <1> QED
    BY <1>1, <1>2, <1>3, <1>4 DEF kind

(* A step that weighs p as before, and appends nothing, keeps the match.   *)
LEMMA SameWeight ==
  ASSUME Undisturbed, Inv, Inv', BalanceMatchesPrns, ledger' = ledger, NEW p \in PRNs,
         \A q \in PRNs \ {p} :
           /\ docs'[q] = docs[q]
           /\ Exists(q) => (Projected(q).status)' = Projected(q).status,
         Weight(p, Ringfencing)' = Weight(p, Ringfencing),
         Weight(p, Issued)' = Weight(p, Issued)
  PROVE  BalanceMatchesPrns'
  <1>1. Weight(p, Ringfencing) \in Int /\ Weight(p, Issued) \in Int
    BY Weighing DEF Weight
  <1>2. TonnageIn(Ringfencing)' = TonnageIn(Ringfencing)
    BY <1>1, TonnageMoves
  <1>3. TonnageIn(Issued)' = TonnageIn(Issued)
    BY <1>1, TonnageMoves
  <1> QED
    BY <1>2, <1>3 DEF BalanceMatchesPrns, Balance

LEMMA QuietBalance ==
  ASSUME Undisturbed, BalanceMatchesPrns, UNCHANGED <<ledger, docs>>
  PROVE  BalanceMatchesPrns'
  <1>1. \A q : Current(q)' = Current(q) /\ (Exists(q)' <=> Exists(q))
    BY DEF Exists, Current
  <1>2. ASSUME NEW q PROVE Projected(q)' = Projected(q)
    BY DEF Projected, ProjectFromStreamTail, FoldTail, TailNumbers, Current
  <1>3. Tonnages' = Tonnages /\ \A statuses : Counted(statuses)' = Counted(statuses)
    BY <1>1, <1>2 DEF Tonnages, Counted
  <1>4. ASSUME NEW statuses PROVE TonnageIn(statuses)' = TonnageIn(statuses)
    BY <1>3, TonnageIsSum, TonnageIsSumNext
  <1> QED
    BY <1>4 DEF BalanceMatchesPrns, Balance

LEMMA PostBalance ==
  ASSUME Undisturbed, Inv, Inv', Calm, Calm', Standing, Standing', BalanceMatchesPrns,
         NEW p \in PRNs, Post(p)
  PROVE  BalanceMatchesPrns'
  <1>1. PICK a \in PrnAmounts :
          docs' = [docs EXCEPT ![p] = << [status |-> DRAFT, tonnage |-> a, number |-> NoNumber,
                                          watermark |-> 0, history |-> <<DRAFT>>] >>]
    BY DEF Post
  <1>2. /\ req' = req /\ ledger' = ledger /\ ~Exists(p)
        /\ \A q \in PRNs \ {p} : docs'[q] = docs[q]
        /\ docs'[p] = << [status |-> DRAFT, tonnage |-> a, number |-> NoNumber,
                          watermark |-> 0, history |-> <<DRAFT>>] >>
    BY <1>1 DEF Post, Inv, TypeOK
  <1>3. (Exists(p) /\ Current(p).status = DRAFT)'
    BY <1>2 DEF Exists, Current, Last
  <1>4. \A r \in Requests : ~Storing(r, p)'
    BY <1>2, Working DEF Storing
  <1>5. (Projected(p).status)' = DRAFT
    BY <1>3, <1>4 DEF Standing, Stands
  <1>6. DRAFT \notin Ringfencing /\ DRAFT \notin Issued
    BY DEF Issued, Ringfencing, DRAFT, AWAITING_AUTHORISATION, AWAITING_ACCEPTANCE,
       ACCEPTED, AWAITING_CANCELLATION
  <1>7. /\ Weight(p, Ringfencing)' = Weight(p, Ringfencing)
        /\ Weight(p, Issued)' = Weight(p, Issued)
    BY <1>2, <1>5, <1>6 DEF Weight
  <1>8. \A q \in PRNs \ {p} : Exists(q) => (Projected(q).status)' = Projected(q).status
    BY <1>2, OthersStand
  <1> QED
    BY <1>2, <1>7, <1>8, SameWeight

(* The event debits or credits what its PRN's step in status weighs.       *)
LEMMA AppendEventBalance ==
  ASSUME Undisturbed, Inv, Inv', Calm, Calm', Standing, Standing', BalanceMatchesPrns,
         NEW r \in Requests, AppendEvent(r), ~Stop(r)
  PROVE  BalanceMatchesPrns'
  <1>1. PICK old, p, number, kind : Commits(r, old, p, number, kind)
    BY Committed
  <1>2. req[r].pc = "append" /\ docs' = docs
    BY DEF AppendEvent
  <1>3. /\ old \in ActiveRequest /\ p \in PRNs /\ Exists(p) /\ Settled(p)
        /\ Current(p) \in PrnDocument /\ old.doc = Current(p)
        /\ \A s \in Requests \ {r} : req[s].pc # "idle" => req[s].prn # p
    BY <1>1, <1>2, Working DEF Commits, Fresh
  <1>4. PICK from, to, amount :
          from = Current(p).status /\ to = old.target /\ amount = Current(p).tonnage
    OBVIOUS
  <1>5. PICK actor : ValidTransition(from, to, actor)
    BY <1>1, <1>4 DEF Commits
  <1>6. amount \in Int
    BY <1>3, <1>4, Weighing
  <1>7. Projected(p).status = from
    BY <1>3, <1>4, SettledProjects
  <1> DEFINE doc == ApplyEvent(old.doc, number, kind)
             o   == [old EXCEPT !.pc = "persist", !.doc = doc]
  <1>8. doc.status = to
    <2>1. LEDGER_EVENT_KIND_TO_PRN_STATUS(kind) = to
      BY <1>1, <1>3, <1>4, <1>5, CommandReaches DEF Commits
    <2> QED
      BY <1>1, <1>3, <2>1, EventApplied DEF Commits
  <1>9. Become(r, o)
    BY <1>1 DEF Commits
  <1> HIDE DEF doc
  <1>10. o.pc = "persist" /\ o.prn = p /\ o.doc = doc
    <2>1. o.pc = "persist" /\ o.prn = old.prn /\ o.doc = doc
      BY <1>3 DEF ActiveRequest
    <2> QED
      BY <1>1, <2>1 DEF Commits
  <1> HIDE DEF o
  <1>11. req'[r] = o /\ \A x \in Requests \ {r} : req'[x] = req[x]
    BY <1>9 DEF Become, Inv, TypeOK
  <1>12. (Projected(p).status)' = to
    <2>1. Storing(r, p)' /\ req'[r].doc.status = to
      BY <1>8, <1>10, <1>11 DEF Storing
    <2>2. \A x \in Requests : Storing(x, p)' => x = r
      BY <1>3, <1>11 DEF Storing
    <2>3. Exists(p)'
      BY <1>2, <1>3 DEF Exists
    <2> QED
      BY <2>1, <2>2, <2>3, <1>3 DEF Standing, Stands
  <1>13. /\ \A statuses : Weight(p, statuses) = IF from \in statuses THEN amount ELSE 0
         /\ \A statuses : Weight(p, statuses)' = IF to \in statuses THEN amount ELSE 0
    <2>1. (Exists(p) /\ Current(p).tonnage = amount)'
      BY <1>2, <1>3, <1>4 DEF Exists, Current
    <2> QED
      BY <1>3, <1>4, <1>7, <1>12, <2>1 DEF Weight
  <1>14. \A q \in PRNs \ {p} :
           docs'[q] = docs[q] /\ (Exists(q) => (Projected(q).status)' = Projected(q).status)
    <2>1. \A x \in Requests :
            \/ req'[x] = req[x]
            \/ /\ req[x].pc = "idle" \/ req[x].prn = p
               /\ req'[x].pc = "idle" \/ req'[x].prn = p
      BY <1>1, <1>10, <1>11 DEF Commits
    <2> QED
      BY <1>2, <1>3, <2>1, OthersStand
  <1>15. PICK opening, closing :
           opening = Balance /\ closing = ClosingForPrn(opening, kind, amount)
    OBVIOUS
  <1>16. opening \in BalanceSnapshot
    <2>1. ledger \in Seq(Event) /\ ledger # <<>> /\ Len(ledger) \in 1..Len(ledger)
      BY DEF Inv, TypeOK, LedgerHolds
    <2>2. ledger[Len(ledger)] \in Event
      BY <2>1
    <2> QED
      BY <1>15, <2>2 DEF Balance, Last, Event
  <1>17. /\ closing.availableAmount = opening.availableAmount
              + (IF from \in Ringfencing THEN amount ELSE 0)
              - (IF to \in Ringfencing THEN amount ELSE 0)
         /\ closing.amount = opening.amount
              + (IF from \in Issued THEN amount ELSE 0)
              - (IF to \in Issued THEN amount ELSE 0)
    <2>1. kind = TRANSITION_TO_COMMAND(from, to) /\ to # DISCARDED
      BY <1>1, <1>4 DEF Commits
    <2> QED
      BY <1>5, <1>6, <1>15, <1>16, <2>1, ClosingMoves
  <1>18. Balance' = closing
    <2>1. ledger' = Append(ledger, [kind |-> kind, prn |-> p, closing |-> closing])
      BY <1>1, <1>4, <1>15 DEF Commits
    <2>2. ledger \in Seq(Event)
      BY DEF Inv, TypeOK
    <2> QED
      BY <2>1, <2>2 DEF Balance, Last
  <1>19. /\ TonnageIn(Ringfencing) \in Int /\ TonnageIn(Issued) \in Int
         /\ TonnageIn(Ringfencing)' =
              TonnageIn(Ringfencing) - Weight(p, Ringfencing) + Weight(p, Ringfencing)'
         /\ TonnageIn(Issued)' = TonnageIn(Issued) - Weight(p, Issued) + Weight(p, Issued)'
    BY <1>3, <1>14, TonnageMoves
  <1>20. /\ opening.availableAmount = Credit - TonnageIn(Ringfencing)
         /\ opening.amount = Credit - TonnageIn(Issued)
    BY <1>15 DEF BalanceMatchesPrns
  <1> HIDE DEF o
  <1>21. closing.availableAmount = Credit - TonnageIn(Ringfencing)'
    BY <1>6, <1>13, <1>17, <1>19, <1>20, TonnageAssumption
  <1>22. closing.amount = Credit - TonnageIn(Issued)'
    BY <1>6, <1>13, <1>17, <1>19, <1>20, TonnageAssumption
  <1> QED
    BY <1>18, <1>21, <1>22 DEF BalanceMatchesPrns

(* A stored document weighs what the PRN already stood at.                 *)
LEMMA ReplaceBalance ==
  ASSUME Undisturbed, Inv, Inv', Calm, Calm', Standing, Standing', BalanceMatchesPrns,
         NEW r \in Requests, req[r].pc # "idle", NEW p \in PRNs, p = req[r].prn,
         NEW doc, Replace(p, doc), Stop(r), UNCHANGED ledger,
         doc.tonnage = Current(p).tonnage,
         \/ doc.status = Projected(p).status
         \/ doc.status = DISCARDED /\ Projected(p).status = DRAFT
  PROVE  BalanceMatchesPrns'
  <1>1. docs' = [docs EXCEPT ![p] = Append(docs[p], doc)] /\ docs[p] \in Seq(PrnDocument)
    BY Typed DEF Replace, Inv
  <1>2. docs'[p] = Append(docs[p], doc) /\ \A q \in PRNs \ {p} : docs'[q] = docs[q]
    BY <1>1 DEF Inv, TypeOK
  <1>3. (Exists(p) /\ Current(p) = doc)'
    <2>1. Len(docs'[p]) = Len(docs[p]) + 1 /\ docs'[p][Len(docs[p]) + 1] = doc
      BY <1>1, <1>2
    <2>2. docs'[p] \in Seq(PrnDocument) /\ Len(docs[p]) \in Nat
      BY <1>1 DEF Inv, TypeOK
    <2> QED
      BY <2>1, <2>2 DEF Exists, Current, Last
  <1>4. Exists(p) /\ \A s \in Requests \ {r} : req[s].pc # "idle" => req[s].prn # p
    BY Working
  <1>5. req'[r].pc = "idle" /\ \A x \in Requests \ {r} : req'[x] = req[x]
    BY DEF Stop, Become, IdleRequest, Inv, TypeOK
  <1>6. \A x \in Requests : ~Storing(x, p)'
    BY <1>4, <1>5 DEF Storing
  <1>7. (Projected(p).status)' = doc.status
    BY <1>3, <1>6 DEF Standing, Stands
  <1>8. \A q \in PRNs \ {p} :
          docs'[q] = docs[q] /\ (Exists(q) => (Projected(q).status)' = Projected(q).status)
    <2>1. \A x \in Requests :
            \/ req'[x] = req[x]
            \/ /\ req[x].pc = "idle" \/ req[x].prn = p
               /\ req'[x].pc = "idle" \/ req'[x].prn = p
      BY <1>5
    <2> QED
      BY <1>2, <2>1, OthersStand
  <1>9. /\ \A s \in {DRAFT, DISCARDED} : s \notin Ringfencing /\ s \notin Issued
    BY DEF Issued, Ringfencing, DRAFT, AWAITING_AUTHORISATION, AWAITING_ACCEPTANCE,
       ACCEPTED, AWAITING_CANCELLATION, DISCARDED
  <1>10. /\ Weight(p, Ringfencing)' = Weight(p, Ringfencing)
         /\ Weight(p, Issued)' = Weight(p, Issued)
    BY <1>3, <1>4, <1>7, <1>9 DEF Weight
  <1> QED
    BY <1>8, <1>10, SameWeight

LEMMA PersistBalance ==
  ASSUME Undisturbed, Inv, Inv', Calm, Calm', Standing, Standing', BalanceMatchesPrns,
         NEW r \in Requests, Persist(r) \/ PersistIssued(r)
  PROVE  BalanceMatchesPrns'
  <1> DEFINE o == req[r]
             p == o.prn
  <1>1. o.pc = "persist" /\ ledger' = ledger
    BY DEF Persist, PersistIssued
  <1>2. /\ o \in ActiveRequest /\ p \in PRNs /\ Exists(p)
        /\ o.doc \in PrnDocument /\ Ahead(o) /\ Matches(o)
    BY <1>1, Working, AheadMatches DEF Fresh, ActiveRequest
  <1>3. o.doc.tonnage = Current(p).tonnage /\ o.doc.status = Projected(p).status
    BY <1>1, <1>2, AheadProjects DEF Ahead
  <1>4. CASE docs' = docs
    BY <1>1, <1>4, QuietBalance
  <1>5. CASE \E number : Replace(p, [o.doc EXCEPT !.number = number]) /\ Stop(r)
    <2>1. PICK number : Replace(p, [o.doc EXCEPT !.number = number]) /\ Stop(r)
      BY <1>5
    <2>2. PICK doc : doc = [o.doc EXCEPT !.number = number]
      OBVIOUS
    <2>3. doc.tonnage = o.doc.tonnage /\ doc.status = o.doc.status
      BY <1>2, <2>2 DEF PrnDocument
    <2>4. PICK q : q = p
      OBVIOUS
    <2>5. q \in PRNs /\ q = req[r].prn /\ Replace(q, doc) /\ req[r].pc # "idle"
      BY <1>1, <1>2, <2>1, <2>2, <2>4
    <2> QED
      BY <1>1, <1>3, <2>1, <2>3, <2>4, <2>5, ReplaceBalance
  <1>6. CASE Replace(p, o.doc) /\ Stop(r)
    <2>1. PICK q, doc : q = p /\ doc = o.doc
      OBVIOUS
    <2>2. q \in PRNs /\ q = req[r].prn /\ Replace(q, doc) /\ req[r].pc # "idle"
      BY <1>1, <1>2, <1>6, <2>1
    <2> QED
      BY <1>1, <1>3, <1>6, <2>1, <2>2, ReplaceBalance
  <1> QED
    BY <1>4, <1>5, <1>6 DEF Persist, PersistIssued

LEMMA DiscardBalance ==
  ASSUME Undisturbed, Inv, Inv', Calm, Calm', Standing, Standing', BalanceMatchesPrns,
         NEW r \in Requests, Discard(r)
  PROVE  BalanceMatchesPrns'
  <1> DEFINE o == req[r]
             p == o.prn
  <1>1. o.pc = "discard" /\ ledger' = ledger /\ Stop(r)
    BY DEF Discard
  <1>2. /\ o \in ActiveRequest /\ RequestHolds(o) /\ p \in PRNs /\ Exists(p)
        /\ o.doc = Current(p) /\ Settled(p) /\ Current(p) \in PrnDocument
    BY <1>1, Working DEF Fresh
  <1>3. o.target = DISCARDED /\ Current(p).status = DRAFT /\ Projected(p).status = DRAFT
    BY <1>1, <1>2, SettledProjects DEF RequestHolds, Admits
  <1>4. CASE docs' = docs
    BY <1>1, <1>4, QuietBalance
  <1>5. CASE docs' # docs
    <2>1. PICK q, doc : /\ q = p
                        /\ doc = [Current(p) EXCEPT !.status = o.target, !.history = Append(@, o.target)]
      OBVIOUS
    <2>2. Replace(q, doc)
      BY <1>5, <2>1 DEF Discard
    <2>3. doc.status = DISCARDED /\ doc.tonnage = Current(p).tonnage
      BY <1>2, <1>3, <2>1 DEF PrnDocument
    <2>4. q \in PRNs /\ q = req[r].prn /\ req[r].pc # "idle"
      BY <1>1, <1>2, <2>1
    <2> QED
      BY <1>1, <1>3, <2>1, <2>2, <2>3, <2>4, ReplaceBalance
  <1> QED
    BY <1>4, <1>5

LEMMA StepBalance ==
  ASSUME Undisturbed, Inv, Inv', Calm, Calm', Standing, Standing', BalanceMatchesPrns, [Next]_vars
  PROVE  BalanceMatchesPrns'
  <1>1. ASSUME NEW p \in PRNs, Post(p) PROVE BalanceMatchesPrns'
    BY <1>1, PostBalance
  <1>2. ASSUME NEW r \in Requests,
               \/ InternalRead(r) \/ ExternalRead(r) \/ ReadTail(r) \/ CheckAccreditation(r)
               \/ AppendConflict(r) \/ Fail(r)
        PROVE  BalanceMatchesPrns'
    BY <1>2, QuietBalance DEF InternalRead, ExternalRead, ReadTail, CheckAccreditation,
       AppendConflict, Fail
  <1>3. ASSUME NEW r \in Requests, AppendEvent(r) PROVE BalanceMatchesPrns'
    <2>1. CASE ~Stop(r)
      BY <1>3, <2>1, AppendEventBalance
    <2>2. CASE Stop(r)
      BY <1>3, <2>2, StoppedAppend, QuietBalance DEF AppendEvent
    <2> QED
      BY <2>1, <2>2
  <1>4. ASSUME NEW r \in Requests, Persist(r) \/ PersistIssued(r) PROVE BalanceMatchesPrns'
    BY <1>4, PersistBalance
  <1>5. ASSUME NEW r \in Requests, Discard(r) PROVE BalanceMatchesPrns'
    BY <1>5, DiscardBalance
  <1>6. CASE ChangeAccreditation \/ UNCHANGED vars
    BY <1>6, QuietBalance DEF ChangeAccreditation, vars
  <1> QED
    BY <1>1, <1>2, <1>3, <1>4, <1>5, <1>6 DEF Next

LEMMA InitBalance == ASSUME Undisturbed PROVE Init => BalanceMatchesPrns
  <1> SUFFICES ASSUME Init PROVE BalanceMatchesPrns
    OBVIOUS
  <1>1. ASSUME NEW statuses PROVE TonnageIn(statuses) = 0
    <2>1. Counted(statuses) = {}
      BY DEF Counted, Init, Exists
    <2>2. PICK g : IsSum(g, Tonnages, {}) /\ SumOf(Tonnages, {}) = g[{}]
      BY SumIs, FS_EmptySet
    <2> QED
      BY <2>1, <2>2, TonnageIsSum DEF IsSum, SumStep
  <1>2. Balance.availableAmount = Credit /\ Balance.amount = Credit
    BY TonnageAssumption DEF Init, Balance, Last, ClosingForSummaryLogSubmitted, ZERO_BALANCE
  <1> QED
    BY <1>1, <1>2, TonnageAssumption DEF BalanceMatchesPrns

-----------------------------------------------------------------------------
(* The theorems.                                                           *)

(* Undisturbed, the balance and the PRNs agree after every step, also      *)
(* between an event and the document that lacks it: what is ringfenced is  *)
(* the tonnage of the PRNs created and not cancelled, what is debited that *)
(* of those issued and not cancelled.                                      *)
THEOREM BalanceIsThatOfPrns ==
  ASSUME Undisturbed
  PROVE  Spec => []BalanceMatchesPrns
  <1>1. Spec => [](Inv /\ Calm)
    BY CalmHolds
  <1>2. Inv /\ Calm => Standing
    BY StandingHolds
  <1>3. Init => BalanceMatchesPrns
    BY InitBalance
  <1>4. /\ Inv /\ Calm /\ Standing /\ (Inv /\ Calm /\ Standing)'
        /\ BalanceMatchesPrns /\ [Next]_vars
        => BalanceMatchesPrns'
    BY StepBalance
  <1> QED
    BY <1>1, <1>2, <1>3, <1>4, PTL DEF Spec

(* Undisturbed, a PRN no request works on that projects as issued has a    *)
(* number, whatever numbers were drawn: one of the suffixes was left.      *)
THEOREM IssuedPrnsHaveNumbers ==
  ASSUME Undisturbed
  PROVE  Spec => []IssuedPrnHasNumber
  <1>1. Spec => [](Inv /\ Calm)
    BY CalmHolds
  <1>2. ASSUME Inv, Calm PROVE IssuedPrnHasNumber
    <2> SUFFICES ASSUME NEW p \in PRNs, Exists(p), Idle(p), Projected(p).status \in Issued
                 PROVE  Projected(p).number # NoNumber
      BY DEF IssuedPrnHasNumber, Idle
    <2>1. Settled(p)
      BY <1>2 DEF Calm, Settling
    <2>2. Projected(p) = Current(p)
      BY <1>2, <2>1, SettledProjects
    <2> QED
      BY <1>2, <2>2 DEF Calm, Numbered
  <1> QED
    BY <1>1, <1>2, PTL
=============================================================================
