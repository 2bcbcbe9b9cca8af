---------------------- MODULE WasteBalanceLedgerProofs ----------------------
(***************************************************************************)
(* Theorems about WasteBalanceLedger, for any number of operations, events *)
(* and tonnages.  The first group holds for any replica set.  The second   *)
(* needs all reads of an operation to be answered by one member, which is  *)
(* what the code relies on for the running credit total.                   *)
(***************************************************************************)
EXTENDS WasteBalanceLedger, TLAPS

(* The closing balance a fold at head h has seen.                          *)
BalanceAt(h) == IF h = 0 THEN ZERO_BALANCE ELSE ledger[h].closing

(* What an operation holds agrees with a prefix of the ledger, although    *)
(* the ledger may have grown beyond it.                                    *)
HoldsPrefix(o) ==
  o.pc # "idle" =>
    /\ o.command \in Command
    /\ o.head <= Len(ledger)
    /\ o.balance = BalanceAt(o.head)
    /\ o.pc = "findSubmission" => o.head > 0
    /\ o.pc \in {"preCheck", "insert"} =>
         /\ Commits(o)
         /\ IsPrnCommand(o.command) => o.head > 0

OperationsHoldPrefix == \A w \in Writers : HoldsPrefix(op[w])

(* The query for the latest submission has an answer whenever a prefix     *)
(* has a submission.                                                       *)
LatestSubmissionExists ==
  \A n \in 0..Len(ledger) :
    Submissions(n) # {} =>
      \E m \in Submissions(n) : \A j \in Submissions(n) : j <= m

Inv ==
  /\ TypeOK
  /\ GapFree
  /\ DecidedAtHead
  /\ OperationsHoldPrefix
  /\ LatestSubmissionExists

-----------------------------------------------------------------------------
(* Facts about the operators.                                              *)

(* A submission is not a PRN command.                                      *)
LEMMA KindsDiffer == SUMMARY_LOG_SUBMITTED \notin PrnKinds
  BY DEF SUMMARY_LOG_SUBMITTED, PrnKinds, PRN_CREATED, PRN_ISSUED,
         PRN_CREATION_CANCELLED, PRN_CANCELLED_AFTER_ISSUE, PRN_ACCEPTED,
         PRN_REJECTED

(* A command is a submission of a credit total or a PRN command with a     *)
(* positive tonnage.                                                       *)
LEMMA CommandType ==
  ASSUME NEW c \in Command
  PROVE  /\ c.kind \in EventKinds
         /\ c.value \in Int
         /\ IsPrnCommand(c) => c.value \in PrnAmounts
         /\ ~IsPrnCommand(c) => /\ c.kind = SUMMARY_LOG_SUBMITTED
                                /\ c.value \in CreditTotals
  <1>1. CASE c \in [kind : {SUMMARY_LOG_SUBMITTED}, value : CreditTotals]
    BY <1>1, TonnageAssumption, KindsDiffer DEF EventKinds, IsPrnCommand
  <1>2. CASE c \in [kind : PrnKinds, value : PrnAmounts]
    <2>1. c.kind \in PrnKinds /\ c.value \in PrnAmounts
      BY <1>2
    <2>2. c.value \in Int
      <3>1. \A a \in PrnAmounts : a \in Int
        BY TonnageAssumption
      <3> QED BY <2>1, <3>1
    <2> QED BY <2>1, <2>2 DEF EventKinds, IsPrnCommand
  <1> QED BY <1>1, <1>2 DEF Command

(* An appended event is the last one, and the others stay.                 *)
LEMMA AppendEvent ==
  ASSUME NEW s \in Seq(Event), NEW e \in Event
  PROVE  /\ Append(s, e) \in Seq(Event)
         /\ Len(Append(s, e)) = Len(s) + 1
         /\ \A i \in 1..Len(s) : Append(s, e)[i] = s[i]
         /\ Append(s, e)[Len(s) + 1] = e
  OBVIOUS

LEMMA IdleType == IdleOperation \in Operation
  BY DEF IdleOperation, Operation, Phases, BalanceSnapshot, ZERO_BALANCE

(* Closing balances are pairs of integers.                                 *)
LEMMA ClosingType ==
  ASSUME NEW o \in Operation, o.command \in Command
  PROVE  ClosingBalance(o) \in BalanceSnapshot
  <1>1. o.balance \in BalanceSnapshot /\ o.creditTotal \in Int
    BY DEF Operation
  <1>2. CASE IsPrnCommand(o.command)
    <2>1. o.command.kind \in PrnKinds /\ o.command.value \in Int
      BY <1>2, CommandType DEF IsPrnCommand
    <2>2. ClosingForPrn(o.balance, o.command.kind, o.command.value) \in BalanceSnapshot
      BY <1>1, <2>1 DEF ClosingForPrn, BalanceSnapshot, PrnKinds
    <2> QED BY <1>2, <2>2 DEF ClosingBalance
  <1>3. CASE ~IsPrnCommand(o.command)
    <2>1. o.command.value \in Int
      BY CommandType
    <2> QED BY <1>1, <1>3, <2>1
        DEF ClosingBalance, ClosingForSummaryLogSubmitted, BalanceSnapshot
  <1> QED BY <1>2, <1>3

(* In a gap-free ledger the highest numbered of the first n documents is   *)
(* the n-th.                                                               *)
LEMMA HighestOfPrefix ==
  ASSUME TypeOK, GapFree, NEW n \in 1..Len(ledger)
  PROVE  HighestNumbered(1..n) = n
  <1>1. \A i \in 1..n : ledger[i].number = i
    BY DEF GapFree, TypeOK
  <1>2. \A j \in 1..n : ledger[j].number <= ledger[n].number
    BY <1>1
  <1>3. n \in 1..n
    OBVIOUS
  <1>4. /\ HighestNumbered(1..n) \in 1..n
        /\ \A j \in 1..n : ledger[j].number <= ledger[HighestNumbered(1..n)].number
    BY <1>2, <1>3 DEF HighestNumbered
  <1> QED BY <1>1, <1>3, <1>4

(* Among the submissions of a prefix the one found is the latest, so the   *)
(* running credit total is an integer.                                     *)
LEMMA LatestSubmission ==
  ASSUME Inv, NEW n \in 0..Len(ledger), Submissions(n) # {}
  PROVE  LET m == HighestNumbered(Submissions(n))
         IN  m \in Submissions(n) /\ \A j \in Submissions(n) : j <= m
  <1>1. \A j \in Submissions(n) : j \in 1..Len(ledger) /\ ledger[j].number = j
    BY DEF Submissions, Inv, TypeOK, GapFree
  <1>2. PICK k \in Submissions(n) : \A j \in Submissions(n) : j <= k
    BY DEF Inv, LatestSubmissionExists
  <1>3. \A j \in Submissions(n) : ledger[j].number <= ledger[k].number
    BY <1>1, <1>2
  <1> DEFINE m == HighestNumbered(Submissions(n))
  <1>4. /\ m \in Submissions(n)
        /\ \A j \in Submissions(n) : ledger[j].number <= ledger[m].number
    BY <1>2, <1>3 DEF HighestNumbered
  <1> QED BY <1>1, <1>4

LEMMA CreditTotalType ==
  ASSUME Inv, NEW n \in 0..Len(ledger)
  PROVE  CreditTotalAfter(n) \in Int
  <1>1. CASE Submissions(n) = {}
    BY <1>1 DEF CreditTotalAfter
  <1>2. CASE Submissions(n) # {}
    <2> DEFINE m == HighestNumbered(Submissions(n))
    <2>1. m \in Submissions(n)
      BY <1>2, LatestSubmission
    <2>2. m \in 1..Len(ledger)
      BY <2>1 DEF Submissions, Inv, TypeOK
    <2>3. ledger[m] \in Event
      BY <2>2 DEF Inv, TypeOK
    <2> QED BY <1>2, <2>3 DEF CreditTotalAfter, Event
  <1> QED BY <1>1, <1>2

-----------------------------------------------------------------------------
(* The invariant is established.                                           *)
LEMMA InitInv == Init => Inv
  <1> SUFFICES ASSUME Init PROVE Inv
    OBVIOUS
  <1>2. TypeOK
    BY IdleType DEF Init, TypeOK
  <1>3. GapFree /\ DecidedAtHead
    BY DEF Init, GapFree, DecidedAtHead
  <1>4. OperationsHoldPrefix
    BY DEF Init, OperationsHoldPrefix, HoldsPrefix, IdleOperation
  <1>5. LatestSubmissionExists
    BY DEF Init, LatestSubmissionExists, Submissions
  <1> QED BY <1>2, <1>3, <1>4, <1>5 DEF Inv

(* An operation may move its locals to any that agree with the ledger.     *)
LEMMA OperationStep ==
  ASSUME Inv, NEW w \in Writers, NEW o \in Operation, HoldsPrefix(o),
         Become(w, o), UNCHANGED <<ledger, applied>>
  PROVE  Inv'
  <1>1. TypeOK'
    BY DEF Inv, TypeOK, Become
  <1>2. GapFree' /\ DecidedAtHead'
    BY DEF Inv, GapFree, DecidedAtHead, BalanceBefore
  <1>3. OperationsHoldPrefix'
    <2> SUFFICES ASSUME NEW v \in Writers PROVE HoldsPrefix(op[v])'
      BY DEF OperationsHoldPrefix
    <2>1. op'[v] = IF v = w THEN o ELSE op[v]
      BY DEF Inv, TypeOK, Become
    <2>2. HoldsPrefix(op'[v])
      BY <2>1 DEF Inv, OperationsHoldPrefix
    <2> QED BY <2>2 DEF HoldsPrefix, BalanceAt, Commits
  <1>4. LatestSubmissionExists'
    BY DEF Inv, LatestSubmissionExists, Submissions
  <1> QED BY <1>1, <1>2, <1>3, <1>4 DEF Inv

(* An operation may stop at any time.                                      *)
LEMMA BecomeIdle ==
  ASSUME Inv, NEW w \in Writers, Become(w, IdleOperation),
         UNCHANGED <<ledger, applied>>
  PROVE  Inv'
  <1>1. HoldsPrefix(IdleOperation)
    BY DEF HoldsPrefix, IdleOperation
  <1> QED BY <1>1, IdleType, OperationStep

LEMMA BeginInv ==
  ASSUME Inv, NEW w \in Writers, Begin(w) PROVE Inv'
  <1>1. PICK c \in Command :
          Become(w, [IdleOperation EXCEPT !.pc = "findLatest", !.command = c])
    BY DEF Begin
  <1> DEFINE o == [IdleOperation EXCEPT !.pc = "findLatest", !.command = c]
  <1>2. o \in Operation
    BY IdleType DEF Operation, Phases
  <1>3. HoldsPrefix(o)
    BY DEF HoldsPrefix, IdleOperation, BalanceAt, Inv, TypeOK
  <1> QED BY <1>1, <1>2, <1>3, OperationStep DEF Begin

LEMMA FindNoLedgerInv ==
  ASSUME Inv, NEW w \in Writers, FindNoLedger(w) PROVE Inv'
  <1> DEFINE o == [op[w] EXCEPT !.pc = "preCheck"]
  <1>1. CASE IsPrnCommand(op[w].command)
    BY <1>1, BecomeIdle DEF FindNoLedger
  <1>2. CASE ~IsPrnCommand(op[w].command)
    <2>1. o \in Operation
      BY DEF Inv, TypeOK, Operation, Phases
    <2>2. HoldsPrefix(op[w]) /\ op[w].pc = "findLatest"
      BY DEF Inv, OperationsHoldPrefix, FindNoLedger
    <2>3. HoldsPrefix(o)
      BY <1>2, <2>2 DEF Inv, TypeOK, Operation, HoldsPrefix, Commits
    <2> QED BY <1>2, <2>1, <2>3, OperationStep DEF FindNoLedger
  <1> QED BY <1>1, <1>2

LEMMA FindLatestInv ==
  ASSUME Inv, NEW w \in Writers, FindLatest(w) PROVE Inv'
  <1>1. PICK r \in Replicas :
          /\ applied[r] > 0
          /\ LET latest == ledger[HighestNumbered(1..applied[r])]
             IN  Become(w, [op[w] EXCEPT !.pc = "findSubmission",
                                         !.head = latest.number,
                                         !.balance = latest.closing])
    BY DEF FindLatest
  <1> DEFINE n == applied[r]
             o == [op[w] EXCEPT !.pc = "findSubmission",
                                !.head = n, !.balance = ledger[n].closing]
  <1>2. n \in 1..Len(ledger)
    BY <1>1 DEF Inv, TypeOK
  <1>3. HighestNumbered(1..n) = n /\ ledger[n].number = n
    BY <1>2, HighestOfPrefix DEF Inv, GapFree
  <1>4. Become(w, o)
    BY <1>1, <1>3
  <1>5. ledger[n] \in Event
    BY <1>2 DEF Inv, TypeOK
  <1>6. o \in Operation
    BY <1>2, <1>5 DEF Inv, TypeOK, Operation, Phases, Event
  <1>7. HoldsPrefix(op[w]) /\ op[w].pc = "findLatest" /\ op[w] \in Operation
    BY DEF Inv, OperationsHoldPrefix, FindLatest, TypeOK
  <1>8. HoldsPrefix(o)
    BY <1>2, <1>7 DEF Operation, HoldsPrefix, BalanceAt
  <1> QED BY <1>4, <1>6, <1>8, OperationStep DEF FindLatest

LEMMA FindSubmissionAndDecideInv ==
  ASSUME Inv, NEW w \in Writers, FindSubmissionAndDecide(w) PROVE Inv'
  <1>1. PICK r \in Replicas :
          LET creditTotal == CreditTotalAfter(applied[r])
          IN  Become(w, IF Commits(op[w])
                        THEN [op[w] EXCEPT !.pc = "preCheck",
                                           !.creditTotal = creditTotal]
                        ELSE IdleOperation)
    BY DEF FindSubmissionAndDecide
  <1> DEFINE total == CreditTotalAfter(applied[r])
             o == [op[w] EXCEPT !.pc = "preCheck", !.creditTotal = total]
  <1>2. /\ HoldsPrefix(op[w])
        /\ op[w].pc = "findSubmission"
        /\ op[w] \in Operation
    BY DEF Inv, OperationsHoldPrefix, FindSubmissionAndDecide, TypeOK
  <1>3. CASE Commits(op[w])
    <2>1. total \in Int
      BY CreditTotalType DEF Inv, TypeOK
    <2>2. o \in Operation
      BY <1>2, <2>1 DEF Operation, Phases
    <2>3. HoldsPrefix(o)
      BY <1>2, <1>3 DEF Operation, HoldsPrefix, Commits
    <2> QED BY <1>1, <1>3, <2>2, <2>3, OperationStep DEF FindSubmissionAndDecide
  <1>4. CASE ~Commits(op[w])
    BY <1>1, <1>4, BecomeIdle DEF FindSubmissionAndDecide
  <1> QED BY <1>3, <1>4

LEMMA PreCheckInv ==
  ASSUME Inv, NEW w \in Writers, PreCheck(w) PROVE Inv'
  <1> DEFINE o == [op[w] EXCEPT !.pc = "insert"]
  <1>1. Become(w, o) \/ Become(w, IdleOperation)
    BY DEF PreCheck
  <1>2. /\ HoldsPrefix(op[w])
        /\ op[w].pc = "preCheck"
        /\ op[w] \in Operation
    BY DEF Inv, OperationsHoldPrefix, PreCheck, TypeOK
  <1>3. o \in Operation
    BY <1>2 DEF Operation, Phases
  <1>4. HoldsPrefix(o)
    BY <1>2 DEF Operation, HoldsPrefix, Commits
  <1> QED BY <1>1, <1>3, <1>4, OperationStep, BecomeIdle DEF PreCheck

(* The free slot after a head is the end of the ledger: an event is only   *)
(* ever inserted at the head its decision was made at.                     *)
LEMMA FreeSlotIsNext ==
  ASSUME Inv, NEW w \in Writers, op[w].pc = "insert", ~SlotTaken(Slot(op[w]))
  PROVE  op[w].head = Len(ledger)
  <1>1. op[w] \in Operation /\ op[w].head <= Len(ledger)
    BY DEF Inv, TypeOK, OperationsHoldPrefix, HoldsPrefix
  <1>2. op[w].head \in Nat /\ Len(ledger) \in Nat
    BY <1>1 DEF Operation, Inv, TypeOK
  <1>3. SUFFICES ASSUME op[w].head < Len(ledger) PROVE FALSE
    BY <1>1, <1>2
  <1>4. op[w].head + 1 \in 1..Len(ledger)
    BY <1>2, <1>3
  <1>5. ledger[op[w].head + 1].number = op[w].head + 1
    BY <1>4 DEF Inv, GapFree
  <1> QED BY <1>4, <1>5 DEF SlotTaken, Slot

(* What the primary commits: the decision of an operation whose head is    *)
(* the end of the ledger.                                                  *)
LEMMA InsertedEvent ==
  ASSUME Inv, NEW w \in Writers, Insert(w)
  PROVE  LET e == Decided(op[w])
         IN  /\ e \in Event
             /\ e.number = Len(ledger) + 1
             /\ e.opening = BalanceAt(Len(ledger))
             /\ e.kind = op[w].command.kind
             /\ e.value = op[w].command.value
             /\ e.closing = ClosingBalance(op[w])
             /\ Sufficient(BalanceAt(Len(ledger)), e.kind, e.value)
             /\ e.kind \in PrnKinds => Len(ledger) > 0
             /\ ledger' = Append(ledger, e)
  <1> DEFINE o == op[w]
  <1>1. o \in Operation /\ HoldsPrefix(o) /\ o.pc = "insert"
    BY DEF Insert, Inv, TypeOK, OperationsHoldPrefix
  <1>2. o.head = Len(ledger)
    BY <1>1, FreeSlotIsNext DEF Insert
  <1>3. /\ o.command \in Command
        /\ o.balance = BalanceAt(Len(ledger))
        /\ Commits(o)
        /\ IsPrnCommand(o.command) => Len(ledger) > 0
    BY <1>1, <1>2 DEF HoldsPrefix
  <1>4. o.command.kind \in EventKinds /\ o.command.value \in Int
    BY <1>3, CommandType
  <1>5. ClosingBalance(o) \in BalanceSnapshot
    BY <1>1, <1>3, ClosingType
  <1>6. Len(ledger) \in Nat
    BY DEF Inv, TypeOK
  <1>7. Decided(o) \in Event
    BY <1>1, <1>2, <1>4, <1>5, <1>6 DEF Decided, Slot, Event, Operation
  <1>8. Sufficient(BalanceAt(Len(ledger)), o.command.kind, o.command.value)
    <2>1. CASE IsPrnCommand(o.command)
      BY <1>3, <2>1 DEF Commits
    <2>2. CASE ~IsPrnCommand(o.command)
      BY <2>2 DEF IsPrnCommand, Sufficient, PrnKinds
    <2> QED BY <2>1, <2>2
  <1> QED
    BY <1>2, <1>3, <1>7, <1>8 DEF Decided, Slot, IsPrnCommand, Insert

LEMMA InsertInv ==
  ASSUME Inv, NEW w \in Writers, Insert(w) PROVE Inv'
  <1> DEFINE e == Decided(op[w])
             n == Len(ledger)
  <1>1. /\ e \in Event
        /\ e.number = n + 1
        /\ e.opening = BalanceAt(n)
        /\ Sufficient(BalanceAt(n), e.kind, e.value)
        /\ ledger' = Append(ledger, e)
    BY InsertedEvent
  <1>2. /\ ledger \in Seq(Event)
        /\ n \in Nat
        /\ ledger' \in Seq(Event)
        /\ Len(ledger') = n + 1
        /\ \A i \in 1..n : ledger'[i] = ledger[i]
        /\ ledger'[n + 1] = e
    BY <1>1, AppendEvent DEF Inv, TypeOK
  <1> HIDE DEF e
  <1>3. op' = [op EXCEPT ![w] = IdleOperation] /\ applied' = applied
    BY DEF Insert, Become
  <1>4. TypeOK'
    BY <1>2, <1>3, IdleType DEF Inv, TypeOK
  <1>5. GapFree'
    BY <1>1, <1>2 DEF Inv, GapFree
  <1>6. DecidedAtHead'
    <2> SUFFICES ASSUME NEW i \in 1..(n + 1)
                 PROVE  /\ ledger'[i].opening = BalanceBefore(i)'
                        /\ Sufficient(BalanceBefore(i)', ledger'[i].kind,
                                      ledger'[i].value)
      BY <1>2 DEF DecidedAtHead, Sufficient
    <2>1. CASE i \in 1..n
      <3>1. i # 1 => i - 1 \in 1..n
        BY <1>2, <2>1
      <3>2. BalanceBefore(i)' = BalanceBefore(i)
        BY <1>2, <3>1 DEF BalanceBefore
      <3> QED BY <1>2, <2>1, <3>2 DEF Inv, DecidedAtHead
    <2>2. CASE i = n + 1
      <3>1. BalanceBefore(i)' = BalanceAt(n)
        BY <1>2, <2>2 DEF BalanceBefore, BalanceAt
      <3> QED BY <1>1, <1>2, <2>2, <3>1
    <2> QED BY <1>2, <2>1, <2>2
  <1>7. OperationsHoldPrefix'
    <2> SUFFICES ASSUME NEW v \in Writers PROVE HoldsPrefix(op[v])'
      BY DEF OperationsHoldPrefix
    <2>1. CASE v = w
      BY <1>3, <2>1 DEF Inv, TypeOK, HoldsPrefix, IdleOperation
    <2>2. CASE v # w
      <3>1. op'[v] = op[v] /\ op[v] \in Operation /\ HoldsPrefix(op[v])
        BY <1>3, <2>2 DEF Inv, TypeOK, OperationsHoldPrefix
      <3>2. ASSUME op[v].pc # "idle"
            PROVE  BalanceAt(op[v].head)' = BalanceAt(op[v].head)
        BY <1>2, <3>1, <3>2 DEF BalanceAt, HoldsPrefix, Operation
      <3> QED BY <1>2, <3>1, <3>2 DEF HoldsPrefix, Commits, Operation
    <2> QED BY <2>1, <2>2
  <1>8. LatestSubmissionExists'
    <2> SUFFICES ASSUME NEW k \in 0..(n + 1), Submissions(k)' # {}
                 PROVE  \E m \in Submissions(k)' :
                          \A j \in Submissions(k)' : j <= m
      BY <1>2 DEF LatestSubmissionExists
    <2>1. \A l \in 0..n : Submissions(l)' = Submissions(l)
      BY <1>2 DEF Submissions
    <2>2. CASE k <= n
      BY <1>2, <2>1, <2>2 DEF Inv, LatestSubmissionExists
    <2>3. CASE k = n + 1 /\ e.kind = SUMMARY_LOG_SUBMITTED
      <3>1. n + 1 \in Submissions(k)'
        BY <1>2, <2>3 DEF Submissions
      <3>2. \A j \in Submissions(k)' : j <= n + 1
        BY <1>2, <2>3 DEF Submissions
      <3> QED BY <3>1, <3>2
    <2>4. CASE k = n + 1 /\ e.kind # SUMMARY_LOG_SUBMITTED
      <3>1. Submissions(k)' = Submissions(n)
        BY <1>2, <2>4 DEF Submissions
      <3> QED BY <1>2, <3>1 DEF Inv, LatestSubmissionExists
    <2> QED BY <1>2, <2>2, <2>3, <2>4
  <1> QED BY <1>4, <1>5, <1>6, <1>7, <1>8 DEF Inv

(* Replication changes nothing an operation or the ledger holds.           *)
LEMMA ReplicateInv ==
  ASSUME Inv, NEW r \in Replicas, Replicate(r) PROVE Inv'
  <1>1. TypeOK'
    BY DEF Inv, TypeOK, Replicate
  <1>2. GapFree' /\ DecidedAtHead'
    BY DEF Inv, Replicate, GapFree, DecidedAtHead, BalanceBefore
  <1>3. OperationsHoldPrefix'
    BY DEF Inv, Replicate, OperationsHoldPrefix, HoldsPrefix, BalanceAt
  <1>4. LatestSubmissionExists'
    BY DEF Inv, Replicate, LatestSubmissionExists, Submissions
  <1> QED BY <1>1, <1>2, <1>3, <1>4 DEF Inv

(* Every step of the ledger preserves the invariant.                       *)
LEMMA NextInv == Inv /\ [Next]_vars => Inv'
  <1> SUFFICES ASSUME Inv, [Next]_vars PROVE Inv'
    OBVIOUS
  <1>1. ASSUME NEW w \in Writers, InsertConflict(w) \/ Abort(w) PROVE Inv'
    BY <1>1, BecomeIdle DEF InsertConflict, Abort
  <1>2. CASE UNCHANGED vars
    BY <1>2 DEF vars, Inv, TypeOK, GapFree, DecidedAtHead, BalanceBefore,
           OperationsHoldPrefix, HoldsPrefix, BalanceAt, Commits,
           LatestSubmissionExists, Submissions
  <1> QED
    BY <1>1, <1>2, BeginInv, FindNoLedgerInv, FindLatestInv,
       FindSubmissionAndDecideInv, PreCheckInv, InsertInv, ReplicateInv DEF Next

THEOREM Invariance == Spec => []Inv
  BY InitInv, NextInv, PTL DEF Spec

(* The ledger, its replicas and the operations always have their types:    *)
(* in particular every committed balance is a pair of integers.            *)
THEOREM TypeCorrect == Spec => []TypeOK
  BY Invariance, PTL DEF Inv

(* ledger-port.js, performAppendEvents: the unique slot index alone keeps  *)
(* the ledger gap-free, however stale the folds and pre-checks are.        *)
THEOREM LedgerIsGapFree == Spec => []GapFree
  BY Invariance, PTL DEF Inv

(* waste-balance-service.js: every event was decided at the balance its    *)
(* predecessor left, for any number of racing operations and members.      *)
THEOREM DecisionsAreAtHead == Spec => []DecidedAtHead
  BY Invariance, PTL DEF Inv

-----------------------------------------------------------------------------
(* The contract of the repository.                                         *)

(* In a gap-free ledger the highest number of a set of events is its       *)
(* latest.                                                                 *)
LEMMA HighestIsLatest ==
  ASSUME NEW s \in Seq(Event), \A i \in 1..Len(s) : s[i].number = i,
         NEW S \in SUBSET (1..Len(s))
  PROVE  {i \in S : \A j \in S : s[j].number <= s[i].number}
           = {i \in S : \A j \in S : j <= i}
  OBVIOUS

(* An insert appends one event, numbered next, that every later query      *)
(* finds.                                                                  *)
LEMMA InsertAppends ==
  ASSUME Inv, Inv', NEW w \in Writers, Insert(w)
  PROVE  Repository!Next
  <1> DEFINE e == Decided(op[w])
             n == Len(ledger)
  <1>1. e \in Event /\ e.number = n + 1 /\ ledger' = Append(ledger, e)
    BY InsertedEvent
  <1>2. /\ ledger \in Seq(Event) /\ ledger' \in Seq(Event)
        /\ n \in Nat
        /\ Len(ledger') = n + 1
        /\ \A i \in 1..n : ledger'[i] = ledger[i]
        /\ ledger'[n + 1] = e
    BY <1>1, AppendEvent DEF Inv, TypeOK
  <1>3. /\ \A i \in 1..n : ledger[i].number = i
        /\ \A i \in 1..(n + 1) : ledger'[i].number = i
    BY <1>2 DEF Inv, GapFree
  <1> HIDE DEF e
  <1>4. Repository!CurrentMax = n
    BY <1>2, <1>3 DEF Repository!CurrentMax
  <1>5. Repository!Appended(n)
    BY <1>1, <1>2, <1>4 DEF Repository!Appended
  <1>6. Repository!AllInLedgerAscend'
    BY <1>2, <1>3 DEF Repository!AllInLedgerAscend
  <1>7. Repository!FindLatestInLedger' = {n + 1}
    <2>1. Repository!FindLatestInLedger'
            = {i \in 1..(n + 1) : \A j \in 1..(n + 1) :
                 ledger'[j].number <= ledger'[i].number}
      BY <1>2 DEF Repository!FindLatestInLedger, Repository!Highest
    <2>2. @ = {i \in 1..(n + 1) : \A j \in 1..(n + 1) : j <= i}
      BY <1>3
    <2> QED BY <1>2, <2>1, <2>2
  <1>8. ASSUME NEW kind \in EventKinds
        PROVE  LET added == {i \in (n + 1)..Len(ledger') : ledger'[i].kind = kind}
                   found == Repository!FindLatestInLedgerByKind(kind)
               IN  IF added = {}
                   THEN found' = found
                   ELSE found' = {i \in added : \A j \in added : j <= i}
    <2> DEFINE S == {i \in 1..n : ledger[i].kind = kind}
               T == {i \in 1..(n + 1) : ledger'[i].kind = kind}
    <2>1. Repository!FindLatestInLedgerByKind(kind)
            = {i \in S : \A j \in S : j <= i}
      BY <1>2, <1>3, HighestIsLatest
      DEF Repository!FindLatestInLedgerByKind, Repository!Highest, Repository!OfKind
    <2>2. Repository!FindLatestInLedgerByKind(kind)'
            = {i \in T : \A j \in T : j <= i}
      <3>1. Repository!FindLatestInLedgerByKind(kind)'
              = {i \in T : \A j \in T : ledger'[j].number <= ledger'[i].number}
        BY <1>2
        DEF Repository!FindLatestInLedgerByKind, Repository!Highest, Repository!OfKind
      <3> QED BY <1>3, <3>1
    <2>3. CASE e.kind = kind
      <3>1. {i \in (n + 1)..Len(ledger') : ledger'[i].kind = kind} = {n + 1}
        BY <1>2, <2>3
      <3>2. {i \in T : \A j \in T : j <= i} = {n + 1}
        BY <1>2, <2>3
      <3> QED BY <1>2, <2>2, <3>1, <3>2
    <2>4. CASE e.kind # kind
      <3>1. {i \in (n + 1)..Len(ledger') : ledger'[i].kind = kind} = {}
        BY <1>2, <2>4
      <3>2. T = S
        BY <1>2, <2>4
      <3> QED BY <2>1, <2>2, <3>1, <3>2
    <2> QED BY <2>3, <2>4
  <1>9. Repository!Visible(n)
    BY <1>2, <1>7, <1>8 DEF Repository!Visible
  <1> QED
    BY <1>5, <1>6, <1>9 DEF Repository!Next, Repository!AppendEvents

(* ledger-contract/: whatever the races and the lag, what the adapter      *)
(* stores is what the contract allows, an append or nothing.               *)
THEOREM LedgerHonoursContract == Spec => HonoursContract
  <1>1. Init => Repository!Init
    BY DEF Init, Repository!Init
  <1>2. Inv /\ Inv' /\ [Next]_vars => [Repository!Next]_ledger
    <2> SUFFICES ASSUME Inv, Inv', [Next]_vars
                 PROVE  Repository!Next \/ UNCHANGED ledger
      OBVIOUS
    <2>1. ASSUME NEW w \in Writers, Insert(w) PROVE Repository!Next
      BY <2>1, InsertAppends
    <2> QED
      BY <2>1 DEF Next, vars, Begin, FindNoLedger, FindLatest,
         FindSubmissionAndDecide, PreCheck, InsertConflict, Abort, Replicate
  <1> QED
    BY <1>1, <1>2, Invariance, PTL DEF Spec, HonoursContract, Repository!Spec

-----------------------------------------------------------------------------
(***************************************************************************)
(* With every read answered by one member the ledger measures each         *)
(* submission against its running credit total, and implements the atomic  *)
(* account of AtomicBalance.  With two members the first fails: the run    *)
(* LedgerSplitFold shows it.                                               *)
(***************************************************************************)

(* Reads never run backwards: an operation's head is still visible to it.  *)
HeadsVisible ==
  \A w \in Writers, r \in Replicas :
    op[w].pc # "idle" => op[w].head <= applied[r]

(* The credit total read after the head is that of the head or of a later  *)
(* point of the ledger.                                                    *)
TotalsFollowHeads ==
  \A w \in Writers :
    op[w].pc \in {"preCheck", "insert"} =>
      \E k \in op[w].head..Len(ledger) : op[w].creditTotal = CreditTotalAfter(k)

(* An operation that has read nothing holds no head and no credit total.   *)
NothingRead ==
  \A w \in Writers :
    op[w].pc = "findLatest" => op[w].head = 0 /\ op[w].creditTotal = 0

MeasuredInv ==
  /\ Inv
  /\ HeadsVisible
  /\ NothingRead
  /\ TotalsFollowHeads
  /\ DeltaAgainstRunningTotal

-----------------------------------------------------------------------------
(* The running credit total of a prefix never changes.                     *)
LEMMA CreditTotalStable ==
  ASSUME Inv, Inv', Len(ledger) <= Len(ledger'),
         \A i \in 1..Len(ledger) : ledger'[i] = ledger[i],
         NEW k \in 0..Len(ledger)
  PROVE  CreditTotalAfter(k)' = CreditTotalAfter(k)
  <1>1. Len(ledger) \in Nat /\ Len(ledger') \in Nat
    BY DEF Inv, TypeOK
  <1>2. k \in Nat /\ k <= Len(ledger) /\ k \in 0..Len(ledger')
    BY <1>1
  <1>3. Submissions(k)' = Submissions(k)
    BY <1>1, <1>2 DEF Submissions
  <1>4. CASE Submissions(k) = {}
    BY <1>3, <1>4 DEF CreditTotalAfter
  <1>5. CASE Submissions(k) # {}
    <2> DEFINE S == Submissions(k)
               m == HighestNumbered(S)
               p == CHOOSE i \in S : \A j \in S : ledger'[j].number <= ledger'[i].number
    <2>1. m \in S /\ \A j \in S : j <= m
      BY <1>5, LatestSubmission
    <2>2. \A j \in S : j \in 1..Len(ledger) /\ j \in 1..Len(ledger')
      BY <1>1, <1>2 DEF Submissions
    <2>3. \A j \in S : ledger'[j].number = j
      BY <2>2 DEF Inv, GapFree
    <2>4. p \in S /\ \A j \in S : ledger'[j].number <= ledger'[p].number
      BY <2>1, <2>3
    <2>5. p = m
      <3>1. m <= p /\ p <= m
        BY <2>1, <2>3, <2>4
      <3>2. m \in Nat /\ p \in Nat
        BY <2>1, <2>2, <2>4
      <3> QED BY <3>1, <3>2
    <2>6. CreditTotalAfter(k)' = ledger'[p].value
      BY <1>3, <1>5 DEF CreditTotalAfter, HighestNumbered
    <2>7. CreditTotalAfter(k) = ledger[m].value
      BY <1>5 DEF CreditTotalAfter
    <2> QED BY <2>1, <2>2, <2>5, <2>6, <2>7
  <1> QED BY <1>4, <1>5

(* What an insertion does to the ledger's running total and closing        *)
(* balance.                                                                *)
LEMMA InsertTotals ==
  ASSUME Inv, NEW w \in Writers, Insert(w), NEW n, n = Len(ledger)
  PROVE  LET e == Decided(op[w])
         IN  /\ n \in Nat
             /\ Len(ledger') = n + 1
             /\ ledger'[n + 1] = e
             /\ \A i \in 1..n : ledger'[i] = ledger[i]
             /\ \A k \in 0..n : CreditTotalAfter(k)' = CreditTotalAfter(k)
             /\ CreditTotalAfter(n + 1)' =
                  IF e.kind = SUMMARY_LOG_SUBMITTED THEN e.value
                                                    ELSE CreditTotalAfter(n)
  <1> DEFINE e == Decided(op[w])
  <1>1. e \in Event /\ ledger' = Append(ledger, e)
    BY InsertedEvent
  <1>2. /\ n \in Nat
        /\ Len(ledger') = n + 1
        /\ \A i \in 1..n : ledger'[i] = ledger[i]
        /\ ledger'[n + 1] = e
    BY <1>1, AppendEvent DEF Inv, TypeOK
  <1> HIDE DEF e
  <1>3. Inv'
    BY InsertInv
  <1>4. \A k \in 0..n : CreditTotalAfter(k)' = CreditTotalAfter(k)
    BY <1>2, <1>3, CreditTotalStable
  <1>5. ASSUME e.kind = SUMMARY_LOG_SUBMITTED
        PROVE  CreditTotalAfter(n + 1)' = e.value
    <2> DEFINE S == {i \in 1..(n + 1) : ledger'[i].kind = SUMMARY_LOG_SUBMITTED}
               p == CHOOSE i \in S : \A j \in S : ledger'[j].number <= ledger'[i].number
    <2>1. Submissions(n + 1)' = S
      BY <1>2 DEF Submissions
    <2>2. n + 1 \in S /\ \A j \in S : j \in 1..(n + 1)
      BY <1>2, <1>5
    <2>3. \A j \in 1..(n + 1) : ledger'[j].number = j
      BY <1>2, <1>3 DEF Inv, GapFree
    <2>4. p \in S /\ \A j \in S : ledger'[j].number <= ledger'[p].number
      <3>1. \A j \in S : ledger'[j].number <= ledger'[n + 1].number
        BY <1>2, <2>2, <2>3
      <3> HIDE DEF S
      <3> QED BY <2>2, <3>1
    <2>5. p = n + 1
      BY <1>2, <2>2, <2>3, <2>4
    <2>6. CreditTotalAfter(n + 1)' = ledger'[p].value
      BY <2>1, <2>2 DEF CreditTotalAfter, HighestNumbered
    <2> QED BY <1>2, <2>5, <2>6
  <1>6. ASSUME e.kind # SUMMARY_LOG_SUBMITTED
        PROVE  CreditTotalAfter(n + 1)' = CreditTotalAfter(n)
    <2>1. Submissions(n + 1)' = Submissions(n)'
      BY <1>2, <1>6 DEF Submissions
    <2>2. CreditTotalAfter(n + 1)' = CreditTotalAfter(n)'
      BY <2>1 DEF CreditTotalAfter
    <2> QED BY <1>2, <1>4, <2>2
  <1> QED BY <1>2, <1>4, <1>5, <1>6 DEF e

-----------------------------------------------------------------------------
(* The invariant that needs one reader.                                    *)
LEMMA InitMeasured == Init => MeasuredInv
  <1> SUFFICES ASSUME Init PROVE MeasuredInv
    OBVIOUS
  <1>1. HeadsVisible /\ TotalsFollowHeads /\ NothingRead
    BY DEF Init, HeadsVisible, TotalsFollowHeads, NothingRead, IdleOperation
  <1>2. DeltaAgainstRunningTotal
    BY DEF Init, DeltaAgainstRunningTotal
  <1> QED BY <1>1, <1>2, InitInv DEF MeasuredInv

(* A step of an operation that reads, or stops, has only its own locals to *)
(* account for.                                                            *)
LEMMA ReadStep ==
  ASSUME MeasuredInv, Inv', NEW w \in Writers, NEW o, Become(w, o),
         UNCHANGED <<ledger, applied>>,
         \A r \in Replicas : o.pc # "idle" => o.head <= applied[r],
         o.pc = "findLatest" => o.head = 0 /\ o.creditTotal = 0,
         o.pc \in {"preCheck", "insert"} =>
           \E k \in o.head..Len(ledger) : o.creditTotal = CreditTotalAfter(k)
  PROVE  MeasuredInv'
  <1>1. \A v \in Writers : op'[v] = IF v = w THEN o ELSE op[v]
    BY DEF MeasuredInv, Inv, TypeOK, Become
  <1>2. HeadsVisible'
    BY <1>1 DEF MeasuredInv, HeadsVisible
  <1>3. \A k : CreditTotalAfter(k)' = CreditTotalAfter(k)
    BY DEF CreditTotalAfter, Submissions, HighestNumbered
  <1>4. TotalsFollowHeads'
    BY <1>1, <1>3 DEF MeasuredInv, TotalsFollowHeads
  <1>5. DeltaAgainstRunningTotal'
    BY <1>3 DEF MeasuredInv, DeltaAgainstRunningTotal, MovesByDelta, BalanceBefore
  <1>6. NothingRead'
    BY <1>1 DEF MeasuredInv, NothingRead
  <1> QED BY <1>2, <1>4, <1>5, <1>6 DEF MeasuredInv

(* The locals of an operation before its step.                             *)
LEMMA Locals ==
  ASSUME MeasuredInv, NEW w \in Writers
  PROVE  /\ op[w] \in Operation
         /\ HoldsPrefix(op[w])
         /\ \A r \in Replicas : op[w].pc # "idle" => op[w].head <= applied[r]
         /\ op[w].pc \in {"preCheck", "insert"} =>
              \E k \in op[w].head..Len(ledger) :
                op[w].creditTotal = CreditTotalAfter(k)
  BY DEF MeasuredInv, Inv, TypeOK, OperationsHoldPrefix, HeadsVisible,
         TotalsFollowHeads

LEMMA StopMeasured ==
  ASSUME MeasuredInv, Inv', NEW w \in Writers, Become(w, IdleOperation),
         UNCHANGED <<ledger, applied>>
  PROVE  MeasuredInv'
  <1>1. IdleOperation.pc = "idle"
    BY DEF IdleOperation
  <1> QED BY <1>1, ReadStep

LEMMA BeginMeasured ==
  ASSUME MeasuredInv, Inv', NEW w \in Writers, Begin(w) PROVE MeasuredInv'
  <1>1. PICK c \in Command :
          Become(w, [IdleOperation EXCEPT !.pc = "findLatest", !.command = c])
    BY DEF Begin
  <1> DEFINE o == [IdleOperation EXCEPT !.pc = "findLatest", !.command = c]
  <1>2. o.pc = "findLatest" /\ o.head = 0 /\ o.creditTotal = 0
    BY DEF IdleOperation
  <1>3. \A r \in Replicas : o.head <= applied[r]
    BY <1>2 DEF MeasuredInv, Inv, TypeOK
  <1> QED BY <1>1, <1>2, <1>3, ReadStep DEF Begin

LEMMA FindNoLedgerMeasured ==
  ASSUME MeasuredInv, Inv', NEW w \in Writers, FindNoLedger(w) PROVE MeasuredInv'
  <1> DEFINE o == [op[w] EXCEPT !.pc = "preCheck"]
  <1>1. CASE IsPrnCommand(op[w].command)
    BY <1>1, StopMeasured DEF FindNoLedger
  <1>2. CASE ~IsPrnCommand(op[w].command)
    <2>1. op[w].pc = "findLatest" /\ op[w] \in Operation
      BY Locals DEF FindNoLedger
    <2>2. /\ o.pc = "preCheck"
          /\ o.head = op[w].head
          /\ o.creditTotal = op[w].creditTotal
      BY <2>1 DEF Operation
    <2>3. \A r \in Replicas : o.head <= applied[r]
      BY <2>1, <2>2, Locals
    <2>4. o.head = 0 /\ o.creditTotal = 0
      BY <2>1, <2>2 DEF MeasuredInv, NothingRead
    <2>5. CreditTotalAfter(0) = 0
      BY DEF CreditTotalAfter, Submissions
    <2>6. \E k \in o.head..Len(ledger) : o.creditTotal = CreditTotalAfter(k)
      BY <2>4, <2>5 DEF MeasuredInv, Inv, TypeOK
    <2> QED BY <1>2, <2>2, <2>3, <2>6, ReadStep DEF FindNoLedger
  <1> QED BY <1>1, <1>2

LEMMA FindLatestMeasured ==
  ASSUME MeasuredInv, Inv', NEW w \in Writers, FindLatest(w),
         NEW only, Replicas = {only}
  PROVE  MeasuredInv'
  <1> DEFINE n == applied[only]
             o == [op[w] EXCEPT !.pc = "findSubmission",
                                !.head = ledger[HighestNumbered(1..n)].number,
                                !.balance = ledger[HighestNumbered(1..n)].closing]
  <1>1. n > 0 /\ Become(w, o)
    BY DEF FindLatest
  <1>2. n \in 1..Len(ledger)
    BY <1>1 DEF MeasuredInv, Inv, TypeOK
  <1>3. HighestNumbered(1..n) = n /\ ledger[n].number = n
    BY <1>2, HighestOfPrefix DEF MeasuredInv, Inv, GapFree
  <1>4. op[w] \in Operation
    BY Locals
  <1>5. o.pc = "findSubmission" /\ o.head = n
    BY <1>3, <1>4 DEF Operation
  <1>6. \A r \in Replicas : o.head <= applied[r]
    BY <1>2, <1>5 DEF MeasuredInv, Inv, TypeOK
  <1> HIDE DEF o
  <1> QED BY <1>1, <1>5, <1>6, ReadStep DEF FindLatest

LEMMA FindSubmissionAndDecideMeasured ==
  ASSUME MeasuredInv, Inv', NEW w \in Writers, FindSubmissionAndDecide(w),
         NEW only, Replicas = {only}
  PROVE  MeasuredInv'
  <1> DEFINE n == applied[only]
             o == [op[w] EXCEPT !.pc = "preCheck",
                                !.creditTotal = CreditTotalAfter(n)]
  <1>1. Become(w, o) \/ Become(w, IdleOperation)
    BY DEF FindSubmissionAndDecide
  <1>2. op[w] \in Operation /\ op[w].pc = "findSubmission"
    BY Locals DEF FindSubmissionAndDecide
  <1>3. /\ o.pc = "preCheck"
        /\ o.head = op[w].head
        /\ o.creditTotal = CreditTotalAfter(n)
    BY <1>2 DEF Operation
  <1>4. \A r \in Replicas : o.head <= applied[r]
    BY <1>2, <1>3, Locals
  <1>5. n \in o.head..Len(ledger)
    BY <1>2, <1>3, <1>4 DEF MeasuredInv, Inv, TypeOK, Operation
  <1> HIDE DEF o
  <1> QED BY <1>1, <1>3, <1>4, <1>5, ReadStep, StopMeasured
      DEF FindSubmissionAndDecide

LEMMA PreCheckMeasured ==
  ASSUME MeasuredInv, Inv', NEW w \in Writers, PreCheck(w) PROVE MeasuredInv'
  <1> DEFINE o == [op[w] EXCEPT !.pc = "insert"]
  <1>1. Become(w, o) \/ Become(w, IdleOperation)
    BY DEF PreCheck
  <1>2. op[w] \in Operation /\ op[w].pc = "preCheck"
    BY Locals DEF PreCheck
  <1>3. /\ o.pc = "insert"
        /\ o.head = op[w].head
        /\ o.creditTotal = op[w].creditTotal
    BY <1>2 DEF Operation
  <1> HIDE DEF o
  <1>4. /\ \A r \in Replicas : o.head <= applied[r]
        /\ \E k \in o.head..Len(ledger) : o.creditTotal = CreditTotalAfter(k)
    BY <1>2, <1>3, Locals
  <1> QED BY <1>1, <1>3, <1>4, ReadStep, StopMeasured DEF PreCheck

(* Of an inserted submission the credit total read is the ledger's own.    *)
LEMMA InsertMeasuresDelta ==
  ASSUME MeasuredInv, NEW w \in Writers, Insert(w)
  PROVE  op[w].creditTotal = CreditTotalAfter(Len(ledger))
  <1>1. op[w].head = Len(ledger)
    BY FreeSlotIsNext DEF MeasuredInv, Insert
  <1>2. PICK k \in op[w].head..Len(ledger) :
               op[w].creditTotal = CreditTotalAfter(k)
    BY Locals DEF Insert
  <1>3. Len(ledger) \in Nat
    BY DEF MeasuredInv, Inv, TypeOK
  <1>4. k = Len(ledger)
    BY <1>1, <1>2, <1>3
  <1> QED BY <1>2, <1>4

LEMMA InsertMeasured ==
  ASSUME MeasuredInv, Inv', NEW w \in Writers, Insert(w) PROVE MeasuredInv'
  <1>1. PICK n : n = Len(ledger)
    OBVIOUS
  <1> DEFINE e == Decided(op[w])
  <1>2. /\ n \in Nat
        /\ Len(ledger') = n + 1
        /\ ledger'[n + 1] = e
        /\ \A i \in 1..n : ledger'[i] = ledger[i]
        /\ \A k \in 0..n : CreditTotalAfter(k)' = CreditTotalAfter(k)
    BY <1>1, InsertTotals DEF MeasuredInv
  <1>3. /\ e.kind = op[w].command.kind
        /\ e.value = op[w].command.value
        /\ e.closing = ClosingBalance(op[w])
        /\ e.kind \in PrnKinds => n > 0
        /\ op[w].command \in Command
        /\ op[w].balance = BalanceAt(n)
        /\ op[w].creditTotal = CreditTotalAfter(n)
    <2>1. op[w].head = n
      BY <1>1, FreeSlotIsNext DEF MeasuredInv, Insert
    <2> QED BY <1>1, <2>1, InsertedEvent, InsertMeasuresDelta, Locals
            DEF MeasuredInv, HoldsPrefix, Insert
  <1> HIDE DEF e
  <1>4. \A v \in Writers : op'[v] = IF v = w THEN IdleOperation ELSE op[v]
    BY DEF MeasuredInv, Inv, TypeOK, Insert, Become
  <1>5. applied' = applied
    BY DEF Insert
  <1>6. HeadsVisible'
    BY <1>4, <1>5 DEF MeasuredInv, HeadsVisible, IdleOperation
  <1>7. NothingRead'
    BY <1>4 DEF MeasuredInv, NothingRead, IdleOperation
  <1>8. TotalsFollowHeads'
    <2> SUFFICES ASSUME NEW v \in Writers, op'[v].pc \in {"preCheck", "insert"}
                 PROVE  \E k \in op'[v].head..(n + 1) :
                          op'[v].creditTotal = CreditTotalAfter(k)'
      BY <1>2 DEF TotalsFollowHeads
    <2>1. op'[v] = op[v]
      BY <1>4 DEF IdleOperation
    <2>2. PICK k \in op[v].head..n : op[v].creditTotal = CreditTotalAfter(k)
      BY <1>1, <2>1, Locals
    <2>3. op[v].head \in Nat
      BY Locals DEF Operation
    <2>4. k \in 0..n /\ k \in op[v].head..(n + 1)
      BY <1>2, <2>2, <2>3
    <2> QED BY <1>2, <2>1, <2>2, <2>4
  <1>9. DeltaAgainstRunningTotal'
    <2> SUFFICES ASSUME NEW i \in 1..(n + 1) PROVE MovesByDelta(i)'
      BY <1>2 DEF DeltaAgainstRunningTotal
    <2>1. CASE i \in 1..n
      <3>1. i # 1 => i - 1 \in 1..n
        BY <1>2, <2>1
      <3>2. BalanceBefore(i)' = BalanceBefore(i) /\ ledger'[i] = ledger[i]
        BY <1>2, <2>1, <3>1 DEF BalanceBefore
      <3>3. CreditTotalAfter(i - 1)' = CreditTotalAfter(i - 1)
        BY <1>2, <2>1
      <3>4. MovesByDelta(i)
        BY <1>1, <2>1 DEF MeasuredInv, DeltaAgainstRunningTotal
      <3> QED BY <3>2, <3>3, <3>4 DEF MovesByDelta
    <2>2. CASE i = n + 1
      <3>1. BalanceBefore(i)' = BalanceAt(n)
        BY <1>1, <1>2, <2>2 DEF BalanceBefore, BalanceAt
      <3>2. CreditTotalAfter(i - 1)' = CreditTotalAfter(n)
        <4>1. i - 1 = n
          BY <1>2, <2>2
        <4> QED BY <1>2, <4>1
      <3>3. ledger'[i] = e
        BY <1>2, <2>2
      <3>4. CASE IsPrnCommand(op[w].command)
        <4>1. e.kind \in PrnKinds /\ e.kind # SUMMARY_LOG_SUBMITTED
          BY <1>3, <3>4, KindsDiffer DEF IsPrnCommand
        <4>2. e.closing = ClosingForPrn(BalanceAt(n), e.kind, e.value)
          BY <1>3, <3>4 DEF ClosingBalance
        <4>3. i > 1
          BY <1>2, <1>3, <2>2, <4>1
        <4> QED BY <3>1, <3>3, <4>1, <4>2, <4>3 DEF MovesByDelta
      <3>5. CASE ~IsPrnCommand(op[w].command)
        <4>1. e.kind = SUMMARY_LOG_SUBMITTED
          BY <1>3, <3>5, CommandType
        <4>2. e.closing = ClosingForSummaryLogSubmitted(
                            BalanceAt(n), e.value, CreditTotalAfter(n))
          BY <1>3, <3>5 DEF ClosingBalance
        <4> QED BY <3>1, <3>2, <3>3, <4>1, <4>2 DEF MovesByDelta
      <3> QED BY <3>4, <3>5
    <2> QED BY <1>2, <2>1, <2>2
  <1> QED BY <1>6, <1>7, <1>8, <1>9 DEF MeasuredInv

LEMMA ReplicateMeasured ==
  ASSUME MeasuredInv, Inv', NEW r \in Replicas, Replicate(r) PROVE MeasuredInv'
  <1>1. \A q \in Replicas : applied[q] <= applied'[q]
    BY DEF MeasuredInv, Inv, TypeOK, Replicate
  <1>2. \A q \in Replicas : applied[q] \in Nat /\ applied'[q] \in Nat
    BY DEF MeasuredInv, Inv, TypeOK
  <1>3. HeadsVisible'
    <2> SUFFICES ASSUME NEW w \in Writers, NEW q \in Replicas, op[w].pc # "idle"
                 PROVE  op[w].head <= applied'[q]
      BY DEF HeadsVisible, Replicate
    <2>1. op[w].head \in Nat /\ op[w].head <= applied[q]
      BY Locals DEF Operation
    <2> QED BY <1>1, <1>2, <2>1
  <1>4. \A k : CreditTotalAfter(k)' = CreditTotalAfter(k)
    BY DEF CreditTotalAfter, Submissions, HighestNumbered, Replicate
  <1>5. NothingRead' /\ TotalsFollowHeads'
    BY <1>4 DEF MeasuredInv, NothingRead, TotalsFollowHeads, Replicate
  <1>6. DeltaAgainstRunningTotal'
    BY <1>4 DEF MeasuredInv, DeltaAgainstRunningTotal, MovesByDelta,
                BalanceBefore, Replicate
  <1> QED BY <1>3, <1>5, <1>6 DEF MeasuredInv

LEMMA NextMeasured ==
  ASSUME NEW only, Replicas = {only}
  PROVE  MeasuredInv /\ [Next]_vars => MeasuredInv'
  <1> SUFFICES ASSUME MeasuredInv, [Next]_vars PROVE MeasuredInv'
    OBVIOUS
  <1>1. Inv'
    BY NextInv DEF MeasuredInv
  <1>2. ASSUME NEW w \in Writers, InsertConflict(w) \/ Abort(w) PROVE MeasuredInv'
    BY <1>1, <1>2, StopMeasured DEF InsertConflict, Abort
  <1>3. CASE UNCHANGED vars
    <2>1. ledger' = ledger /\ applied' = applied /\ op' = op
      BY <1>3 DEF vars
    <2>2. \A k : CreditTotalAfter(k)' = CreditTotalAfter(k)
      BY <2>1 DEF CreditTotalAfter, Submissions, HighestNumbered
    <2>3. HeadsVisible' /\ NothingRead' /\ TotalsFollowHeads'
      BY <2>1, <2>2 DEF MeasuredInv, HeadsVisible, NothingRead, TotalsFollowHeads
    <2>4. DeltaAgainstRunningTotal'
      BY <2>1, <2>2 DEF MeasuredInv, DeltaAgainstRunningTotal, MovesByDelta,
                         BalanceBefore
    <2> QED BY <1>1, <2>3, <2>4 DEF MeasuredInv
  <1> QED
    BY <1>1, <1>2, <1>3, BeginMeasured, FindNoLedgerMeasured, FindLatestMeasured,
       FindSubmissionAndDecideMeasured, PreCheckMeasured, InsertMeasured,
       ReplicateMeasured DEF Next

THEOREM MeasuredInvariance ==
  ASSUME NEW only, Replicas = {only}
  PROVE  Spec => []MeasuredInv
  BY InitMeasured, NextMeasured, PTL DEF Spec

(* commands.js: with one member answering reads, every submission moves    *)
(* the balance by its credit total less the ledger's running total, and    *)
(* PRN commands act on an open ledger.                                     *)
THEOREM DeltasAreMeasured ==
  ASSUME NEW only, Replicas = {only}
  PROVE  Spec => []DeltaAgainstRunningTotal
  BY MeasuredInvariance, PTL DEF MeasuredInv

-----------------------------------------------------------------------------
(* The ledger implements the account.                                      *)

(* What the account holds is what the ledger's last event left.            *)
LEMMA HeldIsBalance ==
  ASSUME Inv
  PROVE  /\ Held = BalanceAt(Len(ledger))
         /\ Held \in BalanceSnapshot
         /\ RunningTotal \in Int
         /\ Account!Balance = Held
  <1>1. Len(ledger) \in Nat /\ (ledger = <<>> <=> Len(ledger) = 0)
    BY DEF Inv, TypeOK
  <1>2. Held = BalanceAt(Len(ledger))
    BY <1>1 DEF Held, BalanceAt
  <1>3. Held \in BalanceSnapshot
    <2>1. CASE ledger = <<>>
      BY <2>1 DEF Held, ZERO_BALANCE, BalanceSnapshot
    <2>2. CASE ledger # <<>>
      <3>1. ledger[Len(ledger)] \in Event
        BY <1>1, <2>2 DEF Inv, TypeOK
      <3> QED BY <2>2, <3>1 DEF Held, Event
    <2> QED BY <2>1, <2>2
  <1>4. RunningTotal \in Int
    BY <1>1, CreditTotalType DEF RunningTotal
  <1>5. Account!Balance = Held
    BY <1>3, <1>4 DEF Account!Balance, BalanceSnapshot
  <1> QED BY <1>2, <1>3, <1>4, <1>5

LEMMA AccountInit == Init => Account!Init
  <1> SUFFICES ASSUME Init PROVE Account!Init
    OBVIOUS
  <1>1. RunningTotal = 0
    BY DEF Init, RunningTotal, CreditTotalAfter, Submissions
  <1>2. Held = ZERO_BALANCE
    BY DEF Init, Held
  <1> QED BY <1>1, <1>2 DEF Init, Account!Init, ZERO_BALANCE

(* What each kind of PRN event does to the two balances.                   *)
LEMMA PrnClosings ==
  ASSUME NEW b \in BalanceSnapshot, NEW a \in Int
  PROVE  /\ ClosingForPrn(b, PRN_CREATED, a).amount = b.amount
         /\ ClosingForPrn(b, PRN_CREATED, a).availableAmount = b.availableAmount - a
         /\ ClosingForPrn(b, PRN_ISSUED, a).amount = b.amount - a
         /\ ClosingForPrn(b, PRN_ISSUED, a).availableAmount = b.availableAmount
         /\ ClosingForPrn(b, PRN_CREATION_CANCELLED, a).amount = b.amount
         /\ ClosingForPrn(b, PRN_CREATION_CANCELLED, a).availableAmount
              = b.availableAmount + a
         /\ ClosingForPrn(b, PRN_CANCELLED_AFTER_ISSUE, a).amount = b.amount + a
         /\ ClosingForPrn(b, PRN_CANCELLED_AFTER_ISSUE, a).availableAmount
              = b.availableAmount + a
         /\ ClosingForPrn(b, PRN_ACCEPTED, a) = b
         /\ ClosingForPrn(b, PRN_REJECTED, a) = b
  <1> USE DEF ClosingForPrn, BalanceSnapshot, PRN_CREATED, PRN_ISSUED,
      PRN_CREATION_CANCELLED, PRN_CANCELLED_AFTER_ISSUE, PRN_ACCEPTED, PRN_REJECTED
  <1>1. ClosingForPrn(b, PRN_CREATED, a) = [b EXCEPT !.availableAmount = @ - a]
    OBVIOUS
  <1>2. ClosingForPrn(b, PRN_ISSUED, a) = [b EXCEPT !.amount = @ - a]
    OBVIOUS
  <1>3. ClosingForPrn(b, PRN_CREATION_CANCELLED, a)
          = [b EXCEPT !.availableAmount = @ + a]
    OBVIOUS
  <1>4. ClosingForPrn(b, PRN_CANCELLED_AFTER_ISSUE, a)
          = [amount |-> b.amount + a, availableAmount |-> b.availableAmount + a]
    OBVIOUS
  <1>5. ClosingForPrn(b, PRN_ACCEPTED, a) = b /\ ClosingForPrn(b, PRN_REJECTED, a) = b
    OBVIOUS
  <1> QED BY <1>1, <1>2, <1>3, <1>4, <1>5

(* The account's sufficiency check is the decider's.                       *)
LEMMA AccountSufficient ==
  ASSUME NEW b, NEW a
  PROVE  /\ Account!Sufficient(b, Account!PRN_CREATED, a)
              <=> Sufficient(b, PRN_CREATED, a)
         /\ Account!Sufficient(b, Account!PRN_ISSUED, a)
              <=> Sufficient(b, PRN_ISSUED, a)
  BY DEF Account!Sufficient, Sufficient, Account!PRN_CREATED, PRN_CREATED,
         Account!PRN_ISSUED, PRN_ISSUED

(* An insertion is one step of the account: the command's own, or none for *)
(* an acceptance or a rejection.                                           *)
LEMMA InsertIsAccountStep ==
  ASSUME MeasuredInv, NEW w \in Writers, Insert(w)
  PROVE  [Account!Next]_(Account!accountVars)
  <1>1. PICK n : n = Len(ledger)
    OBVIOUS
  <1> DEFINE e == Decided(op[w])
             a == e.value
  <1>2. /\ n \in Nat
        /\ Len(ledger') = n + 1
        /\ ledger'[n + 1] = e
        /\ CreditTotalAfter(n + 1)' =
             IF e.kind = SUMMARY_LOG_SUBMITTED THEN e.value ELSE RunningTotal
    BY <1>1, InsertTotals DEF MeasuredInv, RunningTotal
  <1>3. /\ e.kind = op[w].command.kind
        /\ e.value = op[w].command.value
        /\ e.closing = ClosingBalance(op[w])
        /\ e.kind \in PrnKinds => n > 0
        /\ op[w].command \in Command
        /\ op[w].balance = Held
        /\ op[w].creditTotal = RunningTotal
        /\ Sufficient(Held, e.kind, e.value)
    <2>1. op[w].head = n
      BY <1>1, FreeSlotIsNext DEF MeasuredInv, Insert
    <2> QED BY <1>1, <2>1, InsertedEvent, InsertMeasuresDelta, Locals, HeldIsBalance
            DEF MeasuredInv, HoldsPrefix, Insert, RunningTotal
  <1> HIDE DEF e
  <1>4. ledger \in Seq(Event) /\ ledger' \in Seq(Event)
    BY InsertInv DEF MeasuredInv, Inv, TypeOK
  <1>5. /\ ledger' # <<>>
        /\ Held' = e.closing
        /\ RunningTotal' = CreditTotalAfter(n + 1)'
    BY <1>2, <1>4 DEF Held, RunningTotal
  <1>6. /\ Held \in BalanceSnapshot
        /\ Held.amount \in Int
        /\ Held.availableAmount \in Int
        /\ RunningTotal \in Int
        /\ Account!Balance = Held
    BY HeldIsBalance DEF MeasuredInv, BalanceSnapshot
  <1>7. CASE e.kind = SUMMARY_LOG_SUBMITTED
    <2>1. a \in CreditTotals /\ a \in Int /\ ~IsPrnCommand(op[w].command)
      BY <1>3, <1>7, CommandType, KindsDiffer DEF IsPrnCommand
    <2>2. /\ Held'.amount = Held.amount + (a - RunningTotal)
          /\ Held'.availableAmount = Held.availableAmount + (a - RunningTotal)
      BY <1>3, <1>5, <2>1 DEF ClosingBalance, ClosingForSummaryLogSubmitted
    <2>3. /\ RunningTotal' = a
          /\ RunningTotal' - Held'.amount = RunningTotal - Held.amount
          /\ RunningTotal' - Held'.availableAmount = RunningTotal - Held.availableAmount
      BY <1>2, <1>5, <1>6, <1>7, <2>1, <2>2
    <2>4. Account!Submit(a)
      BY <1>5, <2>3 DEF Account!Submit
    <2> QED BY <2>1, <2>4 DEF Account!Next
  <1>8. ASSUME e.kind \in PrnKinds
        PROVE  /\ a \in PrnAmounts
               /\ a \in Int
               /\ ledger # <<>>
               /\ Held' = ClosingForPrn(Held, e.kind, a)
               /\ RunningTotal' = RunningTotal
    <2>1. IsPrnCommand(op[w].command)
      BY <1>3, <1>8 DEF IsPrnCommand
    <2>2. a \in PrnAmounts /\ a \in Int
      BY <1>3, <2>1, CommandType
    <2>3. ledger # <<>>
      BY <1>1, <1>3, <1>4, <1>8
    <2>4. Held' = ClosingForPrn(Held, e.kind, a)
      BY <1>3, <1>5, <2>1 DEF ClosingBalance
    <2>5. RunningTotal' = RunningTotal
      BY <1>2, <1>5, <1>8, KindsDiffer
    <2> QED BY <2>2, <2>3, <2>4, <2>5
  <1>9. CASE e.kind = PRN_CREATED
    <2>1. e.kind \in PrnKinds
      BY <1>9 DEF PrnKinds
    <2>2. /\ Held'.amount = Held.amount
          /\ Held'.availableAmount = Held.availableAmount - a
      <3>1. Held' = ClosingForPrn(Held, PRN_CREATED, a)
        BY <1>8, <1>9, <2>1
      <3>2. a \in Int
        BY <1>8, <2>1
      <3> QED BY <1>6, <3>1, <3>2, PrnClosings
    <2>3. /\ RunningTotal' - Held'.amount = RunningTotal - Held.amount
          /\ RunningTotal' - Held'.availableAmount
               = RunningTotal - Held.availableAmount + a
      BY <1>6, <1>8, <2>1, <2>2
    <2>4. Account!Sufficient(Account!Balance, Account!PRN_CREATED, a)
      BY <1>3, <1>6, <1>9, AccountSufficient
    <2>5. Account!Create(a)
      BY <1>5, <1>8, <2>1, <2>3, <2>4 DEF Account!Create
    <2> QED BY <1>8, <2>1, <2>5 DEF Account!Next
  <1>10. CASE e.kind = PRN_ISSUED
    <2>1. e.kind \in PrnKinds
      BY <1>10 DEF PrnKinds
    <2>2. /\ Held'.amount = Held.amount - a
          /\ Held'.availableAmount = Held.availableAmount
      <3>1. Held' = ClosingForPrn(Held, PRN_ISSUED, a)
        BY <1>8, <1>10, <2>1
      <3>2. a \in Int
        BY <1>8, <2>1
      <3> QED BY <1>6, <3>1, <3>2, PrnClosings
    <2>3. /\ RunningTotal' - Held'.amount = RunningTotal - Held.amount + a
          /\ RunningTotal' - Held'.availableAmount
               = RunningTotal - Held.availableAmount
      BY <1>6, <1>8, <2>1, <2>2
    <2>4. Account!Sufficient(Account!Balance, Account!PRN_ISSUED, a)
      BY <1>3, <1>6, <1>10, AccountSufficient
    <2>5. Account!Issue(a)
      BY <1>5, <1>8, <2>1, <2>3, <2>4 DEF Account!Issue
    <2> QED BY <1>8, <2>1, <2>5 DEF Account!Next
  <1>11. CASE e.kind = PRN_CREATION_CANCELLED
    <2>1. e.kind \in PrnKinds
      BY <1>11 DEF PrnKinds
    <2>2. /\ Held'.amount = Held.amount
          /\ Held'.availableAmount = Held.availableAmount + a
      <3>1. Held' = ClosingForPrn(Held, PRN_CREATION_CANCELLED, a)
        BY <1>8, <1>11, <2>1
      <3>2. a \in Int
        BY <1>8, <2>1
      <3> QED BY <1>6, <3>1, <3>2, PrnClosings
    <2>3. /\ RunningTotal' - Held'.amount = RunningTotal - Held.amount
          /\ RunningTotal' - Held'.availableAmount
               = RunningTotal - Held.availableAmount - a
      BY <1>6, <1>8, <2>1, <2>2
    <2>4. Account!CancelCreation(a)
      BY <1>5, <1>8, <2>1, <2>3 DEF Account!CancelCreation
    <2> QED BY <1>8, <2>1, <2>4 DEF Account!Next
  <1>12. CASE e.kind = PRN_CANCELLED_AFTER_ISSUE
    <2>1. e.kind \in PrnKinds
      BY <1>12 DEF PrnKinds
    <2>2. /\ Held'.amount = Held.amount + a
          /\ Held'.availableAmount = Held.availableAmount + a
      <3>1. Held' = ClosingForPrn(Held, PRN_CANCELLED_AFTER_ISSUE, a)
        BY <1>8, <1>12, <2>1
      <3>2. a \in Int
        BY <1>8, <2>1
      <3> QED BY <1>6, <3>1, <3>2, PrnClosings
    <2>3. /\ RunningTotal' - Held'.amount = RunningTotal - Held.amount - a
          /\ RunningTotal' - Held'.availableAmount
               = RunningTotal - Held.availableAmount - a
      BY <1>6, <1>8, <2>1, <2>2
    <2>4. Account!CancelIssued(a)
      BY <1>5, <1>8, <2>1, <2>3 DEF Account!CancelIssued
    <2> QED BY <1>8, <2>1, <2>4 DEF Account!Next
  <1>13. CASE e.kind \in {PRN_ACCEPTED, PRN_REJECTED}
    <2>1. e.kind \in PrnKinds
      BY <1>13 DEF PrnKinds
    <2>2. Held' = Held
      BY <1>6, <1>8, <1>13, <2>1, PrnClosings
    <2>3. UNCHANGED Account!accountVars
      BY <1>5, <1>8, <2>1, <2>2 DEF Account!accountVars
    <2> QED BY <2>3
  <1> QED
    <2>1. e.kind \in EventKinds
      BY <1>3, CommandType
    <2> QED BY <1>7, <1>9, <1>10, <1>11, <1>12, <1>13, <2>1
            DEF EventKinds, PrnKinds

(* Every other step leaves the account alone.                              *)
LEMMA StepIsAccountStep ==
  MeasuredInv /\ [Next]_vars => [Account!Next]_(Account!accountVars)
  <1> SUFFICES ASSUME MeasuredInv, [Next]_vars
               PROVE  [Account!Next]_(Account!accountVars)
    OBVIOUS
  <1>1. CASE \E w \in Writers : Insert(w)
    BY <1>1, InsertIsAccountStep
  <1>2. CASE ~\E w \in Writers : Insert(w)
    <2>1. ledger' = ledger
      BY <1>2 DEF Next, vars, Begin, FindNoLedger, FindLatest,
         FindSubmissionAndDecide, PreCheck, InsertConflict, Abort, Replicate
    <2>2. UNCHANGED <<RunningTotal, Held>>
      BY <2>1 DEF RunningTotal, Held, CreditTotalAfter, Submissions, HighestNumbered
    <2>3. UNCHANGED Account!accountVars
      BY <2>1, <2>2 DEF Account!accountVars
    <2> QED BY <2>3
  <1> QED BY <1>1, <1>2

(* The ledger, its stale reads and its racing operations behave as one     *)
(* account that decides and acts in one step (ADR-0036's promise, made by  *)
(* waste-balance-service.js), as long as one member answers the reads.     *)
THEOREM LedgerImplementsAccount ==
  ASSUME NEW only, Replicas = {only}
  PROVE  Spec => ImplementsAccount
  <1>1. Init => Account!Init
    BY AccountInit
  <1>2. MeasuredInv /\ [Next]_vars => [Account!Next]_(Account!accountVars)
    BY StepIsAccountStep
  <1>3. Spec => []MeasuredInv
    BY MeasuredInvariance
  <1> QED BY <1>1, <1>2, <1>3, PTL DEF Spec, ImplementsAccount, Account!Spec
=============================================================================
