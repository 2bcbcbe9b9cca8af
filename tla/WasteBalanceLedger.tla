------------------------- MODULE WasteBalanceLedger -------------------------
(***************************************************************************)
(* The event-sourced ledger of one waste balance and the operations that   *)
(* race on it (waste-balances/application, waste-balances/repository).     *)
(*                                                                         *)
(* A command folds the ledger with two separate reads, decides, and        *)
(* inserts its event in the slot after the head it read; a unique index on *)
(* the slot is the only guard, and a loser fails with no retry.  Reads go  *)
(* to secondaries, which trail the primary and each other; inserts go to   *)
(* the primary.                                                            *)
(***************************************************************************)
EXTENDS LedgerBalance, Sequences

CONSTANTS
  Writers,       \* operations in flight: requests and worker jobs
  Replicas,      \* members of the replica set that reads are routed to
  CreditTotals,  \* credit totals a summary log may claim
  PrnAmounts,    \* tonnages a PRN may carry
  MaxEvents      \* bound: no insert is explored beyond this many events

ASSUME WritersAssumption == Writers # {}
ASSUME ReplicasAssumption == Replicas # {}
ASSUME TonnageAssumption ==
  /\ CreditTotals \subseteq Int
  /\ PrnAmounts \subseteq Nat \ {0}
ASSUME BoundAssumption == MaxEvents \in Nat

VARIABLES
  ledger,   \* documents of the events collection, in commit order
  applied,  \* applied[r]: how many of them replica r has
  op        \* op[w]: the locals of operation w

vars == <<ledger, applied, op>>

-----------------------------------------------------------------------------
(* Commands, events and the locals of an operation.                        *)

Command == [kind : {SUMMARY_LOG_SUBMITTED}, value : CreditTotals]
           \cup [kind : PrnKinds, value : PrnAmounts]

NoCommand == [kind |-> "none", value |-> 0]

Event == [number : Nat \ {0}, kind : EventKinds, value : Int,
          opening : BalanceSnapshot, closing : BalanceSnapshot]

(* The program counter names the call an operation makes next.             *)
Phases == {"idle", "findLatest", "findSubmission", "preCheck", "insert"}

Operation == [pc : Phases, command : Command \cup {NoCommand}, head : Nat,
              balance : BalanceSnapshot, creditTotal : Int]

IdleOperation ==
  [pc |-> "idle", command |-> NoCommand, head |-> 0,
   balance |-> ZERO_BALANCE, creditTotal |-> 0]

TypeOK ==
  /\ ledger \in Seq(Event)
  /\ applied \in [Replicas -> Nat]
  /\ \A r \in Replicas : applied[r] <= Len(ledger)
  /\ op \in [Writers -> Operation]

-----------------------------------------------------------------------------
(* Queries over the first n documents, what a replica that has applied n   *)
(* of them answers.                                                        *)

(* The document of S with the highest event number: sort by number, first. *)
HighestNumbered(S) ==
  CHOOSE i \in S : \A j \in S : ledger[j].number <= ledger[i].number

Submissions(n) == {i \in 1..n : ledger[i].kind = SUMMARY_LOG_SUBMITTED}

LatestNumber(n) == IF n = 0 THEN 0 ELSE ledger[HighestNumbered(1..n)].number

(* The running credit total: the latest submission's, or 0 without one.    *)
CreditTotalAfter(n) ==
  IF Submissions(n) = {} THEN 0
                         ELSE ledger[HighestNumbered(Submissions(n))].value

(* Variant for mutation runs: a collection without the unique index.       *)
SlotNeverTaken(number) == FALSE

(* Unique index on the event number of a ledger.                           *)
SlotTaken(number) == \E i \in 1..Len(ledger) : ledger[i].number = number

-----------------------------------------------------------------------------
(* What an operation decides from its fold.                                *)

IsPrnCommand(command) == command.kind \in PrnKinds

(* Variant: the decision is taken, and then stamped with a closing balance *)
(* that lost the fold.                                                     *)
ClosingFromZero(o) ==
  IF IsPrnCommand(o.command)
  THEN ClosingForPrn(ZERO_BALANCE, o.command.kind, o.command.value)
  ELSE ClosingForSummaryLogSubmitted(ZERO_BALANCE, o.command.value, 0)

ClosingBalance(o) ==
  IF IsPrnCommand(o.command)
  THEN ClosingForPrn(o.balance, o.command.kind, o.command.value)
  ELSE ClosingForSummaryLogSubmitted(o.balance, o.command.value, o.creditTotal)

(* Variant: the slot is taken from the ledger at insertion time, the       *)
(* decision being the older one.                                           *)
SlotAtInsertion(o) == Len(ledger) + 1

(* append: the slot after the head the decision was made at.               *)
Slot(o) == o.head + 1

Decided(o) ==
  [number |-> Slot(o), kind |-> o.command.kind, value |-> o.command.value,
   opening |-> o.balance, closing |-> ClosingBalance(o)]

(* Variant: the creation check compares with the total balance.            *)
CommitsOnTotalBalance(o) ==
  IsPrnCommand(o.command) => o.balance.amount >= o.command.value

(* A PRN decision commits when the balance it was given is sufficient; a   *)
(* submission always does.                                                 *)
Commits(o) ==
  IsPrnCommand(o.command) =>
    Sufficient(o.balance, o.command.kind, o.command.value)

-----------------------------------------------------------------------------
(* The steps of an operation, one per database call.                       *)

Become(w, o) == op' = [op EXCEPT ![w] = o]

Init ==
  /\ ledger = <<>>
  /\ applied = [r \in Replicas |-> 0]
  /\ op = [w \in Writers |-> IdleOperation]

(* A request or a worker job reaches the waste balance service.            *)
Begin(w) ==
  /\ op[w].pc = "idle"
  /\ \E c \in Command :
       Become(w, [IdleOperation EXCEPT !.pc = "findLatest", !.command = c])
  /\ UNCHANGED <<ledger, applied>>

(* Variant: the submission branch without "?? EMPTY_STATE".                *)
FindNoLedgerWithoutEmptyState(w) ==
  /\ op[w].pc = "findLatest"
  /\ \E r \in Replicas : applied[r] = 0
  /\ Become(w, IF IsPrnCommand(op[w].command)
               THEN IdleOperation
               ELSE [op[w] EXCEPT !.pc = "preCheck", !.balance = NoCommand])
  /\ UNCHANGED <<ledger, applied>>

(* findLatestInLedger answers null: a PRN command is rejected (NO_LEDGER), *)
(* a submission opens the ledger from EMPTY_STATE.                         *)
FindNoLedger(w) ==
  /\ op[w].pc = "findLatest"
  /\ \E r \in Replicas : applied[r] = 0
  /\ Become(w, IF IsPrnCommand(op[w].command)
               THEN IdleOperation
               ELSE [op[w] EXCEPT !.pc = "preCheck"])
  /\ UNCHANGED <<ledger, applied>>

(* findLatestInLedger answers an event: its closing balance is the balance,*)
(* its number the head.                                                    *)
FindLatest(w) ==
  /\ op[w].pc = "findLatest"
  /\ \E r \in Replicas :
       /\ applied[r] > 0
       /\ LET latest == ledger[HighestNumbered(1..applied[r])]
          IN  Become(w, [op[w] EXCEPT !.pc = "findSubmission",
                                      !.head = latest.number,
                                      !.balance = latest.closing])
  /\ UNCHANGED <<ledger, applied>>

(* findLatestInLedgerByKind supplies the running credit total, and the     *)
(* command is decided: a rejected one ends here.                           *)
FindSubmissionAndDecide(w) ==
  /\ op[w].pc = "findSubmission"
  /\ \E r \in Replicas :
       LET creditTotal == CreditTotalAfter(applied[r])
       IN  Become(w, IF Commits(op[w])
                     THEN [op[w] EXCEPT !.pc = "preCheck",
                                        !.creditTotal = creditTotal]
                     ELSE IdleOperation)
  /\ UNCHANGED <<ledger, applied>>

(* appendEvents reads the latest number again: a slot at or before it is a *)
(* LedgerSlotConflictError, one beyond its successor a LedgerSequenceError.*)
PreCheck(w) ==
  /\ op[w].pc = "preCheck"
  /\ \E r \in Replicas :
       Become(w, IF Slot(op[w]) = LatestNumber(applied[r]) + 1
                 THEN [op[w] EXCEPT !.pc = "insert"]
                 ELSE IdleOperation)
  /\ UNCHANGED <<ledger, applied>>

(* The insert on the primary: the event is committed, or its slot is taken *)
(* and the caller gets a LedgerSlotConflictError.                          *)
Insert(w) ==
  /\ op[w].pc = "insert"
  /\ ~SlotTaken(Slot(op[w]))
  /\ Len(ledger) < MaxEvents
  /\ ledger' = Append(ledger, Decided(op[w]))
  /\ Become(w, IdleOperation)
  /\ UNCHANGED applied

InsertConflict(w) ==
  /\ op[w].pc = "insert"
  /\ SlotTaken(Slot(op[w]))
  /\ Become(w, IdleOperation)
  /\ UNCHANGED <<ledger, applied>>

(* The process dies or a database call fails.                              *)
Abort(w) ==
  /\ op[w].pc # "idle"
  /\ Become(w, IdleOperation)
  /\ UNCHANGED <<ledger, applied>>

(* A secondary applies the next entry of the oplog.                        *)
Replicate(r) ==
  /\ applied[r] < Len(ledger)
  /\ applied' = [applied EXCEPT ![r] = @ + 1]
  /\ UNCHANGED <<ledger, op>>

Next ==
  \/ \E w \in Writers :
       \/ Begin(w)
       \/ FindNoLedger(w)
       \/ FindLatest(w)
       \/ FindSubmissionAndDecide(w)
       \/ PreCheck(w)
       \/ Insert(w)
       \/ InsertConflict(w)
       \/ Abort(w)
  \/ \E r \in Replicas : Replicate(r)

Spec == Init /\ [][Next]_vars

-----------------------------------------------------------------------------
(* Properties.                                                             *)

(* ledger-port.js: "The slot index still guarantees gap-free contiguity":  *)
(* whatever the interleaving of folds, stale pre-checks and inserts, the   *)
(* event committed i-th carries number i.                                  *)
GapFree == \A i \in 1..Len(ledger) : ledger[i].number = i

(* The balance before event i: the closing balance of the event before it. *)
BalanceBefore(i) == IF i = 1 THEN ZERO_BALANCE ELSE ledger[i - 1].closing

(* Decision atomicity (ADR-0036, waste-balance-service.js): although the   *)
(* fold, the decision and the insert are separate calls, every committed   *)
(* event was decided at the balance its predecessor left: it opens from    *)
(* it, and a creation or an issue was covered by it.                       *)
DecidedAtHead ==
  \A i \in 1..Len(ledger) :
    /\ ledger[i].opening = BalanceBefore(i)
    /\ Sufficient(BalanceBefore(i), ledger[i].kind, ledger[i].value)

(* commands.js: "PRN commands always act on an open ledger": the first     *)
(* event is a submission, and each event moves the balance as its kind     *)
(* says, a submission "by the delta of this submission's credit total      *)
(* against the ledger's running total".                                    *)
MovesByDelta(i) ==
  LET e == ledger[i]
  IN  IF e.kind = SUMMARY_LOG_SUBMITTED
      THEN e.closing = ClosingForSummaryLogSubmitted(
                         BalanceBefore(i), e.value, CreditTotalAfter(i - 1))
      ELSE i > 1 /\ e.closing = ClosingForPrn(BalanceBefore(i), e.kind, e.value)

DeltaAgainstRunningTotal == \A i \in 1..Len(ledger) : MovesByDelta(i)

(* The ledger implements the account of AtomicBalance: the latest credit   *)
(* total is its credit, and what the closing balance is short of it is     *)
(* issued and ringfenced.                                                  *)
Held == IF ledger = <<>> THEN ZERO_BALANCE ELSE ledger[Len(ledger)].closing

RunningTotal == CreditTotalAfter(Len(ledger))

Account == INSTANCE AtomicBalance WITH
             opened     <- ledger # <<>>,
             credit     <- RunningTotal,
             issued     <- RunningTotal - Held.amount,
             ringfenced <- RunningTotal - Held.availableAmount

ImplementsAccount == Account!Spec

(* The ledger keeps the contract of its repository (ledger-contract/): the *)
(* adapter over MongoDB, which checks the number on a secondary and leaves *)
(* the rest to the index, appends what the in-memory one, which does both  *)
(* in a step, would have appended, and what was appended is found.         *)
Repository == INSTANCE LedgerRepository WITH
                events <- ledger, Kinds <- EventKinds

HonoursContract == Repository!Spec
=============================================================================
