--------------------------- MODULE LedgerRepository ---------------------------
(***************************************************************************)
(* What a repository of ledger events promises to its callers, whatever    *)
(* stores them: the contract tests of waste-balances/repository/           *)
(* ledger-contract and the in-memory adapter, in which an append checks    *)
(* and stores in one step.  Of one ledger; ledgers share nothing.          *)
(***************************************************************************)
EXTENDS Integers, Sequences

CONSTANT Kinds    \* the kinds of event

VARIABLE events   \* the events of the ledger, in the order they were stored

(* The number the next event is measured against: of the last one stored.  *)
CurrentMax == IF events = <<>> THEN 0 ELSE events[Len(events)].number

(* The highest-numbered of the events indexed by S; none when S is empty.  *)
Highest(S) == {i \in S : \A j \in S : events[j].number <= events[i].number}

FindLatestInLedger == Highest(1..Len(events))

OfKind(kind) == {i \in 1..Len(events) : events[i].kind = kind}

FindLatestInLedgerByKind(kind) == Highest(OfKind(kind))

(* findAllInLedger sorts by number, and that is the order of storage.      *)
AllInLedgerAscend ==
  \A i, j \in 1..Len(events) : i < j => events[i].number < events[j].number

(* One or more events, numbered without a gap from the highest number on,  *)
(* join those already there, which never change.                           *)
Appended(n) ==
  /\ Len(events') > n
  /\ \A i \in 1..n : events'[i] = events[i]
  /\ \A i \in (n + 1)..Len(events') : events'[i].number = CurrentMax + (i - n)

(* What is appended is found: the latest event is the last appended, and   *)
(* the latest of a kind is one appended, if any of them is of that kind,   *)
(* and otherwise the event it was.                                         *)
Visible(n) ==
  /\ FindLatestInLedger' = {Len(events')}
  /\ \A kind \in Kinds :
       LET added == {i \in (n + 1)..Len(events') : events'[i].kind = kind}
       IN  IF added = {}
           THEN FindLatestInLedgerByKind(kind)' = FindLatestInLedgerByKind(kind)
           ELSE FindLatestInLedgerByKind(kind)'
                  = {i \in added : \A j \in added : j <= i}

(* A refused append - LedgerSlotConflictError, LedgerSequenceError - and   *)
(* an empty one leave the ledger alone.                                    *)
AppendEvents ==
  LET n == Len(events)
  IN  Appended(n) /\ Visible(n) /\ AllInLedgerAscend'

Init == events = <<>>

Next == AppendEvents

Spec == Init /\ [][Next]_events
=============================================================================
