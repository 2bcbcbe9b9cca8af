--------------------------- MODULE LedgerBalance ---------------------------
(***************************************************************************)
(* The pure core of the waste balance: the kinds of ledger events, the     *)
(* closing balance each one computes, and the sufficiency check of the     *)
(* PRN deciders (waste-balances/domain/).  Tonnages are integers: the      *)
(* program adds and subtracts them as exact decimals.                      *)
(***************************************************************************)
EXTENDS Integers

SUMMARY_LOG_SUBMITTED     == "summary-log-submitted"
PRN_CREATED               == "prn-created"
PRN_ISSUED                == "prn-issued"
PRN_CREATION_CANCELLED    == "prn-creation-cancelled"
PRN_CANCELLED_AFTER_ISSUE == "prn-cancelled-after-issue"
PRN_ACCEPTED              == "prn-accepted"
PRN_REJECTED              == "prn-rejected"

PrnKinds == { PRN_CREATED, PRN_ISSUED, PRN_CREATION_CANCELLED,
              PRN_CANCELLED_AFTER_ISSUE, PRN_ACCEPTED, PRN_REJECTED }

EventKinds == {SUMMARY_LOG_SUBMITTED} \cup PrnKinds

(* The running balance: what is held, and what of it is not ringfenced.    *)
BalanceSnapshot == [amount : Int, availableAmount : Int]

ZERO_BALANCE == [amount |-> 0, availableAmount |-> 0]

(* A variant used for mutation runs: the submission adds its whole credit  *)
(* total instead of the difference.                                        *)
ClosingIgnoringPrevious(opening, creditTotal, previousCreditTotal) ==
  [amount          |-> opening.amount + creditTotal,
   availableAmount |-> opening.availableAmount + creditTotal]

(* A submission replaces the credit of the one before it: both balances    *)
(* move by the difference of the two credit totals.                        *)
ClosingForSummaryLogSubmitted(opening, creditTotal, previousCreditTotal) ==
  LET delta == creditTotal - previousCreditTotal
  IN  [amount          |-> opening.amount + delta,
       availableAmount |-> opening.availableAmount + delta]

ClosingForPrn(opening, kind, prnAmount) ==
  CASE kind = PRN_CREATED ->
         [opening EXCEPT !.availableAmount = @ - prnAmount]
    [] kind = PRN_ISSUED ->
         [opening EXCEPT !.amount = @ - prnAmount]
    [] kind = PRN_CREATION_CANCELLED ->
         [opening EXCEPT !.availableAmount = @ + prnAmount]
    [] kind = PRN_CANCELLED_AFTER_ISSUE ->
         [amount          |-> opening.amount + prnAmount,
          availableAmount |-> opening.availableAmount + prnAmount]
    [] kind \in {PRN_ACCEPTED, PRN_REJECTED} -> opening

(* The deciders reject a creation beyond the available balance and an      *)
(* issue beyond the total balance; the other commands always commit.       *)
Sufficient(balance, kind, prnAmount) ==
  /\ kind = PRN_CREATED => balance.availableAmount >= prnAmount
  /\ kind = PRN_ISSUED  => balance.amount >= prnAmount
=============================================================================
