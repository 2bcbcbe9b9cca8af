--------------------------- MODULE AtomicBalance ---------------------------
(***************************************************************************)
(* What a waste balance promises, said without a ledger: one account whose *)
(* credit is whatever the latest summary log claims, from which PRNs debit *)
(* and ringfence tonnage, every command deciding and acting in one step.   *)
(***************************************************************************)
EXTENDS LedgerBalance

CONSTANTS CreditTotals,   \* credit totals a summary log may claim
          PrnAmounts      \* tonnages a PRN may carry

VARIABLES opened,     \* has a summary log ever been submitted
          credit,     \* what the latest summary log claims
          issued,     \* tonnage issued and not cancelled since
          ringfenced  \* tonnage created on PRNs and not given back since

accountVars == <<opened, credit, issued, ringfenced>>

Balance == [amount |-> credit - issued, availableAmount |-> credit - ringfenced]

Init ==
  /\ opened = FALSE
  /\ credit = 0
  /\ issued = 0
  /\ ringfenced = 0

(* A later summary log replaces the credit of the earlier ones.            *)
Submit(creditTotal) ==
  /\ opened' = TRUE
  /\ credit' = creditTotal
  /\ UNCHANGED <<issued, ringfenced>>

Create(prnAmount) ==
  /\ opened
  /\ Sufficient(Balance, PRN_CREATED, prnAmount)
  /\ ringfenced' = ringfenced + prnAmount
  /\ UNCHANGED <<opened, credit, issued>>

Issue(prnAmount) ==
  /\ opened
  /\ Sufficient(Balance, PRN_ISSUED, prnAmount)
  /\ issued' = issued + prnAmount
  /\ UNCHANGED <<opened, credit, ringfenced>>

CancelCreation(prnAmount) ==
  /\ opened
  /\ ringfenced' = ringfenced - prnAmount
  /\ UNCHANGED <<opened, credit, issued>>

CancelIssued(prnAmount) ==
  /\ opened
  /\ issued' = issued - prnAmount
  /\ ringfenced' = ringfenced - prnAmount
  /\ UNCHANGED <<opened, credit>>

Next ==
  \/ \E c \in CreditTotals : Submit(c)
  \/ \E a \in PrnAmounts :
       Create(a) \/ Issue(a) \/ CancelCreation(a) \/ CancelIssued(a)

Spec == Init /\ [][Next]_accountVars
=============================================================================
