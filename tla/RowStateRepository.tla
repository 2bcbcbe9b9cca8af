------------------------- MODULE RowStateRepository -------------------------
(***************************************************************************)
(* What the contract tests ask of every summary-log row state repository   *)
(* (waste-records/repository/contract, inmemory.js): a document is the     *)
(* content of one row, told apart by its content, and carries the summary  *)
(* logs it belongs to.                                                     *)
(***************************************************************************)
CONSTANT
  Logs       \* summary logs

VARIABLE
  members    \* members[s]: the logs of the document whose content is s

Documents == DOMAIN members

Init == members = [s \in {} |-> {}]

(* Content is stored once: an entry whose content is there already adds no *)
(* document, any other content is a document of its own.                   *)
StoredOnce(s) == Documents' = Documents \cup {s}

(* The document gains the log once and loses none.                         *)
MembershipGrows(s, l) ==
  members'[s] = (IF s \in Documents THEN members[s] ELSE {}) \cup {l}

(* No other document is touched.                                           *)
OthersKept(s) == \A t \in Documents \ {s} : members'[t] = members[t]

(* upsertSummaryLogRowStates, one entry.                                   *)
Upsert(s, l) == StoredOnce(s) /\ MembershipGrows(s, l) /\ OthersKept(s)

Next == \E l \in Logs : \E s \in DOMAIN members' : Upsert(s, l)

Spec == Init /\ [][Next]_members
=============================================================================
