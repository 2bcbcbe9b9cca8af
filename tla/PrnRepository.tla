--------------------------- MODULE PrnRepository ----------------------------
(***************************************************************************)
(* What the repository of packaging recycling notes promises, as the       *)
(* contract tests every adapter has to pass state it                       *)
(* (packaging-recycling-notes/repository/contract): documents written      *)
(* under the version their writer read, a watermark that never moves back, *)
(* numbers no two PRNs share.  The rollbacks of the contract are left out: *)
(* nothing calls them.                                                     *)
(***************************************************************************)
EXTENDS Naturals, SequencesExt

CONSTANTS
  PRNs,      \* packaging recycling notes
  NoNumber   \* prnNumber of a PRN that has none

VARIABLES
  prns   \* prns[p]: the document of p

NotFound == [version |-> 0]

Exists(p) == prns[p] # NotFound

(* create: version 1, a history of one draft, no number yet.               *)
Drafted(doc) ==
  doc = [version |-> 1, status |-> "draft", history |-> <<"draft">>,
         watermark |-> 0, number |-> NoNumber]

(* Each write moves the version by one, so that of two made under the same *)
(* version one is refused and changes nothing.                             *)
VersionAdvances(before, after) == after.version = before.version + 1

(* updateStatus: the status becomes the current one and ends the history.  *)
StatusWritten(before, after) == after.history = Append(before.history, after.status)

(* A number is set when one is provided, and left alone otherwise.         *)
NumberAssigned(before, after) ==
  after.number = before.number \/ after.number # NoNumber

(* An equal watermark is applied again, a lower or a dropped one refused.  *)
WatermarkNotRegressing(before, after) == after.watermark >= before.watermark

(* A projection is stored in full: the history it was built on with the    *)
(* events it folds, at the version after the one the caller read, whatever *)
(* version the projection carries.                                         *)
StoredInFull(before, after) ==
  /\ IsStrictPrefix(before.history, after.history)
  /\ Last(after.history) = after.status

ProjectionAdvances(before, after) == after.version = before.version + 1

(* A projection cannot take the PRN back to an earlier event.              *)
ProjectionWatermark(before, after) == after.watermark >= before.watermark

(* Sparse unique index: PrnNumberConflictError.                            *)
NumbersUnique ==
  \A p, q \in PRNs :
    Exists(p) /\ Exists(q) /\ p # q => prns[p].number = NoNumber \/ prns[p].number # prns[q].number

Create(p) == ~Exists(p) /\ Drafted((prns[p])')

UpdateStatus(p) ==
  LET before == prns[p]
      after  == (prns[p])'
  IN  /\ Exists(p)
      /\ VersionAdvances(before, after)
      /\ StatusWritten(before, after)
      /\ NumberAssigned(before, after)
      /\ WatermarkNotRegressing(before, after)

PersistProjection(p) ==
  LET before == prns[p]
      after  == (prns[p])'
  IN  /\ Exists(p)
      /\ ProjectionAdvances(before, after)
      /\ StoredInFull(before, after)
      /\ NumberAssigned(before, after)
      /\ ProjectionWatermark(before, after)

Init == prns = [p \in PRNs |-> NotFound]

Next ==
  \E p \in PRNs :
    /\ Create(p) \/ UpdateStatus(p) \/ PersistProjection(p)
    /\ \A q \in PRNs \ {p} : (prns[q])' = prns[q]
    /\ NumbersUnique'

Spec == Init /\ [][Next]_prns
=============================================================================
