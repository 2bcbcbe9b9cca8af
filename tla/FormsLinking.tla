---------------------------- MODULE FormsLinking ----------------------------
(***************************************************************************)
(* How the migration of form submissions joins them to an organisation     *)
(* (forms-submission-data/link-form-submissions.js): new registrations and *)
(* accreditations are appended to the organisation their system reference  *)
(* names, then every registration that is not linked to an approved        *)
(* accreditation claims the latest eligible accreditation.                 *)
(*                                                                         *)
(* The identity of an item (type, material, site, glass process) is one    *)
(* value, its key.  Items are of one organisation: matching the system     *)
(* reference is the choice of the items handed to LinkItems.               *)
(***************************************************************************)
EXTENDS Naturals, SequencesExt

CONSTANTS
  Regs,           \* registrations submitted for the organisation
  Accs,           \* accreditations submitted for it
  NoAcc,          \* accreditationId of a registration without a link
  Key,            \* Key[i]: identity key of registration or accreditation i
  SubmissionTime  \* SubmissionTime[a]: formSubmission.time of accreditation a

ASSUME ItemAssumption == NoAcc \notin Accs /\ Regs \cap Accs = {}
ASSUME SubmissionTimeAssumption == SubmissionTime \in [Accs -> Nat]

CREATED   == "created"
APPROVED  == "approved"
ACTIVE    == "active"
SUSPENDED == "suspended"
CANCELLED == "cancelled"
REJECTED  == "rejected"
NONE      == "none"  \* a new item carries no status

IsAccreditationForRegistration(acc, reg) == Key[acc.id] = Key[reg.id]

Ids(items) == {items[i].id : i \in DOMAIN items}

HasItem(items, id) == id \in Ids(items)

(* Array.find: the first item with the id.                                 *)
Find(items, id) == items[SelectInSeq(items, LAMBDA item : item.id = id)]

(* A new submission has neither a status nor a history.                    *)
NewRegistration(r) ==
  [id |-> r, status |-> NONE, history |-> <<>>, fields |-> {}, acc |-> NoAcc, sites |-> {}]

NewAccreditation(a) == [id |-> a, status |-> NONE, history |-> <<>>, fields |-> {}]

LinkItems(items, new) == items \o new

-----------------------------------------------------------------------------
(* Claiming accreditations.                                                *)

FindEligibleAccreditations(reg, accs, claimed) ==
  {i \in DOMAIN accs :
     /\ accs[i].status # APPROVED
     /\ accs[i].id \notin claimed
     /\ IsAccreditationForRegistration(accs[i], reg)}

(* Array.sort is stable: of two submitted at once the first is taken.      *)
SelectLatestAccreditation(eligible, accs) ==
  LET Later(i, j) ==
        \/ SubmissionTime[accs[i].id] > SubmissionTime[accs[j].id]
        \/ SubmissionTime[accs[i].id] = SubmissionTime[accs[j].id] /\ i < j
  IN  accs[CHOOSE i \in eligible : \A j \in eligible \ {i} : Later(i, j)].id

IsLinkedToApprovedAccreditation(reg, accs) ==
  HasItem(accs, reg.acc) /\ Find(accs, reg.acc).status = APPROVED

GetClaimedAccreditationIds(regs) ==
  {regs[i].acc : i \in DOMAIN regs} \ {NoAcc}

(* acc [regs, claimed]: one registration claims after another.             *)
ClaimAccreditation(acc, i, accs) ==
  LET eligible == FindEligibleAccreditations(acc.regs[i], accs, acc.claimed)
      latest   == SelectLatestAccreditation(eligible, accs)
  IN  IF eligible = {} THEN acc
      ELSE [regs    |-> [acc.regs EXCEPT ![i].acc = latest],
            claimed |-> acc.claimed \cup {latest}]

LinkEveryRegistration(regs, accs) ==
  LET Claim(acc, i) == ClaimAccreditation(acc, i, accs)
  IN  FoldLeftDomain(Claim,
                     [regs |-> regs, claimed |-> GetClaimedAccreditationIds(regs)],
                     regs).regs

(* A link that is replaced stays claimed for the rest of the run, and is   *)
(* free again in the next.                                                 *)
LinkRegistrationToAccreditations(regs, accs) ==
  LET Claim(acc, i) ==
        IF IsLinkedToApprovedAccreditation(regs[i], accs) THEN acc
        ELSE ClaimAccreditation(acc, i, accs)
  IN  FoldLeftDomain(Claim,
                     [regs |-> regs, claimed |-> GetClaimedAccreditationIds(regs)],
                     regs).regs
=============================================================================
