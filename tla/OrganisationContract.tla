------------------------ MODULE OrganisationContract ------------------------
(***************************************************************************)
(* What the organisations repository promises, as the contract tests that  *)
(* every adapter has to pass state it (repositories/organisations/         *)
(* contract): a replace under the version the caller read, statuses that   *)
(* only move along their tables and leave a history, approvals with their  *)
(* numbers and dates, and links that hang together.  How a replacement is  *)
(* computed, and from which reads, is left to OrganisationRegister.        *)
(***************************************************************************)
EXTENDS Naturals, Sequences, SequencesExt

CONSTANTS
  Key,        \* identity key of an item
  Submitter,  \* person who submitted the organisation's form
  Contact,    \* Contact[i]: person form i names
  NoAcc,      \* accreditationId of a registration without a link
  NotLinked,  \* linkedDefraOrganisation of an organisation without a link
  Requests,   \* callers of the repository
  MaxVersion  \* bound: versions

VARIABLES
  doc,    \* the organisation
  caller  \* caller[q]: version caller q read, 0 when it has no update to make

vars == <<doc, caller>>

StatusOf(item) == Last(item.history)

ById(items, id) == items[SelectInSeq(items, LAMBDA item : item.id = id)]

Has(items, id) == \E i \in DOMAIN items : items[i].id = id

-----------------------------------------------------------------------------
(* Histories.                                                              *)

(* A status that changes is appended to what is stored.                    *)
Moved(before, after) ==
  Len(after) = Len(before) + 1 /\ IsPrefix(before, after)

(* A history supplied without a change of status takes the place of the    *)
(* stored one; entries are neither added nor removed.                      *)
Supplied(before, after) == Len(after) = Len(before)

Initial(history) == history = <<"created">>

OrganisationHistory(before, after) == after = before \/ Moved(before, after)

ItemHistories(before, after) ==
  \A i \in DOMAIN after :
    LET item == after[i]
        old  == ById(before, item.id)
    IN  IF Has(before, item.id)
        THEN Supplied(old.history, item.history) \/ Moved(old.history, item.history)
        ELSE Initial(item.history)

MovesOf(before, after) ==
  {<<StatusOf(ById(before, after[i].id)), StatusOf(after[i])>> : i \in {k \in DOMAIN after :
     /\ Has(before, after[k].id)
     /\ Moved(ById(before, after[k].id).history, after[k].history)}}

-----------------------------------------------------------------------------
(* Transitions.                                                            *)

OrganisationTransition(before, after) ==
  Moved(before.history, after.history) =>
    /\ <<StatusOf(before), StatusOf(after)>> \in
         { <<"created", "approved">>, <<"created", "rejected">>, <<"approved", "active">>,
           <<"approved", "created">>, <<"rejected", "created">> }
    /\ StatusOf(after) = "approved" =>
         \E i \in DOMAIN after.regs : StatusOf(after.regs[i]) = "approved"
    /\ StatusOf(after) = "active" => after.link # NotLinked

RegistrationTransitions(before, after) ==
  MovesOf(before.regs, after.regs) \subseteq
    { <<"created", "approved">>, <<"created", "rejected">>, <<"approved", "created">>,
      <<"approved", "cancelled">>, <<"cancelled", "approved">>, <<"rejected", "created">> }

(* Approved to cancelled only by way of its registration.                  *)
AccreditationTransitions(before, after) ==
  MovesOf(before.accs, after.accs) \subseteq
    { <<"created", "approved">>, <<"created", "rejected">>, <<"approved", "created">>,
      <<"approved", "suspended">>, <<"suspended", "approved">>, <<"suspended", "cancelled">>,
      <<"cancelled", "approved">>, <<"rejected", "created">>, <<"approved", "cancelled">> }

UnderCancelled(acc, regs) ==
  \E i \in DOMAIN regs : regs[i].acc = acc.id /\ StatusOf(regs[i]) = "cancelled"

(* Cancelling a registration cancels its accreditation, suspended or       *)
(* approved; one is never cancelled out of approved otherwise.             *)
CancellationCascades(before, after) ==
  \A j \in DOMAIN after.accs :
    LET acc == after.accs[j]
    IN  /\ UnderCancelled(acc, after.regs) => StatusOf(acc) \notin {"approved", "suspended"}
        /\ /\ Has(before.accs, acc.id)
           /\ Moved(ById(before.accs, acc.id).history, acc.history)
           /\ StatusOf(ById(before.accs, acc.id)) = "approved"
           /\ StatusOf(acc) = "cancelled"
           => UnderCancelled(acc, after.regs)

RegistrationMoves(before, after, from, to, acc) ==
  \E i \in DOMAIN after.regs :
    LET reg == after.regs[i]
        old == ById(before.regs, reg.id)
    IN  /\ reg.acc = acc.id
        /\ Has(before.regs, reg.id)
        /\ Moved(old.history, reg.history)
        /\ <<StatusOf(old), StatusOf(reg)>> = <<from, to>>

AccreditationsKept(before, after, from, to, statuses) ==
  \A j \in DOMAIN before.accs :
    LET acc == before.accs[j]
    IN  /\ StatusOf(acc) \in statuses
        /\ RegistrationMoves(before, after, from, to, acc)
        => ById(after.accs, acc.id).history = acc.history

(* The cascade ends nothing that has not begun.                            *)
CreatedSurvivesCancellation(before, after) ==
  AccreditationsKept(before, after, "approved", "cancelled", {"created", "rejected"})

(* A registration that is reinstated comes back without its accreditation. *)
ReinstatedAlone(before, after) ==
  AccreditationsKept(before, after, "cancelled", "approved", {"cancelled"})

-----------------------------------------------------------------------------
(* Approvals and links.                                                    *)

LinksAreUnique(d) ==
  \A i, j \in DOMAIN d.regs :
    d.regs[i].acc = d.regs[j].acc /\ d.regs[i].acc # NoAcc => i = j

LinksExist(d) ==
  \A i \in DOMAIN d.regs : d.regs[i].acc # NoAcc => Has(d.accs, d.regs[i].acc)

LinksMatch(d) ==
  \A i \in DOMAIN d.regs : d.regs[i].acc # NoAcc => Key[d.regs[i].acc] = Key[d.regs[i].id]

ApprovedHasApprovedRegistration(d) ==
  \A j \in DOMAIN d.accs : StatusOf(d.accs[j]) = "approved" =>
    \E i \in DOMAIN d.regs :
      d.regs[i].acc = d.accs[j].id /\ StatusOf(d.regs[i]) = "approved"

UniqueApprovals(items) ==
  \A i, j \in DOMAIN items :
    /\ StatusOf(items[i]) = "approved"
    /\ StatusOf(items[j]) = "approved"
    /\ Key[items[i].id] = Key[items[j].id]
    => i = j

UniqueApprovedAccreditations(d) == UniqueApprovals(d.accs)

UniqueApprovedRegistrations(d) == UniqueApprovals(d.regs)

-----------------------------------------------------------------------------
(* Fields.                                                                 *)

Given(items, statuses, fields) ==
  \A i \in DOMAIN items : StatusOf(items[i]) \in statuses => fields \subseteq items[i].fields

ReprocessingTypesAreGiven(d) ==
  /\ Given(d.regs, {"approved"}, {"reprocessingType"})
  /\ Given(d.accs, {"approved"}, {"reprocessingType"})

RegistrationsAreNumbered(d) == Given(d.regs, {"approved"}, {"number"})

AccreditationsAreNumbered(d) == Given(d.accs, {"approved", "suspended"}, {"number"})

RegistrationsAreDated(d) == Given(d.regs, {"approved"}, {"validFrom", "validTo"})

AccreditationsAreDated(d) == Given(d.accs, {"approved"}, {"validFrom", "validTo"})

SuspendedAccreditationsAreDated(d) == Given(d.accs, {"suspended"}, {"validFrom", "validTo"})

\* Whatever the status.
DatesAreDates(items) == \A i \in DOMAIN items : "malformed" \notin items[i].fields

RegistrationDatesAreDates(d) == DatesAreDates(d.regs)

AccreditationDatesAreDates(d) == DatesAreDates(d.accs)

ApprovedAreComplete(d) ==
  /\ ReprocessingTypesAreGiven(d)
  /\ RegistrationsAreNumbered(d) /\ AccreditationsAreNumbered(d)
  /\ RegistrationsAreDated(d)
  /\ AccreditationsAreDated(d) /\ SuspendedAccreditationsAreDated(d)

-----------------------------------------------------------------------------
(* Users.                                                                  *)

Lists(users, person) == \E user \in users : user.who = person

SubmitterIsListed(d) == Lists(d.users, Submitter)

(* A user who is there keeps role and name, whoever the forms name; nobody *)
(* is listed twice.                                                        *)
UsersAreKept(before, after) ==
  /\ before.users \subseteq after.users
  /\ \A user, other \in after.users : user.who = other.who => user = other

ApprovedContactsAreListed(items, d) ==
  \A i \in DOMAIN items :
    StatusOf(items[i]) = "approved" => Lists(d.users, Contact[items[i].id])

RegistrationContactsAreListed(d) == ApprovedContactsAreListed(d.regs, d)

AccreditationContactsAreListed(d) == ApprovedContactsAreListed(d.accs, d)

-----------------------------------------------------------------------------
(* The repository.                                                         *)

Created(d) ==
  /\ d.version = 1
  /\ Initial(d.history)
  /\ \A i \in DOMAIN d.regs : Initial(d.regs[i].history)
  /\ \A j \in DOMAIN d.accs : Initial(d.accs[j].history)

(* A document as replaces leave it.                                        *)
Consistent(d) ==
  /\ LinksAreUnique(d) /\ LinksExist(d) /\ LinksMatch(d)
  /\ ApprovedHasApprovedRegistration(d)
  /\ UniqueApprovedAccreditations(d) /\ UniqueApprovedRegistrations(d)
  /\ ApprovedAreComplete(d)

Init ==
  /\ Created(doc) \/ Consistent(doc)
  /\ caller = [q \in Requests |-> 0]

Reads(q) ==
  /\ caller[q] = 0
  /\ caller' = [caller EXCEPT ![q] = doc.version]
  /\ UNCHANGED doc

(* A caller whose version is no longer the stored one changes nothing.     *)
VersionMatches(q) == caller[q] = doc.version

Done(q) == caller' = [caller EXCEPT ![q] = 0]

Corrects(items, now) ==
  \E i \in DOMAIN now :
    /\ Has(items, now[i].id)
    /\ Supplied(ById(items, now[i].id).history, now[i].history)
    /\ ById(items, now[i].id).history # now[i].history

(* A supplied history is not held to what statuses have to agree on.       *)
Replaces(q) ==
  /\ VersionMatches(q)
  /\ Done(q)
  /\ doc'.version = doc.version + 1
  /\ OrganisationHistory(doc.history, doc'.history)
  /\ ItemHistories(doc.regs, doc'.regs)
  /\ ItemHistories(doc.accs, doc'.accs)
  /\ LinksAreUnique(doc') /\ LinksExist(doc') /\ LinksMatch(doc')
  /\ RegistrationDatesAreDates(doc') /\ AccreditationDatesAreDates(doc')
  /\ SubmitterIsListed(doc') /\ UsersAreKept(doc, doc')
  /\ RegistrationContactsAreListed(doc') /\ AccreditationContactsAreListed(doc')
  /\ \/ Corrects(doc.regs, doc'.regs) \/ Corrects(doc.accs, doc'.accs)
     \/ /\ OrganisationTransition(doc, doc')
        /\ RegistrationTransitions(doc, doc')
        /\ AccreditationTransitions(doc, doc')
        /\ CancellationCascades(doc, doc')
        /\ CreatedSurvivesCancellation(doc, doc')
        /\ ReinstatedAlone(doc, doc')
        /\ Consistent(doc')

WithoutSites(regs) == [i \in DOMAIN regs |-> [regs[i] EXCEPT !.sites = {}]]

(* Sites take the place of those of one registration, and nothing else     *)
(* changes but the version.                                                *)
ReplacesSites(q) ==
  /\ VersionMatches(q)
  /\ Done(q)
  /\ [doc' EXCEPT !.version = doc.version, !.regs = WithoutSites(@)]
       = [doc EXCEPT !.regs = WithoutSites(@)]
  /\ doc'.version = doc.version + 1

Refuses(q) == caller[q] # 0 /\ Done(q) /\ UNCHANGED doc

Next == \E q \in Requests : Reads(q) \/ Replaces(q) \/ ReplacesSites(q) \/ Refuses(q)

Spec == Init /\ [][Next]_vars
=============================================================================
