------------------------ MODULE OrganisationRegister ------------------------
(***************************************************************************)
(* One organisation's document (repositories/organisations): its status,   *)
(* its registrations and accreditations with their status histories, the   *)
(* link to a Defra organisation, users and overseas sites.  Every writer   *)
(* reads the document, changes its copy and replaces the whole document    *)
(* under the version it read: the routes that move a status, the PUT of    *)
(* the JSON editor, linking and unlinking, the sign-in of a user, the      *)
(* import of overseas sites and the migration of form submissions.         *)
(*                                                                         *)
(* A request rests between its reads and its write; replace itself reads   *)
(* the document once more.  Reads of a route may be answered by a          *)
(* secondary that is behind: a request that rests is such a read.  Reads   *)
(* that are compared with another read are told apart by Disturbances.     *)
(***************************************************************************)
EXTENDS FormsLinking, FiniteSets, TLC

CONSTANTS
  Tenants,      \* Defra organisations that may be linked
  NotLinked,    \* linkedDefraOrganisation of an organisation without a link
  Users,        \* people: those the forms name and those who sign in
  Submitter,    \* the person who submitted the organisation's form
  Contact,      \* Contact[i]: the person form i names
  Sites,        \* overseas sites an import maps to a registration
  EditedFields, \* bound: the fields the editor changes
  Requests,     \* requests in flight, the migration among them
  MaxVersion,   \* bound: the document is not replaced beyond this version
  MaxHistory,   \* bound: a history is not moved on beyond this length
  MaxLag,       \* bound: documents a secondary may be behind
  Disturbances  \* stale reads the environment may bring about

ASSUME TenantAssumption == NotLinked \notin Tenants
ASSUME ContactAssumption == Submitter \in Users /\ Contact \in [Regs \cup Accs -> Users]
ASSUME FormsAssumption == IsFiniteSet(Regs) /\ IsFiniteSet(Accs)
ASSUME BoundAssumption == MaxVersion \in Nat \ {0, 1} /\ MaxHistory \in Nat /\ MaxLag \in Nat

(* "staleExisting": the read inside replace is behind.  "staleLinkable":   *)
(* the search for linkable organisations is behind the read before it.     *)
(* "staleIds": the ids the migration compares with are behind the          *)
(* organisation it then reads.                                             *)
ASSUME DisturbanceAssumption ==
  Disturbances \subseteq {"staleExisting", "staleLinkable", "staleIds"}

VARIABLES
  docs,      \* the latest stored documents, the current one first
  req,       \* req[q]: what request q read and asks to write
  corrected  \* history variable: the last accepted replace edited a history

vars == <<docs, req, corrected>>

Doc == docs[1]

View(stale) == IF stale \in Disturbances THEN {docs[i] : i \in DOMAIN docs} ELSE {Doc}

-----------------------------------------------------------------------------
(* Statuses.                                                               *)

ORGANISATION_STATUS  == {CREATED, APPROVED, ACTIVE, REJECTED}
REGISTRATION_STATUS  == {CREATED, APPROVED, CANCELLED, REJECTED}
ACCREDITATION_STATUS == {CREATED, APPROVED, SUSPENDED, CANCELLED, REJECTED}

VALID_ORG_TRANSITIONS ==
  { <<CREATED, APPROVED>>, <<CREATED, REJECTED>>, <<APPROVED, ACTIVE>>,
    <<APPROVED, CREATED>>, <<REJECTED, CREATED>> }

VALID_REG_TRANSITIONS ==
  { <<CREATED, APPROVED>>, <<CREATED, REJECTED>>, <<APPROVED, CREATED>>,
    <<APPROVED, CANCELLED>>, <<CANCELLED, APPROVED>>, <<REJECTED, CREATED>> }

VALID_ACC_TRANSITIONS ==
  { <<CREATED, APPROVED>>, <<CREATED, REJECTED>>, <<APPROVED, SUSPENDED>>,
    <<APPROVED, CREATED>>, <<SUSPENDED, APPROVED>>, <<SUSPENDED, CANCELLED>>,
    <<CANCELLED, APPROVED>>, <<REJECTED, CREATED>> }

(* What an approval needs: a grant gives the first two, the editor the     *)
(* others; MALFORMED is a date that is none.                               *)
GRANTED == {"number", "validFrom"}
FIELDS == GRANTED \cup {"validTo", "reprocessingType"}
MALFORMED == "malformed"

ASSUME EditedAssumption == EditedFields \subseteq FIELDS

(* A cancelled registration takes its accreditation with it; a history     *)
(* that records it may be redated.                                         *)
VALID_ACC_HISTORY == VALID_ACC_TRANSITIONS \cup { <<APPROVED, CANCELLED>> }

ACTIVE_ACCREDITATION_STATUSES == {APPROVED, SUSPENDED}
LINKABLE_ORGANISATION_STATUSES == {APPROVED, ACTIVE}

InitialStatusHistory == <<CREATED>>

GetCurrentStatus(item) == Last(item.history)

(* {...item, ...fields}                                                    *)
Spread(item, fields) ==
  [f \in DOMAIN item \cup DOMAIN fields |->
     IF f \in DOMAIN fields THEN fields[f] ELSE item[f]]

(* mapDocumentWithCurrentStatuses: what a reader of a document gets.       *)
WithStatus(item) == Spread(item, [status |-> GetCurrentStatus(item)])

MapDocumentWithCurrentStatuses(d) ==
  Spread(d, [regs   |-> [i \in DOMAIN d.regs |-> WithStatus(d.regs[i])],
             accs   |-> [i \in DOMAIN d.accs |-> WithStatus(d.accs[i])],
             status |-> GetCurrentStatus(d)])

-----------------------------------------------------------------------------
(* Validation and preparation of a replacement.  existing is the mapped    *)
(* document, update the fragment of the caller.                            *)

LinkedRegistrations(regs) == {i \in DOMAIN regs : regs[i].acc # NoAcc}

AccreditationLinkUniqueness(regs) ==
  \A i, j \in LinkedRegistrations(regs) : regs[i].acc = regs[j].acc => i = j

AccreditationLinkExists(regs, accs) ==
  \A i \in LinkedRegistrations(regs) : HasItem(accs, regs[i].acc)

AccreditationLinkMatches(regs, accs) ==
  \A i \in LinkedRegistrations(regs) :
    HasItem(accs, regs[i].acc)
      => IsAccreditationForRegistration(Find(accs, regs[i].acc), regs[i])

AccreditationsHaveApprovedRegistration(regs, accs) ==
  \A j \in DOMAIN accs : accs[j].status = APPROVED =>
    \E i \in DOMAIN regs :
      /\ regs[i].acc = accs[j].id
      /\ regs[i].status = APPROVED
      /\ IsAccreditationForRegistration(accs[j], regs[i])

NoDuplicateApprovals(items) ==
  \A i, j \in DOMAIN items :
    /\ items[i].status = APPROVED
    /\ items[j].status = APPROVED
    /\ Key[items[i].id] = Key[items[j].id]
    => i = j

ValidateApprovals(regs, accs) ==
  /\ AccreditationsHaveApprovedRegistration(regs, accs)
  /\ NoDuplicateApprovals(accs)
  /\ NoDuplicateApprovals(regs)

CascadeCancelledIds(regs, accs) ==
  {accs[j].id : j \in {k \in DOMAIN accs :
     /\ accs[k].status \in ACTIVE_ACCREDITATION_STATUSES
     /\ \E i \in DOMAIN regs : regs[i].acc = accs[k].id /\ regs[i].status = CANCELLED}}

ApplyCancellationToApprovedOnly(regs, accs) ==
  [j \in DOMAIN accs |->
     IF accs[j].id \in CascadeCancelledIds(regs, accs) /\ accs[j].status = APPROVED
     THEN [accs[j] EXCEPT !.status = CANCELLED]
     ELSE accs[j]]

ApplyRegistrationStatusToLinkedAccreditations(regs, accs) ==
  [j \in DOMAIN accs |->
     IF accs[j].id \in CascadeCancelledIds(regs, accs)
     THEN [accs[j] EXCEPT !.status = CANCELLED]
     ELSE accs[j]]

(* The first item of an update with an id is an update of the existing     *)
(* item, a second one is new.                                              *)
UpdatesExisting(existing, items, i) ==
  /\ HasItem(existing, items[i].id)
  /\ \A j \in 1..(i - 1) : items[j].id # items[i].id

ChangesStatus(item, existing) == item.status \notin {NONE, existing.status}

StatusHistoryWithChanges(item, existing) ==
  IF ChangesStatus(item, existing) THEN Append(existing.history, item.status)
  ELSE IF item.history = <<>> THEN existing.history
  ELSE item.history

ItemTransitionsValid(existing, items, transitions, exempt) ==
  \A i \in DOMAIN items :
    /\ UpdatesExisting(existing, items, i)
    /\ items[i].id \notin exempt
    /\ ChangesStatus(items[i], Find(existing, items[i].id))
    => <<Find(existing, items[i].id).status, items[i].status>> \in transitions

WithoutStatus(item) == [f \in DOMAIN item \ {"status"} |-> item[f]]

UpdateStatusHistoryForItems(existing, items) ==
  [i \in DOMAIN items |->
     WithoutStatus(
       [items[i] EXCEPT !.history =
          IF UpdatesExisting(existing, items, i)
          THEN StatusHistoryWithChanges(items[i], Find(existing, items[i].id))
          ELSE InitialStatusHistory])]

(* requiredWhenApproved, requiredWhenApprovedOrSuspended, isoDateString.   *)
FieldsAcceptable(items, statuses) ==
  \A i \in DOMAIN items :
    /\ MALFORMED \notin items[i].fields
    /\ items[i].status \in statuses => FIELDS \subseteq items[i].fields

OrgTransitionValid(existing, update) ==
  update.status # existing.status =>
    /\ <<existing.status, update.status>> \in VALID_ORG_TRANSITIONS
    /\ update.status = APPROVED =>
         \E i \in DOMAIN update.regs : update.regs[i].status = APPROVED
    /\ update.status = ACTIVE => update.link # NotLinked

UpdateAcceptable(existing, update) ==
  LET accs == ApplyRegistrationStatusToLinkedAccreditations(update.regs, update.accs)
  IN  /\ FieldsAcceptable(update.regs, {APPROVED})
      /\ FieldsAcceptable(update.accs, ACTIVE_ACCREDITATION_STATUSES)
      /\ AccreditationLinkUniqueness(update.regs)
      /\ AccreditationLinkExists(update.regs, accs)
      /\ AccreditationLinkMatches(update.regs, accs)
      /\ ValidateApprovals(update.regs, accs)
      /\ ItemTransitionsValid(existing.regs, update.regs, VALID_REG_TRANSITIONS, {})
      /\ ItemTransitionsValid(existing.accs, accs, VALID_ACC_TRANSITIONS,
                              CascadeCancelledIds(update.regs, update.accs))
      /\ OrgTransitionValid(existing, update)

(* A user is a person and whether the role is initial.                     *)
GetUserRolesForStatus(person, status) ==
  [who |-> person, initial |-> status \in {CREATED, APPROVED}]

CollateItems(items) ==
  {GetUserRolesForStatus(Contact[items[i].id], APPROVED) :
     i \in {k \in DOMAIN items : GetCurrentStatus(items[k]) = APPROVED}}

(* Of two with one address the first is kept: those listed before the      *)
(* submitter, the submitter before those the approved forms name.          *)
DeduplicateUsers(users, more) ==
  users \cup {user \in more : \A known \in users : known.who # user.who}

CollateUsers(users, status, regs, accs) ==
  DeduplicateUsers(
    DeduplicateUsers(users, {GetUserRolesForStatus(Submitter, status)}),
    CollateItems(regs) \cup CollateItems(accs))

(* The version stored follows that of the document replace itself read.    *)
(* The organisation's own history is never taken from the caller.          *)
PrepareForReplace(existing, update) ==
  LET history == StatusHistoryWithChanges([status |-> update.status, history |-> <<>>], existing)
      regs    == UpdateStatusHistoryForItems(existing.regs, update.regs)
      accs    == UpdateStatusHistoryForItems(existing.accs,
                   ApplyRegistrationStatusToLinkedAccreditations(update.regs, update.accs))
  IN  [version |-> existing.version + 1, history |-> history, link |-> update.link,
       regs |-> regs, accs |-> accs,
       users |-> CollateUsers(update.users, Last(history), regs, accs)]

-----------------------------------------------------------------------------
(* Requests.  own is what the request was made to change.                  *)

Idle == [kind |-> "idle"]

Pending(kind, own, update) ==
  [kind |-> kind, version |-> update.version, own |-> own, update |-> update]

Register(q, request) ==
  /\ req' = [req EXCEPT ![q] = request]
  /\ UNCHANGED <<docs, corrected>>

Read == MapDocumentWithCurrentStatuses(Doc)

(* The first document is a migrated one, or one in use; sites, users and   *)
(* the rest of the forms come later.  Which registration is the first      *)
(* makes no difference.                                                    *)
Document(version, history, fields, r, a) ==
  [version |-> version, history |-> history, link |-> NotLinked,
   regs |-> << [id |-> r, history |-> history, fields |-> fields, acc |-> a, sites |-> {}] >>,
   accs |-> << [id |-> a, history |-> history, fields |-> fields] >>,
   users |-> {}]

Established(r, a) ==
  [Document(2, <<CREATED, APPROVED>>, FIELDS, r, a) EXCEPT !.users =
     {GetUserRolesForStatus(u, APPROVED) : u \in {Submitter, Contact[r], Contact[a]}}]

Inserted(r, a) == Document(1, InitialStatusHistory, {}, r, a)

(* One the editor has completed for the regulator's decision.              *)
Completed(r, a) ==
  [Document(2, InitialStatusHistory, FIELDS \ GRANTED, r, a) EXCEPT !.users =
     {GetUserRolesForStatus(Submitter, CREATED)}]

Init ==
  /\ \E a \in {a \in Accs : \E r \in Regs : Key[r] = Key[a]} :
       LET r == CHOOSE r \in Regs : Key[r] = Key[a]
       IN  docs \in { <<Established(r, a)>>, <<Inserted(r, a)>>, <<Completed(r, a)>> }
  /\ req = [q \in Requests |-> Idle]
  /\ corrected = FALSE

MayBegin(q) == req[q] = Idle /\ Doc.version < MaxVersion

(* A decision: granting issues the number and the first day.               *)
Decided(item, to) ==
  Spread(item, [status |-> to,
                fields |-> IF <<item.status, to>> = <<CREATED, APPROVED>>
                           THEN item.fields \cup GRANTED ELSE item.fields])

(* Administrators move a registration along its transitions.               *)
RegistrationStatusHistory(q, i, to) ==
  LET doc == Read IN
  /\ MayBegin(q)
  /\ Len(doc.regs[i].history) < MaxHistory
  /\ <<doc.regs[i].status, to>> \in VALID_REG_TRANSITIONS
  /\ Register(q, Pending("registration", {doc.regs[i].id},
                         [doc EXCEPT !.regs[i] = Decided(doc.regs[i], to)]))

(* And an accreditation, of the registration the path names.               *)
AccreditationStatusHistory(q, i, j, to) ==
  LET doc == Read IN
  /\ MayBegin(q)
  /\ Len(doc.accs[j].history) < MaxHistory
  /\ doc.regs[i].acc = doc.accs[j].id
  /\ to = APPROVED => doc.regs[i].status = APPROVED
  /\ <<doc.accs[j].status, to>> \in VALID_ACC_TRANSITIONS
  /\ Register(q, Pending("accreditation", {doc.accs[j].id},
                         [doc EXCEPT !.accs[j] = Decided(doc.accs[j], to)]))

(* The PUT of the JSON editor: the browser read the document, the handler  *)
(* reads it again and refuses a change of an item's status or a history    *)
(* that breaks the rules.  A later read than the browser's that differs    *)
(* has another version, and the replace is refused.                        *)
PutOrganisationStatus(q, to) ==
  LET doc == Read IN
  /\ MayBegin(q)
  /\ Len(doc.history) < MaxHistory
  /\ to # doc.status
  /\ Register(q, Pending("put", {"status"}, [doc EXCEPT !.status = to]))

PutLink(q, i, a) ==
  LET doc == Read IN
  /\ MayBegin(q)
  /\ a # doc.regs[i].acc
  /\ Register(q, Pending("put", {doc.regs[i].id}, [doc EXCEPT !.regs[i].acc = a]))

(* The editor fills in a field, clears it, or mistypes a date: of one item *)
(* or of all.                                                              *)
PutField(q, ids, field) ==
  LET doc == Read
      Edited(items) ==
        [i \in DOMAIN items |->
           IF items[i].id \notin ids THEN items[i]
           ELSE [items[i] EXCEPT !.fields = IF field \in @ THEN @ \ {field} ELSE @ \cup {field}]]
  IN
  /\ MayBegin(q)
  /\ Register(q, Pending("put", ids,
                         Spread(doc, [regs |-> Edited(doc.regs), accs |-> Edited(doc.accs)])))

PutWithoutRegistration(q, i) ==
  LET doc == Read IN
  /\ MayBegin(q)
  /\ Register(q, Pending("put", {doc.regs[i].id}, [doc EXCEPT !.regs = RemoveAt(doc.regs, i)]))

PutWithoutAccreditation(q, j) ==
  LET doc == Read IN
  /\ MayBegin(q)
  /\ Register(q, Pending("put", {doc.accs[j].id}, [doc EXCEPT !.accs = RemoveAt(doc.accs, j)]))

IsWalk(history, transitions) ==
  /\ history[1] = CREATED
  /\ \A k \in 2..Len(history) :
       history[k - 1] # history[k] => <<history[k - 1], history[k]>> \in transitions

(* findStatusHistoryViolation: as many entries, a walk of the table.       *)
Corrections(history, statuses, transitions) ==
  {h \in {[history EXCEPT ![k] = s] : k \in DOMAIN history, s \in statuses} :
     h # history /\ IsWalk(h, transitions)}

PutRegistrationHistory(q, i) ==
  LET doc == Read IN
  /\ MayBegin(q)
  /\ \E h \in Corrections(doc.regs[i].history, REGISTRATION_STATUS, VALID_REG_TRANSITIONS) :
       Register(q, Pending("correct", {doc.regs[i].id}, [doc EXCEPT !.regs[i].history = h]))

PutAccreditationHistory(q, j) ==
  LET doc == Read IN
  /\ MayBegin(q)
  /\ \E h \in Corrections(doc.accs[j].history, ACCREDITATION_STATUS, VALID_ACC_HISTORY) :
       Register(q, Pending("correct", {doc.accs[j].id}, [doc EXCEPT !.accs[j].history = h]))

HasInitialUser(d) == \E user \in d.users : user.initial

(* A user links the organisation, one of its initial users.                *)
IsLinkable(d) ==
  /\ d.link = NotLinked
  /\ GetCurrentStatus(d) \in LINKABLE_ORGANISATION_STATUSES
  /\ HasInitialUser(d)

Link(q, t) ==
  /\ MayBegin(q)
  /\ \E found \in View("staleLinkable") : IsLinkable(found)
  /\ Register(q, Pending("link", {"status", "link"},
                         Spread(Read, [status |-> ACTIVE, link |-> t])))

Unlink(q) ==
  /\ MayBegin(q)
  /\ Read.link # NotLinked
  /\ Register(q, Pending("unlink", {"link"}, [Read EXCEPT !.link = NotLinked]))

(* Signing in adds a user who is not there yet; one who is keeps the role. *)
AddOrUpdateOrganisationUser(q, u) ==
  /\ MayBegin(q)
  /\ \A user \in Read.users : user.who # u
  /\ Register(q, Pending("user", {"users"},
       [Read EXCEPT !.users = @ \cup {[who |-> u, initial |-> FALSE]}]))

(* An import maps sites to a registration: no copy but the version.        *)
MapOverseasSites(q, i, sites) ==
  /\ MayBegin(q)
  /\ Register(q, [kind |-> "sites", version |-> Doc.version,
                  own |-> {Doc.regs[i].id}, sites |-> sites])

(* runFormsDataMigration holds a lock.                                     *)
NoMigrationRunning == \A q \in Requests : req[q].kind # "migration"

(* Submissions whose ids are not found, but for those that cannot be       *)
(* transformed, which are left for the next run.                           *)
SubmissionsToMigrate(ids) ==
  [regs : SUBSET (Regs \ Ids(ids.regs)), accs : SUBSET (Accs \ Ids(ids.accs))]

(* They are linked with the document read then.                            *)
TransformAndLinkAllNewSubmissions(submissions) ==
  LET newRegs == SetToSeq({NewRegistration(r) : r \in submissions.regs})
      newAccs == SetToSeq({NewAccreditation(a) : a \in submissions.accs})
      accs    == LinkItems(Read.accs, newAccs)
  IN  Spread(Read,
             [regs |-> LinkRegistrationToAccreditations(LinkItems(Read.regs, newRegs), accs),
              accs |-> accs])

MigrationBegins(q) ==
  /\ MayBegin(q)
  /\ NoMigrationRunning
  /\ \E ids \in View("staleIds") :
     \E submissions \in SubmissionsToMigrate(ids) :
       /\ submissions.regs \cup submissions.accs # {}
       /\ Register(q, Pending("migration", {"forms"},
                              TransformAndLinkAllNewSubmissions(submissions)))

-----------------------------------------------------------------------------
(* Writes.                                                                 *)

Store(d) ==
  docs' = SubSeq(<<d>> \o docs, 1, IF Len(docs) > MaxLag THEN MaxLag + 1 ELSE Len(docs) + 1)

ReplaceAcceptedWithoutVersion(q, existing) ==
  UpdateAcceptable(MapDocumentWithCurrentStatuses(existing), req[q].update)

(* performReplace: the document read here decides what is valid and what   *)
(* is stored, the version the caller read what is replaced.                *)
ReplaceAccepted(q, existing) ==
  /\ req[q].version = Doc.version
  /\ UpdateAcceptable(MapDocumentWithCurrentStatuses(existing), req[q].update)

Replace(q) ==
  /\ req[q].kind \notin {"idle", "sites"}
  /\ \E existing \in View("staleExisting") :
       IF ReplaceAccepted(q, existing)
       THEN /\ Store(PrepareForReplace(MapDocumentWithCurrentStatuses(existing), req[q].update))
            /\ corrected' = (req[q].kind = "correct")
       ELSE UNCHANGED <<docs, corrected>>
  /\ req' = [req EXCEPT ![q] = Idle]

(* Every item with one of the ids.                                         *)
WithSites(regs, ids, sites) ==
  [i \in DOMAIN regs |-> IF regs[i].id \in ids THEN [regs[i] EXCEPT !.sites = sites]
                         ELSE regs[i]]

ReplaceSitesKeepingVersion(q) ==
  /\ req[q].kind = "sites"
  /\ IF req[q].version = Doc.version
     THEN Store([Doc EXCEPT !.regs = WithSites(Doc.regs, req[q].own, req[q].sites)])
     ELSE UNCHANGED docs
  /\ req' = [req EXCEPT ![q] = Idle]
  /\ UNCHANGED corrected

(* performReplaceRegistrationOverseasSites: one command.                   *)
ReplaceRegistrationOverseasSites(q) ==
  /\ req[q].kind = "sites"
  /\ IF req[q].version = Doc.version
     THEN Store(Spread(Doc, [version |-> Doc.version + 1,
                             regs |-> WithSites(Doc.regs, req[q].own, req[q].sites)]))
     ELSE UNCHANGED docs
  /\ req' = [req EXCEPT ![q] = Idle]
  /\ UNCHANGED corrected

Begin(q) ==
  \/ \E i \in DOMAIN Doc.regs, to \in REGISTRATION_STATUS : RegistrationStatusHistory(q, i, to)
  \/ \E i \in DOMAIN Doc.regs, j \in DOMAIN Doc.accs, to \in ACCREDITATION_STATUS :
       AccreditationStatusHistory(q, i, j, to)
  \/ \E to \in ORGANISATION_STATUS : PutOrganisationStatus(q, to)
  \/ \E i \in DOMAIN Doc.regs, a \in Accs \cup {NoAcc} : PutLink(q, i, a)
  \/ LET ids == Ids(Doc.regs) \cup Ids(Doc.accs)
     IN  \E edited \in {{id} : id \in ids} \cup {ids} : \E f \in EditedFields \cup {MALFORMED} :
           PutField(q, edited, f)
  \/ \E i \in DOMAIN Doc.regs : PutWithoutRegistration(q, i) \/ PutRegistrationHistory(q, i)
  \/ \E j \in DOMAIN Doc.accs : PutWithoutAccreditation(q, j) \/ PutAccreditationHistory(q, j)
  \/ \E t \in Tenants : Link(q, t)
  \/ Unlink(q)
  \/ \E u \in Users : AddOrUpdateOrganisationUser(q, u)
  \/ \E i \in DOMAIN Doc.regs, sites \in SUBSET Sites : MapOverseasSites(q, i, sites)
  \/ MigrationBegins(q)

Next ==
  \E q \in Requests : Begin(q) \/ Replace(q) \/ ReplaceRegistrationOverseasSites(q)

Spec == Init /\ [][Next]_vars

-----------------------------------------------------------------------------
(* Properties.                                                             *)

Items(ids, statuses) == [id : ids, history : Seq(statuses)]

(* Types: every stored item has a history of its own kind of statuses, and *)
(* as many documents are kept as a secondary may be behind.                *)
TypeOK ==
  /\ Len(docs) \in 1..(MaxLag + 1)
  /\ \A n \in DOMAIN docs :
       /\ docs[n].version \in 1..MaxVersion
       /\ docs[n].history \in Seq(ORGANISATION_STATUS) \ {<<>>}
       /\ docs[n].link \in Tenants \cup {NotLinked}
       /\ \A i \in DOMAIN docs[n].regs :
            LET reg == docs[n].regs[i]
            IN  /\ DOMAIN reg = {"id", "history", "fields", "acc", "sites"}
                /\ reg.id \in Regs /\ reg.acc \in Accs \cup {NoAcc} /\ reg.sites \subseteq Sites
                /\ reg.fields \subseteq FIELDS
                /\ reg.history \in Seq(REGISTRATION_STATUS) \ {<<>>}
       /\ \A j \in DOMAIN docs[n].accs :
            LET acc == docs[n].accs[j]
            IN  /\ DOMAIN acc = {"id", "history", "fields"}
                /\ acc.id \in Accs /\ acc.fields \subseteq FIELDS
                /\ acc.history \in Seq(ACCREDITATION_STATUS) \ {<<>>}
       /\ docs[n].users \subseteq [who : Users, initial : BOOLEAN]
  /\ DOMAIN req = Requests
  /\ corrected \in BOOLEAN

(* Well-typed and, whatever the order of reads and writes of all writers,  *)
(* a document that validation would accept: what is approved has its       *)
(* number and dates, an approved accreditation has an approved             *)
(* registration, no two approved items share a key, no accreditation has   *)
(* two registrations, none lives under a cancelled one, and no form is     *)
(* there twice.  Only the correction of a history may break it, until the  *)
(* next replace is accepted.                                               *)
ConsistentUnlessCorrected ==
  /\ TypeOK
  /\ ~corrected =>
        LET doc == Read
        IN  /\ FieldsAcceptable(doc.regs, {APPROVED})
            /\ FieldsAcceptable(doc.accs, ACTIVE_ACCREDITATION_STATUSES)
            /\ AccreditationLinkUniqueness(doc.regs)
            /\ AccreditationLinkExists(doc.regs, doc.accs)
            /\ ValidateApprovals(doc.regs, doc.accs)
            /\ CascadeCancelledIds(doc.regs, doc.accs) = {}
            /\ \A i, j \in DOMAIN doc.regs : doc.regs[i].id = doc.regs[j].id => i = j
            /\ \A i, j \in DOMAIN doc.accs : doc.accs[i].id = doc.accs[j].id => i = j

Writes(q) == req[q] # Idle /\ req'[q] = Idle /\ docs' # docs

(* An accreditation is cancelled with its registration, or as one that was *)
(* cancelled: a correction that revives the registration carries the       *)
(* status it was read with.                                                *)
KeptOrCancelled(acc, before, after) ==
  LET now == Find(after.accs, acc.id)
  IN  \/ now = acc
      \/ /\ now.fields = acc.fields
         /\ now.history = Append(acc.history, CANCELLED)
         /\ \E doc \in {before, after} : \E i \in DOMAIN doc.regs :
              doc.regs[i].acc = acc.id /\ GetCurrentStatus(doc.regs[i]) = CANCELLED

(* No update is lost: a write changes what its request was made to change  *)
(* and leaves everything else as the write before left it, though each     *)
(* writes back the whole document it read.  An organisation that is linked *)
(* is never linked to another Defra organisation before it is unlinked,    *)
(* though linking searches for those without a link in a read of its own.  *)
RequestsChangeTheirOwn ==
  [][\A q \in Requests : Writes(q) =>
       LET own == req[q].own
       IN  /\ (Doc.history)' # Doc.history => "status" \in own
           /\ (Doc.link)' # Doc.link =>
                "link" \in own /\ NotLinked \in {Doc.link, (Doc.link)'}
           /\ Doc.users \subseteq (Doc.users)'
           /\ \A user \in (Doc.users)' \ Doc.users :
                user.who # Submitter /\ ~user.initial => "users" \in own
           /\ \A i \in DOMAIN Doc.regs :
                LET reg == Doc.regs[i]
                    now == Find((Doc.regs)', reg.id)
                IN  reg.id \notin own =>
                      /\ HasItem((Doc.regs)', reg.id)
                      /\ now.history = reg.history /\ now.sites = reg.sites
                      /\ now.fields = reg.fields
                      /\ now.acc # reg.acc => "forms" \in own
           /\ \A j \in DOMAIN Doc.accs :
                Doc.accs[j].id \notin own =>
                  HasItem((Doc.accs)', Doc.accs[j].id) /\ KeptOrCancelled(Doc.accs[j], Doc, Doc')]_vars

(* What the migration links is always accepted, unless another write came  *)
(* between or a correction left the document at odds: a migration that is  *)
(* refused is refused at every run, and its forms never arrive.  Linking   *)
(* must not take an approved accreditation from its registration, nor give *)
(* one accreditation to two.                                               *)
MigrationNeverRefused ==
  \A q \in Requests :
    req[q].kind = "migration" /\ req[q].version = Doc.version /\ ~corrected
      => UpdateAcceptable(Read, req[q].update)

(* "Selects the latest accreditation from a list by formSubmission.time":  *)
(* the migration never replaces the link to an accreditation by a link to  *)
(* one submitted before it.                                                *)
MigrationLinksLatest ==
  [][\A q \in Requests : Writes(q) /\ req[q].kind = "migration" =>
       \A i \in DOMAIN Doc.regs :
         LET reg == Doc.regs[i]
             now == Find((Doc.regs)', reg.id)
         IN  reg.acc # NoAcc => SubmissionTime[now.acc] >= SubmissionTime[reg.acc]]_vars

-----------------------------------------------------------------------------
(* What the contract of the repository's tests promises its callers.       *)

Contract ==
  INSTANCE OrganisationContract
    WITH doc <- Doc,
         caller <- [q \in Requests |-> IF req[q] = Idle THEN 0 ELSE req[q].version]

(* The register, with all its writers, implements the contract.            *)
HonoursContract == Contract!Spec
=============================================================================
