---------------------- MODULE OrganisationRegisterProofs ----------------------
(***************************************************************************)
(* Theorems about OrganisationRegister: the document that its writers      *)
(* replace under the version they read stays one that validation accepts,  *)
(* the forms that the migration links are accepted, no write undoes what   *)
(* another has done, and all of it is what the repository's contract       *)
(* allows.                                                                 *)
(***************************************************************************)
EXTENDS OrganisationRegister, Induction

-----------------------------------------------------------------------------
(* Types.                                                                  *)

StoredRegs ==
  [id : Regs, history : Seq(REGISTRATION_STATUS) \ {<<>>}, fields : SUBSET FIELDS,
   acc : Accs \cup {NoAcc}, sites : SUBSET Sites]

StoredAccs ==
  [id : Accs, history : Seq(ACCREDITATION_STATUS) \ {<<>>}, fields : SUBSET FIELDS]

Listed == [who : Users, initial : BOOLEAN]

StoredDocs ==
  [version : 1..MaxVersion, history : Seq(ORGANISATION_STATUS) \ {<<>>},
   link : Tenants \cup {NotLinked}, regs : Seq(StoredRegs), accs : Seq(StoredAccs),
   users : SUBSET Listed]

UpdatedRegs ==
  [id : Regs, history : Seq(REGISTRATION_STATUS), fields : SUBSET (FIELDS \cup {MALFORMED}),
   acc : Accs \cup {NoAcc}, sites : SUBSET Sites, status : REGISTRATION_STATUS \cup {NONE}]

UpdatedAccs ==
  [id : Accs, history : Seq(ACCREDITATION_STATUS), fields : SUBSET (FIELDS \cup {MALFORMED}),
   status : ACCREDITATION_STATUS \cup {NONE}]

Updates ==
  [version : 1..MaxVersion, history : Seq(ORGANISATION_STATUS),
   link : Tenants \cup {NotLinked}, regs : Seq(UpdatedRegs), accs : Seq(UpdatedAccs),
   users : SUBSET Listed, status : ORGANISATION_STATUS]

Replacing ==
  {"registration", "accreditation", "put", "correct", "link", "unlink", "user", "migration"}

Typed ==
  /\ docs \in Seq(StoredDocs) /\ Len(docs) \in 1..(MaxLag + 1)
  /\ req = [q \in Requests |-> req[q]]
  /\ corrected \in BOOLEAN

-----------------------------------------------------------------------------
(* The invariant.                                                          *)

Distinct(items) == \A i, j \in DOMAIN items : items[i].id = items[j].id => i = j

(* What ConsistentUnlessCorrected asks of a document, links of one key     *)
(* besides.                                                                *)
Coherent(doc) ==
  /\ FieldsAcceptable(doc.regs, {APPROVED})
  /\ FieldsAcceptable(doc.accs, ACTIVE_ACCREDITATION_STATUSES)
  /\ AccreditationLinkUniqueness(doc.regs)
  /\ AccreditationLinkExists(doc.regs, doc.accs)
  /\ AccreditationLinkMatches(doc.regs, doc.accs)
  /\ ValidateApprovals(doc.regs, doc.accs)
  /\ CascadeCancelledIds(doc.regs, doc.accs) = {}

(* An item of an update continues the stored one with its id, history and  *)
(* all unless that is corrected, or is a new form without a status.        *)
Continues(kind, items, stored) ==
  /\ Distinct(items)
  /\ \A i \in DOMAIN items :
       IF HasItem(stored, items[i].id)
       THEN /\ items[i].status # NONE /\ items[i].history # <<>>
            /\ kind # "correct" =>
                 \A k \in DOMAIN stored :
                   stored[k].id = items[i].id => stored[k].history = items[i].history
       ELSE items[i].status = NONE

(* A request is of a version that was stored; while it still is, the       *)
(* update continues the document.                                          *)
Holds(q) ==
  LET r == req[q]
  IN  r # Idle =>
        /\ r.kind \in Replacing \cup {"sites"}
        /\ r.version \in 1..Doc.version
        /\ r.version = Doc.version => Doc.version < MaxVersion
        /\ r.kind = "sites" => r.sites \subseteq Sites
        /\ r.kind \in Replacing =>
             /\ r.update \in Updates
             /\ r.version = Doc.version =>
                  /\ Continues(r.kind, r.update.regs, Doc.regs)
                  /\ Continues(r.kind, r.update.accs, Doc.accs)

Inv ==
  /\ Typed
  /\ Distinct(Doc.regs) /\ Distinct(Doc.accs)
  /\ ~ corrected => Coherent(Read)
  /\ \A q \in Requests : Holds(q)

-----------------------------------------------------------------------------
(* What a reader gets.                                                     *)

LEMMA LastTyped ==
  ASSUME NEW S, NEW h \in Seq(S) \ {<<>>} PROVE Last(h) \in S
  BY DEF Last

LEMMA StatusesNamed ==
  /\ NONE \notin REGISTRATION_STATUS \cup ACCREDITATION_STATUS \cup ORGANISATION_STATUS
  /\ MALFORMED \notin FIELDS
  BY DEF NONE, REGISTRATION_STATUS, ACCREDITATION_STATUS, ORGANISATION_STATUS, CREATED, APPROVED,
         ACTIVE, SUSPENDED, CANCELLED, REJECTED, MALFORMED, FIELDS, GRANTED

LEMMA RegRead ==
  ASSUME NEW reg \in StoredRegs
  PROVE  WithStatus(reg) =
           [id |-> reg.id, history |-> reg.history, fields |-> reg.fields, acc |-> reg.acc,
            sites |-> reg.sites, status |-> Last(reg.history)]
  BY DEF WithStatus, Spread, GetCurrentStatus, StoredRegs

LEMMA AccRead ==
  ASSUME NEW acc \in StoredAccs
  PROVE  WithStatus(acc) =
           [id |-> acc.id, history |-> acc.history, fields |-> acc.fields,
            status |-> Last(acc.history)]
  BY DEF WithStatus, Spread, GetCurrentStatus, StoredAccs

(* A copy of a document is the document with its statuses.                 *)
IsRead(doc, read) ==
  /\ read \in Updates
  /\ read.version = doc.version /\ read.history = doc.history /\ read.link = doc.link
  /\ read.users = doc.users /\ read.status = Last(doc.history)
  /\ DOMAIN read.regs = DOMAIN doc.regs /\ DOMAIN read.accs = DOMAIN doc.accs
  /\ \A i \in DOMAIN doc.regs :
       /\ read.regs[i].id = doc.regs[i].id /\ read.regs[i].history = doc.regs[i].history
       /\ read.regs[i].fields = doc.regs[i].fields /\ read.regs[i].acc = doc.regs[i].acc
       /\ read.regs[i].sites = doc.regs[i].sites
       /\ read.regs[i].status = Last(doc.regs[i].history)
  /\ \A j \in DOMAIN doc.accs :
       /\ read.accs[j].id = doc.accs[j].id /\ read.accs[j].history = doc.accs[j].history
       /\ read.accs[j].fields = doc.accs[j].fields
       /\ read.accs[j].status = Last(doc.accs[j].history)

(* What is laid out from one to a number is a sequence.                    *)
LEMMA LaidOut ==
  ASSUME NEW T, NEW n \in Nat, NEW f \in [1..n -> T]
  PROVE  f \in Seq(T) /\ DOMAIN f = 1..n
  OBVIOUS

LEMMA Reading ==
  ASSUME NEW doc \in StoredDocs PROVE IsRead(doc, MapDocumentWithCurrentStatuses(doc))
  <1> DEFINE regs == [i \in DOMAIN doc.regs |-> WithStatus(doc.regs[i])]
             accs == [j \in DOMAIN doc.accs |-> WithStatus(doc.accs[j])]
             read == MapDocumentWithCurrentStatuses(doc)
  <1>1. /\ read.version = doc.version /\ read.history = doc.history /\ read.link = doc.link
        /\ read.users = doc.users /\ read.status = Last(doc.history)
        /\ read.regs = regs /\ read.accs = accs
        /\ read = [version |-> doc.version, history |-> doc.history, link |-> doc.link,
                   regs |-> regs, accs |-> accs, users |-> doc.users, status |-> Last(doc.history)]
    <2>1. read = Spread(doc, [regs |-> regs, accs |-> accs, status |-> Last(doc.history)])
      BY DEF MapDocumentWithCurrentStatuses, GetCurrentStatus
    <2> HIDE DEF regs, accs, read
    <2> QED
      BY <2>1 DEF Spread, StoredDocs
  <1>2. ASSUME NEW i \in DOMAIN doc.regs
        PROVE  /\ regs[i].id = doc.regs[i].id /\ regs[i].history = doc.regs[i].history
               /\ regs[i].fields = doc.regs[i].fields /\ regs[i].acc = doc.regs[i].acc
               /\ regs[i].sites = doc.regs[i].sites
               /\ regs[i].status = Last(doc.regs[i].history)
               /\ regs[i] \in UpdatedRegs
    <2>1. PICK reg \in StoredRegs : reg = doc.regs[i]
      BY DEF StoredDocs
    <2>2. Last(reg.history) \in REGISTRATION_STATUS
      BY LastTyped DEF StoredRegs
    <2>3. regs[i] = WithStatus(reg)
      BY <2>1
    <2> HIDE DEF regs
    <2> QED
      BY <2>1, <2>2, <2>3, RegRead DEF StoredRegs, UpdatedRegs
  <1>3. ASSUME NEW j \in DOMAIN doc.accs
        PROVE  /\ accs[j].id = doc.accs[j].id /\ accs[j].history = doc.accs[j].history
               /\ accs[j].fields = doc.accs[j].fields
               /\ accs[j].status = Last(doc.accs[j].history)
               /\ accs[j] \in UpdatedAccs
    <2>1. PICK acc \in StoredAccs : acc = doc.accs[j]
      BY DEF StoredDocs
    <2>2. Last(acc.history) \in ACCREDITATION_STATUS
      BY LastTyped DEF StoredAccs
    <2>3. accs[j] = WithStatus(acc)
      BY <2>1
    <2> HIDE DEF accs
    <2> QED
      BY <2>1, <2>2, <2>3, AccRead DEF StoredAccs, UpdatedAccs
  <1>4. /\ regs \in Seq(UpdatedRegs) /\ DOMAIN regs = DOMAIN doc.regs
        /\ accs \in Seq(UpdatedAccs) /\ DOMAIN accs = DOMAIN doc.accs
    <2>1. doc.regs \in Seq(StoredRegs) /\ doc.accs \in Seq(StoredAccs)
      BY DEF StoredDocs
    <2> HIDE DEF regs, accs
    <2>2. /\ DOMAIN regs = DOMAIN doc.regs /\ DOMAIN doc.regs = 1..Len(doc.regs)
          /\ DOMAIN accs = DOMAIN doc.accs /\ DOMAIN doc.accs = 1..Len(doc.accs)
      BY <2>1 DEF regs, accs
    <2>3. /\ regs \in [1..Len(doc.regs) -> UpdatedRegs]
          /\ accs \in [1..Len(doc.accs) -> UpdatedAccs]
      BY <1>2, <1>3, <2>1, <2>2 DEF regs, accs
    <2>4. Len(doc.regs) \in Nat /\ Len(doc.accs) \in Nat
      BY <2>1
    <2> QED
      BY ONLY <2>1, <2>2, <2>3, <2>4, LaidOut
  <1>5. read \in Updates
    <2>1. Last(doc.history) \in ORGANISATION_STATUS
      BY LastTyped DEF StoredDocs
    <2> HIDE DEF regs, accs, read
    <2> QED
      BY <1>1, <1>4, <2>1 DEF StoredDocs, Updates
  <1>6. /\ DOMAIN read.regs = DOMAIN doc.regs /\ DOMAIN read.accs = DOMAIN doc.accs
        /\ \A i \in DOMAIN doc.regs : read.regs[i] = regs[i]
        /\ \A j \in DOMAIN doc.accs : read.accs[j] = accs[j]
    BY <1>1, <1>4
  <1> HIDE DEF regs, accs, read
  <1> QED
    <2>1. IsRead(doc, read)
      BY <1>1, <1>2, <1>3, <1>5, <1>6 DEF IsRead
    <2> QED
      BY <2>1 DEF read

LEMMA ReadOfDoc ==
  ASSUME Typed PROVE Doc \in StoredDocs /\ IsRead(Doc, Read)
  BY Reading DEF Typed, Doc, Read

-----------------------------------------------------------------------------
(* Requests.                                                               *)

LEMMA SameItemsContinue ==
  ASSUME NEW kind, NEW items, NEW stored, Distinct(stored), DOMAIN items = DOMAIN stored,
         \A i \in DOMAIN items :
           /\ items[i].id = stored[i].id /\ items[i].status # NONE /\ items[i].history # <<>>
           /\ kind # "correct" => items[i].history = stored[i].history
  PROVE  Continues(kind, items, stored)
  BY DEF Continues, Distinct, HasItem, Ids

LEMMA ReadContinues ==
  ASSUME Inv, NEW kind
  PROVE  Continues(kind, Read.regs, Doc.regs) /\ Continues(kind, Read.accs, Doc.accs)
  <1>1. Doc \in StoredDocs /\ IsRead(Doc, Read)
    BY ReadOfDoc DEF Inv
  <1>2. PICK d, read : d = Doc /\ read = Read
    OBVIOUS
  <1>3. /\ \A i \in DOMAIN d.regs : d.regs[i] \in StoredRegs
        /\ \A j \in DOMAIN d.accs : d.accs[j] \in StoredAccs
    BY <1>1, <1>2 DEF StoredDocs
  <1>4. /\ \A i \in DOMAIN d.regs : Last(d.regs[i].history) # NONE /\ d.regs[i].history # <<>>
        /\ \A j \in DOMAIN d.accs : Last(d.accs[j].history) # NONE /\ d.accs[j].history # <<>>
    BY <1>3, LastTyped, StatusesNamed DEF StoredRegs, StoredAccs
  <1>5. Continues(kind, read.regs, d.regs)
    BY <1>1, <1>2, <1>4, SameItemsContinue DEF Inv, IsRead
  <1>6. Continues(kind, read.accs, d.accs)
    BY <1>1, <1>2, <1>4, SameItemsContinue DEF Inv, IsRead
  <1> QED
    BY <1>2, <1>5, <1>6

(* The document stays and one request is taken up, or given up.            *)
LEMMA Begins ==
  ASSUME Inv, NEW q \in Requests, NEW kind \in Replacing, NEW own, NEW update \in Updates,
         update.version = Doc.version, Doc.version < MaxVersion,
         Continues(kind, update.regs, Doc.regs), Continues(kind, update.accs, Doc.accs),
         Register(q, Pending(kind, own, update))
  PROVE  Inv'
  <1>1. PICK r : r = Pending(kind, own, update)
    OBVIOUS
  <1>2. /\ r.kind = kind /\ r.version = update.version /\ r.update = update
        /\ req' = [req EXCEPT ![q] = r] /\ UNCHANGED <<docs, corrected>>
    BY <1>1 DEF Register, Pending
  <1>3. Doc' = Doc /\ Read' = Read
    BY <1>2 DEF Doc, Read
  <1>4. req'[q] = r /\ \A p \in Requests \ {q} : req'[p] = req[p]
    BY <1>2 DEF Inv, Typed
  <1>5. Typed'
    BY <1>2 DEF Inv, Typed
  <1>6. Doc.version \in 1..Doc.version
    BY ReadOfDoc DEF Inv, StoredDocs
  <1>7. Holds(q)'
    BY <1>2, <1>3, <1>4, <1>6 DEF Holds, Replacing
  <1>8. ASSUME NEW p \in Requests \ {q} PROVE Holds(p)'
    BY <1>3, <1>4 DEF Inv, Holds
  <1> QED
    BY <1>2, <1>3, <1>5, <1>7, <1>8 DEF Inv

(* An update that continues the document as it was read.                   *)
Follows(kind, update) ==
  /\ update \in Updates /\ update.version = Doc.version
  /\ Continues(kind, update.regs, Doc.regs) /\ Continues(kind, update.accs, Doc.accs)

LEMMA OneRegChanges ==
  ASSUME Inv, NEW kind, NEW i \in DOMAIN Doc.regs, NEW item \in UpdatedRegs,
         item.id = Doc.regs[i].id, item.status # NONE, item.history # <<>>,
         kind # "correct" => item.history = Doc.regs[i].history
  PROVE  Follows(kind, [Read EXCEPT !.regs[i] = item])
  <1>1. Doc \in StoredDocs /\ IsRead(Doc, Read)
    BY ReadOfDoc DEF Inv
  <1>2. PICK read : read = Read
    OBVIOUS
  <1>3. PICK regs : regs = [read.regs EXCEPT ![i] = item]
    OBVIOUS
  <1>4. PICK update : update = [read EXCEPT !.regs[i] = item]
    OBVIOUS
  <1>5. /\ read \in Updates /\ read.version = Doc.version /\ i \in DOMAIN read.regs
        /\ DOMAIN read.regs = DOMAIN Doc.regs
        /\ \A k \in DOMAIN Doc.regs :
             read.regs[k].id = Doc.regs[k].id /\ read.regs[k].history = Doc.regs[k].history
    BY <1>1, <1>2 DEF IsRead
  <1>6. /\ regs \in Seq(UpdatedRegs) /\ DOMAIN regs = DOMAIN Doc.regs /\ regs[i] = item
        /\ \A k \in DOMAIN Doc.regs \ {i} : regs[k] = read.regs[k]
    BY <1>3, <1>5 DEF Updates
  <1>7. /\ update \in Updates /\ update.version = read.version /\ update.regs = regs
        /\ update.accs = read.accs
    BY <1>3, <1>4, <1>5, <1>6 DEF Updates
  <1>8. \A k \in DOMAIN Doc.regs : read.regs[k].status # NONE /\ read.regs[k].history # <<>>
    <2>1. Continues(kind, read.regs, Doc.regs)
      BY <1>2, ReadContinues
    <2> QED
      BY <1>5, <2>1 DEF Continues, HasItem, Ids
  <1>9. Continues(kind, regs, Doc.regs)
    BY <1>5, <1>6, <1>8, SameItemsContinue DEF Inv
  <1> QED
    BY <1>2, <1>4, <1>5, <1>7, <1>9, ReadContinues DEF Follows

LEMMA OneAccChanges ==
  ASSUME Inv, NEW kind, NEW j \in DOMAIN Doc.accs, NEW item \in UpdatedAccs,
         item.id = Doc.accs[j].id, item.status # NONE, item.history # <<>>,
         kind # "correct" => item.history = Doc.accs[j].history
  PROVE  Follows(kind, [Read EXCEPT !.accs[j] = item])
  <1>1. Doc \in StoredDocs /\ IsRead(Doc, Read)
    BY ReadOfDoc DEF Inv
  <1>2. PICK read : read = Read
    OBVIOUS
  <1>3. PICK accs : accs = [read.accs EXCEPT ![j] = item]
    OBVIOUS
  <1>4. PICK update : update = [read EXCEPT !.accs[j] = item]
    OBVIOUS
  <1>5. /\ read \in Updates /\ read.version = Doc.version /\ j \in DOMAIN read.accs
        /\ DOMAIN read.accs = DOMAIN Doc.accs
        /\ \A k \in DOMAIN Doc.accs :
             read.accs[k].id = Doc.accs[k].id /\ read.accs[k].history = Doc.accs[k].history
    BY <1>1, <1>2 DEF IsRead
  <1>6. /\ accs \in Seq(UpdatedAccs) /\ DOMAIN accs = DOMAIN Doc.accs /\ accs[j] = item
        /\ \A k \in DOMAIN Doc.accs \ {j} : accs[k] = read.accs[k]
    BY <1>3, <1>5 DEF Updates
  <1>7. /\ update \in Updates /\ update.version = read.version /\ update.accs = accs
        /\ update.regs = read.regs
    BY <1>3, <1>4, <1>5, <1>6 DEF Updates
  <1>8. \A k \in DOMAIN Doc.accs : read.accs[k].status # NONE /\ read.accs[k].history # <<>>
    <2>1. Continues(kind, read.accs, Doc.accs)
      BY <1>2, ReadContinues
    <2> QED
      BY <1>5, <2>1 DEF Continues, HasItem, Ids
  <1>9. Continues(kind, accs, Doc.accs)
    BY <1>5, <1>6, <1>8, SameItemsContinue DEF Inv
  <1> QED
    BY <1>2, <1>4, <1>5, <1>7, <1>9, ReadContinues DEF Follows

(* What is read of an item.                                                *)
LEMMA RegOfRead ==
  ASSUME Inv, NEW i \in DOMAIN Doc.regs
  PROVE  /\ Read.regs[i] \in UpdatedRegs /\ Read.regs[i].id = Doc.regs[i].id
         /\ Read.regs[i].status # NONE /\ Read.regs[i].history # <<>>
         /\ Read.regs[i].history = Doc.regs[i].history
  <1>1. IsRead(Doc, Read)
    BY ReadOfDoc DEF Inv
  <1>2. Continues("put", Read.regs, Doc.regs)
    BY ReadContinues
  <1>3. PICK d, read : d = Doc /\ read = Read
    OBVIOUS
  <1>4. IsRead(d, read) /\ Continues("put", read.regs, d.regs) /\ i \in DOMAIN d.regs
    BY <1>1, <1>2, <1>3
  <1>5. i \in DOMAIN read.regs /\ read.regs[i].id = d.regs[i].id /\ read.regs[i] \in UpdatedRegs
    BY <1>4 DEF IsRead, Updates
  <1> QED
    BY <1>3, <1>4, <1>5 DEF IsRead, Continues, HasItem, Ids

LEMMA AccOfRead ==
  ASSUME Inv, NEW j \in DOMAIN Doc.accs
  PROVE  /\ Read.accs[j] \in UpdatedAccs /\ Read.accs[j].id = Doc.accs[j].id
         /\ Read.accs[j].status # NONE /\ Read.accs[j].history # <<>>
         /\ Read.accs[j].history = Doc.accs[j].history
  <1>1. IsRead(Doc, Read)
    BY ReadOfDoc DEF Inv
  <1>2. Continues("put", Read.accs, Doc.accs)
    BY ReadContinues
  <1>3. PICK d, read : d = Doc /\ read = Read
    OBVIOUS
  <1>4. IsRead(d, read) /\ Continues("put", read.accs, d.accs) /\ j \in DOMAIN d.accs
    BY <1>1, <1>2, <1>3
  <1>5. j \in DOMAIN read.accs /\ read.accs[j].id = d.accs[j].id /\ read.accs[j] \in UpdatedAccs
    BY <1>4 DEF IsRead, Updates
  <1> QED
    BY <1>3, <1>4, <1>5 DEF IsRead, Continues, HasItem, Ids

(* A decision sets a status and may grant fields.                          *)
LEMMA DecidedReg ==
  ASSUME NEW item \in UpdatedRegs, NEW to \in REGISTRATION_STATUS
  PROVE  /\ Decided(item, to) \in UpdatedRegs /\ Decided(item, to).status = to
         /\ Decided(item, to).id = item.id /\ Decided(item, to).history = item.history
  BY DEF Decided, Spread, UpdatedRegs, FIELDS

LEMMA DecidedAcc ==
  ASSUME NEW item \in UpdatedAccs, NEW to \in ACCREDITATION_STATUS
  PROVE  /\ Decided(item, to) \in UpdatedAccs /\ Decided(item, to).status = to
         /\ Decided(item, to).id = item.id /\ Decided(item, to).history = item.history
  BY DEF Decided, Spread, UpdatedAccs, FIELDS

LEMMA Taken ==
  ASSUME Inv, NEW q \in Requests, NEW kind \in Replacing, NEW own, NEW update,
         MayBegin(q), Follows(kind, update), Register(q, Pending(kind, own, update))
  PROVE  Inv'
  BY Begins DEF MayBegin, Follows

LEMMA RegistrationStatusHistoryTaken ==
  ASSUME Inv, NEW q \in Requests, NEW i \in DOMAIN Doc.regs, NEW to \in REGISTRATION_STATUS,
         RegistrationStatusHistory(q, i, to)
  PROVE  Inv'
  <1>1. PICK item : item = Decided(Read.regs[i], to)
    OBVIOUS
  <1>2. /\ item \in UpdatedRegs /\ item.id = Doc.regs[i].id /\ item.status # NONE
        /\ item.history # <<>> /\ item.history = Doc.regs[i].history
    <2>1. item \in UpdatedRegs /\ item.id = Read.regs[i].id /\ item.history = Read.regs[i].history
      BY <1>1, RegOfRead, DecidedReg
    <2>2. item.status # NONE
      BY <1>1, RegOfRead, DecidedReg, StatusesNamed
    <2> QED
      BY <2>1, <2>2, RegOfRead
  <1>3. Follows("registration", [Read EXCEPT !.regs[i] = item])
    BY <1>2, OneRegChanges
  <1> QED
    BY <1>1, <1>3, Taken DEF RegistrationStatusHistory, Replacing

LEMMA AccreditationStatusHistoryTaken ==
  ASSUME Inv, NEW q \in Requests, NEW i \in DOMAIN Doc.regs, NEW j \in DOMAIN Doc.accs,
         NEW to \in ACCREDITATION_STATUS, AccreditationStatusHistory(q, i, j, to)
  PROVE  Inv'
  <1>1. PICK item : item = Decided(Read.accs[j], to)
    OBVIOUS
  <1>2. /\ item \in UpdatedAccs /\ item.id = Doc.accs[j].id /\ item.status # NONE
        /\ item.history # <<>> /\ item.history = Doc.accs[j].history
    <2>1. item \in UpdatedAccs /\ item.id = Read.accs[j].id /\ item.history = Read.accs[j].history
      BY <1>1, AccOfRead, DecidedAcc
    <2>2. item.status # NONE
      BY <1>1, AccOfRead, DecidedAcc, StatusesNamed
    <2> QED
      BY <2>1, <2>2, AccOfRead
  <1>3. Follows("accreditation", [Read EXCEPT !.accs[j] = item])
    BY <1>2, OneAccChanges
  <1> QED
    BY <1>1, <1>3, Taken DEF AccreditationStatusHistory, Replacing

LEMMA PutLinkTaken ==
  ASSUME Inv, NEW q \in Requests, NEW i \in DOMAIN Doc.regs, NEW a \in Accs \cup {NoAcc},
         PutLink(q, i, a)
  PROVE  Inv'
  <1>1. PICK item : item = [Read.regs[i] EXCEPT !.acc = a]
    OBVIOUS
  <1>2. /\ item \in UpdatedRegs /\ item.id = Read.regs[i].id
        /\ item.status = Read.regs[i].status /\ item.history = Read.regs[i].history
    BY <1>1, RegOfRead DEF UpdatedRegs
  <1>3. Follows("put", [Read EXCEPT !.regs[i] = item])
    BY <1>2, RegOfRead, OneRegChanges
  <1>4. Register(q, Pending("put", {Read.regs[i].id}, [Read EXCEPT !.regs[i] = item]))
    BY <1>1 DEF PutLink
  <1> QED
    BY <1>3, <1>4, Taken DEF PutLink, Replacing

LEMMA CorrectionsTyped ==
  ASSUME NEW S, NEW history \in Seq(S) \ {<<>>}, NEW statuses \in SUBSET S, NEW transitions,
         NEW h \in Corrections(history, statuses, transitions)
  PROVE  h \in Seq(S) \ {<<>>}
  <1>1. PICK k \in DOMAIN history, s \in statuses : h = [history EXCEPT ![k] = s]
    BY DEF Corrections
  <1> QED
    BY <1>1

LEMMA PutRegistrationHistoryTaken ==
  ASSUME Inv, NEW q \in Requests, NEW i \in DOMAIN Doc.regs, PutRegistrationHistory(q, i)
  PROVE  Inv'
  <1>1. PICK h \in Corrections(Read.regs[i].history, REGISTRATION_STATUS, VALID_REG_TRANSITIONS) :
          Register(q, Pending("correct", {Read.regs[i].id}, [Read EXCEPT !.regs[i].history = h]))
    BY DEF PutRegistrationHistory
  <1>2. PICK item : item = [Read.regs[i] EXCEPT !.history = h]
    OBVIOUS
  <1>3. h \in Seq(REGISTRATION_STATUS) \ {<<>>}
    <2>1. Read.regs[i].history \in Seq(REGISTRATION_STATUS) \ {<<>>}
      BY RegOfRead DEF UpdatedRegs
    <2> QED
      BY <2>1, CorrectionsTyped
  <1>4. /\ item \in UpdatedRegs /\ item.id = Read.regs[i].id
        /\ item.status = Read.regs[i].status /\ item.history = h
    BY <1>2, <1>3, RegOfRead DEF UpdatedRegs
  <1>5. Follows("correct", [Read EXCEPT !.regs[i] = item])
    BY <1>3, <1>4, RegOfRead, OneRegChanges
  <1>6. Register(q, Pending("correct", {Read.regs[i].id}, [Read EXCEPT !.regs[i] = item]))
    BY <1>1, <1>2
  <1> QED
    BY <1>5, <1>6, Taken DEF PutRegistrationHistory, Replacing

LEMMA PutAccreditationHistoryTaken ==
  ASSUME Inv, NEW q \in Requests, NEW j \in DOMAIN Doc.accs, PutAccreditationHistory(q, j)
  PROVE  Inv'
  <1>1. PICK h \in Corrections(Read.accs[j].history, ACCREDITATION_STATUS, VALID_ACC_HISTORY) :
          Register(q, Pending("correct", {Read.accs[j].id}, [Read EXCEPT !.accs[j].history = h]))
    BY DEF PutAccreditationHistory
  <1>2. PICK item : item = [Read.accs[j] EXCEPT !.history = h]
    OBVIOUS
  <1>3. h \in Seq(ACCREDITATION_STATUS) \ {<<>>}
    <2>1. Read.accs[j].history \in Seq(ACCREDITATION_STATUS) \ {<<>>}
      BY AccOfRead DEF UpdatedAccs
    <2> QED
      BY <2>1, CorrectionsTyped
  <1>4. /\ item \in UpdatedAccs /\ item.id = Read.accs[j].id
        /\ item.status = Read.accs[j].status /\ item.history = h
    BY <1>2, <1>3, AccOfRead DEF UpdatedAccs
  <1>5. Follows("correct", [Read EXCEPT !.accs[j] = item])
    BY <1>3, <1>4, AccOfRead, OneAccChanges
  <1>6. Register(q, Pending("correct", {Read.accs[j].id}, [Read EXCEPT !.accs[j] = item]))
    BY <1>1, <1>2
  <1> QED
    BY <1>5, <1>6, Taken DEF PutAccreditationHistory, Replacing

LEMMA FieldSet ==
  ASSUME Inv, NEW kind
  PROVE  /\ \A to \in ORGANISATION_STATUS : Follows(kind, [Read EXCEPT !.status = to])
         /\ \A t \in Tenants : Follows(kind, Spread(Read, [status |-> ACTIVE, link |-> t]))
         /\ Follows(kind, [Read EXCEPT !.link = NotLinked])
         /\ \A users \in SUBSET Listed : Follows(kind, [Read EXCEPT !.users = users])
  <1>1. PICK read \in Updates : read = Read
    BY ReadOfDoc DEF Inv, IsRead
  <1>2. /\ read.version = Doc.version
        /\ Continues(kind, read.regs, Doc.regs) /\ Continues(kind, read.accs, Doc.accs)
    BY <1>1, ReadContinues, ReadOfDoc DEF Inv, IsRead
  <1>3. ASSUME NEW update \in Updates, update.version = read.version,
               update.regs = read.regs, update.accs = read.accs
        PROVE  Follows(kind, update)
    BY <1>2, <1>3 DEF Follows
  <1>4. ASSUME NEW to \in ORGANISATION_STATUS PROVE Follows(kind, [read EXCEPT !.status = to])
    <2>1. PICK update : update = [read EXCEPT !.status = to]
      OBVIOUS
    <2>2. /\ update \in Updates /\ update.version = read.version
          /\ update.regs = read.regs /\ update.accs = read.accs
      BY <2>1 DEF Updates
    <2> QED
      BY <1>3, <2>1, <2>2
  <1>5. ASSUME NEW t \in Tenants PROVE Follows(kind, Spread(read, [status |-> ACTIVE, link |-> t]))
    <2>1. PICK update : update = Spread(read, [status |-> ACTIVE, link |-> t])
      OBVIOUS
    <2>2. ACTIVE \in ORGANISATION_STATUS
      BY DEF ORGANISATION_STATUS
    <2>3. /\ update \in Updates /\ update.version = read.version
          /\ update.regs = read.regs /\ update.accs = read.accs
      BY <2>1, <2>2 DEF Updates, Spread
    <2> QED
      BY <1>3, <2>1, <2>3
  <1>6. Follows(kind, [read EXCEPT !.link = NotLinked])
    <2>1. PICK update : update = [read EXCEPT !.link = NotLinked]
      OBVIOUS
    <2>2. /\ update \in Updates /\ update.version = read.version
          /\ update.regs = read.regs /\ update.accs = read.accs
      BY <2>1 DEF Updates
    <2> QED
      BY <1>3, <2>1, <2>2
  <1>7. ASSUME NEW users \in SUBSET Listed PROVE Follows(kind, [read EXCEPT !.users = users])
    <2>1. PICK update : update = [read EXCEPT !.users = users]
      OBVIOUS
    <2>2. /\ update \in Updates /\ update.version = read.version
          /\ update.regs = read.regs /\ update.accs = read.accs
      BY <2>1 DEF Updates
    <2> QED
      BY <1>3, <2>1, <2>2
  <1> QED
    BY <1>1, <1>4, <1>5, <1>6, <1>7

LEMMA PutOrganisationStatusTaken ==
  ASSUME Inv, NEW q \in Requests, NEW to \in ORGANISATION_STATUS, PutOrganisationStatus(q, to)
  PROVE  Inv'
  <1>1. Follows("put", [Read EXCEPT !.status = to])
    BY FieldSet
  <1> QED
    BY <1>1, Taken DEF PutOrganisationStatus, Replacing

LEMMA LinkTaken ==
  ASSUME Inv, NEW q \in Requests, NEW t \in Tenants, Link(q, t)
  PROVE  Inv'
  <1>1. Follows("link", Spread(Read, [status |-> ACTIVE, link |-> t]))
    BY FieldSet
  <1> QED
    BY <1>1, Taken DEF Link, Replacing

LEMMA UnlinkTaken ==
  ASSUME Inv, NEW q \in Requests, Unlink(q)
  PROVE  Inv'
  <1>1. Follows("unlink", [Read EXCEPT !.link = NotLinked])
    BY FieldSet
  <1> QED
    BY <1>1, Taken DEF Unlink, Replacing

LEMMA UserTaken ==
  ASSUME Inv, NEW q \in Requests, NEW u \in Users, AddOrUpdateOrganisationUser(q, u)
  PROVE  Inv'
  <1>1. PICK users : users = Read.users \cup {[who |-> u, initial |-> FALSE]}
    OBVIOUS
  <1>2. users \in SUBSET Listed
    <2>1. Read \in Updates
      BY ReadOfDoc DEF Inv, IsRead
    <2>2. Read.users \in SUBSET Listed
      BY <2>1 DEF Updates
    <2>3. [who |-> u, initial |-> FALSE] \in Listed
      BY DEF Listed
    <2> QED
      BY <1>1, <2>2, <2>3
  <1>3. Follows("user", [Read EXCEPT !.users = users])
    BY <1>2, FieldSet
  <1> QED
    BY <1>1, <1>3, Taken DEF AddOrUpdateOrganisationUser, Replacing

LEMMA SitesTaken ==
  ASSUME Inv, NEW q \in Requests, NEW i \in DOMAIN Doc.regs, NEW sites \in SUBSET Sites,
         MapOverseasSites(q, i, sites)
  PROVE  Inv'
  <1>1. PICK r : r = [kind |-> "sites", version |-> Doc.version, own |-> {Doc.regs[i].id},
                      sites |-> sites]
    OBVIOUS
  <1>2. /\ r.kind = "sites" /\ r.version = Doc.version /\ r.sites = sites
        /\ req' = [req EXCEPT ![q] = r] /\ UNCHANGED <<docs, corrected>> /\ Doc.version < MaxVersion
    BY <1>1 DEF Register, MapOverseasSites, MayBegin
  <1>3. Doc' = Doc /\ Read' = Read
    BY <1>2 DEF Doc, Read
  <1>4. req'[q] = r /\ \A p \in Requests \ {q} : req'[p] = req[p]
    BY <1>2 DEF Inv, Typed
  <1>5. Typed'
    BY <1>2 DEF Inv, Typed
  <1>6. Doc.version \in 1..Doc.version
    BY ReadOfDoc DEF Inv, StoredDocs
  <1>7. Holds(q)'
    BY <1>2, <1>3, <1>4, <1>6 DEF Holds, Replacing
  <1>8. ASSUME NEW p \in Requests \ {q} PROVE Holds(p)'
    BY <1>3, <1>4 DEF Inv, Holds
  <1> QED
    BY <1>2, <1>3, <1>5, <1>7, <1>8 DEF Inv

(* One item fewer.                                                         *)
LEMMA RemoveAtTyped ==
  ASSUME NEW S, NEW s \in Seq(S), NEW i \in DOMAIN s
  PROVE  /\ RemoveAt(s, i) \in Seq(S)
         /\ DOMAIN RemoveAt(s, i) = 1..(Len(s) - 1)
         /\ \A k \in DOMAIN RemoveAt(s, i) :
              RemoveAt(s, i)[k] = s[IF k < i THEN k ELSE k + 1]
  <1>1. i \in 1..Len(s) /\ Len(s) \in Nat
    OBVIOUS
  <1>2. PICK front, back : front = SubSeq(s, 1, i - 1) /\ back = SubSeq(s, i + 1, Len(s))
    OBVIOUS
  <1>3. /\ front \in Seq(S) /\ Len(front) = i - 1
        /\ \A k \in 1..(i - 1) : front[k] = s[k]
    BY <1>1, <1>2
  <1>4. /\ back \in Seq(S) /\ Len(back) = Len(s) - i
        /\ \A k \in 1..(Len(s) - i) : back[k] = s[k + i]
    BY <1>1, <1>2
  <1>5. RemoveAt(s, i) = front \o back
    BY <1>2 DEF RemoveAt
  <1>6. /\ front \o back \in Seq(S) /\ Len(front \o back) = Len(s) - 1
        /\ DOMAIN (front \o back) = 1..(Len(s) - 1)
    BY <1>1, <1>3, <1>4
  <1>7. ASSUME NEW k \in 1..(Len(s) - 1)
        PROVE  (front \o back)[k] = s[IF k < i THEN k ELSE k + 1]
    <2>1. CASE k < i
      <3>1. k \in 1..Len(front) /\ (front \o back)[k] = front[k]
        BY <1>1, <1>3, <1>4, <2>1
      <3> QED
        BY <1>3, <2>1, <3>1
    <2>2. CASE ~ (k < i)
      <3>1. k - (i - 1) \in 1..(Len(s) - i) /\ (front \o back)[k] = back[k - (i - 1)]
        BY <1>1, <1>3, <1>4, <2>2
      <3>2. back[k - (i - 1)] = s[(k - (i - 1)) + i]
        BY <1>4, <3>1
      <3>3. (k - (i - 1)) + i = k + 1
        BY <1>1
      <3> QED
        BY <2>2, <3>1, <3>2, <3>3
    <2> QED
      BY <2>1, <2>2
  <1> QED
    BY <1>5, <1>6, <1>7

LEMMA RemovedContinues ==
  ASSUME NEW kind, NEW items, NEW stored, NEW S, items \in Seq(S), Continues(kind, items, stored),
         NEW i \in DOMAIN items
  PROVE  Continues(kind, RemoveAt(items, i), stored)
  <1>1. PICK left : left = RemoveAt(items, i)
    OBVIOUS
  <1>2. \A k \in DOMAIN left : \E m \in DOMAIN items : m = (IF k < i THEN k ELSE k + 1) /\ left[k] = items[m]
    BY <1>1, RemoveAtTyped
  <1>3. \A k \in DOMAIN left : k \in Int
    BY <1>1, RemoveAtTyped
  <1>4. Distinct(left)
    <2> SUFFICES ASSUME NEW k \in DOMAIN left, NEW l \in DOMAIN left, left[k].id = left[l].id
                 PROVE  k = l
      BY DEF Distinct
    <2>1. (IF k < i THEN k ELSE k + 1) = (IF l < i THEN l ELSE l + 1)
      BY <1>2 DEF Continues, Distinct
    <2>2. i \in Int
      OBVIOUS
    <2> QED
      BY <1>3, <2>1, <2>2
  <1> QED
    BY <1>1, <1>2, <1>4 DEF Continues

LEMMA PutWithoutRegistrationTaken ==
  ASSUME Inv, NEW q \in Requests, NEW i \in DOMAIN Doc.regs, PutWithoutRegistration(q, i)
  PROVE  Inv'
  <1>1. PICK read \in Updates : read = Read
    BY ReadOfDoc DEF Inv, IsRead
  <1>2. /\ read.version = Doc.version /\ i \in DOMAIN read.regs /\ read.regs \in Seq(UpdatedRegs)
        /\ Continues("put", read.regs, Doc.regs) /\ Continues("put", read.accs, Doc.accs)
    BY <1>1, ReadContinues, ReadOfDoc DEF Inv, IsRead, Updates
  <1>3. PICK regs : regs = RemoveAt(read.regs, i)
    OBVIOUS
  <1>4. regs \in Seq(UpdatedRegs) /\ Continues("put", regs, Doc.regs)
    BY <1>2, <1>3, RemoveAtTyped, RemovedContinues
  <1>5. PICK update : update = [read EXCEPT !.regs = regs]
    OBVIOUS
  <1>6. /\ update \in Updates /\ update.version = read.version /\ update.regs = regs
        /\ update.accs = read.accs
    BY <1>4, <1>5 DEF Updates
  <1>7. Follows("put", update)
    BY <1>2, <1>4, <1>6 DEF Follows
  <1> QED
    BY <1>1, <1>3, <1>5, <1>7, Taken DEF PutWithoutRegistration, Replacing

LEMMA PutWithoutAccreditationTaken ==
  ASSUME Inv, NEW q \in Requests, NEW j \in DOMAIN Doc.accs, PutWithoutAccreditation(q, j)
  PROVE  Inv'
  <1>1. PICK read \in Updates : read = Read
    BY ReadOfDoc DEF Inv, IsRead
  <1>2. /\ read.version = Doc.version /\ j \in DOMAIN read.accs /\ read.accs \in Seq(UpdatedAccs)
        /\ Continues("put", read.regs, Doc.regs) /\ Continues("put", read.accs, Doc.accs)
    BY <1>1, ReadContinues, ReadOfDoc DEF Inv, IsRead, Updates
  <1>3. PICK accs : accs = RemoveAt(read.accs, j)
    OBVIOUS
  <1>4. accs \in Seq(UpdatedAccs) /\ Continues("put", accs, Doc.accs)
    BY <1>2, <1>3, RemoveAtTyped, RemovedContinues
  <1>5. PICK update : update = [read EXCEPT !.accs = accs]
    OBVIOUS
  <1>6. /\ update \in Updates /\ update.version = read.version /\ update.accs = accs
        /\ update.regs = read.regs
    BY <1>4, <1>5 DEF Updates
  <1>7. Follows("put", update)
    BY <1>2, <1>4, <1>6 DEF Follows
  <1> QED
    BY <1>1, <1>3, <1>5, <1>7, Taken DEF PutWithoutAccreditation, Replacing

(* PutField's copy of the items.                                           *)
EditedItem(item, ids, field) ==
  IF item.id \notin ids THEN item
  ELSE [item EXCEPT !.fields = IF field \in @ THEN @ \ {field} ELSE @ \cup {field}]

LEMMA EditedTyped ==
  ASSUME NEW ids, NEW field \in FIELDS \cup {MALFORMED}
  PROVE  /\ \A item \in UpdatedRegs :
              /\ EditedItem(item, ids, field) \in UpdatedRegs
              /\ EditedItem(item, ids, field).id = item.id
              /\ EditedItem(item, ids, field).status = item.status
              /\ EditedItem(item, ids, field).history = item.history
         /\ \A item \in UpdatedAccs :
              /\ EditedItem(item, ids, field) \in UpdatedAccs
              /\ EditedItem(item, ids, field).id = item.id
              /\ EditedItem(item, ids, field).status = item.status
              /\ EditedItem(item, ids, field).history = item.history
  BY DEF EditedItem, UpdatedRegs, UpdatedAccs

LEMMA EditedContinues ==
  ASSUME NEW kind, NEW stored, NEW S, NEW items \in Seq(S), Continues(kind, items, stored),
         NEW edited, edited = [i \in DOMAIN items |-> edited[i]],
         \A i \in DOMAIN items :
           /\ edited[i] \in S /\ edited[i].id = items[i].id
           /\ edited[i].status = items[i].status /\ edited[i].history = items[i].history
  PROVE  edited \in Seq(S) /\ Continues(kind, edited, stored)
  <1>1. edited \in [1..Len(items) -> S] /\ Len(items) \in Nat
    OBVIOUS
  <1>2. edited \in Seq(S) /\ DOMAIN edited = DOMAIN items
    BY <1>1
  <1> QED
    BY <1>2 DEF Continues, Distinct

LEMMA PutFieldTaken ==
  ASSUME Inv, NEW q \in Requests, NEW ids, NEW field \in EditedFields \cup {MALFORMED},
         PutField(q, ids, field)
  PROVE  Inv'
  <1>1. PICK read \in Updates : read = Read
    BY ReadOfDoc DEF Inv, IsRead
  <1>2. /\ read.version = Doc.version
        /\ read.regs \in Seq(UpdatedRegs) /\ read.accs \in Seq(UpdatedAccs)
        /\ Continues("put", read.regs, Doc.regs) /\ Continues("put", read.accs, Doc.accs)
    BY <1>1, ReadContinues, ReadOfDoc DEF Inv, IsRead, Updates
  <1>3. PICK regs, accs :
          /\ regs = [i \in DOMAIN read.regs |-> EditedItem(read.regs[i], ids, field)]
          /\ accs = [j \in DOMAIN read.accs |-> EditedItem(read.accs[j], ids, field)]
    OBVIOUS
  <1>4. field \in FIELDS \cup {MALFORMED}
    BY EditedAssumption
  <1>5. \A i \in DOMAIN read.regs :
          /\ regs[i] \in UpdatedRegs /\ regs[i].id = read.regs[i].id
          /\ regs[i].status = read.regs[i].status /\ regs[i].history = read.regs[i].history
    BY <1>2, <1>3, <1>4, EditedTyped
  <1>6. \A j \in DOMAIN read.accs :
          /\ accs[j] \in UpdatedAccs /\ accs[j].id = read.accs[j].id
          /\ accs[j].status = read.accs[j].status /\ accs[j].history = read.accs[j].history
    BY <1>2, <1>3, <1>4, EditedTyped
  <1>7. regs = [i \in DOMAIN read.regs |-> regs[i]] /\ accs = [j \in DOMAIN read.accs |-> accs[j]]
    BY <1>3
  <1>8. regs \in Seq(UpdatedRegs) /\ Continues("put", regs, Doc.regs)
    BY <1>2, <1>5, <1>7, EditedContinues
  <1>9. accs \in Seq(UpdatedAccs) /\ Continues("put", accs, Doc.accs)
    BY <1>2, <1>6, <1>7, EditedContinues
  <1>10. PICK update : update = Spread(read, [regs |-> regs, accs |-> accs])
    OBVIOUS
  <1>11. /\ update \in Updates /\ update.version = read.version /\ update.regs = regs
         /\ update.accs = accs
    BY <1>8, <1>9, <1>10 DEF Updates, Spread
  <1>12. Follows("put", update)
    BY <1>2, <1>8, <1>9, <1>11 DEF Follows
  <1>13. Register(q, Pending("put", ids, update)) /\ MayBegin(q)
    BY <1>1, <1>3, <1>10 DEF PutField, EditedItem
  <1> QED
    BY <1>12, <1>13, Taken DEF Replacing
-----------------------------------------------------------------------------
(* Finding an item.                                                        *)

LEMMA Finding ==
  ASSUME NEW S, NEW items \in Seq(S), NEW id, HasItem(items, id)
  PROVE  \E k \in DOMAIN items : items[k].id = id /\ Find(items, id) = items[k]
  <1> DEFINE I == {i \in 1..Len(items) : items[i].id = id}
  <1>1. I \in SUBSET Nat /\ I # {}
    BY DEF HasItem, Ids
  <1>2. Find(items, id) = items[Min(I)]
    BY <1>1 DEF Find, SelectInSeq
  <1>3. Min(I) \in I
    <2> HIDE DEF I
    <2>1. \E n \in I : \A m \in I : n <= m
      BY <1>1, Least
    <2> QED
      BY <2>1 DEF Min
  <1>4. PICK k \in I : k = Min(I)
    BY <1>3
  <1>5. k \in DOMAIN items /\ items[k].id = id
    BY <1>4
  <1> HIDE DEF I
  <1> QED
    BY <1>2, <1>4, <1>5

LEMMA Found ==
  ASSUME NEW S, NEW items \in Seq(S), Distinct(items), NEW k \in DOMAIN items
  PROVE  HasItem(items, items[k].id) /\ Find(items, items[k].id) = items[k]
  <1>1. HasItem(items, items[k].id)
    BY DEF HasItem, Ids
  <1> QED
    BY <1>1, Finding DEF Distinct

(* Of an update without doubles the items that are there continue them.    *)
LEMMA Updating ==
  ASSUME NEW existing, NEW S, NEW items \in Seq(S), Distinct(items), NEW i \in DOMAIN items
  PROVE  UpdatesExisting(existing, items, i) <=> HasItem(existing, items[i].id)
  <1>1. \A j \in 1..(i - 1) : j \in DOMAIN items /\ j # i
    OBVIOUS
  <1> QED
    BY <1>1 DEF UpdatesExisting, Distinct
-----------------------------------------------------------------------------
(* What replace stores.                                                    *)

NextHistory(existing, items, i) ==
  IF UpdatesExisting(existing, items, i)
  THEN StatusHistoryWithChanges(items[i], Find(existing, items[i].id))
  ELSE InitialStatusHistory

(* The status an item will have: a new one none, until it is stored.       *)
StatusStored(item) == IF item.status = NONE THEN CREATED ELSE item.status

(* existing are the stored items as they are read.                         *)
ReadsItems(stored, existing) ==
  /\ DOMAIN existing = DOMAIN stored
  /\ \A k \in DOMAIN stored :
       /\ existing[k].id = stored[k].id /\ existing[k].history = stored[k].history
       /\ existing[k].status = Last(stored[k].history)

Histories(stored, S) == \A k \in DOMAIN stored : stored[k].history \in Seq(S) \ {<<>>}

(* Item i of an update of stored, which was read as existing.              *)
UpdatesItem(kind, S, U, stored, existing, items, i) ==
  /\ CREATED \in S /\ NONE \notin S
  /\ existing \in Seq(U) /\ ReadsItems(stored, existing)
  /\ Distinct(stored) /\ Histories(stored, S)
  /\ items \in Seq(U) /\ Continues(kind, items, stored) /\ i \in DOMAIN items
  /\ items[i].status \in S \cup {NONE} /\ items[i].history \in Seq(S)

(* A history that is stored ends in the status of the update, but where    *)
(* the history itself is edited.                                           *)
LEMMA HistoryFollows ==
  ASSUME NEW kind, NEW S, NEW U, NEW stored, NEW existing, NEW items, NEW i,
         UpdatesItem(kind, S, U, stored, existing, items, i)
  PROVE  /\ NextHistory(existing, items, i) \in Seq(S) \ {<<>>}
         /\ kind # "correct" => Last(NextHistory(existing, items, i)) = StatusStored(items[i])
  <1> USE DEF UpdatesItem
  <1>1. PICK h : h = NextHistory(existing, items, i)
    OBVIOUS
  <1>2. PICK item : item = items[i]
    OBVIOUS
  <1>3. HasItem(existing, item.id) <=> HasItem(stored, item.id)
    BY DEF ReadsItems, HasItem, Ids
  <1>4. UpdatesExisting(existing, items, i) <=> HasItem(existing, item.id)
    BY <1>2, Updating DEF Continues
  <1>5. CASE ~ HasItem(stored, item.id)
    <2>1. h = <<CREATED>> /\ item.status = NONE
      BY <1>1, <1>2, <1>3, <1>4, <1>5 DEF NextHistory, InitialStatusHistory, Continues
    <2>2. h \in Seq(S) \ {<<>>} /\ Last(h) = CREATED
      BY <2>1 DEF Last
    <2> QED
      BY <1>1, <1>2, <2>1, <2>2 DEF StatusStored
  <1>6. CASE HasItem(stored, item.id)
    <2>1. PICK k \in DOMAIN stored : stored[k].id = item.id
      BY <1>6 DEF HasItem, Ids
    <2>2. Distinct(existing) /\ k \in DOMAIN existing /\ existing[k].id = item.id
      BY <2>1 DEF ReadsItems, Distinct
    <2>3. PICK old : old = existing[k]
      OBVIOUS
    <2>4. Find(existing, item.id) = old
      BY <2>2, <2>3, Found
    <2>5. h = StatusHistoryWithChanges(item, old)
      BY <1>1, <1>2, <1>3, <1>4, <1>6, <2>4 DEF NextHistory
    <2>6. /\ old.history \in Seq(S) \ {<<>>} /\ old.status = Last(old.history)
          /\ kind # "correct" => old.history = item.history
      BY <1>2, <1>6, <2>1, <2>3 DEF ReadsItems, Continues, Histories
    <2>7. item.status \in S /\ item.status # NONE /\ item.history \in Seq(S) \ {<<>>}
      BY <1>2, <1>6 DEF Continues
    <2>8. CASE item.status = old.status
      <3>1. h = item.history
        BY <2>5, <2>7, <2>8 DEF StatusHistoryWithChanges, ChangesStatus
      <3> QED
        BY <1>1, <1>2, <2>6, <2>7, <2>8, <3>1 DEF StatusStored
    <2>9. CASE item.status # old.status
      <3>1. h = Append(old.history, item.status)
        BY <2>5, <2>7, <2>9 DEF StatusHistoryWithChanges, ChangesStatus
      <3>2. h \in Seq(S) \ {<<>>} /\ Last(h) = item.status
        <4>1. PICK s \in Seq(S), to \in S : s = old.history /\ to = item.status
          BY <2>6, <2>7
        <4>2. PICK more : more = Append(s, to)
          OBVIOUS
        <4>3. more \in Seq(S) /\ Len(more) = Len(s) + 1 /\ more[Len(s) + 1] = to
          BY <4>2
        <4>4. more # <<>> /\ Last(more) = to
          BY <4>3 DEF Last
        <4> QED
          BY <3>1, <4>1, <4>2, <4>3, <4>4
      <3> QED
        BY <1>1, <1>2, <2>7, <3>2 DEF StatusStored
    <2> QED
      BY <2>8, <2>9
  <1> QED
    BY <1>5, <1>6

(* Items as replace stores them.                                           *)
Stores(kind, items, next) ==
  /\ DOMAIN next = DOMAIN items
  /\ \A i \in DOMAIN items :
       /\ next[i].id = items[i].id /\ next[i].fields = items[i].fields
       /\ kind # "correct" => Last(next[i].history) = StatusStored(items[i])

LEMMA RegsStored ==
  ASSUME NEW kind, NEW stored \in Seq(StoredRegs), NEW existing \in Seq(UpdatedRegs),
         ReadsItems(stored, existing), Distinct(stored),
         NEW items \in Seq(UpdatedRegs), Continues(kind, items, stored),
         FieldsAcceptable(items, {APPROVED})
  PROVE  /\ UpdateStatusHistoryForItems(existing, items) \in Seq(StoredRegs)
         /\ Stores(kind, items, UpdateStatusHistoryForItems(existing, items))
         /\ \A i \in DOMAIN items :
              UpdateStatusHistoryForItems(existing, items)[i].acc = items[i].acc
  <1> DEFINE next == UpdateStatusHistoryForItems(existing, items)
  <1>1. DOMAIN next = DOMAIN items
    BY DEF UpdateStatusHistoryForItems
  <1>2. ASSUME NEW i \in DOMAIN items
        PROVE  /\ next[i] \in StoredRegs /\ next[i].id = items[i].id
               /\ next[i].fields = items[i].fields /\ next[i].acc = items[i].acc
               /\ kind # "correct" => Last(next[i].history) = StatusStored(items[i])
    <2>1. PICK item \in UpdatedRegs : item = items[i]
      OBVIOUS
    <2>2. PICK h : h = NextHistory(existing, items, i)
      OBVIOUS
    <2>3. /\ h \in Seq(REGISTRATION_STATUS) \ {<<>>}
          /\ kind # "correct" => Last(h) = StatusStored(item)
      <3>1. CREATED \in REGISTRATION_STATUS /\ NONE \notin REGISTRATION_STATUS
        BY StatusesNamed DEF REGISTRATION_STATUS
      <3>2. Histories(stored, REGISTRATION_STATUS)
        <4>1. \A k \in DOMAIN stored : stored[k] \in StoredRegs
          OBVIOUS
        <4> QED
          BY ONLY <4>1 DEF StoredRegs, Histories
      <3>3. items[i].status \in REGISTRATION_STATUS \cup {NONE} /\ items[i].history \in Seq(REGISTRATION_STATUS)
        BY <2>1 DEF UpdatedRegs
      <3>4. /\ NextHistory(existing, items, i) \in Seq(REGISTRATION_STATUS) \ {<<>>}
            /\ kind # "correct" => Last(NextHistory(existing, items, i)) = StatusStored(items[i])
        <4>1. UpdatesItem(kind, REGISTRATION_STATUS, UpdatedRegs, stored, existing, items, i)
          BY <3>1, <3>2, <3>3 DEF UpdatesItem
        <4> QED
          BY <4>1, HistoryFollows
      <3> QED
        BY <2>1, <2>2, <3>4
    <2>4. next[i] = WithoutStatus([item EXCEPT !.history = h])
      BY <2>1, <2>2 DEF UpdateStatusHistoryForItems, NextHistory
    <2>5. MALFORMED \notin item.fields
      BY <2>1 DEF FieldsAcceptable
    <2>6. PICK stays : stays = WithoutStatus([item EXCEPT !.history = h])
      OBVIOUS
    <2>7. stays = [id |-> item.id, history |-> h, fields |-> item.fields, acc |-> item.acc,
                   sites |-> item.sites]
      BY <2>6 DEF WithoutStatus, UpdatedRegs
    <2>8. stays \in StoredRegs
      BY <2>3, <2>5, <2>7 DEF StoredRegs, UpdatedRegs
    <2> HIDE DEF next
    <2> QED
      BY <2>1, <2>3, <2>4, <2>6, <2>7, <2>8
  <1> HIDE DEF next
  <1>3. next \in Seq(StoredRegs)
    <2>1. DOMAIN next = 1..Len(items) /\ Len(items) \in Nat
      BY <1>1
    <2>2. next = [i \in DOMAIN next |-> next[i]]
      BY DEF next, UpdateStatusHistoryForItems
    <2>3. next \in [1..Len(items) -> StoredRegs]
      BY <1>1, <1>2, <2>1, <2>2
    <2> QED
      BY <2>1, <2>3
  <1>4. Stores(kind, items, next) /\ \A i \in DOMAIN items : next[i].acc = items[i].acc
    BY <1>1, <1>2 DEF Stores
  <1> QED
    BY <1>3, <1>4 DEF next

LEMMA AccsStored ==
  ASSUME NEW kind, NEW stored \in Seq(StoredAccs), NEW existing \in Seq(UpdatedAccs),
         ReadsItems(stored, existing), Distinct(stored),
         NEW items \in Seq(UpdatedAccs), Continues(kind, items, stored),
         \A i \in DOMAIN items : MALFORMED \notin items[i].fields
  PROVE  /\ UpdateStatusHistoryForItems(existing, items) \in Seq(StoredAccs)
         /\ Stores(kind, items, UpdateStatusHistoryForItems(existing, items))
  <1> DEFINE next == UpdateStatusHistoryForItems(existing, items)
  <1>1. DOMAIN next = DOMAIN items
    BY DEF UpdateStatusHistoryForItems
  <1>2. ASSUME NEW i \in DOMAIN items
        PROVE  /\ next[i] \in StoredAccs /\ next[i].id = items[i].id
               /\ next[i].fields = items[i].fields
               /\ kind # "correct" => Last(next[i].history) = StatusStored(items[i])
    <2>1. PICK item \in UpdatedAccs : item = items[i]
      OBVIOUS
    <2>2. PICK h : h = NextHistory(existing, items, i)
      OBVIOUS
    <2>3. /\ h \in Seq(ACCREDITATION_STATUS) \ {<<>>}
          /\ kind # "correct" => Last(h) = StatusStored(item)
      <3>1. CREATED \in ACCREDITATION_STATUS /\ NONE \notin ACCREDITATION_STATUS
        BY StatusesNamed DEF ACCREDITATION_STATUS
      <3>2. Histories(stored, ACCREDITATION_STATUS)
        <4>1. \A k \in DOMAIN stored : stored[k] \in StoredAccs
          OBVIOUS
        <4> QED
          BY ONLY <4>1 DEF StoredAccs, Histories
      <3>3. items[i].status \in ACCREDITATION_STATUS \cup {NONE} /\ items[i].history \in Seq(ACCREDITATION_STATUS)
        BY <2>1 DEF UpdatedAccs
      <3>4. /\ NextHistory(existing, items, i) \in Seq(ACCREDITATION_STATUS) \ {<<>>}
            /\ kind # "correct" => Last(NextHistory(existing, items, i)) = StatusStored(items[i])
        <4>1. UpdatesItem(kind, ACCREDITATION_STATUS, UpdatedAccs, stored, existing, items, i)
          BY <3>1, <3>2, <3>3 DEF UpdatesItem
        <4> QED
          BY <4>1, HistoryFollows
      <3> QED
        BY <2>1, <2>2, <3>4
    <2>4. next[i] = WithoutStatus([item EXCEPT !.history = h])
      BY <2>1, <2>2 DEF UpdateStatusHistoryForItems, NextHistory
    <2>5. MALFORMED \notin item.fields
      BY <2>1
    <2>6. PICK stays : stays = WithoutStatus([item EXCEPT !.history = h])
      OBVIOUS
    <2>7. stays = [id |-> item.id, history |-> h, fields |-> item.fields]
      BY <2>6 DEF WithoutStatus, UpdatedAccs
    <2>8. stays \in StoredAccs
      BY <2>3, <2>5, <2>7 DEF StoredAccs, UpdatedAccs
    <2> HIDE DEF next
    <2> QED
      BY <2>1, <2>3, <2>4, <2>6, <2>7, <2>8
  <1> HIDE DEF next
  <1>3. next \in Seq(StoredAccs)
    <2>1. DOMAIN next = 1..Len(items) /\ Len(items) \in Nat
      BY <1>1
    <2>2. next = [i \in DOMAIN next |-> next[i]]
      BY DEF next, UpdateStatusHistoryForItems
    <2>3. next \in [1..Len(items) -> StoredAccs]
      BY <1>1, <1>2, <2>1, <2>2
    <2> QED
      BY <2>1, <2>3
  <1>4. Stores(kind, items, next)
    BY <1>1, <1>2 DEF Stores
  <1> QED
    BY <1>3, <1>4 DEF next
-----------------------------------------------------------------------------
(* What replace stores is what validation accepted.                        *)

(* accs with those of cancelled registrations cancelled.                   *)
IsCascaded(regs, accs, cascaded) ==
  /\ DOMAIN cascaded = DOMAIN accs
  /\ \A j \in DOMAIN accs :
       /\ cascaded[j].id = accs[j].id /\ cascaded[j].fields = accs[j].fields
       /\ cascaded[j].history = accs[j].history
       /\ cascaded[j].status = IF accs[j].id \in CascadeCancelledIds(regs, accs)
                               THEN CANCELLED ELSE accs[j].status

LEMMA CascadeOf ==
  ASSUME NEW regs, NEW accs \in Seq(UpdatedAccs)
  PROVE  /\ ApplyRegistrationStatusToLinkedAccreditations(regs, accs) \in Seq(UpdatedAccs)
         /\ IsCascaded(regs, accs, ApplyRegistrationStatusToLinkedAccreditations(regs, accs))
  <1> DEFINE ids == CascadeCancelledIds(regs, accs)
             cascaded == ApplyRegistrationStatusToLinkedAccreditations(regs, accs)
  <1>1. cascaded = [j \in DOMAIN accs |->
                      IF accs[j].id \in ids THEN [accs[j] EXCEPT !.status = CANCELLED]
                      ELSE accs[j]]
    BY DEF ApplyRegistrationStatusToLinkedAccreditations
  <1> HIDE DEF cascaded, ids
  <1>2. CANCELLED \in ACCREDITATION_STATUS
    BY DEF ACCREDITATION_STATUS
  <1>3. ASSUME NEW acc \in UpdatedAccs
        PROVE  /\ [acc EXCEPT !.status = CANCELLED] \in UpdatedAccs
               /\ [acc EXCEPT !.status = CANCELLED].id = acc.id
               /\ [acc EXCEPT !.status = CANCELLED].fields = acc.fields
               /\ [acc EXCEPT !.status = CANCELLED].history = acc.history
               /\ [acc EXCEPT !.status = CANCELLED].status = CANCELLED
    BY <1>2 DEF UpdatedAccs
  <1>4. ASSUME NEW j \in DOMAIN accs
        PROVE  /\ cascaded[j] \in UpdatedAccs
               /\ cascaded[j].id = accs[j].id /\ cascaded[j].fields = accs[j].fields
               /\ cascaded[j].history = accs[j].history
               /\ cascaded[j].status = IF accs[j].id \in ids THEN CANCELLED ELSE accs[j].status
    BY <1>1, <1>3
  <1>5. cascaded \in [1..Len(accs) -> UpdatedAccs] /\ Len(accs) \in Nat
    BY <1>1, <1>4
  <1>6. cascaded \in Seq(UpdatedAccs) /\ DOMAIN cascaded = DOMAIN accs
    BY <1>1, <1>5
  <1>7. IsCascaded(regs, accs, cascaded)
    BY <1>4, <1>6 DEF IsCascaded, ids
  <1> QED
    BY <1>6, <1>7 DEF cascaded

(* Only an accreditation that was approved or suspended is cancelled.      *)
LEMMA CascadedWereActive ==
  ASSUME NEW regs, NEW accs, Distinct(accs), NEW j \in DOMAIN accs,
         accs[j].id \in CascadeCancelledIds(regs, accs)
  PROVE  accs[j].status \in ACTIVE_ACCREDITATION_STATUSES
  BY DEF Distinct, CascadeCancelledIds

LEMMA CascadedContinues ==
  ASSUME NEW kind, NEW regs, NEW accs, NEW stored, NEW cascaded, IsCascaded(regs, accs, cascaded),
         Continues(kind, accs, stored)
  PROVE  Continues(kind, cascaded, stored)
  <1>1. CANCELLED # NONE /\ NONE \notin ACTIVE_ACCREDITATION_STATUSES
    BY DEF CANCELLED, NONE, ACTIVE_ACCREDITATION_STATUSES, APPROVED, SUSPENDED
  <1>2. Distinct(accs)
    BY DEF Continues
  <1>3. Distinct(cascaded)
    BY <1>2 DEF IsCascaded, Distinct
  <1>4. \A j \in DOMAIN accs : (cascaded[j].status = NONE) <=> (accs[j].status = NONE)
    BY <1>1, <1>2, CascadedWereActive DEF IsCascaded
  <1> QED
    BY <1>3, <1>4 DEF IsCascaded, Continues

(* Every item as validation saw it, new items created.                     *)
LEMMA AcceptedIsCoherent ==
  ASSUME NEW existing, NEW update \in Updates, UpdateAcceptable(existing, update),
         Distinct(update.accs), NEW cascaded \in Seq(UpdatedAccs),
         cascaded = ApplyRegistrationStatusToLinkedAccreditations(update.regs, update.accs),
         NEW next \in StoredDocs, NEW read, IsRead(next, read),
         Stores("put", update.regs, next.regs), Stores("put", cascaded, next.accs),
         \A i \in DOMAIN update.regs : next.regs[i].acc = update.regs[i].acc
  PROVE  Coherent(read)
  <1>1. PICK regs, accs, newRegs, newAccs :
          regs = update.regs /\ accs = update.accs /\ newRegs = read.regs /\ newAccs = read.accs
    OBVIOUS
  <1>2. regs \in Seq(UpdatedRegs) /\ accs \in Seq(UpdatedAccs) /\ IsCascaded(regs, accs, cascaded)
    BY <1>1, CascadeOf DEF Updates
  <1>3. newRegs \in Seq(UpdatedRegs) /\ newAccs \in Seq(UpdatedAccs)
    BY <1>1 DEF IsRead, Updates
  <1>4. /\ DOMAIN newRegs = DOMAIN regs
        /\ \A i \in DOMAIN regs :
             /\ newRegs[i].id = regs[i].id /\ newRegs[i].fields = regs[i].fields
             /\ newRegs[i].acc = regs[i].acc /\ newRegs[i].status = StatusStored(regs[i])
    BY <1>1 DEF IsRead, Stores
  <1>5. /\ DOMAIN newAccs = DOMAIN accs /\ DOMAIN newAccs = DOMAIN cascaded
        /\ \A j \in DOMAIN accs :
             /\ newAccs[j].id = cascaded[j].id /\ newAccs[j].fields = cascaded[j].fields
             /\ newAccs[j].status = StatusStored(cascaded[j]) /\ cascaded[j].id = accs[j].id
             /\ cascaded[j].fields = accs[j].fields
             /\ cascaded[j].status = IF accs[j].id \in CascadeCancelledIds(regs, accs)
                                     THEN CANCELLED ELSE accs[j].status
    BY <1>1, <1>2 DEF IsRead, Stores, IsCascaded
  <1>6. /\ NONE \notin {APPROVED, SUSPENDED, CANCELLED, CREATED}
        /\ CREATED \notin {APPROVED, SUSPENDED, CANCELLED}
        /\ CANCELLED \notin {APPROVED, SUSPENDED}
    BY DEF NONE, APPROVED, SUSPENDED, CANCELLED, CREATED
  <1>7. \A s \in {APPROVED, SUSPENDED, CANCELLED} : \A item : StatusStored(item) = s <=> item.status = s
    BY <1>6 DEF StatusStored
  <1>8. /\ FieldsAcceptable(regs, {APPROVED})
        /\ FieldsAcceptable(accs, ACTIVE_ACCREDITATION_STATUSES)
        /\ AccreditationLinkUniqueness(regs)
        /\ AccreditationLinkExists(regs, cascaded)
        /\ AccreditationLinkMatches(regs, cascaded)
        /\ ValidateApprovals(regs, cascaded)
    BY <1>1 DEF UpdateAcceptable
  <1>9. \A id : HasItem(newAccs, id) <=> HasItem(cascaded, id)
    BY <1>5 DEF HasItem, Ids
  <1>10. FieldsAcceptable(newRegs, {APPROVED})
    BY <1>4, <1>7, <1>8 DEF FieldsAcceptable
  <1>11. FieldsAcceptable(newAccs, ACTIVE_ACCREDITATION_STATUSES)
    BY <1>5, <1>6, <1>7, <1>8 DEF FieldsAcceptable, ACTIVE_ACCREDITATION_STATUSES
  <1>12. LinkedRegistrations(newRegs) = LinkedRegistrations(regs)
    BY <1>4 DEF LinkedRegistrations
  <1>13. \A i \in LinkedRegistrations(regs) : i \in DOMAIN regs
    BY DEF LinkedRegistrations
  <1>14. AccreditationLinkUniqueness(newRegs)
    BY <1>4, <1>8, <1>12, <1>13 DEF AccreditationLinkUniqueness
  <1>15. AccreditationLinkExists(newRegs, newAccs)
    BY <1>4, <1>8, <1>9, <1>12, <1>13 DEF AccreditationLinkExists
  <1>16. AccreditationLinkMatches(newRegs, newAccs)
    <2> SUFFICES ASSUME NEW i \in LinkedRegistrations(regs), HasItem(newAccs, regs[i].acc)
                 PROVE  IsAccreditationForRegistration(Find(newAccs, regs[i].acc), newRegs[i])
      BY <1>4, <1>12, <1>13 DEF AccreditationLinkMatches
    <2>1. Find(newAccs, regs[i].acc).id = regs[i].acc
      BY <1>3, Finding
    <2>2. HasItem(cascaded, regs[i].acc)
      BY <1>9
    <2>3. Find(cascaded, regs[i].acc).id = regs[i].acc
      BY <2>2, Finding
    <2>4. IsAccreditationForRegistration(Find(cascaded, regs[i].acc), regs[i])
      BY <1>8, <2>2 DEF AccreditationLinkMatches
    <2>5. newRegs[i].id = regs[i].id
      BY <1>4, <1>13
    <2> QED
      BY <2>1, <2>3, <2>4, <2>5 DEF IsAccreditationForRegistration
  <1>17. AccreditationsHaveApprovedRegistration(newRegs, newAccs)
    <2> SUFFICES ASSUME NEW j \in DOMAIN newAccs, newAccs[j].status = APPROVED
                 PROVE  \E i \in DOMAIN newRegs :
                          /\ newRegs[i].acc = newAccs[j].id /\ newRegs[i].status = APPROVED
                          /\ IsAccreditationForRegistration(newAccs[j], newRegs[i])
      BY DEF AccreditationsHaveApprovedRegistration
    <2>1. j \in DOMAIN cascaded /\ cascaded[j].status = APPROVED /\ newAccs[j].id = cascaded[j].id
      BY <1>5, <1>7
    <2>2. PICK i \in DOMAIN regs :
            /\ regs[i].acc = cascaded[j].id /\ regs[i].status = APPROVED
            /\ IsAccreditationForRegistration(cascaded[j], regs[i])
      BY <1>8, <2>1 DEF ValidateApprovals, AccreditationsHaveApprovedRegistration
    <2> QED
      BY <1>4, <1>7, <2>1, <2>2 DEF IsAccreditationForRegistration
  <1>18. NoDuplicateApprovals(newAccs)
    BY <1>5, <1>7, <1>8 DEF ValidateApprovals, NoDuplicateApprovals
  <1>19. NoDuplicateApprovals(newRegs)
    BY <1>4, <1>7, <1>8 DEF ValidateApprovals, NoDuplicateApprovals
  <1>20. CascadeCancelledIds(newRegs, newAccs) = {}
    <2> SUFFICES ASSUME NEW k \in DOMAIN newAccs, NEW i \in DOMAIN newRegs,
                        newAccs[k].status \in ACTIVE_ACCREDITATION_STATUSES,
                        newRegs[i].acc = newAccs[k].id, newRegs[i].status = CANCELLED
                 PROVE  FALSE
      BY DEF CascadeCancelledIds
    <2>1. cascaded[k].status \in {APPROVED, SUSPENDED}
      BY <1>5, <1>7 DEF ACTIVE_ACCREDITATION_STATUSES
    <2>2. accs[k].id \notin CascadeCancelledIds(regs, accs) /\ accs[k].status \in {APPROVED, SUSPENDED}
      BY <1>5, <1>6, <2>1
    <2>3. regs[i].acc = accs[k].id /\ regs[i].status = CANCELLED /\ k \in DOMAIN accs /\ i \in DOMAIN regs
      BY <1>4, <1>5, <1>7
    <2> QED
      BY <2>2, <2>3 DEF CascadeCancelledIds, ACTIVE_ACCREDITATION_STATUSES
  <1> QED
    BY <1>1, <1>10, <1>11, <1>14, <1>15, <1>16, <1>17, <1>18, <1>19, <1>20
       DEF Coherent, ValidateApprovals
LEMMA UsersCollated ==
  ASSUME NEW users \in SUBSET Listed, NEW status,
         NEW regs \in Seq(StoredRegs), NEW accs \in Seq(StoredAccs)
  PROVE  CollateUsers(users, status, regs, accs) \in SUBSET Listed
  <1>1. \A who \in Users : \A s : GetUserRolesForStatus(who, s) \in Listed
    <2> SUFFICES ASSUME NEW who \in Users, NEW s PROVE GetUserRolesForStatus(who, s) \in Listed
      OBVIOUS
    <2>1. (s \in {CREATED, APPROVED}) \in BOOLEAN
      OBVIOUS
    <2> QED
      BY <2>1 DEF GetUserRolesForStatus, Listed
  <1>2. /\ \A i \in DOMAIN regs : Contact[regs[i].id] \in Users
        /\ \A j \in DOMAIN accs : Contact[accs[j].id] \in Users
    <2>1. /\ \A i \in DOMAIN regs : regs[i] \in StoredRegs
          /\ \A j \in DOMAIN accs : accs[j] \in StoredAccs
      OBVIOUS
    <2> QED
      BY <2>1, ContactAssumption DEF StoredRegs, StoredAccs
  <1>3. CollateItems(regs) \cup CollateItems(accs) \in SUBSET Listed
    BY <1>1, <1>2 DEF CollateItems
  <1>4. {GetUserRolesForStatus(Submitter, status)} \in SUBSET Listed
    BY <1>1, ContactAssumption
  <1>5. \A listed, more \in SUBSET Listed : DeduplicateUsers(listed, more) \in SUBSET Listed
    BY DEF DeduplicateUsers
  <1> QED
    BY <1>3, <1>4, <1>5 DEF CollateUsers

LEMMA OrganisationHistoryStored ==
  ASSUME NEW existing, existing.history \in Seq(ORGANISATION_STATUS) \ {<<>>},
         NEW status \in ORGANISATION_STATUS
  PROVE  StatusHistoryWithChanges([status |-> status, history |-> <<>>], existing)
           \in Seq(ORGANISATION_STATUS) \ {<<>>}
  <1>1. PICK old \in Seq(ORGANISATION_STATUS) \ {<<>>} : old = existing.history
    OBVIOUS
  <1>2. PICK item : item = [status |-> status, history |-> <<>>]
    OBVIOUS
  <1>3. item.status = status /\ item.history = <<>>
    BY <1>2
  <1>4. PICK more : more = Append(old, status)
    OBVIOUS
  <1>5. more \in Seq(ORGANISATION_STATUS) /\ more # <<>>
    <2>1. more \in Seq(ORGANISATION_STATUS) /\ Len(more) = Len(old) + 1 /\ Len(old) \in Nat
      BY <1>4
    <2> QED
      BY <2>1
  <1>6. StatusHistoryWithChanges(item, existing) \in {more, old}
    BY <1>1, <1>3, <1>4 DEF StatusHistoryWithChanges
  <1> QED
    BY <1>2, <1>5, <1>6

LEMMA StoresDistinct ==
  ASSUME NEW kind, NEW items, NEW next, Distinct(items), Stores(kind, items, next)
  PROVE  Distinct(next)
  BY DEF Distinct, Stores

LEMMA Prepared ==
  ASSUME Inv, NEW q \in Requests, req[q] # Idle, req[q].kind \in Replacing,
         req[q].version = Doc.version, UpdateAcceptable(Read, req[q].update),
         NEW next, next = PrepareForReplace(Read, req[q].update)
  PROVE  /\ next \in StoredDocs /\ next.version = Doc.version + 1
         /\ Distinct(next.regs) /\ Distinct(next.accs)
         /\ req[q].kind # "correct" => Coherent(MapDocumentWithCurrentStatuses(next))
  <1>1. PICK kind, update, doc, read :
          kind = req[q].kind /\ update = req[q].update /\ doc = Doc /\ read = Read
    OBVIOUS
  <1>2. /\ doc.version < MaxVersion /\ update \in Updates
        /\ Continues(kind, update.regs, doc.regs) /\ Continues(kind, update.accs, doc.accs)
        /\ Distinct(doc.regs) /\ Distinct(doc.accs)
    BY <1>1 DEF Inv, Holds
  <1>3. doc \in StoredDocs /\ IsRead(doc, read) /\ UpdateAcceptable(read, update)
    BY <1>1, ReadOfDoc DEF Inv
  <1>4. PICK cascaded :
          cascaded = ApplyRegistrationStatusToLinkedAccreditations(update.regs, update.accs)
    OBVIOUS
  <1>5. /\ update.regs \in Seq(UpdatedRegs) /\ update.accs \in Seq(UpdatedAccs)
        /\ cascaded \in Seq(UpdatedAccs) /\ IsCascaded(update.regs, update.accs, cascaded)
    <2>1. update.regs \in Seq(UpdatedRegs) /\ update.accs \in Seq(UpdatedAccs)
      BY <1>2 DEF Updates
    <2> QED
      BY <1>4, <2>1, CascadeOf
  <1>6. Continues(kind, cascaded, doc.accs)
    BY <1>2, <1>5, CascadedContinues
  <1>7. PICK regs, accs : /\ regs = UpdateStatusHistoryForItems(read.regs, update.regs)
                          /\ accs = UpdateStatusHistoryForItems(read.accs, cascaded)
    OBVIOUS
  <1>8. /\ doc.regs \in Seq(StoredRegs) /\ doc.accs \in Seq(StoredAccs)
        /\ read.regs \in Seq(UpdatedRegs) /\ read.accs \in Seq(UpdatedAccs)
        /\ doc.version \in 1..MaxVersion /\ read.version = doc.version
        /\ read.history = doc.history
        /\ doc.history \in Seq(ORGANISATION_STATUS) \ {<<>>}
    BY <1>3 DEF StoredDocs, IsRead, Updates
  <1>9. ReadsItems(doc.regs, read.regs) /\ ReadsItems(doc.accs, read.accs)
    BY <1>3 DEF IsRead, ReadsItems
  <1>10. FieldsAcceptable(update.regs, {APPROVED})
    BY <1>3 DEF UpdateAcceptable
  <1>11. \A j \in DOMAIN cascaded : MALFORMED \notin cascaded[j].fields
    BY <1>3, <1>5 DEF UpdateAcceptable, FieldsAcceptable, IsCascaded
  <1>12. /\ regs \in Seq(StoredRegs) /\ Stores(kind, update.regs, regs)
         /\ \A i \in DOMAIN update.regs : regs[i].acc = update.regs[i].acc
    <2>1. PICK stored, existing, items :
            stored = doc.regs /\ existing = read.regs /\ items = update.regs
      OBVIOUS
    <2>2. /\ stored \in Seq(StoredRegs) /\ existing \in Seq(UpdatedRegs)
          /\ items \in Seq(UpdatedRegs) /\ ReadsItems(stored, existing) /\ Distinct(stored)
          /\ Continues(kind, items, stored) /\ FieldsAcceptable(items, {APPROVED})
      BY <1>2, <1>5, <1>8, <1>9, <1>10, <2>1
    <2>3. regs = UpdateStatusHistoryForItems(existing, items)
      BY <1>7, <2>1
    <2>4. /\ regs \in Seq(StoredRegs) /\ Stores(kind, items, regs)
          /\ \A i \in DOMAIN items : regs[i].acc = items[i].acc
      BY ONLY <2>2, <2>3, RegsStored
    <2> QED
      BY <2>1, <2>4
  <1>13. accs \in Seq(StoredAccs) /\ Stores(kind, cascaded, accs)
    BY <1>2, <1>5, <1>6, <1>7, <1>8, <1>9, <1>11, AccsStored
  <1>14. PICK history :
           history = StatusHistoryWithChanges([status |-> update.status, history |-> <<>>], read)
    OBVIOUS
  <1>15. history \in Seq(ORGANISATION_STATUS) \ {<<>>}
    <2>1. update.status \in ORGANISATION_STATUS
      BY <1>2 DEF Updates
    <2> QED
      BY <1>8, <1>14, <2>1, OrganisationHistoryStored
  <1>16. PICK users : users = CollateUsers(update.users, Last(history), regs, accs)
    OBVIOUS
  <1>17. users \in SUBSET Listed
    <2>1. update.users \in SUBSET Listed
      BY <1>2 DEF Updates
    <2> QED
      BY <1>12, <1>13, <1>16, <2>1, UsersCollated
  <1>18. next = [version |-> read.version + 1, history |-> history, link |-> update.link,
                 regs |-> regs, accs |-> accs, users |-> users]
    BY <1>1, <1>4, <1>7, <1>14, <1>16 DEF PrepareForReplace
  <1>19. read.version + 1 \in 1..MaxVersion
    BY <1>2, <1>8, BoundAssumption
  <1>20. update.link \in Tenants \cup {NotLinked}
    BY <1>2 DEF Updates
  <1>21. /\ next \in StoredDocs /\ next.version = doc.version + 1
         /\ next.regs = regs /\ next.accs = accs
    BY <1>8, <1>12, <1>13, <1>15, <1>17, <1>18, <1>19, <1>20 DEF StoredDocs
  <1>22. Distinct(regs) /\ Distinct(accs)
    BY <1>2, <1>6, <1>12, <1>13, StoresDistinct DEF Continues
  <1>23. ASSUME kind # "correct" PROVE Coherent(MapDocumentWithCurrentStatuses(next))
    <2>1. PICK after : after = MapDocumentWithCurrentStatuses(next)
      OBVIOUS
    <2>2. IsRead(next, after)
      BY <1>21, <2>1, Reading
    <2>3. Stores("put", update.regs, next.regs) /\ Stores("put", cascaded, next.accs)
      BY <1>12, <1>13, <1>21, <1>23 DEF Stores
    <2>4. Distinct(update.accs) /\ \A i \in DOMAIN update.regs : next.regs[i].acc = update.regs[i].acc
      BY <1>2, <1>12, <1>21 DEF Continues
    <2> QED
      BY <1>2, <1>3, <1>4, <1>5, <1>21, <2>1, <2>2, <2>3, <2>4, AcceptedIsCoherent
  <1> QED
    BY <1>1, <1>21, <1>22, <1>23

LEMMA Storing ==
  ASSUME Typed, NEW d \in StoredDocs, Store(d)
  PROVE  docs' \in Seq(StoredDocs) /\ Len(docs') \in 1..(MaxLag + 1) /\ Doc' = d
  <1>1. PICK all : all = <<d>> \o docs
    OBVIOUS
  <1>2. all \in Seq(StoredDocs) /\ Len(all) = Len(docs) + 1 /\ all[1] = d
    BY <1>1 DEF Typed
  <1>3. PICK n : n = IF Len(docs) > MaxLag THEN MaxLag + 1 ELSE Len(docs) + 1
    OBVIOUS
  <1>4. n \in 1..Len(all) /\ n \in 1..(MaxLag + 1)
    BY <1>2, <1>3, BoundAssumption DEF Typed
  <1>5. docs' = SubSeq(all, 1, n)
    BY <1>1, <1>3 DEF Store
  <1>6. docs' \in Seq(StoredDocs) /\ Len(docs') = n /\ docs'[1] = all[1]
    BY <1>2, <1>4, <1>5
  <1> QED
    BY <1>2, <1>4, <1>6 DEF Doc
LEMMA GivenUp ==
  ASSUME Inv, NEW q \in Requests, req' = [req EXCEPT ![q] = Idle], UNCHANGED <<docs, corrected>>
  PROVE  Inv'
  <1>1. Doc' = Doc /\ Read' = Read
    BY DEF Doc, Read
  <1>2. req'[q] = Idle /\ \A p \in Requests \ {q} : req'[p] = req[p]
    BY DEF Inv, Typed
  <1>3. Typed'
    BY DEF Inv, Typed
  <1>4. Holds(q)'
    BY <1>2 DEF Holds
  <1>5. ASSUME NEW p \in Requests \ {q} PROVE Holds(p)'
    BY <1>1, <1>2 DEF Inv, Holds
  <1> QED
    BY <1>1, <1>3, <1>4, <1>5 DEF Inv

(* A write outdates every other request.                                   *)
LEMMA Written ==
  ASSUME Inv, NEW q \in Requests, req' = [req EXCEPT ![q] = Idle], corrected' \in BOOLEAN,
         NEW d \in StoredDocs, Store(d), d.version = Doc.version + 1,
         Distinct(d.regs), Distinct(d.accs),
         ~ corrected' => Coherent(MapDocumentWithCurrentStatuses(d))
  PROVE  Inv'
  <1>1. docs' \in Seq(StoredDocs) /\ Len(docs') \in 1..(MaxLag + 1) /\ Doc' = d
    BY Storing DEF Inv
  <1>2. Typed'
    BY <1>1 DEF Inv, Typed
  <1>3. Read' = MapDocumentWithCurrentStatuses(d)
    BY <1>1 DEF Read
  <1>4. req'[q] = Idle /\ \A p \in Requests \ {q} : req'[p] = req[p]
    BY DEF Inv, Typed
  <1>5. Holds(q)'
    BY <1>4 DEF Holds
  <1>6. Doc.version \in 1..MaxVersion /\ Doc'.version = Doc.version + 1
    BY <1>1, ReadOfDoc DEF Inv, StoredDocs
  <1>7. ASSUME NEW p \in Requests \ {q} PROVE Holds(p)'
    <2> SUFFICES ASSUME req[p] # Idle
                 PROVE  /\ req[p].kind \in Replacing \cup {"sites"}
                        /\ req[p].version \in 1..Doc'.version
                        /\ req[p].version # Doc'.version
                        /\ req[p].kind = "sites" => req[p].sites \subseteq Sites
                        /\ req[p].kind \in Replacing => req[p].update \in Updates
      BY <1>4 DEF Holds
    <2>1. /\ req[p].kind \in Replacing \cup {"sites"} /\ req[p].version \in 1..Doc.version
          /\ req[p].kind = "sites" => req[p].sites \subseteq Sites
          /\ req[p].kind \in Replacing => req[p].update \in Updates
      BY DEF Inv, Holds
    <2>2. req[p].version \in 1..Doc'.version /\ req[p].version # Doc'.version
      BY <1>6, <2>1, BoundAssumption
    <2> QED
      BY <2>1, <2>2
  <1> QED
    BY <1>1, <1>2, <1>3, <1>5, <1>7 DEF Inv

LEMMA ReplaceKeeps ==
  ASSUME Inv, "staleExisting" \notin Disturbances, NEW q \in Requests, Replace(q)
  PROVE  Inv'
  <1>1. req' = [req EXCEPT ![q] = Idle]
    BY DEF Replace
  <1>2. /\ req[q].kind \notin {"idle", "sites"}
        /\ IF ReplaceAccepted(q, Doc)
           THEN /\ Store(PrepareForReplace(Read, req[q].update))
                /\ corrected' = (req[q].kind = "correct")
           ELSE UNCHANGED <<docs, corrected>>
    BY DEF Replace, View, Read
  <1>3. req[q] # Idle /\ req[q].kind \in Replacing
    BY <1>2 DEF Idle, Inv, Holds
  <1>4. CASE ~ ReplaceAccepted(q, Doc)
    BY <1>1, <1>2, <1>4, GivenUp
  <1>5. CASE ReplaceAccepted(q, Doc)
    <2>1. PICK next : next = PrepareForReplace(Read, req[q].update)
      OBVIOUS
    <2>2. req[q].version = Doc.version /\ UpdateAcceptable(Read, req[q].update)
      BY <1>5 DEF ReplaceAccepted, Read
    <2>3. /\ next \in StoredDocs /\ next.version = Doc.version + 1
          /\ Distinct(next.regs) /\ Distinct(next.accs)
          /\ req[q].kind # "correct" => Coherent(MapDocumentWithCurrentStatuses(next))
      BY <1>3, <2>1, <2>2, Prepared
    <2>4. Store(next) /\ corrected' = (req[q].kind = "correct")
      BY <1>2, <1>5, <2>1
    <2>5. corrected' \in BOOLEAN /\ (~ corrected' => req[q].kind # "correct")
      BY <2>4
    <2> QED
      BY <1>1, <2>3, <2>4, <2>5, Written
  <1> QED
    BY <1>4, <1>5

(* Sites are no part of what must agree.                                   *)
LEMMA SameButSites ==
  ASSUME NEW doc, NEW other, Coherent(doc), other.accs = doc.accs,
         DOMAIN other.regs = DOMAIN doc.regs,
         \A i \in DOMAIN doc.regs :
           /\ other.regs[i].id = doc.regs[i].id /\ other.regs[i].fields = doc.regs[i].fields
           /\ other.regs[i].acc = doc.regs[i].acc /\ other.regs[i].status = doc.regs[i].status
  PROVE  Coherent(other)
  <1>1. PICK regs, accs, now : regs = doc.regs /\ accs = doc.accs /\ now = other.regs
    OBVIOUS
  <1>2. /\ DOMAIN now = DOMAIN regs
        /\ \A i \in DOMAIN regs :
             /\ now[i].id = regs[i].id /\ now[i].fields = regs[i].fields
             /\ now[i].acc = regs[i].acc /\ now[i].status = regs[i].status
    BY <1>1
  <1>3. /\ FieldsAcceptable(regs, {APPROVED})
        /\ FieldsAcceptable(accs, ACTIVE_ACCREDITATION_STATUSES)
        /\ AccreditationLinkUniqueness(regs)
        /\ AccreditationLinkExists(regs, accs)
        /\ AccreditationLinkMatches(regs, accs)
        /\ ValidateApprovals(regs, accs)
        /\ CascadeCancelledIds(regs, accs) = {}
    BY <1>1 DEF Coherent
  <1>4. FieldsAcceptable(now, {APPROVED})
    BY <1>2, <1>3 DEF FieldsAcceptable
  <1>5. LinkedRegistrations(now) = LinkedRegistrations(regs)
    BY <1>2 DEF LinkedRegistrations
  <1>6. \A i \in LinkedRegistrations(regs) : i \in DOMAIN regs
    BY DEF LinkedRegistrations
  <1>7. AccreditationLinkUniqueness(now) /\ AccreditationLinkExists(now, accs)
    BY <1>2, <1>3, <1>5, <1>6 DEF AccreditationLinkUniqueness, AccreditationLinkExists
  <1>8. AccreditationLinkMatches(now, accs)
    BY <1>2, <1>3, <1>5, <1>6 DEF AccreditationLinkMatches, IsAccreditationForRegistration
  <1>9. AccreditationsHaveApprovedRegistration(now, accs)
    BY <1>2, <1>3 DEF ValidateApprovals, AccreditationsHaveApprovedRegistration,
                      IsAccreditationForRegistration
  <1>10. NoDuplicateApprovals(now) /\ NoDuplicateApprovals(accs)
    BY <1>2, <1>3 DEF ValidateApprovals, NoDuplicateApprovals
  <1>11. CascadeCancelledIds(now, accs) = {}
    BY <1>2, <1>3 DEF CascadeCancelledIds
  <1> QED
    BY <1>1, <1>3, <1>4, <1>7, <1>8, <1>9, <1>10, <1>11 DEF Coherent, ValidateApprovals

LEMMA SitesReplaced ==
  ASSUME NEW regs \in Seq(StoredRegs), NEW ids, NEW sites \in SUBSET Sites
  PROVE  /\ WithSites(regs, ids, sites) \in Seq(StoredRegs)
         /\ DOMAIN WithSites(regs, ids, sites) = DOMAIN regs
         /\ \A i \in DOMAIN regs :
              /\ WithSites(regs, ids, sites)[i].id = regs[i].id
              /\ WithSites(regs, ids, sites)[i].fields = regs[i].fields
              /\ WithSites(regs, ids, sites)[i].acc = regs[i].acc
              /\ WithSites(regs, ids, sites)[i].history = regs[i].history
  <1>1. PICK now : now = WithSites(regs, ids, sites)
    OBVIOUS
  <1>2. now = [i \in DOMAIN regs |-> IF regs[i].id \in ids THEN [regs[i] EXCEPT !.sites = sites]
                                     ELSE regs[i]]
    BY <1>1 DEF WithSites
  <1>3. ASSUME NEW reg \in StoredRegs
        PROVE  /\ [reg EXCEPT !.sites = sites] \in StoredRegs
               /\ [reg EXCEPT !.sites = sites].id = reg.id
               /\ [reg EXCEPT !.sites = sites].fields = reg.fields
               /\ [reg EXCEPT !.sites = sites].acc = reg.acc
               /\ [reg EXCEPT !.sites = sites].history = reg.history
    BY DEF StoredRegs
  <1>4. \A i \in DOMAIN regs :
          /\ now[i] \in StoredRegs /\ now[i].id = regs[i].id /\ now[i].fields = regs[i].fields
          /\ now[i].acc = regs[i].acc /\ now[i].history = regs[i].history
    BY <1>2, <1>3
  <1>5. now \in [1..Len(regs) -> StoredRegs] /\ Len(regs) \in Nat
    BY <1>2, <1>4
  <1>6. now \in Seq(StoredRegs) /\ DOMAIN now = DOMAIN regs
    BY <1>2, <1>5
  <1> QED
    BY <1>1, <1>4, <1>6

LEMMA ReadingAccs ==
  ASSUME NEW doc \in StoredDocs
  PROVE  MapDocumentWithCurrentStatuses(doc).accs
           = [j \in DOMAIN doc.accs |-> WithStatus(doc.accs[j])]
  BY DEF MapDocumentWithCurrentStatuses, Spread

LEMMA SitesKeep ==
  ASSUME Inv, NEW q \in Requests, ReplaceRegistrationOverseasSites(q)
  PROVE  Inv'
  <1>1. req' = [req EXCEPT ![q] = Idle] /\ corrected' = corrected /\ req[q].kind = "sites"
    BY DEF ReplaceRegistrationOverseasSites
  <1>2. CASE req[q].version # Doc.version
    BY <1>1, <1>2, GivenUp DEF ReplaceRegistrationOverseasSites
  <1>3. CASE req[q].version = Doc.version
    <2>1. PICK doc, regs : /\ doc = Doc /\ regs = WithSites(Doc.regs, req[q].own, req[q].sites)
      OBVIOUS
    <2>2. PICK d : d = Spread(doc, [version |-> doc.version + 1, regs |-> regs])
      OBVIOUS
    <2>3. Store(d)
      BY <1>3, <2>1, <2>2 DEF ReplaceRegistrationOverseasSites
    <2>4. doc \in StoredDocs /\ IsRead(doc, Read)
      BY <2>1, ReadOfDoc DEF Inv
    <2>5. req[q].sites \in SUBSET Sites /\ doc.version < MaxVersion
      BY <1>1, <1>3, <2>1 DEF Inv, Holds, Idle
    <2>6. doc.regs \in Seq(StoredRegs)
      BY <2>4 DEF StoredDocs
    <2>7. /\ regs \in Seq(StoredRegs) /\ DOMAIN regs = DOMAIN doc.regs
          /\ \A i \in DOMAIN doc.regs :
               /\ regs[i].id = doc.regs[i].id /\ regs[i].fields = doc.regs[i].fields
               /\ regs[i].acc = doc.regs[i].acc /\ regs[i].history = doc.regs[i].history
      BY <2>1, <2>5, <2>6, SitesReplaced
    <2>8. doc.version + 1 \in 1..MaxVersion
      BY <2>4, <2>5, BoundAssumption DEF StoredDocs
    <2>9. /\ d \in StoredDocs /\ d.version = doc.version + 1 /\ d.regs = regs
          /\ d.accs = doc.accs
      BY <2>2, <2>4, <2>7, <2>8 DEF StoredDocs, Spread
    <2>10. Distinct(regs) /\ Distinct(doc.accs)
      BY <2>1, <2>7 DEF Inv, Distinct
    <2>11. ASSUME ~ corrected PROVE Coherent(MapDocumentWithCurrentStatuses(d))
      <3>1. PICK read, after : read = Read /\ after = MapDocumentWithCurrentStatuses(d)
        OBVIOUS
      <3>2. IsRead(d, after) /\ IsRead(doc, read) /\ Coherent(read)
        BY <2>4, <2>9, <2>11, <3>1, Reading DEF Inv
      <3>3. /\ DOMAIN after.regs = DOMAIN read.regs
            /\ \A i \in DOMAIN read.regs :
                 /\ after.regs[i].id = read.regs[i].id
                 /\ after.regs[i].fields = read.regs[i].fields
                 /\ after.regs[i].acc = read.regs[i].acc
                 /\ after.regs[i].status = read.regs[i].status
        BY <2>7, <2>9, <3>2 DEF IsRead
      <3>4. after.accs = read.accs
        <4>1. /\ after.accs = [j \in DOMAIN d.accs |-> WithStatus(d.accs[j])]
              /\ read.accs = [j \in DOMAIN doc.accs |-> WithStatus(doc.accs[j])]
          BY <2>1, <3>1, ReadingAccs, <2>9, <2>4 DEF Read
        <4> QED
          BY <2>9, <4>1
      <3> QED
        BY <3>1, <3>2, <3>3, <3>4, SameButSites
    <2> QED
      BY <1>1, <2>1, <2>3, <2>9, <2>10, <2>11, Written DEF Inv, Typed
  <1> QED
    BY <1>2, <1>3
-----------------------------------------------------------------------------
(* Claiming accreditations: the fold of the migration, one registration    *)
(* after another.                                                          *)

Claim(acc, i, regs, accs) ==
  IF IsLinkedToApprovedAccreditation(regs[i], accs) THEN acc ELSE ClaimAccreditation(acc, i, accs)

NothingClaimed(regs) == [regs |-> regs, claimed |-> GetClaimedAccreditationIds(regs)]

Claiming(g, regs, accs, s) ==
  IF s = {} THEN NothingClaimed(regs) ELSE Claim(g[s \ {Max(s)}], Max(s), regs, accs)

IsClaiming(g, regs, accs) == g = [s \in SUBSET DOMAIN regs |-> Claiming(g, regs, accs, s)]

LEMMA MaxIsMember ==
  ASSUME NEW n \in Nat, NEW s \in SUBSET (1..n), s # {} PROVE Max(s) \in s
  <1> DEFINE f == [x \in s |-> x]
  <1>1. IsFiniteSet(s)
    <2>1. IsFiniteSet(1..n)
      BY FS_Interval
    <2> QED
      BY <2>1, FS_Subset
  <1>2. PICK x \in s : \A y \in s : f[y] <= f[x]
    <2>1. \A y \in s : f[y] \in Nat
      OBVIOUS
    <2> HIDE DEF f
    <2> QED
      BY <1>1, <2>1, Greatest
  <1>3. \A y \in s : x >= y
    BY <1>2
  <1> QED
    BY <1>3 DEF Max

LEMMA ClaimingExists ==
  ASSUME NEW regs, NEW accs, NEW len \in Nat, DOMAIN regs = 1..len
  PROVE  \E g : IsClaiming(g, regs, accs)
  <1> DEFINE S == DOMAIN regs
             Small(n) == {s \in SUBSET S : Cardinality(s) <= n}
             N == {n \in Nat : \E g : g = [s \in Small(n) |-> Claiming(g, regs, accs, s)]}
  <1>1. IsFiniteSet(S) /\ Cardinality(S) \in Nat
    BY FS_Interval, FS_CardinalityType
  <1> HIDE DEF S
  <1>2. \A s \in SUBSET S : IsFiniteSet(s) /\ Cardinality(s) \in Nat /\ Cardinality(s) <= Cardinality(S)
    BY <1>1, FS_Subset, FS_CardinalityType
  <1>3. 0 \in N
    <2> DEFINE g == [s \in Small(0) |-> NothingClaimed(regs)]
    <2>1. \A s \in Small(0) : s = {}
      BY <1>2, FS_EmptySet
    <2>2. \A s \in Small(0) : Claiming(g, regs, accs, s) = NothingClaimed(regs)
      BY <2>1 DEF Claiming
    <2>3. g = [s \in Small(0) |-> Claiming(g, regs, accs, s)]
      BY <2>2
    <2> QED
      BY <2>3
  <1>4. ASSUME NEW n \in Nat, n \in N PROVE n + 1 \in N
    <2>1. PICK g : g = [s \in Small(n) |-> Claiming(g, regs, accs, s)]
      BY <1>4
    <2> DEFINE h == [s \in Small(n + 1) |-> Claiming(g, regs, accs, s)]
    <2>2. ASSUME NEW s \in Small(n + 1), s # {}
          PROVE  s \ {Max(s)} \in Small(n)
      <3>1. Max(s) \in s /\ IsFiniteSet(s) /\ Cardinality(s) \in Nat
        BY <1>2, <2>2, MaxIsMember DEF S
      <3>2. Cardinality(s \ {Max(s)}) = Cardinality(s) - 1
        BY <3>1, FS_RemoveElement
      <3> QED
        BY <3>1, <3>2
    <2>3. \A s \in Small(n) : s \in Small(n + 1)
      BY <1>2
    <2>4. \A s \in Small(n) : h[s] = g[s]
      BY <2>1, <2>3
    <2>5. \A s \in Small(n + 1) : Claiming(h, regs, accs, s) = Claiming(g, regs, accs, s)
      <3> SUFFICES ASSUME NEW s \in Small(n + 1)
                   PROVE  Claiming(h, regs, accs, s) = Claiming(g, regs, accs, s)
        OBVIOUS
      <3>1. s # {} => h[s \ {Max(s)}] = g[s \ {Max(s)}]
        BY <2>2, <2>4
      <3> HIDE DEF h, Small
      <3> QED
        BY <3>1 DEF Claiming
    <2>6. h = [s \in Small(n + 1) |-> Claiming(h, regs, accs, s)]
      BY <2>5
    <2> HIDE DEF h, Small
    <2> QED
      BY <2>6
  <1> HIDE DEF N
  <1>5. Cardinality(S) \in N
    BY <1>1, <1>3, <1>4, SetInduction
  <1>6. Small(Cardinality(S)) = SUBSET S
    BY <1>2
  <1> QED
    BY <1>5, <1>6 DEF N, IsClaiming, S

LEMMA LinksClaimed ==
  ASSUME NEW regs, NEW accs, NEW len \in Nat, DOMAIN regs = 1..len
  PROVE  \E g : /\ IsClaiming(g, regs, accs)
                /\ LinkRegistrationToAccreditations(regs, accs) = g[DOMAIN regs].regs
  <1> DEFINE Step(acc, i) ==
               IF IsLinkedToApprovedAccreditation(regs[i], accs) THEN acc
               ELSE ClaimAccreditation(acc, i, accs)
             base == [regs |-> regs, claimed |-> GetClaimedAccreditationIds(regs)]
             order == [i \in DOMAIN regs |-> i]
             Iter(g) == g = [s \in SUBSET DOMAIN order |->
                               IF s = {} THEN base
                               ELSE Step(g[s \ {Max(s)}], order[Max(s)])]
             g == CHOOSE g : Iter(g)
  <1>1. LinkRegistrationToAccreditations(regs, accs) = g[DOMAIN order].regs
    BY DEF LinkRegistrationToAccreditations, FoldLeftDomain, FoldLeft, MapThenFoldSet
  <1>2. ASSUME NEW f PROVE IsClaiming(f, regs, accs) <=> Iter(f)
    <2>1. DOMAIN order = DOMAIN regs
      OBVIOUS
    <2>2. ASSUME NEW s \in SUBSET DOMAIN regs
          PROVE  Claiming(f, regs, accs, s) = IF s = {} THEN base
                                              ELSE Step(f[s \ {Max(s)}], order[Max(s)])
      <3>1. s # {} => order[Max(s)] = Max(s)
        BY MaxIsMember
      <3> QED
        BY <3>1 DEF Claiming, Claim, NothingClaimed
    <2> HIDE DEF Step, base, order
    <2> QED
      BY <2>1, <2>2 DEF IsClaiming
  <1> HIDE DEF Iter, order
  <1>3. \E f : Iter(f)
    BY <1>2, ClaimingExists
  <1>4. Iter(g)
    BY <1>3
  <1>5. DOMAIN order = DOMAIN regs
    BY DEF order
  <1> HIDE DEF g
  <1> QED
    BY <1>1, <1>2, <1>4, <1>5
(* The latest of several is one of them.                                   *)
LEMMA LatestIsEligible ==
  ASSUME NEW accs \in Seq(UpdatedAccs), NEW eligible \in SUBSET DOMAIN accs, eligible # {}
  PROVE  \E m \in eligible : SelectLatestAccreditation(eligible, accs) = accs[m].id
  <1> DEFINE time == [i \in DOMAIN accs |-> SubmissionTime[accs[i].id]]
             Later(i, j) ==
               \/ SubmissionTime[accs[i].id] > SubmissionTime[accs[j].id]
               \/ SubmissionTime[accs[i].id] = SubmissionTime[accs[j].id] /\ i < j
             chosen == CHOOSE i \in eligible : \A j \in eligible \ {i} : Later(i, j)
  <1>1. SelectLatestAccreditation(eligible, accs) = accs[chosen].id
    BY DEF SelectLatestAccreditation
  <1>2. \A i \in eligible : time[i] \in Nat /\ time[i] = SubmissionTime[accs[i].id]
    <2>1. \A i \in DOMAIN accs : accs[i] \in UpdatedAccs
      OBVIOUS
    <2>2. \A i \in DOMAIN accs : accs[i].id \in Accs
      BY <2>1 DEF UpdatedAccs
    <2> QED
      BY <2>2, SubmissionTimeAssumption
  <1>3. IsFiniteSet(eligible)
    <2>1. IsFiniteSet(1..Len(accs))
      BY FS_Interval
    <2>2. eligible \in SUBSET (1..Len(accs))
      OBVIOUS
    <2> QED
      BY <2>1, <2>2, FS_Subset
  <1> HIDE DEF time, chosen
  <1>4. PICK best \in eligible : \A j \in eligible : time[j] <= time[best]
    <2>1. \A i \in eligible : time[i] \in Nat
      BY <1>2
    <2> QED
      BY <1>3, <2>1, Greatest
  <1>5. PICK ties : ties = {i \in eligible : time[i] = time[best]}
    OBVIOUS
  <1>6. ties \in SUBSET Nat /\ ties # {}
    BY <1>4, <1>5
  <1>7. PICK first \in ties : \A j \in ties : first <= j
    BY <1>6, Least
  <1>8. \A j \in eligible \ {first} : Later(first, j)
    <2> SUFFICES ASSUME NEW j \in eligible \ {first}
                 PROVE  \/ time[first] > time[j]
                        \/ time[first] = time[j] /\ first < j
      BY <1>2, <1>5, <1>7
    <2>1. time[j] \in Nat /\ time[best] \in Nat /\ time[first] = time[best] /\ time[j] <= time[best]
      BY <1>2, <1>4, <1>5, <1>7
    <2>2. CASE time[j] = time[best]
      <3>1. j \in ties /\ first <= j /\ first \in Nat /\ j \in Nat
        BY <1>5, <1>6, <1>7, <2>2
      <3> QED
        BY <2>1, <2>2, <3>1
    <2>3. CASE time[j] # time[best]
      BY <2>1, <2>3
    <2> QED
      BY <2>2, <2>3
  <1>9. chosen \in eligible
    <2>1. first \in eligible
      BY <1>5, <1>7
    <2> HIDE DEF Later
    <2> QED
      BY <1>8, <2>1 DEF chosen
  <1> QED
    BY <1>1, <1>9

(* What a registration may have claimed: an accreditation that is not      *)
(* approved, of its key.                                                   *)
MayClaim(reg, a, accs) ==
  /\ ~ IsLinkedToApprovedAccreditation(reg, accs)
  /\ \E j \in DOMAIN accs : /\ accs[j].id = a /\ accs[j].status # APPROVED
                            /\ IsAccreditationForRegistration(accs[j], reg)

LinksOf(acc, regs, accs) ==
  /\ acc.regs \in Seq(UpdatedRegs) /\ DOMAIN acc.regs = DOMAIN regs
  /\ \A i \in DOMAIN regs :
       /\ acc.regs[i].id = regs[i].id /\ acc.regs[i].status = regs[i].status
       /\ acc.regs[i].history = regs[i].history /\ acc.regs[i].fields = regs[i].fields
       /\ acc.regs[i].sites = regs[i].sites
       /\ acc.regs[i].acc # regs[i].acc => MayClaim(regs[i], acc.regs[i].acc, accs)
       /\ acc.regs[i].acc \in acc.claimed \cup {NoAcc}
  /\ AccreditationLinkUniqueness(regs) => AccreditationLinkUniqueness(acc.regs)

LEMMA OneClaims ==
  ASSUME NEW regs \in Seq(UpdatedRegs), NEW accs \in Seq(UpdatedAccs),
         NEW acc, LinksOf(acc, regs, accs), NEW i \in DOMAIN regs
  PROVE  LinksOf(Claim(acc, i, regs, accs), regs, accs)
  <1>1. PICK eligible : eligible = FindEligibleAccreditations(acc.regs[i], accs, acc.claimed)
    OBVIOUS
  <1>2. CASE IsLinkedToApprovedAccreditation(regs[i], accs) \/ eligible = {}
    BY <1>1, <1>2 DEF Claim, ClaimAccreditation
  <1>3. CASE ~ IsLinkedToApprovedAccreditation(regs[i], accs) /\ eligible # {}
    <2>1. PICK latest : latest = SelectLatestAccreditation(eligible, accs)
      OBVIOUS
    <2>2. PICK old, now :
            old = acc.regs /\ now = [acc.regs EXCEPT ![i] = [acc.regs[i] EXCEPT !.acc = latest]]
      OBVIOUS
    <2>3. PICK more : more = [regs |-> now, claimed |-> acc.claimed \cup {latest}]
      OBVIOUS
    <2>4. Claim(acc, i, regs, accs) = more
      BY <1>1, <1>3, <2>1, <2>2, <2>3 DEF Claim, ClaimAccreditation
    <2>5. /\ eligible \in SUBSET DOMAIN accs
          /\ \A j \in eligible : /\ accs[j].status # APPROVED /\ accs[j].id \notin acc.claimed
                                 /\ IsAccreditationForRegistration(accs[j], old[i])
      BY <1>1, <2>2 DEF FindEligibleAccreditations
    <2>6. PICK m \in eligible : latest = accs[m].id
      BY <1>3, <2>1, <2>5, LatestIsEligible
    <2>7. m \in DOMAIN accs /\ latest \in Accs /\ latest # NoAcc /\ latest \notin acc.claimed
      <3>1. accs[m] \in UpdatedAccs
        BY <2>5
      <3> QED
        BY <2>5, <2>6, <3>1, ItemAssumption DEF UpdatedAccs
    <2>8. /\ old \in Seq(UpdatedRegs) /\ DOMAIN old = DOMAIN regs /\ i \in DOMAIN old
          /\ \A k \in DOMAIN regs :
               /\ old[k].id = regs[k].id /\ old[k].status = regs[k].status
               /\ old[k].history = regs[k].history /\ old[k].fields = regs[k].fields
               /\ old[k].sites = regs[k].sites
               /\ old[k].acc # regs[k].acc => MayClaim(regs[k], old[k].acc, accs)
               /\ old[k].acc \in acc.claimed \cup {NoAcc}
      BY <2>2 DEF LinksOf
    <2>9. PICK item : item = [old[i] EXCEPT !.acc = latest]
      OBVIOUS
    <2>10. /\ item \in UpdatedRegs /\ item.id = old[i].id /\ item.status = old[i].status
           /\ item.history = old[i].history /\ item.fields = old[i].fields
           /\ item.sites = old[i].sites /\ item.acc = latest
      <3>1. old[i] \in UpdatedRegs
        BY <2>8
      <3> QED
        BY <2>7, <2>9, <3>1 DEF UpdatedRegs
    <2>11. now = [old EXCEPT ![i] = item]
      BY <2>2, <2>9
    <2>12. /\ now \in Seq(UpdatedRegs) /\ DOMAIN now = DOMAIN regs /\ now[i] = item
           /\ \A k \in DOMAIN regs \ {i} : now[k] = old[k]
      BY <2>8, <2>10, <2>11
    <2>13. MayClaim(regs[i], latest, accs)
      <3>1. IsAccreditationForRegistration(accs[m], regs[i])
        BY <2>5, <2>8 DEF IsAccreditationForRegistration
      <3> QED
        BY <1>3, <2>5, <2>6, <2>7, <3>1 DEF MayClaim
    <2>14. ASSUME NEW k \in DOMAIN regs
           PROVE  /\ now[k].id = regs[k].id /\ now[k].status = regs[k].status
                  /\ now[k].history = regs[k].history /\ now[k].fields = regs[k].fields
                  /\ now[k].sites = regs[k].sites
                  /\ now[k].acc # regs[k].acc => MayClaim(regs[k], now[k].acc, accs)
                  /\ now[k].acc \in acc.claimed \cup {latest} \cup {NoAcc}
      <3>1. CASE k = i
        BY <2>8, <2>10, <2>12, <2>13, <3>1
      <3>2. CASE k # i
        BY <2>8, <2>12, <3>2
      <3> QED
        BY <3>1, <3>2
    <2>15. ASSUME AccreditationLinkUniqueness(regs) PROVE AccreditationLinkUniqueness(now)
      <3>1. AccreditationLinkUniqueness(old)
        BY <2>2, <2>15 DEF LinksOf
      <3> SUFFICES ASSUME NEW k \in DOMAIN now, NEW l \in DOMAIN now, now[k].acc # NoAcc,
                          now[l].acc # NoAcc, now[k].acc = now[l].acc
                   PROVE  k = l
        BY DEF AccreditationLinkUniqueness, LinkedRegistrations
      <3>2. \A n \in DOMAIN regs \ {i} : now[n].acc = old[n].acc /\ old[n].acc # latest
        BY <2>7, <2>8, <2>12
      <3>3. now[i].acc = latest
        BY <2>10, <2>12
      <3>4. CASE k # i /\ l # i
        BY <2>8, <2>12, <3>1, <3>2, <3>4 DEF AccreditationLinkUniqueness, LinkedRegistrations
      <3>5. CASE k = i \/ l = i
        BY <2>12, <3>2, <3>3, <3>5
      <3> QED
        BY <3>4, <3>5
    <2>16. more.regs = now /\ more.claimed = acc.claimed \cup {latest}
      BY <2>3
    <2>17. LinksOf(more, regs, accs)
      BY <2>12, <2>14, <2>15, <2>16 DEF LinksOf
    <2> QED
      BY <2>4, <2>17
  <1> QED
    BY <1>2, <1>3

LEMMA NothingClaimedLinks ==
  ASSUME NEW regs \in Seq(UpdatedRegs), NEW accs
  PROVE  LinksOf(NothingClaimed(regs), regs, accs)
  BY DEF LinksOf, NothingClaimed, GetClaimedAccreditationIds

(* Linking changes nothing but links, and those as MayClaim says.          *)
LEMMA Linked ==
  ASSUME NEW regs \in Seq(UpdatedRegs), NEW accs \in Seq(UpdatedAccs),
         NEW linked, linked = LinkRegistrationToAccreditations(regs, accs)
  PROVE  /\ linked \in Seq(UpdatedRegs) /\ DOMAIN linked = DOMAIN regs
         /\ \A i \in DOMAIN regs :
              /\ linked[i].id = regs[i].id /\ linked[i].status = regs[i].status
              /\ linked[i].history = regs[i].history /\ linked[i].fields = regs[i].fields
              /\ linked[i].sites = regs[i].sites
              /\ linked[i].acc # regs[i].acc => MayClaim(regs[i], linked[i].acc, accs)
         /\ AccreditationLinkUniqueness(regs) => AccreditationLinkUniqueness(linked)
  <1> DEFINE S == DOMAIN regs
  <1>1. S = 1..Len(regs) /\ Len(regs) \in Nat
    OBVIOUS
  <1>2. PICK g : IsClaiming(g, regs, accs) /\ linked = g[S].regs
    BY <1>1, LinksClaimed
  <1>3. \A s \in SUBSET S : g[s] = Claiming(g, regs, accs, s)
    BY <1>2 DEF IsClaiming
  <1>4. IsFiniteSet(S)
    BY <1>1, FS_Interval
  <1> HIDE DEF S
  <1>5. \A s \in SUBSET S : IsFiniteSet(s) /\ Cardinality(s) \in Nat
    BY <1>4, FS_Subset, FS_CardinalityType
  <1> DEFINE N == {n \in Nat : \A s \in SUBSET S : Cardinality(s) = n => LinksOf(g[s], regs, accs)}
  <1>6. 0 \in N
    <2>1. \A s \in SUBSET S : Cardinality(s) = 0 => s = {}
      BY <1>5, FS_EmptySet
    <2> QED
      BY <1>3, <2>1, NothingClaimedLinks DEF Claiming
  <1>7. ASSUME NEW n \in Nat, n \in N PROVE n + 1 \in N
    <2> SUFFICES ASSUME NEW s \in SUBSET S, Cardinality(s) = n + 1
                 PROVE  LinksOf(g[s], regs, accs)
      OBVIOUS
    <2>1. s # {} /\ IsFiniteSet(s)
      BY <1>5, FS_EmptySet
    <2>2. Max(s) \in s
      BY <1>1, <2>1, MaxIsMember
    <2>3. s \ {Max(s)} \in SUBSET S /\ Cardinality(s \ {Max(s)}) = n
      <3>1. Cardinality(s \ {Max(s)}) = (n + 1) - 1
        BY <2>1, <2>2, FS_RemoveElement
      <3> QED
        BY <3>1
    <2>4. LinksOf(g[s \ {Max(s)}], regs, accs)
      BY <1>7, <2>3
    <2>5. g[s] = Claim(g[s \ {Max(s)}], Max(s), regs, accs)
      BY <1>3, <2>1 DEF Claiming
    <2> QED
      BY <2>2, <2>4, <2>5, OneClaims DEF S
  <1> HIDE DEF N
  <1>8. \A n \in Nat : n \in N
    BY <1>6, <1>7, SetInduction
  <1>9. LinksOf(g[S], regs, accs)
    BY <1>5, <1>8 DEF N
  <1> QED
    BY <1>2, <1>9 DEF LinksOf, S
-----------------------------------------------------------------------------
(* The forms that are new.                                                 *)

LEMMA Sequenced ==
  ASSUME NEW S, IsFiniteSet(S)
  PROVE  SetToSeq(S) \in Seq(S) /\ IsInjective(SetToSeq(S))
  <1>1. PICK f : f \in [1..Cardinality(S) -> S] /\ IsInjective(f)
    BY FS_CardinalityType DEF ExistsBijection, Bijection, Injection
  <1>2. SetToSeq(S) \in [1..Cardinality(S) -> S] /\ IsInjective(SetToSeq(S))
    BY <1>1 DEF SetToSeq
  <1>3. Cardinality(S) \in Nat
    BY FS_CardinalityType
  <1> QED
    BY <1>2, <1>3

LEMMA OfMembers ==
  ASSUME NEW S, NEW s \in Seq(S), NEW T, \A k \in DOMAIN s : s[k] \in T
  PROVE  s \in Seq(T)
  <1>1. s \in [1..Len(s) -> T] /\ Len(s) \in Nat
    OBVIOUS
  <1> QED
    BY <1>1

NewRegs(ids) == SetToSeq({NewRegistration(r) : r \in ids})
NewAccs(ids) == SetToSeq({NewAccreditation(a) : a \in ids})

LEMMA NewRegistrations ==
  ASSUME NEW ids \in SUBSET Regs, NEW new, new = NewRegs(ids)
  PROVE  /\ new \in Seq(UpdatedRegs) /\ Distinct(new)
         /\ \A k \in DOMAIN new :
              /\ new[k].id \in ids /\ new[k].status = NONE /\ new[k].fields = {}
              /\ new[k].acc = NoAcc
  <1> DEFINE form == [r \in ids |-> NewRegistration(r)]
             S == {NewRegistration(r) : r \in ids}
  <1>1. \A r \in ids :
          /\ NewRegistration(r) \in UpdatedRegs /\ NewRegistration(r).id = r
          /\ NewRegistration(r).status = NONE /\ NewRegistration(r).fields = {}
          /\ NewRegistration(r).acc = NoAcc
    BY DEF NewRegistration, UpdatedRegs
  <1>2. IsFiniteSet(S)
    <2>1. form \in Surjection(ids, S)
      BY DEF Surjection
    <2>2. IsFiniteSet(ids)
      BY FormsAssumption, FS_Subset
    <2> HIDE DEF form, S
    <2> QED
      BY <2>1, <2>2, FS_Surjection
  <1> HIDE DEF form
  <1>3. new \in Seq(S) /\ IsInjective(new)
    BY <1>2, Sequenced DEF NewRegs
  <1>4. \A k \in DOMAIN new : \E r \in ids : new[k] = NewRegistration(r)
    <2> HIDE DEF S
    <2>1. \A k \in DOMAIN new : new[k] \in S
      BY <1>3
    <2> QED
      BY <2>1 DEF S
  <1>5. \A k \in DOMAIN new :
          /\ new[k] \in UpdatedRegs /\ new[k].id \in ids /\ new[k].status = NONE
          /\ new[k].fields = {} /\ new[k].acc = NoAcc /\ new[k] = NewRegistration(new[k].id)
    BY <1>1, <1>4
  <1>6. new \in Seq(UpdatedRegs)
    <2> HIDE DEF S
    <2>1. \A k \in DOMAIN new : new[k] \in UpdatedRegs
      BY <1>5
    <2> QED
      BY <1>3, <2>1, OfMembers
  <1>7. Distinct(new)
    BY <1>3, <1>5 DEF Distinct, IsInjective
  <1> QED
    BY <1>5, <1>6, <1>7

LEMMA NewAccreditations ==
  ASSUME NEW ids \in SUBSET Accs, NEW new, new = NewAccs(ids)
  PROVE  /\ new \in Seq(UpdatedAccs) /\ Distinct(new)
         /\ \A k \in DOMAIN new :
              new[k].id \in ids /\ new[k].status = NONE /\ new[k].fields = {}
  <1> DEFINE form == [a \in ids |-> NewAccreditation(a)]
             S == {NewAccreditation(a) : a \in ids}
  <1>1. \A a \in ids :
          /\ NewAccreditation(a) \in UpdatedAccs /\ NewAccreditation(a).id = a
          /\ NewAccreditation(a).status = NONE /\ NewAccreditation(a).fields = {}
    BY DEF NewAccreditation, UpdatedAccs
  <1>2. IsFiniteSet(S)
    <2>1. form \in Surjection(ids, S)
      BY DEF Surjection
    <2>2. IsFiniteSet(ids)
      BY FormsAssumption, FS_Subset
    <2> HIDE DEF form, S
    <2> QED
      BY <2>1, <2>2, FS_Surjection
  <1> HIDE DEF form
  <1>3. new \in Seq(S) /\ IsInjective(new)
    BY <1>2, Sequenced DEF NewAccs
  <1>4. \A k \in DOMAIN new : \E a \in ids : new[k] = NewAccreditation(a)
    <2> HIDE DEF S
    <2>1. \A k \in DOMAIN new : new[k] \in S
      BY <1>3
    <2> QED
      BY <2>1 DEF S
  <1>5. \A k \in DOMAIN new :
          /\ new[k] \in UpdatedAccs /\ new[k].id \in ids /\ new[k].status = NONE
          /\ new[k].fields = {} /\ new[k] = NewAccreditation(new[k].id)
    BY <1>1, <1>4
  <1>6. new \in Seq(UpdatedAccs)
    <2> HIDE DEF S
    <2>1. \A k \in DOMAIN new : new[k] \in UpdatedAccs
      BY <1>5
    <2> QED
      BY <1>3, <2>1, OfMembers
  <1>7. Distinct(new)
    BY <1>3, <1>5 DEF Distinct, IsInjective
  <1> QED
    BY <1>5, <1>6, <1>7

(* Appended: either of the two, at its place.                              *)
LEMMA Appended ==
  ASSUME NEW S, NEW s \in Seq(S), NEW t \in Seq(S), NEW all, all = LinkItems(s, t)
  PROVE  /\ all \in Seq(S)
         /\ \A i \in DOMAIN s : i \in DOMAIN all /\ all[i] = s[i]
         /\ \A i \in DOMAIN all \ DOMAIN s :
              i - Len(s) \in DOMAIN t /\ all[i] = t[i - Len(s)]
  <1>1. all = s \o t /\ all \in Seq(S) /\ Len(all) = Len(s) + Len(t)
    BY DEF LinkItems
  <1>2. DOMAIN all = 1..Len(all) /\ Len(s) \in Nat /\ Len(t) \in Nat
    BY <1>1
  <1>3. \A i \in DOMAIN s : i \in DOMAIN all /\ all[i] = s[i]
    BY <1>1, <1>2
  <1>4. ASSUME NEW i \in DOMAIN all, i \notin DOMAIN s
        PROVE  i - Len(s) \in DOMAIN t /\ all[i] = t[i - Len(s)]
    <2>1. i \in 1..(Len(s) + Len(t)) /\ ~ (i \in 1..Len(s))
      BY <1>1, <1>2, <1>4
    <2>2. i - Len(s) \in 1..Len(t) /\ i > Len(s)
      BY <1>2, <2>1
    <2>3. (s \o t)[i] = t[i - Len(s)]
      BY <1>2, <2>1, <2>2
    <2> QED
      BY <1>1, <2>2, <2>3
  <1> QED
    BY <1>1, <1>3, <1>4

(* A form is added once: new items are of no stored one.                   *)
LEMMA AppendedContinue ==
  ASSUME NEW kind, NEW stored, NEW S, NEW items \in Seq(S), NEW new \in Seq(S),
         Continues(kind, items, stored), Distinct(new),
         \A i \in DOMAIN items : HasItem(stored, items[i].id),
         \A k \in DOMAIN new : ~ HasItem(stored, new[k].id) /\ new[k].status = NONE,
         NEW all, all = LinkItems(items, new)
  PROVE  Continues(kind, all, stored)
  <1>1. /\ \A i \in DOMAIN items : i \in DOMAIN all /\ all[i] = items[i]
        /\ \A i \in DOMAIN all \ DOMAIN items :
             i - Len(items) \in DOMAIN new /\ all[i] = new[i - Len(items)]
        /\ all \in Seq(S)
    BY Appended
  <1>2. Len(items) \in Nat /\ \A i \in DOMAIN all : i \in Nat
    BY <1>1
  <1>3. Distinct(all)
    <2> SUFFICES ASSUME NEW i \in DOMAIN all, NEW j \in DOMAIN all, all[i].id = all[j].id
                 PROVE  i = j
      BY DEF Distinct
    <2>1. CASE i \in DOMAIN items /\ j \in DOMAIN items
      BY <1>1, <2>1 DEF Continues, Distinct
    <2>2. CASE i \notin DOMAIN items /\ j \notin DOMAIN items
      <3>1. i - Len(items) = j - Len(items)
        BY <1>1, <2>2 DEF Distinct
      <3> QED
        BY <1>2, <3>1
    <2>3. CASE ~ ((i \in DOMAIN items) <=> (j \in DOMAIN items))
      BY <1>1, <2>3
    <2> QED
      BY <2>1, <2>2, <2>3
  <1>4. ASSUME NEW i \in DOMAIN all
        PROVE  IF HasItem(stored, all[i].id)
               THEN /\ all[i].status # NONE /\ all[i].history # <<>>
                    /\ kind # "correct" =>
                         \A k \in DOMAIN stored :
                           stored[k].id = all[i].id => stored[k].history = all[i].history
               ELSE all[i].status = NONE
    <2>1. CASE i \in DOMAIN items
      <3>1. all[i] = items[i]
        BY <1>1, <2>1
      <3> QED
        BY <2>1, <3>1 DEF Continues
    <2>2. CASE i \notin DOMAIN items
      <3>1. ~ HasItem(stored, all[i].id) /\ all[i].status = NONE
        BY <1>1, <2>2
      <3> QED
        BY <3>1
    <2> QED
      BY <2>1, <2>2
  <1> QED
    BY <1>3, <1>4 DEF Continues
-----------------------------------------------------------------------------
(* The migration.                                                          *)

(* What the migration writes: the items that were read as they are but for *)
(* new links, and the new ones.                                            *)
Migrates(read, regs, accs, update) ==
  /\ update \in Updates /\ update.version = read.version /\ update.status = read.status
  /\ update.link = read.link /\ update.users = read.users
  /\ update.accs = accs /\ DOMAIN update.regs = DOMAIN regs
  /\ regs \in Seq(UpdatedRegs) /\ accs \in Seq(UpdatedAccs)
  /\ \A i \in DOMAIN regs :
       /\ update.regs[i].id = regs[i].id /\ update.regs[i].status = regs[i].status
       /\ update.regs[i].history = regs[i].history /\ update.regs[i].fields = regs[i].fields
       /\ update.regs[i].sites = regs[i].sites
       /\ update.regs[i].acc # regs[i].acc => MayClaim(regs[i], update.regs[i].acc, accs)
  /\ AccreditationLinkUniqueness(regs) => AccreditationLinkUniqueness(update.regs)

(* Items that were read, followed by new ones.                             *)
Extends(items, all) ==
  /\ Distinct(all)
  /\ \A i \in DOMAIN items : i \in DOMAIN all /\ all[i] = items[i]
  /\ \A i \in DOMAIN all \ DOMAIN items :
       /\ all[i].status = NONE /\ all[i].fields = {} /\ ~ HasItem(items, all[i].id)

LEMMA MigrationLinks ==
  ASSUME Inv, NEW ids, ids = Doc, NEW submissions \in SubmissionsToMigrate(ids)
  PROVE  \E regs, accs :
           LET update == TransformAndLinkAllNewSubmissions(submissions)
           IN  /\ Migrates(Read, regs, accs, update)
               /\ Extends(Read.regs, regs) /\ Extends(Read.accs, accs)
               /\ \A i \in DOMAIN regs \ DOMAIN Read.regs : regs[i].acc = NoAcc
               /\ Continues("migration", regs, Doc.regs)
               /\ Continues("migration", accs, Doc.accs)
  <1>1. PICK doc, read : doc = Doc /\ read = Read
    OBVIOUS
  <1>2. /\ doc \in StoredDocs /\ IsRead(doc, read) /\ read \in Updates
        /\ Continues("migration", read.regs, doc.regs)
        /\ Continues("migration", read.accs, doc.accs)
    BY <1>1, ReadOfDoc, ReadContinues DEF Inv, IsRead
  <1>3. read.regs \in Seq(UpdatedRegs) /\ read.accs \in Seq(UpdatedAccs)
    BY <1>2 DEF Updates
  <1>4. /\ submissions.regs \in SUBSET Regs /\ submissions.accs \in SUBSET Accs
        /\ submissions.regs \cap Ids(doc.regs) = {} /\ submissions.accs \cap Ids(doc.accs) = {}
    BY <1>1 DEF SubmissionsToMigrate
  <1>5. Ids(read.regs) = Ids(doc.regs) /\ Ids(read.accs) = Ids(doc.accs)
    BY <1>2 DEF IsRead, Ids
  <1>6. PICK newRegs, newAccs :
          /\ newRegs = NewRegs(submissions.regs)
          /\ newAccs = NewAccs(submissions.accs)
    OBVIOUS
  <1>7. PICK regs, accs : regs = LinkItems(read.regs, newRegs) /\ accs = LinkItems(read.accs, newAccs)
    OBVIOUS
  <1>8. /\ newRegs \in Seq(UpdatedRegs) /\ Distinct(newRegs)
        /\ \A k \in DOMAIN newRegs :
             /\ newRegs[k].id \in submissions.regs /\ newRegs[k].status = NONE
             /\ newRegs[k].fields = {} /\ newRegs[k].acc = NoAcc
    BY <1>4, <1>6, NewRegistrations
  <1>9. /\ newAccs \in Seq(UpdatedAccs) /\ Distinct(newAccs)
        /\ \A k \in DOMAIN newAccs :
             /\ newAccs[k].id \in submissions.accs /\ newAccs[k].status = NONE
             /\ newAccs[k].fields = {}
    BY <1>4, <1>6, NewAccreditations
  <1>10. /\ regs \in Seq(UpdatedRegs)
         /\ \A i \in DOMAIN read.regs : i \in DOMAIN regs /\ regs[i] = read.regs[i]
         /\ \A i \in DOMAIN regs \ DOMAIN read.regs :
              i - Len(read.regs) \in DOMAIN newRegs /\ regs[i] = newRegs[i - Len(read.regs)]
    BY <1>3, <1>7, <1>8, Appended
  <1>11. /\ accs \in Seq(UpdatedAccs)
         /\ \A i \in DOMAIN read.accs : i \in DOMAIN accs /\ accs[i] = read.accs[i]
         /\ \A i \in DOMAIN accs \ DOMAIN read.accs :
              i - Len(read.accs) \in DOMAIN newAccs /\ accs[i] = newAccs[i - Len(read.accs)]
    BY <1>3, <1>7, <1>9, Appended
  <1>12. Continues("migration", regs, doc.regs)
    <2>1. \A i \in DOMAIN read.regs : HasItem(doc.regs, read.regs[i].id)
      BY <1>5 DEF HasItem, Ids
    <2>2. \A k \in DOMAIN newRegs : ~ HasItem(doc.regs, newRegs[k].id) /\ newRegs[k].status = NONE
      BY <1>4, <1>8 DEF HasItem
    <2> QED
      BY <1>2, <1>3, <1>7, <1>8, <2>1, <2>2, AppendedContinue
  <1>13. Continues("migration", accs, doc.accs)
    <2>1. \A i \in DOMAIN read.accs : HasItem(doc.accs, read.accs[i].id)
      BY <1>5 DEF HasItem, Ids
    <2>2. \A k \in DOMAIN newAccs : ~ HasItem(doc.accs, newAccs[k].id) /\ newAccs[k].status = NONE
      BY <1>4, <1>9 DEF HasItem
    <2> QED
      BY <1>2, <1>3, <1>7, <1>9, <2>1, <2>2, AppendedContinue
  <1>14. Extends(read.regs, regs)
    <2>1. \A k \in DOMAIN newRegs : ~ HasItem(read.regs, newRegs[k].id)
      BY <1>4, <1>5, <1>8 DEF HasItem
    <2> QED
      BY <1>8, <1>10, <1>12, <2>1 DEF Extends, Continues
  <1>15. Extends(read.accs, accs)
    <2>1. \A k \in DOMAIN newAccs : ~ HasItem(read.accs, newAccs[k].id)
      BY <1>4, <1>5, <1>9 DEF HasItem
    <2> QED
      BY <1>9, <1>11, <1>13, <2>1 DEF Extends, Continues
  <1>16. \A i \in DOMAIN regs \ DOMAIN read.regs : regs[i].acc = NoAcc
    BY <1>8, <1>10
  <1>17. PICK linked : linked = LinkRegistrationToAccreditations(regs, accs)
    OBVIOUS
  <1>18. /\ linked \in Seq(UpdatedRegs) /\ DOMAIN linked = DOMAIN regs
         /\ \A i \in DOMAIN regs :
              /\ linked[i].id = regs[i].id /\ linked[i].status = regs[i].status
              /\ linked[i].history = regs[i].history /\ linked[i].fields = regs[i].fields
              /\ linked[i].sites = regs[i].sites
              /\ linked[i].acc # regs[i].acc => MayClaim(regs[i], linked[i].acc, accs)
         /\ AccreditationLinkUniqueness(regs) => AccreditationLinkUniqueness(linked)
    BY <1>10, <1>11, <1>17, Linked
  <1>19. PICK update : update = TransformAndLinkAllNewSubmissions(submissions)
    OBVIOUS
  <1>20. update = Spread(read, [regs |-> linked, accs |-> accs])
    BY <1>1, <1>6, <1>7, <1>17, <1>19 DEF TransformAndLinkAllNewSubmissions, NewRegs, NewAccs
  <1>21. /\ update \in Updates /\ update.version = read.version /\ update.status = read.status
         /\ update.link = read.link /\ update.users = read.users
         /\ update.accs = accs /\ update.regs = linked
    BY <1>2, <1>11, <1>18, <1>20 DEF Spread, Updates
  <1>22. Migrates(read, regs, accs, update)
    BY <1>10, <1>11, <1>18, <1>21 DEF Migrates
  <1> QED
    BY <1>1, <1>12, <1>13, <1>14, <1>15, <1>16, <1>19, <1>22

(* No status changes, so that no transition is refused; no approval loses  *)
(* its registration, and no link is given twice.                           *)
LEMMA MigrationAcceptable ==
  ASSUME NEW read \in Updates, NEW regs, NEW accs, NEW update, Migrates(read, regs, accs, update),
         Extends(read.regs, regs), Extends(read.accs, accs),
         \A i \in DOMAIN regs \ DOMAIN read.regs : regs[i].acc = NoAcc, Coherent(read)
  PROVE  UpdateAcceptable(read, update)
  <1>1. PICK oldRegs, oldAccs, newRegs :
          oldRegs = read.regs /\ oldAccs = read.accs /\ newRegs = update.regs
    OBVIOUS
  <1>2. PICK cascaded : cascaded = ApplyRegistrationStatusToLinkedAccreditations(newRegs, accs)
    OBVIOUS
  <1>3. /\ oldRegs \in Seq(UpdatedRegs) /\ oldAccs \in Seq(UpdatedAccs)
        /\ regs \in Seq(UpdatedRegs) /\ accs \in Seq(UpdatedAccs) /\ newRegs \in Seq(UpdatedRegs)
    BY <1>1 DEF Updates, Migrates
  <1>4. cascaded \in Seq(UpdatedAccs) /\ IsCascaded(newRegs, accs, cascaded)
    BY <1>2, <1>3, CascadeOf
  <1>5. /\ Distinct(regs) /\ \A i \in DOMAIN oldRegs : i \in DOMAIN regs /\ regs[i] = oldRegs[i]
        /\ \A i \in DOMAIN regs \ DOMAIN oldRegs :
             /\ regs[i].status = NONE /\ regs[i].fields = {} /\ ~ HasItem(oldRegs, regs[i].id)
             /\ regs[i].acc = NoAcc
    BY <1>1 DEF Extends
  <1>6. /\ Distinct(accs) /\ \A j \in DOMAIN oldAccs : j \in DOMAIN accs /\ accs[j] = oldAccs[j]
        /\ \A j \in DOMAIN accs \ DOMAIN oldAccs :
             accs[j].status = NONE /\ accs[j].fields = {} /\ ~ HasItem(oldAccs, accs[j].id)
    BY <1>1 DEF Extends
  <1>7. /\ DOMAIN newRegs = DOMAIN regs
        /\ \A i \in DOMAIN regs :
             /\ newRegs[i].id = regs[i].id /\ newRegs[i].status = regs[i].status
             /\ newRegs[i].fields = regs[i].fields
             /\ newRegs[i].acc # regs[i].acc => MayClaim(regs[i], newRegs[i].acc, accs)
        /\ AccreditationLinkUniqueness(regs) => AccreditationLinkUniqueness(newRegs)
    BY <1>1 DEF Migrates
  <1>8. /\ DOMAIN cascaded = DOMAIN accs
        /\ \A j \in DOMAIN accs :
             /\ cascaded[j].id = accs[j].id /\ cascaded[j].fields = accs[j].fields
             /\ cascaded[j].status = IF accs[j].id \in CascadeCancelledIds(newRegs, accs)
                                     THEN CANCELLED ELSE accs[j].status
    BY <1>4 DEF IsCascaded
  <1>9. /\ FieldsAcceptable(oldRegs, {APPROVED})
        /\ FieldsAcceptable(oldAccs, ACTIVE_ACCREDITATION_STATUSES)
        /\ AccreditationLinkUniqueness(oldRegs)
        /\ AccreditationLinkExists(oldRegs, oldAccs)
        /\ AccreditationLinkMatches(oldRegs, oldAccs)
        /\ ValidateApprovals(oldRegs, oldAccs)
    BY <1>1 DEF Coherent
  <1>10. /\ NONE \notin {APPROVED, SUSPENDED, CANCELLED} /\ CANCELLED # APPROVED
    BY DEF NONE, APPROVED, SUSPENDED, CANCELLED
  <1>11. FieldsAcceptable(newRegs, {APPROVED})
    <2> SUFFICES ASSUME NEW i \in DOMAIN regs
                 PROVE  /\ MALFORMED \notin regs[i].fields
                        /\ regs[i].status \in {APPROVED} => FIELDS \subseteq regs[i].fields
      BY <1>7 DEF FieldsAcceptable
    <2>1. CASE i \in DOMAIN oldRegs
      BY <1>5, <1>9, <2>1 DEF FieldsAcceptable
    <2>2. CASE i \notin DOMAIN oldRegs
      BY <1>5, <1>10, <2>2
    <2> QED
      BY <2>1, <2>2
  <1>12. FieldsAcceptable(accs, ACTIVE_ACCREDITATION_STATUSES)
    <2> SUFFICES ASSUME NEW j \in DOMAIN accs
                 PROVE  /\ MALFORMED \notin accs[j].fields
                        /\ accs[j].status \in ACTIVE_ACCREDITATION_STATUSES
                             => FIELDS \subseteq accs[j].fields
      BY DEF FieldsAcceptable
    <2>1. CASE j \in DOMAIN oldAccs
      BY <1>6, <1>9, <2>1 DEF FieldsAcceptable
    <2>2. CASE j \notin DOMAIN oldAccs
      BY <1>6, <1>10, <2>2 DEF ACTIVE_ACCREDITATION_STATUSES
    <2> QED
      BY <2>1, <2>2
  <1>13. AccreditationLinkUniqueness(newRegs)
    <2>1. \A i \in LinkedRegistrations(regs) : i \in DOMAIN oldRegs /\ regs[i] = oldRegs[i]
      BY <1>5 DEF LinkedRegistrations
    <2>2. \A i \in LinkedRegistrations(regs) : i \in LinkedRegistrations(oldRegs)
      BY <2>1 DEF LinkedRegistrations
    <2>3. AccreditationLinkUniqueness(regs)
      BY <1>9, <2>1, <2>2 DEF AccreditationLinkUniqueness
    <2> QED
      BY <1>7, <2>3
  <1>14. ASSUME NEW i \in LinkedRegistrations(newRegs)
         PROVE  /\ HasItem(cascaded, newRegs[i].acc)
                /\ Key[newRegs[i].acc] = Key[newRegs[i].id]
    <2>1. i \in DOMAIN regs /\ newRegs[i].acc # NoAcc /\ newRegs[i].id = regs[i].id
      BY <1>7 DEF LinkedRegistrations
    <2>2. CASE newRegs[i].acc # regs[i].acc
      <3>1. PICK j \in DOMAIN accs :
              accs[j].id = newRegs[i].acc /\ IsAccreditationForRegistration(accs[j], regs[i])
        BY <1>7, <2>1, <2>2 DEF MayClaim
      <3>2. HasItem(cascaded, newRegs[i].acc)
        BY <1>8, <3>1 DEF HasItem, Ids
      <3> QED
        BY <2>1, <3>1, <3>2 DEF IsAccreditationForRegistration
    <2>3. CASE newRegs[i].acc = regs[i].acc
      <3>1. i \in DOMAIN oldRegs /\ regs[i] = oldRegs[i] /\ i \in LinkedRegistrations(oldRegs)
        BY <1>5, <2>1, <2>3 DEF LinkedRegistrations
      <3>2. HasItem(oldAccs, oldRegs[i].acc)
        BY <1>9, <3>1 DEF AccreditationLinkExists
      <3>3. PICK j \in DOMAIN oldAccs : oldAccs[j].id = oldRegs[i].acc
        BY <3>2 DEF HasItem, Ids
      <3>4. HasItem(cascaded, oldRegs[i].acc)
        BY <1>6, <1>8, <3>3 DEF HasItem, Ids
      <3>5. Find(oldAccs, oldRegs[i].acc).id = oldRegs[i].acc
        BY <1>3, <3>2, Finding
      <3>6. Key[oldRegs[i].acc] = Key[oldRegs[i].id]
        BY <1>9, <3>1, <3>2, <3>5 DEF AccreditationLinkMatches, IsAccreditationForRegistration
      <3> QED
        BY <2>1, <2>3, <3>1, <3>4, <3>6
    <2> QED
      BY <2>2, <2>3
  <1>15. AccreditationLinkExists(newRegs, cascaded)
    BY <1>14 DEF AccreditationLinkExists
  <1>16. AccreditationLinkMatches(newRegs, cascaded)
    <2> SUFFICES ASSUME NEW i \in LinkedRegistrations(newRegs), HasItem(cascaded, newRegs[i].acc)
                 PROVE  Key[Find(cascaded, newRegs[i].acc).id] = Key[newRegs[i].id]
      BY DEF AccreditationLinkMatches, IsAccreditationForRegistration
    <2>1. Find(cascaded, newRegs[i].acc).id = newRegs[i].acc
      BY <1>4, Finding
    <2> QED
      BY <1>14, <2>1
  <1>17. ASSUME NEW j \in DOMAIN cascaded, cascaded[j].status = APPROVED
         PROVE  /\ j \in DOMAIN oldAccs /\ oldAccs[j].status = APPROVED
                /\ accs[j] = oldAccs[j] /\ cascaded[j].id = oldAccs[j].id
    BY <1>6, <1>8, <1>10, <1>17
  <1>18. ASSUME NEW i \in DOMAIN oldRegs
         PROVE  i \in DOMAIN newRegs /\ newRegs[i].id = oldRegs[i].id /\ newRegs[i].status = oldRegs[i].status
    BY <1>5, <1>7
  <1>19. ASSUME NEW i \in DOMAIN newRegs, newRegs[i].status # NONE
         PROVE  i \in DOMAIN oldRegs
    BY <1>5, <1>7, <1>19
  <1>20. AccreditationsHaveApprovedRegistration(newRegs, cascaded)
    <2> SUFFICES ASSUME NEW j \in DOMAIN cascaded, cascaded[j].status = APPROVED
                 PROVE  \E i \in DOMAIN newRegs :
                          /\ newRegs[i].acc = cascaded[j].id /\ newRegs[i].status = APPROVED
                          /\ IsAccreditationForRegistration(cascaded[j], newRegs[i])
      BY DEF AccreditationsHaveApprovedRegistration
    <2>1. /\ j \in DOMAIN oldAccs /\ oldAccs[j].status = APPROVED
          /\ accs[j] = oldAccs[j] /\ cascaded[j].id = oldAccs[j].id /\ j \in DOMAIN accs
      BY <1>8, <1>17
    <2>2. PICK i \in DOMAIN oldRegs :
            /\ oldRegs[i].acc = oldAccs[j].id /\ oldRegs[i].status = APPROVED
            /\ IsAccreditationForRegistration(oldAccs[j], oldRegs[i])
      BY <1>9, <2>1 DEF ValidateApprovals, AccreditationsHaveApprovedRegistration
    <2>3. HasItem(accs, accs[j].id) /\ Find(accs, accs[j].id) = accs[j]
      BY <1>3, <1>6, <2>1, Found
    <2>4. IsLinkedToApprovedAccreditation(regs[i], accs)
      BY <1>5, <2>1, <2>2, <2>3 DEF IsLinkedToApprovedAccreditation
    <2>5. newRegs[i].acc = oldRegs[i].acc
      BY <1>5, <1>7, <2>4 DEF MayClaim
    <2> QED
      BY <1>18, <2>1, <2>2, <2>5 DEF IsAccreditationForRegistration
  <1>21. NoDuplicateApprovals(cascaded)
    BY <1>9, <1>17 DEF ValidateApprovals, NoDuplicateApprovals
  <1>22. NoDuplicateApprovals(newRegs)
    BY <1>9, <1>10, <1>18, <1>19 DEF ValidateApprovals, NoDuplicateApprovals
  <1>23. ItemTransitionsValid(oldRegs, newRegs, VALID_REG_TRANSITIONS, {})
    <2> SUFFICES ASSUME NEW i \in DOMAIN newRegs, HasItem(oldRegs, newRegs[i].id),
                        newRegs[i].status # NONE
                 PROVE  newRegs[i].status = Find(oldRegs, newRegs[i].id).status
      BY DEF ItemTransitionsValid, UpdatesExisting, ChangesStatus
    <2>1. i \in DOMAIN oldRegs /\ newRegs[i].id = oldRegs[i].id /\ newRegs[i].status = oldRegs[i].status
      BY <1>18, <1>19
    <2>2. Distinct(oldRegs)
      BY <1>5 DEF Distinct
    <2> QED
      BY <1>3, <2>1, <2>2, Found
  <1>24. ItemTransitionsValid(oldAccs, cascaded, VALID_ACC_TRANSITIONS,
                              CascadeCancelledIds(newRegs, accs))
    <2> SUFFICES ASSUME NEW j \in DOMAIN cascaded, HasItem(oldAccs, cascaded[j].id),
                        cascaded[j].id \notin CascadeCancelledIds(newRegs, accs),
                        cascaded[j].status # NONE
                 PROVE  cascaded[j].status = Find(oldAccs, cascaded[j].id).status
      BY DEF ItemTransitionsValid, UpdatesExisting, ChangesStatus
    <2>1. cascaded[j].status = accs[j].status /\ j \in DOMAIN oldAccs /\ accs[j] = oldAccs[j]
      BY <1>6, <1>8
    <2>2. Distinct(oldAccs)
      BY <1>6 DEF Distinct
    <2>3. Find(oldAccs, oldAccs[j].id) = oldAccs[j]
      BY <1>3, <2>1, <2>2, Found
    <2> QED
      BY <1>8, <2>1, <2>3
  <1>25. update.accs = accs /\ OrgTransitionValid(read, update)
    BY DEF Migrates, OrgTransitionValid
  <1>26. ValidateApprovals(newRegs, cascaded)
    BY <1>20, <1>21, <1>22 DEF ValidateApprovals
  <1> QED
    BY <1>1, <1>2, <1>11, <1>12, <1>13, <1>15, <1>16, <1>23, <1>24, <1>25, <1>26
       DEF UpdateAcceptable
LEMMA MigrationTaken ==
  ASSUME Inv, "staleIds" \notin Disturbances, NEW q \in Requests, MigrationBegins(q)
  PROVE  /\ Inv'
         /\ \E r : /\ req' = [req EXCEPT ![q] = r] /\ UNCHANGED <<docs, corrected>>
                   /\ ~ corrected => UpdateAcceptable(Read, r.update)
  <1>1. PICK submissions \in SubmissionsToMigrate(Doc) :
          Register(q, Pending("migration", {"forms"},
                              TransformAndLinkAllNewSubmissions(submissions)))
    BY DEF MigrationBegins, View
  <1>2. PICK update : update = TransformAndLinkAllNewSubmissions(submissions)
    OBVIOUS
  <1>3. PICK regs, accs :
          /\ Migrates(Read, regs, accs, update)
          /\ Extends(Read.regs, regs) /\ Extends(Read.accs, accs)
          /\ \A i \in DOMAIN regs \ DOMAIN Read.regs : regs[i].acc = NoAcc
          /\ Continues("migration", regs, Doc.regs)
          /\ Continues("migration", accs, Doc.accs)
    BY <1>2, MigrationLinks
  <1>4. Read \in Updates /\ Read.version = Doc.version
    BY ReadOfDoc DEF Inv, IsRead
  <1>5. Follows("migration", update)
    <2>1. PICK linked : linked = update.regs
      OBVIOUS
    <2>2. /\ update \in Updates /\ update.version = Read.version /\ update.accs = accs
          /\ DOMAIN linked = DOMAIN regs
          /\ \A i \in DOMAIN regs : /\ linked[i].id = regs[i].id
                                    /\ linked[i].status = regs[i].status
                                    /\ linked[i].history = regs[i].history
      BY <1>3, <2>1 DEF Migrates
    <2>3. Continues("migration", linked, Doc.regs)
      <3>1. PICK stored : stored = Doc.regs
        OBVIOUS
      <3>2. Continues("migration", regs, stored)
        BY <1>3, <3>1
      <3>3. Distinct(linked)
        BY <2>2, <3>2 DEF Continues, Distinct
      <3> QED
        BY <2>2, <3>1, <3>2, <3>3 DEF Continues
    <2> QED
      BY <1>3, <1>4, <2>1, <2>2, <2>3 DEF Follows
  <1>6. Inv'
    BY <1>1, <1>2, <1>5, Taken DEF MigrationBegins, Replacing
  <1>7. ~ corrected => UpdateAcceptable(Read, update)
    BY <1>3, <1>4, MigrationAcceptable DEF Inv
  <1>8. PICK r : r = Pending("migration", {"forms"}, update)
    OBVIOUS
  <1>9. /\ req' = [req EXCEPT ![q] = r] /\ UNCHANGED <<docs, corrected>> /\ r.update = update
    BY <1>1, <1>2, <1>8 DEF Register, Pending
  <1> QED
    BY <1>6, <1>7, <1>9

-----------------------------------------------------------------------------
(* The invariant holds, whatever the order of reads and writes.            *)

(* Replace and the migration compare what the primary answers; linking may *)
(* search among documents that are behind.                                 *)
ReadsAreCurrent == {"staleExisting", "staleIds"} \cap Disturbances = {}

IsFirst(d, r, a, version, history, fields, users) ==
  /\ d = [version |-> version, history |-> history, link |-> NotLinked,
          regs |-> << [id |-> r, history |-> history, fields |-> fields, acc |-> a,
                       sites |-> {}] >>,
          accs |-> << [id |-> a, history |-> history, fields |-> fields] >>,
          users |-> users]
  /\ version \in {1, 2} /\ fields \subseteq FIELDS /\ users \subseteq Listed
  /\ history \in {<<CREATED, APPROVED>>, <<CREATED>>}
  /\ history = <<CREATED, APPROVED>> => fields = FIELDS

LEMMA FirstDocument ==
  ASSUME NEW a \in Accs, NEW r \in Regs, Key[r] = Key[a],
         NEW d \in {Established(r, a), Inserted(r, a), Completed(r, a)}
  PROVE  /\ d \in StoredDocs /\ Distinct(d.regs) /\ Distinct(d.accs)
         /\ Coherent(MapDocumentWithCurrentStatuses(d))
  <1>1. PICK version, history, fields, users : IsFirst(d, r, a, version, history, fields, users)
    <2>1. \A who \in Users : \A s : GetUserRolesForStatus(who, s) \in Listed
      <3> SUFFICES ASSUME NEW who \in Users, NEW s PROVE GetUserRolesForStatus(who, s) \in Listed
        OBVIOUS
      <3>1. (s \in {CREATED, APPROVED}) \in BOOLEAN
        OBVIOUS
      <3> QED
        BY <3>1 DEF GetUserRolesForStatus, Listed
    <2>2. Submitter \in Users /\ Contact[r] \in Users /\ Contact[a] \in Users
      BY ContactAssumption
    <2>3. CASE d = Established(r, a)
      <3>1. PICK users :
              users = {GetUserRolesForStatus(u, APPROVED) : u \in {Submitter, Contact[r], Contact[a]}}
        OBVIOUS
      <3>2. users \subseteq Listed
        BY <2>1, <2>2, <3>1
      <3>3. d = [Document(2, <<CREATED, APPROVED>>, FIELDS, r, a) EXCEPT !.users = users]
        BY <2>3, <3>1 DEF Established
      <3>4. d = [version |-> 2, history |-> <<CREATED, APPROVED>>, link |-> NotLinked,
                 regs |-> << [id |-> r, history |-> <<CREATED, APPROVED>>, fields |-> FIELDS,
                              acc |-> a, sites |-> {}] >>,
                 accs |-> << [id |-> a, history |-> <<CREATED, APPROVED>>, fields |-> FIELDS] >>,
                 users |-> users]
        BY <3>3 DEF Document
      <3>5. IsFirst(d, r, a, 2, <<CREATED, APPROVED>>, FIELDS, users)
        BY <3>2, <3>4 DEF IsFirst
      <3> QED
        BY <3>5
    <2>4. CASE d = Inserted(r, a)
      <3>1. <<CREATED>> # <<CREATED, APPROVED>>
        OBVIOUS
      <3>2. d = [version |-> 1, history |-> <<CREATED>>, link |-> NotLinked,
                 regs |-> << [id |-> r, history |-> <<CREATED>>, fields |-> {},
                              acc |-> a, sites |-> {}] >>,
                 accs |-> << [id |-> a, history |-> <<CREATED>>, fields |-> {}] >>,
                 users |-> {}]
        BY <2>4 DEF Inserted, Document, InitialStatusHistory
      <3>3. {} \subseteq FIELDS /\ {} \subseteq Listed
        OBVIOUS
      <3>4. IsFirst(d, r, a, 1, <<CREATED>>, {}, {})
        BY <3>1, <3>2, <3>3 DEF IsFirst
      <3> QED
        BY <3>4
    <2>5. CASE d = Completed(r, a)
      <3>1. <<CREATED>> # <<CREATED, APPROVED>>
        OBVIOUS
      <3>2. PICK users : users = {GetUserRolesForStatus(Submitter, CREATED)}
        OBVIOUS
      <3>3. users \subseteq Listed
        BY <2>1, <2>2, <3>2
      <3>4. PICK fields : fields = FIELDS \ GRANTED
        OBVIOUS
      <3>5. d = [Document(2, <<CREATED>>, fields, r, a) EXCEPT !.users = users]
        BY <2>5, <3>2, <3>4 DEF Completed, InitialStatusHistory
      <3>6. d = [version |-> 2, history |-> <<CREATED>>, link |-> NotLinked,
                 regs |-> << [id |-> r, history |-> <<CREATED>>, fields |-> fields,
                              acc |-> a, sites |-> {}] >>,
                 accs |-> << [id |-> a, history |-> <<CREATED>>, fields |-> fields] >>,
                 users |-> users]
        BY <3>5 DEF Document
      <3>7. fields \subseteq FIELDS
        BY <3>4
      <3>8. IsFirst(d, r, a, 2, <<CREATED>>, fields, users)
        BY <3>1, <3>3, <3>6, <3>7 DEF IsFirst
      <3> QED
        BY <3>8
    <2> QED
      BY <2>3, <2>4, <2>5
  <1> USE DEF IsFirst
  <1>2. PICK reg, acc : /\ reg = [id |-> r, history |-> history, fields |-> fields, acc |-> a,
                                  sites |-> {}]
                        /\ acc = [id |-> a, history |-> history, fields |-> fields]
    OBVIOUS
  <1>3. /\ history \in Seq(REGISTRATION_STATUS) \ {<<>>}
        /\ history \in Seq(ACCREDITATION_STATUS) \ {<<>>}
        /\ history \in Seq(ORGANISATION_STATUS) \ {<<>>}
        /\ Last(history) \in {CREATED, APPROVED}
        /\ Last(history) = APPROVED => fields = FIELDS
    <2>1. CREATED # APPROVED
      BY DEF CREATED, APPROVED
    <2>2. CASE history = <<CREATED>>
      <3>1. Last(history) = CREATED
        BY <2>2 DEF Last
      <3> QED
        BY <2>1, <2>2, <3>1 DEF REGISTRATION_STATUS, ACCREDITATION_STATUS, ORGANISATION_STATUS
    <2>3. CASE history = <<CREATED, APPROVED>>
      <3>1. Last(history) = APPROVED
        BY <2>3 DEF Last
      <3> QED
        BY <1>1, <2>3, <3>1 DEF REGISTRATION_STATUS, ACCREDITATION_STATUS, ORGANISATION_STATUS
    <2> QED
      BY <1>1, <2>2, <2>3
  <1>4. reg \in StoredRegs /\ acc \in StoredAccs
    BY <1>1, <1>2, <1>3 DEF StoredRegs, StoredAccs
  <1>5. /\ d.regs = <<reg>> /\ d.accs = <<acc>> /\ DOMAIN d.regs = {1} /\ DOMAIN d.accs = {1}
    BY <1>1, <1>2
  <1>6. d \in StoredDocs
    <2>1. <<reg>> \in Seq(StoredRegs) /\ <<acc>> \in Seq(StoredAccs)
      BY <1>4
    <2>2. version \in 1..MaxVersion
      BY <1>1, BoundAssumption
    <2> QED
      BY <1>1, <1>2, <1>3, <2>1, <2>2 DEF StoredDocs
  <1>7. Distinct(d.regs) /\ Distinct(d.accs)
    BY <1>5 DEF Distinct
  <1>8. PICK read : read = MapDocumentWithCurrentStatuses(d)
    OBVIOUS
  <1>9. /\ DOMAIN read.regs = {1} /\ DOMAIN read.accs = {1} /\ read.accs \in Seq(UpdatedAccs)
        /\ read.regs[1].id = r /\ read.regs[1].acc = a /\ read.regs[1].fields = fields
        /\ read.regs[1].status = Last(history)
        /\ read.accs[1].id = a /\ read.accs[1].fields = fields /\ read.accs[1].status = Last(history)
    <2>1. IsRead(d, read)
      BY <1>6, <1>8, Reading
    <2>2. d.regs[1] = reg /\ d.accs[1] = acc
      BY <1>5
    <2> QED
      BY <1>2, <1>5, <2>1, <2>2 DEF IsRead, Updates
  <1>10. /\ MALFORMED \notin fields /\ CANCELLED \notin {CREATED, APPROVED}
         /\ CREATED \notin {APPROVED, SUSPENDED} /\ a # NoAcc
    BY <1>1, StatusesNamed, ItemAssumption DEF CANCELLED, CREATED, APPROVED, SUSPENDED
  <1>11. HasItem(read.accs, a) /\ Find(read.accs, a).id = a
    <2>1. HasItem(read.accs, a)
      BY <1>9 DEF HasItem, Ids
    <2> QED
      BY <1>9, <2>1, Finding
  <1>12. /\ FieldsAcceptable(read.regs, {APPROVED})
         /\ FieldsAcceptable(read.accs, ACTIVE_ACCREDITATION_STATUSES)
    BY <1>3, <1>9, <1>10 DEF FieldsAcceptable, ACTIVE_ACCREDITATION_STATUSES
  <1>13. /\ AccreditationLinkUniqueness(read.regs)
         /\ AccreditationLinkExists(read.regs, read.accs)
         /\ AccreditationLinkMatches(read.regs, read.accs)
    BY <1>9, <1>11 DEF AccreditationLinkUniqueness, AccreditationLinkExists,
       AccreditationLinkMatches, LinkedRegistrations, IsAccreditationForRegistration
  <1>14. ValidateApprovals(read.regs, read.accs)
    BY <1>9 DEF ValidateApprovals, AccreditationsHaveApprovedRegistration, NoDuplicateApprovals,
                IsAccreditationForRegistration
  <1>15. CascadeCancelledIds(read.regs, read.accs) = {}
    BY <1>3, <1>9, <1>10 DEF CascadeCancelledIds
  <1> QED
    BY <1>6, <1>7, <1>8, <1>12, <1>13, <1>14, <1>15 DEF Coherent

LEMMA InitHolds ==
  ASSUME Init PROVE Inv
  <1>1. PICK a \in Accs, r \in Regs : /\ Key[r] = Key[a]
                                      /\ docs \in { <<Established(r, a)>>, <<Inserted(r, a)>>,
                                                    <<Completed(r, a)>> }
    BY DEF Init
  <1>2. PICK d \in {Established(r, a), Inserted(r, a), Completed(r, a)} : docs = <<d>>
    BY <1>1
  <1>3. /\ d \in StoredDocs /\ Distinct(d.regs) /\ Distinct(d.accs)
        /\ Coherent(MapDocumentWithCurrentStatuses(d))
    BY <1>1, FirstDocument
  <1>4. docs \in Seq(StoredDocs) /\ Len(docs) = 1 /\ Doc = d
    BY <1>2, <1>3 DEF Doc
  <1>5. req = [q \in Requests |-> Idle] /\ corrected = FALSE
    BY DEF Init
  <1>6. Typed
    <2>1. 1 \in 1..(MaxLag + 1)
      BY BoundAssumption
    <2>2. req = [q \in Requests |-> req[q]]
      BY <1>5
    <2> QED
      BY <1>4, <1>5, <2>1, <2>2 DEF Typed
  <1>7. \A q \in Requests : Holds(q)
    BY <1>5 DEF Holds
  <1> QED
    BY <1>3, <1>4, <1>6, <1>7 DEF Inv, Read

LEMMA BeginKeeps ==
  ASSUME Inv, ReadsAreCurrent, NEW q \in Requests, Begin(q)
  PROVE  Inv'
  <1>1. CASE \E i \in DOMAIN Doc.regs, to \in REGISTRATION_STATUS : RegistrationStatusHistory(q, i, to)
    BY <1>1, RegistrationStatusHistoryTaken
  <1>2. CASE \E i \in DOMAIN Doc.regs, j \in DOMAIN Doc.accs, to \in ACCREDITATION_STATUS :
               AccreditationStatusHistory(q, i, j, to)
    BY <1>2, AccreditationStatusHistoryTaken
  <1>3. CASE \E to \in ORGANISATION_STATUS : PutOrganisationStatus(q, to)
    BY <1>3, PutOrganisationStatusTaken
  <1>4. CASE \E i \in DOMAIN Doc.regs, a \in Accs \cup {NoAcc} : PutLink(q, i, a)
    BY <1>4, PutLinkTaken
  <1>5. CASE \E ids : \E f \in EditedFields \cup {MALFORMED} : PutField(q, ids, f)
    BY <1>5, PutFieldTaken
  <1>6. CASE \E i \in DOMAIN Doc.regs : PutWithoutRegistration(q, i) \/ PutRegistrationHistory(q, i)
    BY <1>6, PutWithoutRegistrationTaken, PutRegistrationHistoryTaken
  <1>7. CASE \E j \in DOMAIN Doc.accs : PutWithoutAccreditation(q, j) \/ PutAccreditationHistory(q, j)
    BY <1>7, PutWithoutAccreditationTaken, PutAccreditationHistoryTaken
  <1>8. CASE \E t \in Tenants : Link(q, t)
    BY <1>8, LinkTaken
  <1>9. CASE Unlink(q)
    BY <1>9, UnlinkTaken
  <1>10. CASE \E u \in Users : AddOrUpdateOrganisationUser(q, u)
    BY <1>10, UserTaken
  <1>11. CASE \E i \in DOMAIN Doc.regs, sites \in SUBSET Sites : MapOverseasSites(q, i, sites)
    BY <1>11, SitesTaken
  <1>12. CASE MigrationBegins(q)
    BY <1>12, MigrationTaken DEF ReadsAreCurrent
  <1> QED
    BY <1>1, <1>2, <1>3, <1>4, <1>5, <1>6, <1>7, <1>8, <1>9, <1>10, <1>11, <1>12 DEF Begin

LEMMA StepKeeps ==
  ASSUME Inv, ReadsAreCurrent, [Next]_vars
  PROVE  Inv'
  <1>1. CASE UNCHANGED vars
    <2>1. docs' = docs /\ req' = req /\ corrected' = corrected
      BY <1>1 DEF vars
    <2>2. Doc' = Doc /\ Read' = Read
      BY <2>1 DEF Doc, Read
    <2>3. \A q \in Requests : Holds(q)'
      BY <2>1, <2>2 DEF Inv, Holds
    <2> QED
      BY <2>1, <2>2, <2>3 DEF Inv, Typed
  <1>2. CASE Next
    <2>1. PICK q \in Requests : Begin(q) \/ Replace(q) \/ ReplaceRegistrationOverseasSites(q)
      BY <1>2 DEF Next
    <2>2. "staleExisting" \notin Disturbances
      BY DEF ReadsAreCurrent
    <2> QED
      BY <2>1, <2>2, BeginKeeps, ReplaceKeeps, SitesKeep
  <1> QED
    BY <1>1, <1>2
LEMMA InvHolds ==
  ASSUME ReadsAreCurrent PROVE Spec => []Inv
  BY InitHolds, StepKeeps, PTL DEF Spec

LEMMA DocumentTyped ==
  ASSUME NEW doc \in StoredDocs
  PROVE  /\ doc.version \in 1..MaxVersion
         /\ doc.history \in Seq(ORGANISATION_STATUS) \ {<<>>}
         /\ doc.link \in Tenants \cup {NotLinked}
         /\ \A i \in DOMAIN doc.regs :
              LET reg == doc.regs[i]
              IN  /\ DOMAIN reg = {"id", "history", "fields", "acc", "sites"}
                  /\ reg.id \in Regs /\ reg.acc \in Accs \cup {NoAcc} /\ reg.sites \subseteq Sites
                  /\ reg.fields \subseteq FIELDS
                  /\ reg.history \in Seq(REGISTRATION_STATUS) \ {<<>>}
         /\ \A j \in DOMAIN doc.accs :
              LET acc == doc.accs[j]
              IN  /\ DOMAIN acc = {"id", "history", "fields"}
                  /\ acc.id \in Accs /\ acc.fields \subseteq FIELDS
                  /\ acc.history \in Seq(ACCREDITATION_STATUS) \ {<<>>}
         /\ doc.users \subseteq [who : Users, initial : BOOLEAN]
  <1>1. /\ doc.version \in 1..MaxVersion
        /\ doc.history \in Seq(ORGANISATION_STATUS) \ {<<>>}
        /\ doc.link \in Tenants \cup {NotLinked}
        /\ doc.users \subseteq [who : Users, initial : BOOLEAN]
        /\ doc.regs \in Seq(StoredRegs) /\ doc.accs \in Seq(StoredAccs)
    BY DEF StoredDocs, Listed
  <1>2. /\ \A i \in DOMAIN doc.regs : doc.regs[i] \in StoredRegs
        /\ \A j \in DOMAIN doc.accs : doc.accs[j] \in StoredAccs
    BY <1>1
  <1>3. ASSUME NEW reg \in StoredRegs
        PROVE  /\ DOMAIN reg = {"id", "history", "fields", "acc", "sites"}
               /\ reg.id \in Regs /\ reg.acc \in Accs \cup {NoAcc} /\ reg.sites \subseteq Sites
               /\ reg.fields \subseteq FIELDS
               /\ reg.history \in Seq(REGISTRATION_STATUS) \ {<<>>}
    BY DEF StoredRegs
  <1>4. ASSUME NEW acc \in StoredAccs
        PROVE  /\ DOMAIN acc = {"id", "history", "fields"}
               /\ acc.id \in Accs /\ acc.fields \subseteq FIELDS
               /\ acc.history \in Seq(ACCREDITATION_STATUS) \ {<<>>}
    BY DEF StoredAccs
  <1> QED
    BY <1>1, <1>2, <1>3, <1>4

LEMMA TypeOKHolds ==
  ASSUME Inv PROVE TypeOK
  <1>1. \A n \in DOMAIN docs : docs[n] \in StoredDocs
    BY DEF Inv, Typed
  <1>2. Len(docs) \in 1..(MaxLag + 1) /\ DOMAIN req = Requests /\ corrected \in BOOLEAN
    BY DEF Inv, Typed
  <1> QED
    BY <1>1, <1>2, DocumentTyped DEF TypeOK

(* However the requests of administrators, users, imports and the          *)
(* migration interleave, the stored document is well-typed and one that    *)
(* validation would accept, until a correction of a history is accepted    *)
(* and from the next replace on again: what replace checks of the document *)
(* a caller read is true of the one it stores, as the version it compares  *)
(* makes the two one document.  It needs the read inside replace and the   *)
(* migration's ids to be current; linking may search a secondary.          *)
THEOREM DocumentStaysConsistent ==
  ASSUME ReadsAreCurrent
  PROVE  Spec => []ConsistentUnlessCorrected
  <1>1. ASSUME Inv PROVE ConsistentUnlessCorrected
    <2>1. TypeOK
      BY <1>1, TypeOKHolds
    <2>2. ASSUME ~ corrected PROVE Coherent(Read)
      BY <1>1, <2>2 DEF Inv
    <2>3. Distinct(Read.regs) /\ Distinct(Read.accs)
      BY <1>1, ReadContinues DEF Continues
    <2> QED
      BY <2>1, <2>2, <2>3 DEF ConsistentUnlessCorrected, Coherent, Distinct
  <1> QED
    BY <1>1, InvHolds, PTL

-----------------------------------------------------------------------------
(* The migration is accepted.                                              *)

LEMMA OtherRequestTaken ==
  ASSUME Inv, MigrationNeverRefused, NEW q \in Requests, NEW kind, kind # "migration",
         NEW own, NEW update, Register(q, Pending(kind, own, update))
  PROVE  MigrationNeverRefused'
  <1>1. PICK r : r = Pending(kind, own, update)
    OBVIOUS
  <1>2. r.kind = kind /\ req' = [req EXCEPT ![q] = r] /\ UNCHANGED <<docs, corrected>>
    BY <1>1 DEF Register, Pending
  <1>3. Doc' = Doc /\ Read' = Read /\ corrected' = corrected
    BY <1>2 DEF Doc, Read
  <1>4. req'[q] = r /\ \A p \in Requests \ {q} : req'[p] = req[p]
    BY <1>2 DEF Inv, Typed
  <1> QED
    BY <1>2, <1>3, <1>4 DEF MigrationNeverRefused

LEMMA BeginNeverRefused ==
  ASSUME Inv, ReadsAreCurrent, MigrationNeverRefused, NEW q \in Requests, Begin(q)
  PROVE  MigrationNeverRefused'
  <1>1. CASE \E i \in DOMAIN Doc.regs, to \in REGISTRATION_STATUS : RegistrationStatusHistory(q, i, to)
    BY <1>1, OtherRequestTaken DEF RegistrationStatusHistory
  <1>2. CASE \E i \in DOMAIN Doc.regs, j \in DOMAIN Doc.accs, to \in ACCREDITATION_STATUS :
               AccreditationStatusHistory(q, i, j, to)
    BY <1>2, OtherRequestTaken DEF AccreditationStatusHistory
  <1>3. CASE \E to \in ORGANISATION_STATUS : PutOrganisationStatus(q, to)
    BY <1>3, OtherRequestTaken DEF PutOrganisationStatus
  <1>4. CASE \E i \in DOMAIN Doc.regs, a \in Accs \cup {NoAcc} : PutLink(q, i, a)
    BY <1>4, OtherRequestTaken DEF PutLink
  <1>5. CASE \E ids : \E f \in EditedFields \cup {MALFORMED} : PutField(q, ids, f)
    <2>1. PICK ids, update : Register(q, Pending("put", ids, update))
      BY <1>5 DEF PutField
    <2> QED
      BY <2>1, OtherRequestTaken
  <1>6. CASE \E i \in DOMAIN Doc.regs : PutWithoutRegistration(q, i) \/ PutRegistrationHistory(q, i)
    BY <1>6, OtherRequestTaken DEF PutWithoutRegistration, PutRegistrationHistory
  <1>7. CASE \E j \in DOMAIN Doc.accs : PutWithoutAccreditation(q, j) \/ PutAccreditationHistory(q, j)
    BY <1>7, OtherRequestTaken DEF PutWithoutAccreditation, PutAccreditationHistory
  <1>8. CASE \E t \in Tenants : Link(q, t)
    BY <1>8, OtherRequestTaken DEF Link
  <1>9. CASE Unlink(q)
    BY <1>9, OtherRequestTaken DEF Unlink
  <1>10. CASE \E u \in Users : AddOrUpdateOrganisationUser(q, u)
    <2>1. PICK update : Register(q, Pending("user", {"users"}, update))
      BY <1>10 DEF AddOrUpdateOrganisationUser
    <2> QED
      BY <2>1, OtherRequestTaken
  <1>11. CASE \E i \in DOMAIN Doc.regs, sites \in SUBSET Sites : MapOverseasSites(q, i, sites)
    <2>1. PICK r : r.kind = "sites" /\ req' = [req EXCEPT ![q] = r] /\ UNCHANGED <<docs, corrected>>
      BY <1>11 DEF MapOverseasSites, Register
    <2>2. Doc' = Doc /\ Read' = Read /\ corrected' = corrected
      BY <2>1 DEF Doc, Read
    <2>3. req'[q] = r /\ \A p \in Requests \ {q} : req'[p] = req[p]
      BY <2>1 DEF Inv, Typed
    <2> QED
      BY <2>1, <2>2, <2>3 DEF MigrationNeverRefused
  <1>12. CASE MigrationBegins(q)
    <2>1. PICK r : /\ req' = [req EXCEPT ![q] = r] /\ UNCHANGED <<docs, corrected>>
                   /\ ~ corrected => UpdateAcceptable(Read, r.update)
      BY <1>12, MigrationTaken DEF ReadsAreCurrent
    <2>2. Doc' = Doc /\ Read' = Read /\ corrected' = corrected
      BY <2>1 DEF Doc, Read
    <2>3. req'[q] = r /\ \A p \in Requests \ {q} : req'[p] = req[p]
      BY <2>1 DEF Inv, Typed
    <2> QED
      BY <2>1, <2>2, <2>3 DEF MigrationNeverRefused
  <1> QED
    BY <1>1, <1>2, <1>3, <1>4, <1>5, <1>6, <1>7, <1>8, <1>9, <1>10, <1>11, <1>12 DEF Begin

(* A write gives up or outdates every request.                             *)
LEMMA WriteNeverRefused ==
  ASSUME Inv, Inv', MigrationNeverRefused, NEW q \in Requests,
         req' = [req EXCEPT ![q] = Idle],
         UNCHANGED <<docs, corrected>> \/ Doc'.version = Doc.version + 1
  PROVE  MigrationNeverRefused'
  <1>1. req'[q] = Idle /\ \A p \in Requests \ {q} : req'[p] = req[p]
    BY DEF Inv, Typed
  <1>2. req'[q].kind # "migration"
    BY <1>1 DEF Idle
  <1>3. CASE UNCHANGED <<docs, corrected>>
    <2>1. Doc' = Doc /\ Read' = Read /\ corrected' = corrected
      BY <1>3 DEF Doc, Read
    <2> QED
      BY <1>1, <1>2, <2>1 DEF MigrationNeverRefused
  <1>4. CASE Doc'.version = Doc.version + 1
    <2>1. Doc.version \in Nat
      BY ReadOfDoc, BoundAssumption DEF Inv, StoredDocs
    <2>2. \A p \in Requests \ {q} : req[p].kind = "migration" => req[p].version \in 1..Doc.version
      BY DEF Inv, Holds, Idle
    <2>3. \A p \in Requests : req'[p].kind = "migration" => req'[p].version # Doc'.version
      BY <1>1, <1>2, <1>4, <2>1, <2>2
    <2> QED
      BY <2>3 DEF MigrationNeverRefused
  <1> QED
    BY <1>3, <1>4

LEMMA ReplaceWrites ==
  ASSUME Inv, "staleExisting" \notin Disturbances, NEW q \in Requests,
         Replace(q) \/ ReplaceRegistrationOverseasSites(q)
  PROVE  /\ req' = [req EXCEPT ![q] = Idle]
         /\ UNCHANGED <<docs, corrected>> \/ Doc'.version = Doc.version + 1
  <1>1. req' = [req EXCEPT ![q] = Idle]
    BY DEF Replace, ReplaceRegistrationOverseasSites
  <1>2. ASSUME Replace(q), ReplaceAccepted(q, Doc)
        PROVE  Doc'.version = Doc.version + 1
    <2>1. PICK next : next = PrepareForReplace(Read, req[q].update)
      OBVIOUS
    <2>2. Store(next) /\ req[q].kind \notin {"idle", "sites"}
      BY <1>2, <2>1 DEF Replace, View, Read
    <2>3. req[q] # Idle /\ req[q].kind \in Replacing
      BY <2>2 DEF Idle, Inv, Holds
    <2>4. req[q].version = Doc.version /\ UpdateAcceptable(Read, req[q].update)
      BY <1>2 DEF ReplaceAccepted, Read
    <2>5. next \in StoredDocs /\ next.version = Doc.version + 1
      BY <2>1, <2>3, <2>4, Prepared
    <2> QED
      BY <2>2, <2>5, Storing DEF Inv
  <1>3. ASSUME Replace(q), ~ ReplaceAccepted(q, Doc)
        PROVE  UNCHANGED <<docs, corrected>>
    BY <1>3 DEF Replace, View
  <1>4. ASSUME ReplaceRegistrationOverseasSites(q), req[q].version = Doc.version
        PROVE  Doc'.version = Doc.version + 1
    <2>1. PICK d : d = Spread(Doc, [version |-> Doc.version + 1,
                                    regs |-> WithSites(Doc.regs, req[q].own, req[q].sites)])
      OBVIOUS
    <2>2. Store(d)
      BY <1>4, <2>1 DEF ReplaceRegistrationOverseasSites
    <2>3. d.version = Doc.version + 1
      BY <2>1 DEF Spread
    <2>4. Doc' = d
      <3>1. PICK all : all = <<d>> \o docs
        OBVIOUS
      <3>2. Len(docs) \in Nat /\ Len(docs) >= 1 /\ docs \in Seq(StoredDocs)
        BY BoundAssumption DEF Inv, Typed
      <3>3. all \in Seq({d} \cup StoredDocs) /\ Len(all) = Len(docs) + 1 /\ all[1] = d
        BY <3>1, <3>2
      <3>4. PICK n : n = IF Len(docs) > MaxLag THEN MaxLag + 1 ELSE Len(docs) + 1
        OBVIOUS
      <3>5. docs' = SubSeq(all, 1, n) /\ n \in 1..Len(all)
        BY <2>2, <3>1, <3>2, <3>3, <3>4, BoundAssumption DEF Store
      <3> QED
        BY <3>3, <3>5 DEF Doc
    <2> QED
      BY <2>3, <2>4
  <1>5. ASSUME ReplaceRegistrationOverseasSites(q), req[q].version # Doc.version
        PROVE  UNCHANGED <<docs, corrected>>
    BY <1>5 DEF ReplaceRegistrationOverseasSites
  <1> QED
    BY <1>1, <1>2, <1>3, <1>4, <1>5

(* What the migration links is accepted while nothing else was written:    *)
(* no status changes, an approved accreditation keeps its registration and *)
(* no accreditation is given to two, so that forms are not left waiting.   *)
THEOREM MigrationIsAccepted ==
  ASSUME ReadsAreCurrent
  PROVE  Spec => []MigrationNeverRefused
  <1>1. ASSUME Init PROVE MigrationNeverRefused
    <2>1. \A q \in Requests : req[q].kind # "migration"
      BY <1>1 DEF Init, Idle
    <2> QED
      BY <2>1 DEF MigrationNeverRefused
  <1>2. ASSUME Inv, Inv', MigrationNeverRefused, [Next]_vars PROVE MigrationNeverRefused'
    <2>1. CASE UNCHANGED vars
      <3>1. docs' = docs /\ req' = req /\ corrected' = corrected
        BY <2>1 DEF vars
      <3>2. Doc' = Doc /\ Read' = Read
        BY <3>1 DEF Doc, Read
      <3> QED
        BY <1>2, <3>1, <3>2 DEF MigrationNeverRefused
    <2>2. CASE Next
      <3>1. PICK q \in Requests : Begin(q) \/ Replace(q) \/ ReplaceRegistrationOverseasSites(q)
        BY <2>2 DEF Next
      <3>2. CASE Begin(q)
        BY <1>2, <3>2, BeginNeverRefused
      <3>3. CASE Replace(q) \/ ReplaceRegistrationOverseasSites(q)
        <4>1. "staleExisting" \notin Disturbances
          BY DEF ReadsAreCurrent
        <4>2. /\ req' = [req EXCEPT ![q] = Idle]
              /\ UNCHANGED <<docs, corrected>> \/ Doc'.version = Doc.version + 1
          BY <1>2, <3>3, <4>1, ReplaceWrites
        <4> QED
          BY <1>2, <4>2, WriteNeverRefused
      <3> QED
        BY <3>1, <3>2, <3>3
    <2> QED
      BY <1>2, <2>1, <2>2
  <1> QED
    BY <1>1, <1>2, InvHolds, PTL DEF Spec

-----------------------------------------------------------------------------
(* No update is lost.                                                      *)

(* An item that is not the request's own is in the update as it was read,  *)
(* but for a link that the migration gives.                                *)
RegKept(own, reg, items) ==
  \E k \in DOMAIN items :
    /\ items[k].id = reg.id /\ items[k].history = reg.history /\ items[k].fields = reg.fields
    /\ items[k].sites = reg.sites /\ items[k].status = reg.status
    /\ items[k].acc # reg.acc => "forms" \in own

RegsKept(own, read, items) ==
  \A i \in DOMAIN read : read[i].id \notin own => RegKept(own, read[i], items)

AccsKept(own, read, items) ==
  \A j \in DOMAIN read : read[j].id \notin own => \E k \in DOMAIN items : items[k] = read[j]

(* A correction changes no link and no status of a registration.           *)
Corrects(read, items) ==
  \A k \in DOMAIN items :
    k \in DOMAIN read /\ items[k].acc = read[k].acc /\ items[k].status = read[k].status

ChangesOwn(kind, own, read, update) ==
  /\ update.status # read.status => "status" \in own
  /\ update.link # read.link => "link" \in own /\ NotLinked \in {read.link, update.link}
  /\ read.users \subseteq update.users
  /\ update.users # read.users => "users" \in own
  /\ RegsKept(own, read.regs, update.regs)
  /\ AccsKept(own, read.accs, update.accs)
  /\ kind = "correct" => Corrects(read.regs, update.regs)

KeepsOthers ==
  \A q \in Requests :
    req[q] # Idle /\ req[q].kind \in Replacing /\ req[q].version = Doc.version
      => ChangesOwn(req[q].kind, req[q].own, Read, req[q].update)

LEMMA OwnTaken ==
  ASSUME Inv, KeepsOthers, NEW q \in Requests, NEW kind, NEW own, NEW update,
         Register(q, Pending(kind, own, update)), ChangesOwn(kind, own, Read, update)
  PROVE  KeepsOthers'
  <1>1. PICK r : r = Pending(kind, own, update)
    OBVIOUS
  <1>2. /\ r.kind = kind /\ r.own = own /\ r.update = update
        /\ req' = [req EXCEPT ![q] = r] /\ docs' = docs
    BY <1>1 DEF Register, Pending
  <1>3. Doc' = Doc /\ Read' = Read
    BY <1>2 DEF Doc, Read
  <1>4. req'[q] = r /\ \A p \in Requests \ {q} : req'[p] = req[p]
    BY <1>2 DEF Inv, Typed
  <1> QED
    BY <1>2, <1>3, <1>4 DEF KeepsOthers

LEMMA SameKept ==
  ASSUME NEW own, NEW read
  PROVE  RegsKept(own, read, read) /\ AccsKept(own, read, read) /\ Corrects(read, read)
  BY DEF RegsKept, RegKept, AccsKept, Corrects

LEMMA RegOwned ==
  ASSUME Inv, NEW kind, NEW own, NEW i \in DOMAIN Read.regs, NEW item, Read.regs[i].id \in own,
         kind = "correct" => item.acc = Read.regs[i].acc /\ item.status = Read.regs[i].status
  PROVE  ChangesOwn(kind, own, Read, [Read EXCEPT !.regs[i] = item])
  <1>1. PICK read \in Updates : read = Read
    BY ReadOfDoc DEF Inv, IsRead
  <1>2. PICK update, regs :
          update = [read EXCEPT !.regs[i] = item] /\ regs = [read.regs EXCEPT ![i] = item]
    OBVIOUS
  <1>3. /\ update.status = read.status /\ update.link = read.link /\ update.users = read.users
        /\ update.regs = regs /\ update.accs = read.accs
    BY <1>2 DEF Updates
  <1>4. /\ DOMAIN regs = DOMAIN read.regs /\ i \in DOMAIN read.regs /\ regs[i] = item
        /\ \A k \in DOMAIN read.regs \ {i} : regs[k] = read.regs[k]
    BY <1>1, <1>2
  <1>5. RegsKept(own, read.regs, regs)
    BY <1>1, <1>4 DEF RegsKept, RegKept
  <1>6. ASSUME kind = "correct" PROVE Corrects(read.regs, regs)
    BY <1>1, <1>4, <1>6 DEF Corrects
  <1>7. ChangesOwn(kind, own, read, update)
    BY <1>3, <1>5, <1>6, SameKept DEF ChangesOwn
  <1> QED
    BY <1>1, <1>2, <1>7

LEMMA AccOwned ==
  ASSUME Inv, NEW kind, NEW own, NEW j \in DOMAIN Read.accs, NEW item, Read.accs[j].id \in own
  PROVE  ChangesOwn(kind, own, Read, [Read EXCEPT !.accs[j] = item])
  <1>1. PICK read \in Updates : read = Read
    BY ReadOfDoc DEF Inv, IsRead
  <1>2. PICK update, accs :
          update = [read EXCEPT !.accs[j] = item] /\ accs = [read.accs EXCEPT ![j] = item]
    OBVIOUS
  <1>3. /\ update.status = read.status /\ update.link = read.link /\ update.users = read.users
        /\ update.regs = read.regs /\ update.accs = accs
    BY <1>2 DEF Updates
  <1>4. /\ DOMAIN accs = DOMAIN read.accs
        /\ \A k \in DOMAIN read.accs \ {j} : accs[k] = read.accs[k]
    BY <1>1, <1>2
  <1>5. AccsKept(own, read.accs, accs)
    BY <1>1, <1>4 DEF AccsKept
  <1>6. ChangesOwn(kind, own, read, update)
    BY <1>3, <1>5, SameKept DEF ChangesOwn
  <1> QED
    BY <1>1, <1>2, <1>6

(* What is no item.                                                        *)
LEMMA FieldOwned ==
  ASSUME Inv, NEW kind, NEW own, NEW update,
         update.regs = Read.regs, update.accs = Read.accs,
         update.status # Read.status => "status" \in own,
         update.link # Read.link => "link" \in own /\ NotLinked \in {Read.link, update.link},
         Read.users \subseteq update.users,
         update.users # Read.users => "users" \in own
  PROVE  ChangesOwn(kind, own, Read, update)
  BY SameKept DEF ChangesOwn

LEMMA RemovedKept ==
  ASSUME NEW S, NEW read \in Seq(S), NEW i \in DOMAIN read, NEW own, read[i].id \in own
  PROVE  RegsKept(own, read, RemoveAt(read, i)) /\ AccsKept(own, read, RemoveAt(read, i))
  <1>1. PICK left : left = RemoveAt(read, i)
    OBVIOUS
  <1>2. ASSUME NEW n \in DOMAIN read, n # i PROVE \E k \in DOMAIN left : left[k] = read[n]
    <2>1. /\ DOMAIN left = 1..(Len(read) - 1)
          /\ \A k \in DOMAIN left : left[k] = read[IF k < i THEN k ELSE k + 1]
      BY <1>1, RemoveAtTyped
    <2>2. n \in 1..Len(read) /\ i \in 1..Len(read) /\ Len(read) \in Nat
      OBVIOUS
    <2>3. CASE n < i
      BY <2>1, <2>2, <2>3
    <2>4. CASE n > i
      <3>1. n - 1 \in DOMAIN left /\ ~ (n - 1 < i) /\ (n - 1) + 1 = n
        BY <2>1, <2>2, <2>4
      <3> QED
        BY <2>1, <3>1
    <2> QED
      BY <1>2, <2>2, <2>3, <2>4
  <1>3. \A n \in DOMAIN read : read[n].id \notin own => \E k \in DOMAIN left : left[k] = read[n]
    BY <1>2
  <1>4. AccsKept(own, read, left)
    BY <1>3 DEF AccsKept
  <1>5. RegsKept(own, read, left)
    BY <1>3 DEF RegsKept, RegKept
  <1> QED
    BY <1>1, <1>4, <1>5

LEMMA EditedKept ==
  ASSUME NEW read, NEW ids, NEW field
  PROVE  /\ RegsKept(ids, read, [i \in DOMAIN read |-> EditedItem(read[i], ids, field)])
         /\ AccsKept(ids, read, [i \in DOMAIN read |-> EditedItem(read[i], ids, field)])
  <1>1. PICK edited : edited = [i \in DOMAIN read |-> EditedItem(read[i], ids, field)]
    OBVIOUS
  <1>2. \A n \in DOMAIN read : read[n].id \notin ids => n \in DOMAIN edited /\ edited[n] = read[n]
    BY <1>1 DEF EditedItem
  <1> QED
    BY <1>1, <1>2 DEF RegsKept, RegKept, AccsKept

LEMMA StatusHistoriesOwned ==
  ASSUME Inv, KeepsOthers, NEW q \in Requests, NEW i \in DOMAIN Doc.regs,
         \/ \E to : RegistrationStatusHistory(q, i, to)
         \/ \E j \in DOMAIN Doc.accs : \E to : AccreditationStatusHistory(q, i, j, to)
  PROVE  KeepsOthers'
  <1>1. i \in DOMAIN Read.regs /\ DOMAIN Read.accs = DOMAIN Doc.accs
    BY ReadOfDoc DEF Inv, IsRead
  <1>2. ASSUME NEW to, RegistrationStatusHistory(q, i, to) PROVE KeepsOthers'
    <2>1. PICK own, item : own = {Read.regs[i].id} /\ item = Decided(Read.regs[i], to)
      OBVIOUS
    <2>2. Read.regs[i].id \in own
      BY <2>1
    <2>3. ChangesOwn("registration", own, Read, [Read EXCEPT !.regs[i] = item])
      BY <1>1, <2>2, RegOwned
    <2> QED
      BY <1>2, <2>1, <2>3, OwnTaken DEF RegistrationStatusHistory
  <1>3. ASSUME NEW j \in DOMAIN Doc.accs, NEW to, AccreditationStatusHistory(q, i, j, to)
        PROVE  KeepsOthers'
    <2>1. PICK own, item : own = {Read.accs[j].id} /\ item = Decided(Read.accs[j], to)
      OBVIOUS
    <2>2. j \in DOMAIN Read.accs /\ Read.accs[j].id \in own
      BY <1>1, <2>1
    <2>3. ChangesOwn("accreditation", own, Read, [Read EXCEPT !.accs[j] = item])
      BY <2>2, AccOwned
    <2> QED
      BY <1>3, <2>1, <2>3, OwnTaken DEF AccreditationStatusHistory
  <1> QED
    BY <1>2, <1>3

LEMMA EditsOwned ==
  ASSUME Inv, KeepsOthers, NEW q \in Requests,
         \/ \E i \in DOMAIN Doc.regs : \E a : PutLink(q, i, a)
         \/ \E i \in DOMAIN Doc.regs : PutRegistrationHistory(q, i)
         \/ \E j \in DOMAIN Doc.accs : PutAccreditationHistory(q, j)
  PROVE  KeepsOthers'
  <1>1. DOMAIN Read.regs = DOMAIN Doc.regs /\ DOMAIN Read.accs = DOMAIN Doc.accs
    BY ReadOfDoc DEF Inv, IsRead
  <1>2. ASSUME NEW i \in DOMAIN Doc.regs, NEW a, PutLink(q, i, a) PROVE KeepsOthers'
    <2>1. PICK own, item : own = {Read.regs[i].id} /\ item = [Read.regs[i] EXCEPT !.acc = a]
      OBVIOUS
    <2>2. ChangesOwn("put", own, Read, [Read EXCEPT !.regs[i] = item])
      BY <1>1, <2>1, RegOwned
    <2>3. Register(q, Pending("put", own, [Read EXCEPT !.regs[i] = item]))
      BY <1>2, <2>1 DEF PutLink
    <2> QED
      BY <2>2, <2>3, OwnTaken
  <1>3. ASSUME NEW i \in DOMAIN Doc.regs, PutRegistrationHistory(q, i) PROVE KeepsOthers'
    <2>1. PICK h : Register(q, Pending("correct", {Read.regs[i].id},
                                       [Read EXCEPT !.regs[i].history = h]))
      BY <1>3 DEF PutRegistrationHistory
    <2>2. PICK own, item : own = {Read.regs[i].id} /\ item = [Read.regs[i] EXCEPT !.history = h]
      OBVIOUS
    <2>3. /\ item.acc = Read.regs[i].acc /\ item.status = Read.regs[i].status
          /\ i \in DOMAIN Read.regs /\ Read.regs[i].id \in own
      BY <1>1, <1>3, <2>2, RegOfRead DEF UpdatedRegs
    <2>4. ChangesOwn("correct", own, Read, [Read EXCEPT !.regs[i] = item])
      BY <2>3, RegOwned
    <2>5. Register(q, Pending("correct", own, [Read EXCEPT !.regs[i] = item]))
      BY <2>1, <2>2
    <2> QED
      BY <2>4, <2>5, OwnTaken
  <1>4. ASSUME NEW j \in DOMAIN Doc.accs, PutAccreditationHistory(q, j) PROVE KeepsOthers'
    <2>1. PICK h : Register(q, Pending("correct", {Read.accs[j].id},
                                       [Read EXCEPT !.accs[j].history = h]))
      BY <1>4 DEF PutAccreditationHistory
    <2>2. PICK own, item : own = {Read.accs[j].id} /\ item = [Read.accs[j] EXCEPT !.history = h]
      OBVIOUS
    <2>3. j \in DOMAIN Read.accs /\ Read.accs[j].id \in own
      BY <1>1, <2>2
    <2>4. ChangesOwn("correct", own, Read, [Read EXCEPT !.accs[j] = item])
      BY <2>3, AccOwned
    <2>5. Register(q, Pending("correct", own, [Read EXCEPT !.accs[j] = item]))
      BY <2>1, <2>2
    <2> QED
      BY <2>4, <2>5, OwnTaken
  <1> QED
    BY <1>2, <1>3, <1>4

LEMMA RemovalsOwned ==
  ASSUME Inv, KeepsOthers, NEW q \in Requests,
         \/ \E i \in DOMAIN Doc.regs : PutWithoutRegistration(q, i)
         \/ \E j \in DOMAIN Doc.accs : PutWithoutAccreditation(q, j)
  PROVE  KeepsOthers'
  <1>1. PICK read \in Updates : read = Read
    BY ReadOfDoc DEF Inv, IsRead
  <1>2. /\ DOMAIN read.regs = DOMAIN Doc.regs /\ DOMAIN read.accs = DOMAIN Doc.accs
        /\ read.regs \in Seq(UpdatedRegs) /\ read.accs \in Seq(UpdatedAccs)
    BY <1>1, ReadOfDoc DEF Inv, IsRead, Updates
  <1>3. ASSUME NEW i \in DOMAIN Doc.regs, PutWithoutRegistration(q, i) PROVE KeepsOthers'
    <2>1. PICK own, regs : own = {read.regs[i].id} /\ regs = RemoveAt(read.regs, i)
      OBVIOUS
    <2>2. PICK update : update = [read EXCEPT !.regs = regs]
      OBVIOUS
    <2>3. /\ update.status = read.status /\ update.link = read.link /\ update.users = read.users
          /\ update.regs = regs /\ update.accs = read.accs
      BY <2>2 DEF Updates
    <2>4. ChangesOwn("put", own, read, update)
      BY <1>2, <2>1, <2>3, RemovedKept, SameKept DEF ChangesOwn
    <2> QED
      BY <1>1, <1>3, <2>1, <2>2, <2>4, OwnTaken DEF PutWithoutRegistration
  <1>4. ASSUME NEW j \in DOMAIN Doc.accs, PutWithoutAccreditation(q, j) PROVE KeepsOthers'
    <2>1. PICK own, accs : own = {read.accs[j].id} /\ accs = RemoveAt(read.accs, j)
      OBVIOUS
    <2>2. PICK update : update = [read EXCEPT !.accs = accs]
      OBVIOUS
    <2>3. /\ update.status = read.status /\ update.link = read.link /\ update.users = read.users
          /\ update.regs = read.regs /\ update.accs = accs
      BY <2>2 DEF Updates
    <2>4. ChangesOwn("put", own, read, update)
      BY <1>2, <2>1, <2>3, RemovedKept, SameKept DEF ChangesOwn
    <2> QED
      BY <1>1, <1>4, <2>1, <2>2, <2>4, OwnTaken DEF PutWithoutAccreditation
  <1> QED
    BY <1>3, <1>4

LEMMA PutFieldOwned ==
  ASSUME Inv, KeepsOthers, NEW q \in Requests, NEW ids, NEW field, PutField(q, ids, field)
  PROVE  KeepsOthers'
  <1>1. PICK read \in Updates : read = Read
    BY ReadOfDoc DEF Inv, IsRead
  <1>2. PICK regs, accs :
          /\ regs = [i \in DOMAIN read.regs |-> EditedItem(read.regs[i], ids, field)]
          /\ accs = [j \in DOMAIN read.accs |-> EditedItem(read.accs[j], ids, field)]
    OBVIOUS
  <1>3. PICK update : update = Spread(read, [regs |-> regs, accs |-> accs])
    OBVIOUS
  <1>4. /\ update.status = read.status /\ update.link = read.link /\ update.users = read.users
        /\ update.regs = regs /\ update.accs = accs
    BY <1>3 DEF Updates, Spread
  <1>5. RegsKept(ids, read.regs, regs) /\ AccsKept(ids, read.accs, accs)
    BY <1>2, EditedKept
  <1>6. ChangesOwn("put", ids, read, update)
    BY <1>4, <1>5 DEF ChangesOwn
  <1>7. Register(q, Pending("put", ids, update))
    BY <1>1, <1>2, <1>3 DEF PutField, EditedItem
  <1> QED
    BY <1>1, <1>6, <1>7, OwnTaken

LEMMA FieldsOwned ==
  ASSUME Inv, KeepsOthers, "staleLinkable" \notin Disturbances, NEW q \in Requests,
         \/ \E to : PutOrganisationStatus(q, to)
         \/ \E t : Link(q, t)
         \/ Unlink(q)
         \/ \E u : AddOrUpdateOrganisationUser(q, u)
  PROVE  KeepsOthers'
  <1>1. PICK read \in Updates : read = Read
    BY ReadOfDoc DEF Inv, IsRead
  <1>2. ASSUME NEW to, PutOrganisationStatus(q, to) PROVE KeepsOthers'
    <2>1. PICK update : update = [read EXCEPT !.status = to]
      OBVIOUS
    <2>2. /\ update.link = read.link /\ update.users = read.users
          /\ update.regs = read.regs /\ update.accs = read.accs
      BY <2>1 DEF Updates
    <2>3. ChangesOwn("put", {"status"}, Read, update)
      BY <1>1, <2>2, FieldOwned
    <2> QED
      BY <1>1, <1>2, <2>1, <2>3, OwnTaken DEF PutOrganisationStatus
  <1>3. ASSUME NEW t, Link(q, t) PROVE KeepsOthers'
    <2>1. PICK update : update = Spread(read, [status |-> ACTIVE, link |-> t])
      OBVIOUS
    <2>2. /\ update.users = read.users
          /\ update.regs = read.regs /\ update.accs = read.accs
      BY <2>1 DEF Updates, Spread
    <2>3. read.link = NotLinked
      <3>1. read.link = Doc.link
        BY <1>1, ReadOfDoc DEF Inv, IsRead
      <3> QED
        BY <1>3, <3>1 DEF Link, View, IsLinkable
    <2>4. ChangesOwn("link", {"status", "link"}, Read, update)
      BY <1>1, <2>2, <2>3, FieldOwned
    <2> QED
      BY <1>1, <1>3, <2>1, <2>4, OwnTaken DEF Link
  <1>4. ASSUME Unlink(q) PROVE KeepsOthers'
    <2>1. PICK update : update = [read EXCEPT !.link = NotLinked]
      OBVIOUS
    <2>2. /\ update.status = read.status /\ update.users = read.users /\ update.link = NotLinked
          /\ update.regs = read.regs /\ update.accs = read.accs
      BY <2>1 DEF Updates
    <2>3. ChangesOwn("unlink", {"link"}, Read, update)
      BY <1>1, <2>2, FieldOwned
    <2> QED
      BY <1>1, <1>4, <2>1, <2>3, OwnTaken DEF Unlink
  <1>5. ASSUME NEW u, AddOrUpdateOrganisationUser(q, u) PROVE KeepsOthers'
    <2>1. PICK users : users = read.users \cup {[who |-> u, initial |-> FALSE]}
      OBVIOUS
    <2>2. PICK update : update = [read EXCEPT !.users = users]
      OBVIOUS
    <2>3. /\ update.status = read.status /\ update.users = users /\ update.link = read.link
          /\ update.regs = read.regs /\ update.accs = read.accs /\ read.users \subseteq users
      BY <2>1, <2>2 DEF Updates
    <2>4. ChangesOwn("user", {"users"}, Read, update)
      BY <1>1, <2>3, FieldOwned
    <2>5. Register(q, Pending("user", {"users"}, update))
      BY <1>1, <1>5, <2>1, <2>2 DEF AddOrUpdateOrganisationUser
    <2> QED
      BY <2>4, <2>5, OwnTaken
  <1> QED
    BY <1>2, <1>3, <1>4, <1>5

LEMMA SitesOwned ==
  ASSUME Inv, KeepsOthers, NEW q \in Requests, NEW i, NEW sites, MapOverseasSites(q, i, sites)
  PROVE  KeepsOthers'
  <1>1. PICK r : r = [kind |-> "sites", version |-> Doc.version, own |-> {Doc.regs[i].id},
                      sites |-> sites]
    OBVIOUS
  <1>2. r.kind = "sites" /\ req' = [req EXCEPT ![q] = r] /\ docs' = docs
    BY <1>1 DEF Register, MapOverseasSites
  <1>3. Doc' = Doc /\ Read' = Read
    BY <1>2 DEF Doc, Read
  <1>4. req'[q] = r /\ \A p \in Requests \ {q} : req'[p] = req[p]
    BY <1>2 DEF Inv, Typed
  <1> QED
    BY <1>2, <1>3, <1>4 DEF KeepsOthers, Replacing

LEMMA MigrationOwned ==
  ASSUME Inv, KeepsOthers, "staleIds" \notin Disturbances, NEW q \in Requests, MigrationBegins(q)
  PROVE  KeepsOthers'
  <1>0. PICK ids : ids = Doc
    OBVIOUS
  <1>1. PICK submissions \in SubmissionsToMigrate(ids) :
          Register(q, Pending("migration", {"forms"},
                              TransformAndLinkAllNewSubmissions(submissions)))
    BY <1>0 DEF MigrationBegins, View
  <1>2. PICK update, read :
          update = TransformAndLinkAllNewSubmissions(submissions) /\ read = Read
    OBVIOUS
  <1>3. PICK regs, accs : /\ Migrates(read, regs, accs, update)
                          /\ Extends(read.regs, regs) /\ Extends(read.accs, accs)
    BY <1>0, <1>2, MigrationLinks
  <1>4. RegsKept({"forms"}, read.regs, update.regs)
    <2>1. \A i \in DOMAIN read.regs :
            /\ i \in DOMAIN update.regs /\ update.regs[i].id = read.regs[i].id
            /\ update.regs[i].history = read.regs[i].history
            /\ update.regs[i].fields = read.regs[i].fields
            /\ update.regs[i].sites = read.regs[i].sites
            /\ update.regs[i].status = read.regs[i].status
      BY <1>3 DEF Migrates, Extends
    <2> QED
      BY <2>1 DEF RegsKept, RegKept
  <1>5. AccsKept({"forms"}, read.accs, update.accs)
    BY <1>3 DEF Migrates, Extends, AccsKept
  <1>6. ChangesOwn("migration", {"forms"}, read, update)
    BY <1>3, <1>4, <1>5 DEF ChangesOwn, Migrates
  <1> QED
    BY <1>1, <1>2, <1>6, OwnTaken

LEMMA BeginKeepsOthers ==
  ASSUME Inv, KeepsOthers, Disturbances = {}, NEW q \in Requests, Begin(q)
  PROVE  KeepsOthers'
  <1>1. CASE \/ \E i \in DOMAIN Doc.regs, to \in REGISTRATION_STATUS :
                  RegistrationStatusHistory(q, i, to)
             \/ \E i \in DOMAIN Doc.regs, j \in DOMAIN Doc.accs, to \in ACCREDITATION_STATUS :
                  AccreditationStatusHistory(q, i, j, to)
    BY <1>1, StatusHistoriesOwned
  <1>2. CASE \/ \E i \in DOMAIN Doc.regs, a \in Accs \cup {NoAcc} : PutLink(q, i, a)
             \/ \E i \in DOMAIN Doc.regs : PutRegistrationHistory(q, i)
             \/ \E j \in DOMAIN Doc.accs : PutAccreditationHistory(q, j)
    BY <1>2, EditsOwned
  <1>3. CASE \/ \E i \in DOMAIN Doc.regs : PutWithoutRegistration(q, i)
             \/ \E j \in DOMAIN Doc.accs : PutWithoutAccreditation(q, j)
    BY <1>3, RemovalsOwned
  <1>4. CASE \E ids, field : PutField(q, ids, field)
    BY <1>4, PutFieldOwned
  <1>5. CASE \/ \E to \in ORGANISATION_STATUS : PutOrganisationStatus(q, to)
             \/ \E t \in Tenants : Link(q, t)
             \/ Unlink(q)
             \/ \E u \in Users : AddOrUpdateOrganisationUser(q, u)
    BY <1>5, FieldsOwned
  <1>6. CASE \E i \in DOMAIN Doc.regs, sites \in SUBSET Sites : MapOverseasSites(q, i, sites)
    BY <1>6, SitesOwned
  <1>7. CASE MigrationBegins(q)
    BY <1>7, MigrationOwned
  <1> QED
    BY <1>1, <1>2, <1>3, <1>4, <1>5, <1>6, <1>7 DEF Begin

-----------------------------------------------------------------------------
LEMMA RegStoredAs ==
  ASSUME NEW existing, NEW items \in Seq(UpdatedRegs), NEW k \in DOMAIN items
  PROVE  UpdateStatusHistoryForItems(existing, items)[k] =
           [id |-> items[k].id, history |-> NextHistory(existing, items, k),
            fields |-> items[k].fields, acc |-> items[k].acc, sites |-> items[k].sites]
  <1>1. PICK item \in UpdatedRegs : item = items[k]
    OBVIOUS
  <1>2. PICK h : h = NextHistory(existing, items, k)
    OBVIOUS
  <1>3. UpdateStatusHistoryForItems(existing, items)[k] = WithoutStatus([item EXCEPT !.history = h])
    BY <1>1, <1>2 DEF UpdateStatusHistoryForItems, NextHistory
  <1>4. PICK stays : stays = WithoutStatus([item EXCEPT !.history = h])
    OBVIOUS
  <1>5. stays = [id |-> item.id, history |-> h, fields |-> item.fields, acc |-> item.acc,
                 sites |-> item.sites]
    BY <1>4 DEF WithoutStatus, UpdatedRegs
  <1> QED
    BY <1>1, <1>2, <1>3, <1>4, <1>5

LEMMA AccStoredAs ==
  ASSUME NEW existing, NEW items \in Seq(UpdatedAccs), NEW k \in DOMAIN items
  PROVE  UpdateStatusHistoryForItems(existing, items)[k] =
           [id |-> items[k].id, history |-> NextHistory(existing, items, k),
            fields |-> items[k].fields]
  <1>1. PICK item \in UpdatedAccs : item = items[k]
    OBVIOUS
  <1>2. PICK h : h = NextHistory(existing, items, k)
    OBVIOUS
  <1>3. UpdateStatusHistoryForItems(existing, items)[k] = WithoutStatus([item EXCEPT !.history = h])
    BY <1>1, <1>2 DEF UpdateStatusHistoryForItems, NextHistory
  <1>4. PICK stays : stays = WithoutStatus([item EXCEPT !.history = h])
    OBVIOUS
  <1>5. stays = [id |-> item.id, history |-> h, fields |-> item.fields]
    BY <1>4 DEF WithoutStatus, UpdatedAccs
  <1> QED
    BY <1>1, <1>2, <1>3, <1>4, <1>5

(* The history of an item that is there: its own, or one entry more.       *)
LEMMA HistoryOfKnown ==
  ASSUME NEW S, NEW existing \in Seq(S), NEW items \in Seq(S), Distinct(existing), Distinct(items),
         NEW i \in DOMAIN existing, NEW k \in DOMAIN items, items[k].id = existing[i].id
  PROVE  NextHistory(existing, items, k) = StatusHistoryWithChanges(items[k], existing[i])
  <1>1. HasItem(existing, items[k].id) /\ Find(existing, items[k].id) = existing[i]
    BY Found
  <1> QED
    BY <1>1, Updating DEF NextHistory

LEMMA HistoryStays ==
  ASSUME NEW item, NEW existing, item.status = existing.status,
         item.history = existing.history
  PROVE  StatusHistoryWithChanges(item, existing) = existing.history
  BY DEF StatusHistoryWithChanges, ChangesStatus

RegStaysIn(own, reg, items) ==
  LET now == Find(items, reg.id)
  IN  /\ HasItem(items, reg.id)
      /\ now.history = reg.history /\ now.sites = reg.sites /\ now.fields = reg.fields
      /\ now.acc # reg.acc => "forms" \in own

LEMMA RegStays ==
  ASSUME NEW doc \in StoredDocs, NEW read, IsRead(doc, read), Distinct(doc.regs),
         NEW items \in Seq(UpdatedRegs), Distinct(items), NEW own,
         NEW i \in DOMAIN doc.regs, RegKept(own, read.regs[i], items),
         NEW next \in Seq(StoredRegs), next = UpdateStatusHistoryForItems(read.regs, items)
  PROVE  RegStaysIn(own, doc.regs[i], next)
  <1>1. PICK existing \in Seq(UpdatedRegs) : existing = read.regs
    BY DEF IsRead, Updates
  <1>2. PICK reg, old : reg = doc.regs[i] /\ old = existing[i]
    OBVIOUS
  <1>3. /\ i \in DOMAIN existing /\ old.id = reg.id /\ old.history = reg.history
        /\ old.fields = reg.fields /\ old.acc = reg.acc /\ old.sites = reg.sites
    BY <1>1, <1>2 DEF IsRead
  <1>4. Distinct(existing)
    BY <1>1 DEF IsRead, Distinct
  <1>5. PICK k \in DOMAIN items :
          /\ items[k].id = old.id /\ items[k].history = old.history
          /\ items[k].fields = old.fields /\ items[k].sites = old.sites
          /\ items[k].status = old.status
          /\ items[k].acc # old.acc => "forms" \in own
    BY <1>1, <1>2 DEF RegKept
  <1>6. NextHistory(existing, items, k) = old.history
    <2>1. NextHistory(existing, items, k) = StatusHistoryWithChanges(items[k], old)
      BY <1>2, <1>3, <1>4, <1>5, HistoryOfKnown
    <2>2. StatusHistoryWithChanges(items[k], old) = old.history
      BY <1>5, HistoryStays
    <2> QED
      BY <2>1, <2>2
  <1>7. \A n \in DOMAIN items :
          next[n] = [id |-> items[n].id, history |-> NextHistory(existing, items, n),
                     fields |-> items[n].fields, acc |-> items[n].acc, sites |-> items[n].sites]
    BY <1>1, RegStoredAs
  <1>8. DOMAIN next = DOMAIN items
    BY DEF UpdateStatusHistoryForItems
  <1>9. Distinct(next)
    <2>1. ASSUME NEW n \in DOMAIN items PROVE next[n].id = items[n].id
      <3>1. PICK item : item = items[n]
        OBVIOUS
      <3>2. next[n] = [id |-> item.id, history |-> NextHistory(existing, items, n),
                       fields |-> item.fields, acc |-> item.acc, sites |-> item.sites]
        BY <1>7, <3>1
      <3> QED
        BY <3>1, <3>2
    <2> QED
      BY <1>8, <2>1 DEF Distinct
  <1>10. PICK now : now = next[k]
    OBVIOUS
  <1>11. /\ now.id = reg.id /\ now.history = reg.history /\ now.sites = reg.sites
         /\ now.fields = reg.fields
         /\ now.acc # reg.acc => "forms" \in own
    <2>1. now = [id |-> items[k].id, history |-> old.history,
                 fields |-> items[k].fields, acc |-> items[k].acc, sites |-> items[k].sites]
      BY <1>5, <1>6, <1>7, <1>10
    <2> QED
      BY <1>3, <1>5, <2>1
  <1>12. HasItem(next, reg.id) /\ Find(next, reg.id) = now
    BY <1>8, <1>9, <1>10, <1>11, Found
  <1>13. RegStaysIn(own, reg, next)
    BY <1>11, <1>12 DEF RegStaysIn
  <1> QED
    BY <1>2, <1>13

(* Or is one of those cancelled with their registrations.                  *)
AccStaysIn(cancelled, acc, items) ==
  LET now == Find(items, acc.id)
  IN  /\ HasItem(items, acc.id)
      /\ \/ now = acc
         \/ /\ now.fields = acc.fields /\ now.history = Append(acc.history, CANCELLED)
            /\ acc.id \in cancelled

LEMMA AccStays ==
  ASSUME NEW doc \in StoredDocs, NEW read, IsRead(doc, read), Distinct(doc.accs),
         NEW regs, NEW items \in Seq(UpdatedAccs), Distinct(items),
         NEW cascaded \in Seq(UpdatedAccs), IsCascaded(regs, items, cascaded),
         NEW j \in DOMAIN doc.accs, NEW k \in DOMAIN items, items[k] = read.accs[j],
         NEW next \in Seq(StoredAccs), next = UpdateStatusHistoryForItems(read.accs, cascaded)
  PROVE  AccStaysIn(CascadeCancelledIds(regs, items), doc.accs[j], next)
  <1>1. PICK existing \in Seq(UpdatedAccs) : existing = read.accs
    BY DEF IsRead, Updates
  <1>2. PICK acc \in StoredAccs : acc = doc.accs[j]
    BY DEF StoredDocs
  <1>3. PICK old : old = existing[j]
    OBVIOUS
  <1>4. /\ j \in DOMAIN existing /\ old.id = acc.id /\ old.history = acc.history
        /\ old.fields = acc.fields
    BY <1>1, <1>2, <1>3 DEF IsRead
  <1>5. Distinct(existing)
    BY <1>1 DEF IsRead, Distinct
  <1>6. /\ k \in DOMAIN cascaded /\ cascaded[k].id = old.id /\ cascaded[k].fields = old.fields
        /\ cascaded[k].history = old.history
        /\ cascaded[k].status =
             IF acc.id \in CascadeCancelledIds(regs, items) THEN CANCELLED ELSE old.status
        /\ Distinct(cascaded)
    BY <1>1, <1>3, <1>4 DEF IsCascaded, Distinct
  <1>7. NextHistory(existing, cascaded, k) = StatusHistoryWithChanges(cascaded[k], old)
    BY <1>3, <1>4, <1>5, <1>6, HistoryOfKnown
  <1>8. \A n \in DOMAIN cascaded :
          next[n] = [id |-> cascaded[n].id, history |-> NextHistory(existing, cascaded, n),
                     fields |-> cascaded[n].fields]
    BY <1>1, AccStoredAs
  <1>9. DOMAIN next = DOMAIN cascaded
    BY DEF UpdateStatusHistoryForItems
  <1>10. Distinct(next)
    <2>1. ASSUME NEW n \in DOMAIN cascaded PROVE next[n].id = cascaded[n].id
      <3>1. PICK item : item = cascaded[n]
        OBVIOUS
      <3>2. next[n] = [id |-> item.id, history |-> NextHistory(existing, cascaded, n),
                       fields |-> item.fields]
        BY <1>8, <3>1
      <3> QED
        BY <3>1, <3>2
    <2> QED
      BY <1>6, <1>9, <2>1 DEF Distinct
  <1>11. PICK now : now = next[k]
    OBVIOUS
  <1>12. now = [id |-> acc.id, history |-> NextHistory(existing, cascaded, k), fields |-> acc.fields]
    BY <1>4, <1>6, <1>8, <1>11
  <1>13. HasItem(next, acc.id) /\ Find(next, acc.id) = now
    <2>1. now.id = acc.id
      BY <1>12
    <2> QED
      BY <1>6, <1>9, <1>10, <1>11, <2>1, Found
  <1>14. CASE acc.id \notin CascadeCancelledIds(regs, items)
    <2>1. NextHistory(existing, cascaded, k) = acc.history
      BY <1>4, <1>6, <1>7, <1>14, HistoryStays
    <2>2. now = acc
      BY <1>12, <2>1 DEF StoredAccs
    <2> QED
      BY <1>2, <1>13, <2>2 DEF AccStaysIn
  <1>15. CASE acc.id \in CascadeCancelledIds(regs, items)
    <2>1. old.status \in ACTIVE_ACCREDITATION_STATUSES
      BY <1>1, <1>3, <1>4, <1>15, CascadedWereActive
    <2>2. CANCELLED \notin {NONE, old.status}
      BY <2>1 DEF ACTIVE_ACCREDITATION_STATUSES, CANCELLED, NONE, APPROVED, SUSPENDED
    <2>3. NextHistory(existing, cascaded, k) = Append(acc.history, CANCELLED)
      BY <1>4, <1>6, <1>7, <1>15, <2>2 DEF StatusHistoryWithChanges, ChangesStatus
    <2> QED
      BY <1>2, <1>12, <1>13, <1>15, <2>3 DEF AccStaysIn
  <1> QED
    BY <1>14, <1>15

(* Users are added, never dropped: the submitter, those of approved forms. *)
LEMMA UsersKept ==
  ASSUME NEW users, NEW status, NEW regs, NEW accs,
         NEW collated, collated = CollateUsers(users, status, regs, accs)
  PROVE  /\ users \subseteq collated
         /\ \A user \in collated \ users : user.who = Submitter \/ user.initial
  <1>1. \A user \in CollateItems(regs) \cup CollateItems(accs) : user.initial
    <2>1. \A who : GetUserRolesForStatus(who, APPROVED).initial
      BY DEF GetUserRolesForStatus
    <2> QED
      BY <2>1 DEF CollateItems
  <1>2. GetUserRolesForStatus(Submitter, status).who = Submitter
    BY DEF GetUserRolesForStatus
  <1> QED
    BY <1>1, <1>2 DEF CollateUsers, DeduplicateUsers

(* What RequestsChangeTheirOwn says of a write of doc into after.          *)
OnlyOwnChanges(own, doc, after) ==
  /\ after.history # doc.history => "status" \in own
  /\ after.link # doc.link => "link" \in own /\ NotLinked \in {doc.link, after.link}
  /\ doc.users \subseteq after.users
  /\ \A user \in after.users \ doc.users : user.who # Submitter /\ ~user.initial => "users" \in own
  /\ \A i \in DOMAIN doc.regs :
       LET reg == doc.regs[i]
           now == Find(after.regs, reg.id)
       IN  reg.id \notin own =>
             /\ HasItem(after.regs, reg.id)
             /\ now.history = reg.history /\ now.sites = reg.sites
             /\ now.fields = reg.fields
             /\ now.acc # reg.acc => "forms" \in own
  /\ \A j \in DOMAIN doc.accs :
       doc.accs[j].id \notin own =>
         HasItem(after.accs, doc.accs[j].id) /\ KeptOrCancelled(doc.accs[j], doc, after)

LEMMA ReplacedOwn ==
  ASSUME Inv, KeepsOthers, NEW q \in Requests, req[q] # Idle, req[q].kind \in Replacing,
         req[q].version = Doc.version, UpdateAcceptable(Read, req[q].update),
         NEW next, next = PrepareForReplace(Read, req[q].update)
  PROVE  OnlyOwnChanges(req[q].own, Doc, next)
  <1>1. PICK kind, own, update, doc, read :
          /\ kind = req[q].kind /\ own = req[q].own /\ update = req[q].update
          /\ doc = Doc /\ read = Read
    OBVIOUS
  <1>2. /\ doc.version < MaxVersion /\ update \in Updates
        /\ Continues(kind, update.regs, doc.regs) /\ Continues(kind, update.accs, doc.accs)
        /\ Distinct(doc.regs) /\ Distinct(doc.accs)
    BY <1>1 DEF Inv, Holds
  <1>3. doc \in StoredDocs /\ IsRead(doc, read) /\ ChangesOwn(kind, own, read, update)
    BY <1>1, ReadOfDoc DEF Inv, KeepsOthers
  <1>4. PICK cascaded :
          cascaded = ApplyRegistrationStatusToLinkedAccreditations(update.regs, update.accs)
    OBVIOUS
  <1>5. /\ update.regs \in Seq(UpdatedRegs) /\ update.accs \in Seq(UpdatedAccs)
        /\ cascaded \in Seq(UpdatedAccs) /\ IsCascaded(update.regs, update.accs, cascaded)
    <2>1. update.regs \in Seq(UpdatedRegs) /\ update.accs \in Seq(UpdatedAccs)
      BY <1>2 DEF Updates
    <2> QED
      BY <1>4, <2>1, CascadeOf
  <1>6. PICK regs, accs : /\ regs = UpdateStatusHistoryForItems(read.regs, update.regs)
                          /\ accs = UpdateStatusHistoryForItems(read.accs, cascaded)
    OBVIOUS
  <1>7. PICK history :
          history = StatusHistoryWithChanges([status |-> update.status, history |-> <<>>], read)
    OBVIOUS
  <1>8. PICK users : users = CollateUsers(update.users, Last(history), regs, accs)
    OBVIOUS
  <1>9. /\ next.history = history /\ next.link = update.link /\ next.regs = regs
        /\ next.accs = accs /\ next.users = users
    BY <1>1, <1>4, <1>6, <1>7, <1>8 DEF PrepareForReplace
  <1>10. next \in StoredDocs
    BY Prepared
  <1>11. /\ doc.regs \in Seq(StoredRegs) /\ doc.accs \in Seq(StoredAccs)
         /\ read.regs \in Seq(UpdatedRegs) /\ read.accs \in Seq(UpdatedAccs)
         /\ regs \in Seq(StoredRegs) /\ accs \in Seq(StoredAccs)
    BY <1>3, <1>9, <1>10 DEF StoredDocs, IsRead, Updates
  <1>12. history # doc.history => "status" \in own
    <2>1. read.status = update.status => history = read.history
      BY <1>7 DEF StatusHistoryWithChanges, ChangesStatus
    <2> QED
      BY <1>3, <2>1 DEF IsRead, ChangesOwn
  <1>13. update.link # doc.link => "link" \in own /\ NotLinked \in {doc.link, update.link}
    BY <1>3 DEF IsRead, ChangesOwn
  <1>14. /\ doc.users \subseteq users
         /\ \A user \in users \ doc.users :
              user.who # Submitter /\ ~user.initial => "users" \in own
    <2>1. /\ update.users \subseteq users
          /\ \A user \in users \ update.users : user.who = Submitter \/ user.initial
      BY <1>8, UsersKept
    <2>2. /\ doc.users \subseteq update.users
          /\ update.users # doc.users => "users" \in own
      BY <1>3 DEF IsRead, ChangesOwn
    <2> QED
      BY <2>1, <2>2
  <1>15. ASSUME NEW i \in DOMAIN doc.regs, doc.regs[i].id \notin own
         PROVE  RegStaysIn(own, doc.regs[i], regs)
    <2>1. RegKept(own, read.regs[i], update.regs)
      BY <1>3, <1>15 DEF ChangesOwn, RegsKept, IsRead
    <2>2. Distinct(update.regs)
      BY <1>2 DEF Continues
    <2> QED
      BY ONLY <1>3, <1>5, <1>6, <1>11, <1>15, <2>1, <2>2, <1>2, RegStays
  <1>16. ASSUME NEW j \in DOMAIN doc.accs, doc.accs[j].id \notin own
         PROVE  HasItem(accs, doc.accs[j].id) /\ KeptOrCancelled(doc.accs[j], doc, next)
    <2>1. PICK k \in DOMAIN update.accs : update.accs[k] = read.accs[j]
      BY <1>3, <1>16 DEF ChangesOwn, AccsKept, IsRead
    <2>2. Distinct(update.accs)
      BY <1>2 DEF Continues
    <2>3. PICK acc, now : acc = doc.accs[j] /\ now = Find(accs, doc.accs[j].id)
      OBVIOUS
    <2>4. AccStaysIn(CascadeCancelledIds(update.regs, update.accs), acc, accs)
      BY ONLY <1>2, <1>3, <1>5, <1>6, <1>11, <1>16, <2>1, <2>2, <2>3, AccStays
    <2>5. ASSUME acc.id \in CascadeCancelledIds(update.regs, update.accs)
          PROVE  \E d \in {doc, next} : \E i \in DOMAIN d.regs :
                   d.regs[i].acc = acc.id /\ GetCurrentStatus(d.regs[i]) = CANCELLED
      <3>1. PICK i \in DOMAIN update.regs :
              update.regs[i].acc = acc.id /\ update.regs[i].status = CANCELLED
        BY <2>5 DEF CascadeCancelledIds
      <3>2. CASE kind = "correct"
        <4>1. /\ i \in DOMAIN read.regs /\ read.regs[i].acc = acc.id
              /\ read.regs[i].status = CANCELLED
          BY <1>3, <3>1, <3>2 DEF ChangesOwn, Corrects
        <4>2. /\ i \in DOMAIN doc.regs /\ doc.regs[i].acc = acc.id
              /\ GetCurrentStatus(doc.regs[i]) = CANCELLED
          BY <1>3, <4>1 DEF IsRead, GetCurrentStatus
        <4> QED
          BY <4>2
      <3>3. CASE kind # "correct"
        <4>1. Stores(kind, update.regs, regs) /\ \A n \in DOMAIN update.regs : regs[n].acc = update.regs[n].acc
          <5>1. ReadsItems(doc.regs, read.regs)
            BY <1>3 DEF IsRead, ReadsItems
          <5>2. FieldsAcceptable(update.regs, {APPROVED})
            BY <1>1 DEF UpdateAcceptable
          <5> QED
            BY <1>2, <1>5, <1>6, <1>11, <5>1, <5>2, RegsStored
        <4>2. StatusStored(update.regs[i]) = CANCELLED
          BY <3>1 DEF StatusStored, CANCELLED, NONE
        <4>3. /\ i \in DOMAIN next.regs /\ next.regs[i].acc = acc.id
              /\ GetCurrentStatus(next.regs[i]) = CANCELLED
          BY <1>9, <3>1, <3>3, <4>1, <4>2 DEF Stores, GetCurrentStatus
        <4> QED
          BY <4>3
      <3> QED
        BY <3>2, <3>3
    <2> QED
      BY <1>9, <2>3, <2>4, <2>5 DEF AccStaysIn, KeptOrCancelled
  <1>17. OnlyOwnChanges(own, doc, next)
    BY <1>9, <1>12, <1>13, <1>14, <1>15, <1>16 DEF OnlyOwnChanges, RegStaysIn
  <1> QED
    BY <1>1, <1>17

-----------------------------------------------------------------------------
LEMMA SitesMapped ==
  ASSUME NEW doc \in StoredDocs, Distinct(doc.regs), Distinct(doc.accs), NEW ids, NEW sites,
         NEW after, after.history = doc.history, after.link = doc.link, after.users = doc.users,
         after.accs = doc.accs, after.regs = WithSites(doc.regs, ids, sites),
         after.regs \in Seq(StoredRegs)
  PROVE  OnlyOwnChanges(ids, doc, after)
  <1>1. PICK regs, accs, now : regs = doc.regs /\ accs = doc.accs /\ now = after.regs
    OBVIOUS
  <1>2. regs \in Seq(StoredRegs) /\ accs \in Seq(StoredAccs) /\ now \in Seq(StoredRegs)
    BY <1>1 DEF StoredDocs
  <1>3. now = [i \in DOMAIN regs |-> IF regs[i].id \in ids THEN [regs[i] EXCEPT !.sites = sites]
                                     ELSE regs[i]]
    BY <1>1 DEF WithSites
  <1>4. \A i \in DOMAIN regs : now[i].id = regs[i].id /\ (regs[i].id \notin ids => now[i] = regs[i])
    <2> SUFFICES ASSUME NEW i \in DOMAIN regs
                 PROVE  now[i].id = regs[i].id /\ (regs[i].id \notin ids => now[i] = regs[i])
      OBVIOUS
    <2>1. PICK reg \in StoredRegs : reg = regs[i]
      BY <1>2
    <2>2. [reg EXCEPT !.sites = sites].id = reg.id
      BY DEF StoredRegs
    <2> QED
      BY <1>3, <2>1, <2>2
  <1>5. DOMAIN now = DOMAIN regs
    BY <1>3
  <1>6. Distinct(now)
    BY <1>1, <1>4, <1>5 DEF Distinct
  <1>7. ASSUME NEW i \in DOMAIN regs, regs[i].id \notin ids
        PROVE  HasItem(now, regs[i].id) /\ Find(now, regs[i].id) = regs[i]
    BY <1>2, <1>4, <1>5, <1>6, <1>7, Found
  <1>8. ASSUME NEW j \in DOMAIN accs
        PROVE  HasItem(accs, accs[j].id) /\ Find(accs, accs[j].id) = accs[j]
    BY <1>1, <1>2, Found
  <1>9. ASSUME NEW j \in DOMAIN accs PROVE KeptOrCancelled(accs[j], doc, after)
    BY <1>1, <1>8 DEF KeptOrCancelled
  <1> QED
    BY <1>1, <1>7, <1>8, <1>9 DEF OnlyOwnChanges

(* A write changes what its request was made to change, and no other.      *)
LEMMA WriteChangesOwn ==
  ASSUME Inv, KeepsOthers, "staleExisting" \notin Disturbances, NEW q \in Requests,
         Replace(q) \/ ReplaceRegistrationOverseasSites(q), docs' # docs
  PROVE  OnlyOwnChanges(req[q].own, Doc, Doc')
  <1>1. ASSUME Replace(q) PROVE OnlyOwnChanges(req[q].own, Doc, Doc')
    <2>1. ReplaceAccepted(q, Doc)
      BY <1>1 DEF Replace, View
    <2>2. PICK next : next = PrepareForReplace(Read, req[q].update)
      OBVIOUS
    <2>3. Store(next) /\ req[q].kind \notin {"idle", "sites"}
      BY <1>1, <2>1, <2>2 DEF Replace, View, Read
    <2>4. req[q] # Idle /\ req[q].kind \in Replacing
      BY <2>3 DEF Idle, Inv, Holds
    <2>5. req[q].version = Doc.version /\ UpdateAcceptable(Read, req[q].update)
      BY <2>1 DEF ReplaceAccepted, Read
    <2>6. next \in StoredDocs
      BY <2>2, <2>4, <2>5, Prepared
    <2>7. Doc' = next
      BY <2>3, <2>6, Storing DEF Inv
    <2> QED
      BY <2>2, <2>4, <2>5, <2>7, ReplacedOwn
  <1>2. ASSUME ReplaceRegistrationOverseasSites(q) PROVE OnlyOwnChanges(req[q].own, Doc, Doc')
    <2>1. PICK doc, own, sites : doc = Doc /\ own = req[q].own /\ sites = req[q].sites
      OBVIOUS
    <2>2. PICK regs : regs = WithSites(doc.regs, own, sites)
      OBVIOUS
    <2>3. PICK d : d = Spread(doc, [version |-> doc.version + 1, regs |-> regs])
      OBVIOUS
    <2>4. req[q].kind = "sites" /\ req[q].version = Doc.version /\ Store(d)
      BY <1>2, <2>1, <2>2, <2>3 DEF ReplaceRegistrationOverseasSites
    <2>5. doc \in StoredDocs /\ Distinct(doc.regs) /\ Distinct(doc.accs)
      BY <2>1, ReadOfDoc DEF Inv
    <2>6. sites \in SUBSET Sites /\ doc.version < MaxVersion
      BY <2>1, <2>4 DEF Inv, Holds, Idle
    <2>7. regs \in Seq(StoredRegs)
      BY <2>2, <2>5, <2>6, SitesReplaced DEF StoredDocs
    <2>8. doc.version + 1 \in 1..MaxVersion
      BY <2>5, <2>6, BoundAssumption DEF StoredDocs
    <2>9. /\ d \in StoredDocs /\ d.history = doc.history /\ d.link = doc.link
          /\ d.users = doc.users /\ d.accs = doc.accs /\ d.regs = regs
      BY <2>3, <2>5, <2>7, <2>8 DEF StoredDocs, Spread
    <2>10. OnlyOwnChanges(own, doc, d)
      BY <2>2, <2>5, <2>7, <2>9, SitesMapped
    <2>11. Doc' = d
      BY <2>4, <2>9, Storing DEF Inv
    <2> QED
      BY <2>1, <2>10, <2>11
  <1> QED
    BY <1>1, <1>2

(* A write gives up or outdates every request.                             *)
LEMMA WriteKeepsOthers ==
  ASSUME Inv, KeepsOthers, NEW q \in Requests, req' = [req EXCEPT ![q] = Idle],
         UNCHANGED <<docs, corrected>> \/ Doc'.version = Doc.version + 1
  PROVE  KeepsOthers'
  <1>1. req'[q] = Idle /\ \A p \in Requests \ {q} : req'[p] = req[p]
    BY DEF Inv, Typed
  <1>2. CASE UNCHANGED <<docs, corrected>>
    <2>1. Doc' = Doc /\ Read' = Read
      BY <1>2 DEF Doc, Read
    <2> QED
      BY <1>1, <2>1 DEF KeepsOthers
  <1>3. CASE Doc'.version = Doc.version + 1
    <2>1. Doc.version \in Nat
      BY ReadOfDoc, BoundAssumption DEF Inv, StoredDocs
    <2>2. \A p \in Requests \ {q} : req[p] # Idle => req[p].version \in 1..Doc.version
      BY DEF Inv, Holds
    <2>3. \A p \in Requests : req'[p] # Idle => req'[p].version # Doc'.version
      BY <1>1, <1>3, <2>1, <2>2
    <2> QED
      BY <2>3 DEF KeepsOthers
  <1> QED
    BY <1>2, <1>3

LEMMA StepKeepsOthers ==
  ASSUME Inv, KeepsOthers, Disturbances = {}, [Next]_vars
  PROVE  KeepsOthers'
  <1>1. CASE UNCHANGED vars
    <2>1. docs' = docs /\ req' = req
      BY <1>1 DEF vars
    <2>2. Doc' = Doc /\ Read' = Read
      BY <2>1 DEF Doc, Read
    <2> QED
      BY <2>1, <2>2 DEF KeepsOthers
  <1>2. CASE Next
    <2>1. PICK q \in Requests : Begin(q) \/ Replace(q) \/ ReplaceRegistrationOverseasSites(q)
      BY <1>2 DEF Next
    <2>2. CASE Begin(q)
      BY <2>2, BeginKeepsOthers
    <2>3. CASE Replace(q) \/ ReplaceRegistrationOverseasSites(q)
      <3>1. /\ req' = [req EXCEPT ![q] = Idle]
            /\ UNCHANGED <<docs, corrected>> \/ Doc'.version = Doc.version + 1
        BY <2>3, ReplaceWrites
      <3> QED
        BY <3>1, WriteKeepsOthers
    <2> QED
      BY <2>1, <2>2, <2>3
  <1> QED
    BY <1>1, <1>2

LEMMA BeginsWriteNothing ==
  ASSUME NEW q \in Requests, Begin(q) PROVE docs' = docs
  BY DEF Begin, RegistrationStatusHistory, AccreditationStatusHistory, PutOrganisationStatus,
         PutLink, PutField, PutWithoutRegistration, PutWithoutAccreditation,
         PutRegistrationHistory, PutAccreditationHistory, Link, Unlink,
         AddOrUpdateOrganisationUser, MapOverseasSites, MigrationBegins, Register

(* No update is lost, for all constants: every request writes back the     *)
(* whole document it read, and what it was not made to change is as the    *)
(* write before left it, because its version is that of the document.      *)
(* Every read must be current, the search for linkable organisations       *)
(* included: one that is behind finds an organisation without the link     *)
(* that another user has just given it.                                    *)
THEOREM NoUpdateIsLost ==
  ASSUME Disturbances = {}
  PROVE  Spec => RequestsChangeTheirOwn
  <1> DEFINE Body ==
        \A q \in Requests : Writes(q) =>
          LET own == req[q].own
          IN  /\ (Doc.history)' # Doc.history => "status" \in own
              /\ (Doc.link)' # Doc.link =>
                   "link" \in own /\ NotLinked \in {Doc.link, (Doc.link)'}
              /\ Doc.users \subseteq (Doc.users)'
              /\ \A user \in (Doc.users)' \ Doc.users :
                   user.who # Submitter /\ ~user.initial => "users" \in own
              /\ \A i \in DOMAIN Doc.regs :
                   LET reg == Doc.regs[i]
                       now == Find((Doc.regs)', reg.id)
                   IN  reg.id \notin own =>
                         /\ HasItem((Doc.regs)', reg.id)
                         /\ now.history = reg.history /\ now.sites = reg.sites
                         /\ now.fields = reg.fields
                         /\ now.acc # reg.acc => "forms" \in own
              /\ \A j \in DOMAIN Doc.accs :
                   Doc.accs[j].id \notin own =>
                     HasItem((Doc.accs)', Doc.accs[j].id) /\ KeptOrCancelled(Doc.accs[j], Doc, Doc')
  <1>1. ASSUME Init PROVE KeepsOthers
    BY <1>1 DEF Init, KeepsOthers
  <1>2. ASSUME Inv, KeepsOthers, [Next]_vars PROVE KeepsOthers'
    BY <1>2, StepKeepsOthers
  <1>3. ASSUME Inv, KeepsOthers, [Next]_vars PROVE [Body]_vars
    <2> SUFFICES ASSUME Next, NEW q \in Requests, Writes(q)
                 PROVE  OnlyOwnChanges(req[q].own, Doc, Doc')
      BY <1>3 DEF OnlyOwnChanges
    <2>1. PICK p \in Requests : Begin(p) \/ Replace(p) \/ ReplaceRegistrationOverseasSites(p)
      BY DEF Next
    <2>2. Replace(p) \/ ReplaceRegistrationOverseasSites(p)
      BY <2>1, BeginsWriteNothing DEF Writes
    <2>3. req' = [req EXCEPT ![p] = Idle]
      BY <2>2 DEF Replace, ReplaceRegistrationOverseasSites
    <2>4. p = q
      BY <1>3, <2>3 DEF Writes, Inv, Typed
    <2> QED
      BY <1>3, <2>2, <2>4, WriteChangesOwn DEF Writes
  <1>4. ReadsAreCurrent
    BY DEF ReadsAreCurrent
  <1>5. Spec => []Inv
    BY <1>4, InvHolds
  <1> QED
    BY <1>1, <1>2, <1>3, <1>5, PTL DEF Spec, RequestsChangeTheirOwn

-----------------------------------------------------------------------------
(* The contract is kept.                                                   *)

OneEach(users) == \A user, other \in users : user.who = other.who => user = other

(* A status that was read is the one that is written back.                 *)
SameStatuses(read, items) ==
  \A i \in DOMAIN read, k \in DOMAIN items :
    items[k].id = read[i].id => items[k].status = read[i].status

(* No accreditation comes into force but under an approved registration.   *)
Founded(regs, read, accs) ==
  \A j \in DOMAIN read, k \in DOMAIN accs :
    accs[k].id = read[j].id =>
      \/ accs[k].status = read[j].status
      \/ read[j].status \in ACTIVE_ACCREDITATION_STATUSES
      \/ accs[k].status \notin ACTIVE_ACCREDITATION_STATUSES
      \/ \E i \in DOMAIN regs : regs[i].acc = accs[k].id /\ regs[i].status = APPROVED

(* One history is corrected, entry for entry.                              *)
Redated(read, items) ==
  /\ DOMAIN items = DOMAIN read
  /\ \A k \in DOMAIN read :
       /\ items[k].id = read[k].id /\ items[k].status = read[k].status
       /\ Len(items[k].history) = Len(read[k].history)
  /\ \E i \in DOMAIN read :
       /\ items[i].history # read[i].history
       /\ \A k \in DOMAIN read \ {i} : items[k].history = read[k].history

Lawful(kind, read, update) ==
  /\ read.users \subseteq update.users
  /\ OneEach(update.users)
  /\ kind # "registration" => SameStatuses(read.regs, update.regs)
  /\ kind = "registration" => update.accs = read.accs
  /\ Founded(update.regs, read.accs, update.accs)
  /\ kind = "correct" =>
       \/ Redated(read.regs, update.regs) /\ update.accs = read.accs
       \/ Redated(read.accs, update.accs) /\ update.regs = read.regs

AllLawful ==
  /\ OneEach(Doc.users)
  /\ \A q \in Requests :
       req[q] # Idle /\ req[q].kind \in Replacing /\ req[q].version = Doc.version
         => Lawful(req[q].kind, Read, req[q].update)

LEMMA LawTaken ==
  ASSUME Inv, AllLawful, NEW q \in Requests, NEW kind, NEW own, NEW update,
         Register(q, Pending(kind, own, update)), Lawful(kind, Read, update)
  PROVE  AllLawful'
  <1>1. PICK r : r = Pending(kind, own, update)
    OBVIOUS
  <1>2. /\ r.kind = kind /\ r.update = update
        /\ req' = [req EXCEPT ![q] = r] /\ docs' = docs
    BY <1>1 DEF Register, Pending
  <1>3. Doc' = Doc /\ Read' = Read
    BY <1>2 DEF Doc, Read
  <1>4. req'[q] = r /\ \A p \in Requests \ {q} : req'[p] = req[p]
    BY <1>2 DEF Inv, Typed
  <1> QED
    BY <1>2, <1>3, <1>4 DEF AllLawful

LEMMA ReadOnce ==
  ASSUME Inv, AllLawful
  PROVE  /\ Read \in Updates /\ Distinct(Read.regs) /\ Distinct(Read.accs)
         /\ OneEach(Read.users)
         /\ DOMAIN Read.regs = DOMAIN Doc.regs /\ DOMAIN Read.accs = DOMAIN Doc.accs
  <1>1. PICK doc, read : doc = Doc /\ read = Read
    OBVIOUS
  <1>2. IsRead(doc, read) /\ Distinct(doc.regs) /\ Distinct(doc.accs) /\ OneEach(doc.users)
    BY <1>1, ReadOfDoc DEF Inv, AllLawful
  <1>3. Distinct(read.regs) /\ Distinct(read.accs)
    BY <1>2 DEF IsRead, Distinct
  <1> QED
    BY <1>1, <1>2, <1>3 DEF IsRead

LEMMA SameAreLawful ==
  ASSUME NEW read, Distinct(read), NEW items, DOMAIN items = DOMAIN read,
         \A k \in DOMAIN read : items[k].id = read[k].id /\ items[k].status = read[k].status
  PROVE  SameStatuses(read, items)
  BY DEF SameStatuses, Distinct

LEMMA SameAreFounded ==
  ASSUME NEW read, NEW items, SameStatuses(read, items), NEW regs
  PROVE  Founded(regs, read, items)
  BY DEF SameStatuses, Founded

(* What leaves every status as it was read.                                *)
LEMMA NothingMoves ==
  ASSUME NEW kind, kind \notin {"registration", "correct"}, NEW read, NEW update,
         read.users \subseteq update.users, OneEach(update.users),
         SameStatuses(read.regs, update.regs), SameStatuses(read.accs, update.accs)
  PROVE  Lawful(kind, read, update)
  BY SameAreFounded DEF Lawful

LEMMA RegistrationLawful ==
  ASSUME Inv, AllLawful, NEW q \in Requests, NEW i \in DOMAIN Doc.regs, NEW to,
         RegistrationStatusHistory(q, i, to)
  PROVE  AllLawful'
  <1>1. PICK read \in Updates : read = Read
    BY ReadOnce
  <1>2. PICK update, own : /\ update = [read EXCEPT !.regs[i] = Decided(read.regs[i], to)]
                           /\ own = {read.regs[i].id}
    OBVIOUS
  <1>3. update.users = read.users /\ update.accs = read.accs
    BY <1>2 DEF Updates
  <1>4. SameStatuses(read.accs, read.accs)
    BY <1>1, ReadOnce, SameAreLawful
  <1>5. Lawful("registration", read, update)
    BY <1>1, <1>3, <1>4, ReadOnce, SameAreFounded DEF Lawful
  <1> QED
    BY <1>1, <1>2, <1>5, LawTaken DEF RegistrationStatusHistory

LEMMA AccreditationLawful ==
  ASSUME Inv, AllLawful, NEW q \in Requests, NEW i \in DOMAIN Doc.regs, NEW j \in DOMAIN Doc.accs,
         NEW to \in ACCREDITATION_STATUS, AccreditationStatusHistory(q, i, j, to)
  PROVE  AllLawful'
  <1>1. PICK read \in Updates : read = Read
    BY ReadOnce
  <1>2. PICK item : item = Decided(read.accs[j], to)
    OBVIOUS
  <1>3. PICK update, own : /\ update = [read EXCEPT !.accs[j] = item]
                           /\ own = {read.accs[j].id}
    OBVIOUS
  <1>4. PICK accs : accs = [read.accs EXCEPT ![j] = item]
    OBVIOUS
  <1>5. /\ update.users = read.users /\ update.regs = read.regs /\ update.accs = accs
        /\ j \in DOMAIN read.accs /\ i \in DOMAIN read.regs
    BY <1>1, <1>3, <1>4, ReadOnce DEF Updates
  <1>6. /\ DOMAIN accs = DOMAIN read.accs /\ accs[j] = item
        /\ \A k \in DOMAIN read.accs \ {j} : accs[k] = read.accs[k]
    BY <1>4, <1>5
  <1>7. item.status = to /\ item.id = read.accs[j].id
    BY <1>1, <1>2, DecidedAcc, AccOfRead
  <1>8. /\ read.regs[i].acc = read.accs[j].id
        /\ to = APPROVED => read.regs[i].status = APPROVED
        /\ <<read.accs[j].status, to>> \in VALID_ACC_TRANSITIONS
    BY <1>1 DEF AccreditationStatusHistory
  <1>9. SameStatuses(read.regs, update.regs)
    BY <1>1, <1>5, ReadOnce, SameAreLawful
  <1>10. Founded(update.regs, read.accs, update.accs)
    <2> SUFFICES ASSUME NEW n \in DOMAIN read.accs, NEW k \in DOMAIN accs,
                        accs[k].id = read.accs[n].id
                 PROVE  \/ accs[k].status = read.accs[n].status
                        \/ read.accs[n].status \in ACTIVE_ACCREDITATION_STATUSES
                        \/ accs[k].status \notin ACTIVE_ACCREDITATION_STATUSES
                        \/ \E m \in DOMAIN read.regs :
                             read.regs[m].acc = accs[k].id /\ read.regs[m].status = APPROVED
      BY <1>5 DEF Founded
    <2>1. n = k
      BY <1>1, <1>6, <1>7, ReadOnce DEF Distinct
    <2>2. CASE k # j
      BY <1>6, <2>1, <2>2
    <2>3. CASE k = j
      <3>1. CASE to = APPROVED
        BY <1>5, <1>6, <1>7, <1>8, <2>3, <3>1
      <3>2. CASE to # APPROVED
        <4>1. to = SUSPENDED => read.accs[j].status = APPROVED
          BY <1>8 DEF VALID_ACC_TRANSITIONS, CREATED, APPROVED, SUSPENDED, CANCELLED, REJECTED
        <4> QED
          BY <1>6, <1>7, <2>1, <2>3, <3>2, <4>1 DEF ACTIVE_ACCREDITATION_STATUSES
      <3> QED
        BY <3>1, <3>2
    <2> QED
      BY <2>2, <2>3
  <1>11. Lawful("accreditation", read, update)
    BY <1>1, <1>5, <1>9, <1>10, ReadOnce DEF Lawful
  <1> QED
    BY <1>1, <1>2, <1>3, <1>11, LawTaken DEF AccreditationStatusHistory

(* Fields of the document itself.                                          *)
LEMMA FieldLawful ==
  ASSUME Inv, AllLawful, NEW kind, kind \notin {"registration", "correct"}, NEW update,
         update.regs = Read.regs, update.accs = Read.accs,
         Read.users \subseteq update.users, OneEach(update.users)
  PROVE  Lawful(kind, Read, update)
  BY ReadOnce, SameAreLawful, NothingMoves

LEMMA FieldsLawful ==
  ASSUME Inv, AllLawful, NEW q \in Requests,
         \/ \E to : PutOrganisationStatus(q, to)
         \/ \E t : Link(q, t)
         \/ Unlink(q)
         \/ \E u : AddOrUpdateOrganisationUser(q, u)
  PROVE  AllLawful'
  <1>1. PICK read \in Updates : read = Read
    BY ReadOnce
  <1>2. OneEach(read.users)
    BY <1>1, ReadOnce
  <1>3. ASSUME NEW to, PutOrganisationStatus(q, to) PROVE AllLawful'
    <2>1. PICK update : update = [read EXCEPT !.status = to]
      OBVIOUS
    <2>2. update.users = read.users /\ update.regs = read.regs /\ update.accs = read.accs
      BY <2>1 DEF Updates
    <2>3. Lawful("put", Read, update)
      BY <1>1, <1>2, <2>2, FieldLawful
    <2> QED
      BY <1>1, <1>3, <2>1, <2>3, LawTaken DEF PutOrganisationStatus
  <1>4. ASSUME NEW t, Link(q, t) PROVE AllLawful'
    <2>1. PICK update : update = Spread(read, [status |-> ACTIVE, link |-> t])
      OBVIOUS
    <2>2. update.users = read.users /\ update.regs = read.regs /\ update.accs = read.accs
      BY <2>1 DEF Updates, Spread
    <2>3. Lawful("link", Read, update)
      BY <1>1, <1>2, <2>2, FieldLawful
    <2> QED
      BY <1>1, <1>4, <2>1, <2>3, LawTaken DEF Link
  <1>5. ASSUME Unlink(q) PROVE AllLawful'
    <2>1. PICK update : update = [read EXCEPT !.link = NotLinked]
      OBVIOUS
    <2>2. update.users = read.users /\ update.regs = read.regs /\ update.accs = read.accs
      BY <2>1 DEF Updates
    <2>3. Lawful("unlink", Read, update)
      BY <1>1, <1>2, <2>2, FieldLawful
    <2> QED
      BY <1>1, <1>5, <2>1, <2>3, LawTaken DEF Unlink
  <1>6. ASSUME NEW u, AddOrUpdateOrganisationUser(q, u) PROVE AllLawful'
    <2>1. PICK users : users = read.users \cup {[who |-> u, initial |-> FALSE]}
      OBVIOUS
    <2>2. PICK update : update = [read EXCEPT !.users = users]
      OBVIOUS
    <2>3. /\ update.users = users /\ read.users \subseteq users
          /\ update.regs = read.regs /\ update.accs = read.accs
      BY <2>1, <2>2 DEF Updates
    <2>4. \A user \in read.users : user.who # u
      BY <1>1, <1>6 DEF AddOrUpdateOrganisationUser
    <2>5. OneEach(users)
      <3>1. PICK user : user = [who |-> u, initial |-> FALSE]
        OBVIOUS
      <3>2. user.who = u /\ users = read.users \cup {user}
        BY <2>1, <3>1
      <3> QED
        BY <1>2, <2>4, <3>2 DEF OneEach
    <2>6. Lawful("user", Read, update)
      BY <1>1, <2>3, <2>5, FieldLawful
    <2>7. Register(q, Pending("user", {"users"}, update))
      BY <1>1, <1>6, <2>1, <2>2 DEF AddOrUpdateOrganisationUser
    <2> QED
      BY <2>6, <2>7, LawTaken
  <1> QED
    BY <1>3, <1>4, <1>5, <1>6

LEMMA PutLinkLawful ==
  ASSUME Inv, AllLawful, NEW q \in Requests, NEW i \in DOMAIN Doc.regs, NEW a, PutLink(q, i, a)
  PROVE  AllLawful'
  <1>1. PICK read \in Updates : read = Read
    BY ReadOnce
  <1>2. PICK item : item = [read.regs[i] EXCEPT !.acc = a]
    OBVIOUS
  <1>3. PICK update, regs, own :
          /\ update = [read EXCEPT !.regs[i] = item] /\ regs = [read.regs EXCEPT ![i] = item]
          /\ own = {read.regs[i].id}
    OBVIOUS
  <1>4. /\ update.users = read.users /\ update.regs = regs /\ update.accs = read.accs
        /\ i \in DOMAIN read.regs /\ read.regs[i] \in UpdatedRegs
    BY <1>1, <1>3, ReadOnce, RegOfRead DEF Updates
  <1>5. /\ DOMAIN regs = DOMAIN read.regs /\ regs[i] = item
        /\ \A k \in DOMAIN read.regs \ {i} : regs[k] = read.regs[k]
    BY <1>3, <1>4
  <1>6. item.id = read.regs[i].id /\ item.status = read.regs[i].status
    BY <1>2, <1>4 DEF UpdatedRegs
  <1>7. SameStatuses(read.regs, regs) /\ SameStatuses(read.accs, read.accs)
    <2>1. \A k \in DOMAIN read.regs :
            regs[k].id = read.regs[k].id /\ regs[k].status = read.regs[k].status
      BY <1>5, <1>6
    <2> QED
      BY <1>1, <1>5, <2>1, ReadOnce, SameAreLawful
  <1>8. Lawful("put", read, update)
    BY <1>1, <1>4, <1>7, ReadOnce, NothingMoves
  <1>9. Register(q, Pending("put", own, update))
    BY <1>1, <1>2, <1>3 DEF PutLink
  <1> QED
    BY <1>1, <1>8, <1>9, LawTaken

LEMMA PutFieldLawful ==
  ASSUME Inv, AllLawful, NEW q \in Requests, NEW ids, NEW field \in EditedFields \cup {MALFORMED},
         PutField(q, ids, field)
  PROVE  AllLawful'
  <1>1. PICK read \in Updates : read = Read
    BY ReadOnce
  <1>2. PICK regs, accs :
          /\ regs = [i \in DOMAIN read.regs |-> EditedItem(read.regs[i], ids, field)]
          /\ accs = [j \in DOMAIN read.accs |-> EditedItem(read.accs[j], ids, field)]
    OBVIOUS
  <1>3. PICK update : update = Spread(read, [regs |-> regs, accs |-> accs])
    OBVIOUS
  <1>4. update.users = read.users /\ update.regs = regs /\ update.accs = accs
    BY <1>3 DEF Updates, Spread
  <1>5. field \in FIELDS \cup {MALFORMED}
    BY EditedAssumption
  <1>6. /\ \A i \in DOMAIN read.regs : read.regs[i] \in UpdatedRegs
        /\ \A j \in DOMAIN read.accs : read.accs[j] \in UpdatedAccs
    BY DEF Updates
  <1>7. \A i \in DOMAIN read.regs :
          regs[i].id = read.regs[i].id /\ regs[i].status = read.regs[i].status
    BY <1>2, <1>5, <1>6, EditedTyped
  <1>8. \A j \in DOMAIN read.accs :
          accs[j].id = read.accs[j].id /\ accs[j].status = read.accs[j].status
    BY <1>2, <1>5, <1>6, EditedTyped
  <1>9. DOMAIN regs = DOMAIN read.regs /\ DOMAIN accs = DOMAIN read.accs
    BY <1>2
  <1>10. SameStatuses(read.regs, regs) /\ SameStatuses(read.accs, accs)
    BY <1>1, <1>7, <1>8, <1>9, ReadOnce, SameAreLawful
  <1>11. Lawful("put", read, update)
    BY <1>1, <1>4, <1>10, ReadOnce, NothingMoves
  <1>12. Register(q, Pending("put", ids, update))
    BY <1>1, <1>2, <1>3 DEF PutField, EditedItem
  <1> QED
    BY <1>1, <1>11, <1>12, LawTaken

LEMMA RemovedSame ==
  ASSUME NEW S, NEW read \in Seq(S), Distinct(read), NEW i \in DOMAIN read
  PROVE  SameStatuses(read, RemoveAt(read, i))
  <1>1. PICK left : left = RemoveAt(read, i)
    OBVIOUS
  <1>2. ASSUME NEW k \in DOMAIN left PROVE \E n \in DOMAIN read : left[k] = read[n]
    <2>1. left[k] = read[IF k < i THEN k ELSE k + 1] /\ k \in 1..(Len(read) - 1)
      BY <1>1, RemoveAtTyped
    <2>2. (IF k < i THEN k ELSE k + 1) \in DOMAIN read
      BY <2>1
    <2> QED
      BY <2>1, <2>2
  <1> QED
    BY <1>1, <1>2 DEF SameStatuses, Distinct

LEMMA RemovalsLawful ==
  ASSUME Inv, AllLawful, NEW q \in Requests,
         \/ \E i \in DOMAIN Doc.regs : PutWithoutRegistration(q, i)
         \/ \E j \in DOMAIN Doc.accs : PutWithoutAccreditation(q, j)
  PROVE  AllLawful'
  <1>1. PICK read \in Updates : read = Read
    BY ReadOnce
  <1>2. /\ DOMAIN read.regs = DOMAIN Doc.regs /\ DOMAIN read.accs = DOMAIN Doc.accs
        /\ Distinct(read.regs) /\ Distinct(read.accs) /\ OneEach(read.users)
        /\ read.regs \in Seq(UpdatedRegs) /\ read.accs \in Seq(UpdatedAccs)
    BY <1>1, ReadOnce DEF Updates
  <1>3. SameStatuses(read.regs, read.regs) /\ SameStatuses(read.accs, read.accs)
    BY <1>2, SameAreLawful
  <1>4. ASSUME NEW i \in DOMAIN Doc.regs, PutWithoutRegistration(q, i) PROVE AllLawful'
    <2>1. PICK own, regs : own = {read.regs[i].id} /\ regs = RemoveAt(read.regs, i)
      OBVIOUS
    <2>2. PICK update : update = [read EXCEPT !.regs = regs]
      OBVIOUS
    <2>3. update.users = read.users /\ update.regs = regs /\ update.accs = read.accs
      BY <2>2 DEF Updates
    <2>4. Lawful("put", read, update)
      BY <1>2, <1>3, <2>1, <2>3, RemovedSame, NothingMoves
    <2> QED
      BY <1>1, <1>4, <2>1, <2>2, <2>4, LawTaken DEF PutWithoutRegistration
  <1>5. ASSUME NEW j \in DOMAIN Doc.accs, PutWithoutAccreditation(q, j) PROVE AllLawful'
    <2>1. PICK own, accs : own = {read.accs[j].id} /\ accs = RemoveAt(read.accs, j)
      OBVIOUS
    <2>2. PICK update : update = [read EXCEPT !.accs = accs]
      OBVIOUS
    <2>3. update.users = read.users /\ update.regs = read.regs /\ update.accs = accs
      BY <2>2 DEF Updates
    <2>4. Lawful("put", read, update)
      BY <1>2, <1>3, <2>1, <2>3, RemovedSame, NothingMoves
    <2> QED
      BY <1>1, <1>5, <2>1, <2>2, <2>4, LawTaken DEF PutWithoutAccreditation
  <1> QED
    BY <1>4, <1>5

LEMMA CorrectionsRedate ==
  ASSUME NEW S, NEW history \in Seq(S) \ {<<>>}, NEW statuses, NEW transitions,
         NEW h \in Corrections(history, statuses, transitions)
  PROVE  Len(h) = Len(history) /\ h # history
  <1>1. PICK k \in DOMAIN history, s \in statuses : h = [history EXCEPT ![k] = s] /\ h # history
    BY DEF Corrections
  <1>2. DOMAIN h = DOMAIN history /\ DOMAIN history = 1..Len(history) /\ Len(history) \in Nat
    BY <1>1
  <1> QED
    BY <1>1, <1>2

LEMMA CorrectionsLawful ==
  ASSUME Inv, AllLawful, NEW q \in Requests,
         \/ \E i \in DOMAIN Doc.regs : PutRegistrationHistory(q, i)
         \/ \E j \in DOMAIN Doc.accs : PutAccreditationHistory(q, j)
  PROVE  AllLawful'
  <1>1. PICK read \in Updates : read = Read
    BY ReadOnce
  <1>2. /\ DOMAIN read.regs = DOMAIN Doc.regs /\ DOMAIN read.accs = DOMAIN Doc.accs
        /\ Distinct(read.regs) /\ Distinct(read.accs) /\ OneEach(read.users)
        /\ read.regs \in Seq(UpdatedRegs) /\ read.accs \in Seq(UpdatedAccs)
    BY <1>1, ReadOnce DEF Updates
  <1>3. SameStatuses(read.regs, read.regs) /\ SameStatuses(read.accs, read.accs)
    BY <1>2, SameAreLawful
  <1>4. ASSUME NEW i \in DOMAIN Doc.regs, PutRegistrationHistory(q, i) PROVE AllLawful'
    <2>1. PICK old \in UpdatedRegs : old = read.regs[i] /\ old.history # <<>>
      BY <1>1, RegOfRead
    <2>2. PICK h \in Corrections(old.history, REGISTRATION_STATUS, VALID_REG_TRANSITIONS) :
            Register(q, Pending("correct", {read.regs[i].id}, [read EXCEPT !.regs[i].history = h]))
      BY <1>1, <1>4, <2>1 DEF PutRegistrationHistory
    <2>3. Len(h) = Len(old.history) /\ h # old.history
      BY <2>1, CorrectionsRedate DEF UpdatedRegs
    <2>4. PICK own, item : own = {read.regs[i].id} /\ item = [old EXCEPT !.history = h]
      OBVIOUS
    <2>5. item.id = old.id /\ item.status = old.status /\ item.history = h
      BY <2>4 DEF UpdatedRegs
    <2>6. PICK update, regs :
            update = [read EXCEPT !.regs[i] = item] /\ regs = [read.regs EXCEPT ![i] = item]
      OBVIOUS
    <2>7. /\ update.users = read.users /\ update.regs = regs /\ update.accs = read.accs
          /\ DOMAIN regs = DOMAIN read.regs /\ i \in DOMAIN read.regs /\ regs[i] = item
          /\ \A k \in DOMAIN read.regs \ {i} : regs[k] = read.regs[k]
      BY <1>2, <2>6 DEF Updates
    <2>8. Redated(read.regs, regs)
      BY <2>1, <2>3, <2>5, <2>7 DEF Redated
    <2>9. SameStatuses(read.regs, regs)
      <3>1. \A k \in DOMAIN read.regs :
              regs[k].id = read.regs[k].id /\ regs[k].status = read.regs[k].status
        BY <2>1, <2>5, <2>7
      <3> QED
        BY <1>2, <2>7, <3>1, SameAreLawful
    <2>10. Lawful("correct", read, update)
      BY <1>2, <1>3, <2>7, <2>8, <2>9, SameAreFounded DEF Lawful
    <2>11. Register(q, Pending("correct", own, update))
      BY <2>1, <2>2, <2>4, <2>6
    <2> QED
      BY <1>1, <2>10, <2>11, LawTaken
  <1>5. ASSUME NEW j \in DOMAIN Doc.accs, PutAccreditationHistory(q, j) PROVE AllLawful'
    <2>1. PICK old \in UpdatedAccs : old = read.accs[j] /\ old.history # <<>>
      BY <1>1, AccOfRead
    <2>2. PICK h \in Corrections(old.history, ACCREDITATION_STATUS, VALID_ACC_HISTORY) :
            Register(q, Pending("correct", {read.accs[j].id}, [read EXCEPT !.accs[j].history = h]))
      BY <1>1, <1>5, <2>1 DEF PutAccreditationHistory
    <2>3. Len(h) = Len(old.history) /\ h # old.history
      BY <2>1, CorrectionsRedate DEF UpdatedAccs
    <2>4. PICK own, item : own = {read.accs[j].id} /\ item = [old EXCEPT !.history = h]
      OBVIOUS
    <2>5. item.id = old.id /\ item.status = old.status /\ item.history = h
      BY <2>4 DEF UpdatedAccs
    <2>6. PICK update, accs :
            update = [read EXCEPT !.accs[j] = item] /\ accs = [read.accs EXCEPT ![j] = item]
      OBVIOUS
    <2>7. /\ update.users = read.users /\ update.regs = read.regs /\ update.accs = accs
          /\ DOMAIN accs = DOMAIN read.accs /\ j \in DOMAIN read.accs /\ accs[j] = item
          /\ \A k \in DOMAIN read.accs \ {j} : accs[k] = read.accs[k]
      BY <1>2, <2>6 DEF Updates
    <2>8. Redated(read.accs, accs)
      BY <2>1, <2>3, <2>5, <2>7 DEF Redated
    <2>9. SameStatuses(read.accs, accs)
      <3>1. \A k \in DOMAIN read.accs :
              accs[k].id = read.accs[k].id /\ accs[k].status = read.accs[k].status
        BY <2>1, <2>5, <2>7
      <3> QED
        BY <1>2, <2>7, <3>1, SameAreLawful
    <2>10. Lawful("correct", read, update)
      BY <1>2, <1>3, <2>7, <2>8, <2>9, SameAreFounded DEF Lawful
    <2>11. Register(q, Pending("correct", own, update))
      BY <2>1, <2>2, <2>4, <2>6
    <2> QED
      BY <1>1, <2>10, <2>11, LawTaken
  <1> QED
    BY <1>4, <1>5

LEMMA MigrationLawful ==
  ASSUME Inv, AllLawful, "staleIds" \notin Disturbances, NEW q \in Requests, MigrationBegins(q)
  PROVE  AllLawful'
  <1>0. PICK ids : ids = Doc
    OBVIOUS
  <1>1. PICK submissions \in SubmissionsToMigrate(ids) :
          Register(q, Pending("migration", {"forms"},
                              TransformAndLinkAllNewSubmissions(submissions)))
    BY <1>0 DEF MigrationBegins, View
  <1>2. PICK update, read :
          update = TransformAndLinkAllNewSubmissions(submissions) /\ read = Read
    OBVIOUS
  <1>3. PICK regs, accs : /\ Migrates(read, regs, accs, update)
                          /\ Extends(read.regs, regs) /\ Extends(read.accs, accs)
    BY <1>0, <1>2, MigrationLinks
  <1>4. SameStatuses(read.regs, update.regs)
    BY <1>3 DEF Migrates, Extends, Distinct, SameStatuses
  <1>5. SameStatuses(read.accs, update.accs)
    BY <1>3 DEF Migrates, Extends, Distinct, SameStatuses
  <1>6. update.users = read.users /\ OneEach(read.users)
    BY <1>2, <1>3, ReadOnce DEF Migrates
  <1>7. Lawful("migration", read, update)
    BY <1>4, <1>5, <1>6, NothingMoves
  <1> QED
    BY <1>1, <1>2, <1>7, LawTaken

LEMMA SitesLawful ==
  ASSUME Inv, AllLawful, NEW q \in Requests, NEW i, NEW sites, MapOverseasSites(q, i, sites)
  PROVE  AllLawful'
  <1>1. PICK r : r = [kind |-> "sites", version |-> Doc.version, own |-> {Doc.regs[i].id},
                      sites |-> sites]
    OBVIOUS
  <1>2. r.kind = "sites" /\ req' = [req EXCEPT ![q] = r] /\ docs' = docs
    BY <1>1 DEF Register, MapOverseasSites
  <1>3. Doc' = Doc /\ Read' = Read
    BY <1>2 DEF Doc, Read
  <1>4. req'[q] = r /\ \A p \in Requests \ {q} : req'[p] = req[p]
    BY <1>2 DEF Inv, Typed
  <1> QED
    BY <1>2, <1>3, <1>4 DEF AllLawful, Replacing

LEMMA BeginLawful ==
  ASSUME Inv, AllLawful, "staleIds" \notin Disturbances, NEW q \in Requests, Begin(q)
  PROVE  AllLawful'
  <1>1. CASE \E i \in DOMAIN Doc.regs, to \in REGISTRATION_STATUS : RegistrationStatusHistory(q, i, to)
    BY <1>1, RegistrationLawful
  <1>2. CASE \E i \in DOMAIN Doc.regs, j \in DOMAIN Doc.accs, to \in ACCREDITATION_STATUS :
               AccreditationStatusHistory(q, i, j, to)
    BY <1>2, AccreditationLawful
  <1>3. CASE \E i \in DOMAIN Doc.regs, a \in Accs \cup {NoAcc} : PutLink(q, i, a)
    BY <1>3, PutLinkLawful
  <1>4. CASE \/ \E i \in DOMAIN Doc.regs : PutRegistrationHistory(q, i)
             \/ \E j \in DOMAIN Doc.accs : PutAccreditationHistory(q, j)
    BY <1>4, CorrectionsLawful
  <1>5. CASE \/ \E i \in DOMAIN Doc.regs : PutWithoutRegistration(q, i)
             \/ \E j \in DOMAIN Doc.accs : PutWithoutAccreditation(q, j)
    BY <1>5, RemovalsLawful
  <1>6. CASE \E ids : \E field \in EditedFields \cup {MALFORMED} : PutField(q, ids, field)
    BY <1>6, PutFieldLawful
  <1>7. CASE \/ \E to \in ORGANISATION_STATUS : PutOrganisationStatus(q, to)
             \/ \E t \in Tenants : Link(q, t)
             \/ Unlink(q)
             \/ \E u \in Users : AddOrUpdateOrganisationUser(q, u)
    BY <1>7, FieldsLawful
  <1>8. CASE \E i \in DOMAIN Doc.regs, sites \in SUBSET Sites : MapOverseasSites(q, i, sites)
    BY <1>8, SitesLawful
  <1>9. CASE MigrationBegins(q)
    BY <1>9, MigrationLawful
  <1> QED
    BY <1>1, <1>2, <1>3, <1>4, <1>5, <1>6, <1>7, <1>8, <1>9 DEF Begin

-----------------------------------------------------------------------------
(* The contract's words for an item.                                       *)
LEMMA ContractWords ==
  ASSUME NEW items, NEW id
  PROVE  /\ Contract!ById(items, id) = Find(items, id)
         /\ Contract!Has(items, id) <=> HasItem(items, id)
  <1> DEFINE I == {i \in 1..Len(items) : items[i].id = id}
  <1>1. Contract!ById(items, id) = items[IF I # {} THEN Contract!Min(I) ELSE 0]
    BY DEF Contract!ById, Contract!SelectInSeq
  <1>2. Find(items, id) = items[IF I # {} THEN Min(I) ELSE 0]
    BY DEF Find, SelectInSeq
  <1>3. Contract!Min(I) = Min(I)
    BY DEF Contract!Min, Min
  <1>4. Contract!Has(items, id) <=> HasItem(items, id)
    BY DEF Contract!Has, HasItem, Ids
  <1> QED
    BY <1>1, <1>2, <1>3, <1>4

LEMMA ContractStatus ==
  ASSUME NEW item PROVE Contract!StatusOf(item) = Last(item.history)
  BY DEF Contract!StatusOf, Contract!Last, Last

LEMMA StaysPut ==
  ASSUME NEW S, NEW h \in Seq(S)
  PROVE  ~ Contract!Moved(h, h) /\ Contract!Supplied(h, h)
  BY DEF Contract!Moved, Contract!Supplied

LEMMA MovesOn ==
  ASSUME NEW S, NEW h \in Seq(S), NEW to \in S
  PROVE  /\ Contract!Moved(h, Append(h, to)) /\ Last(Append(h, to)) = to
         /\ Append(h, to) \in Seq(S) \ {<<>>}
  <1>1. PICK more : more = Append(h, to)
    OBVIOUS
  <1>2. /\ more \in Seq(S) /\ Len(more) = Len(h) + 1 /\ more[Len(h) + 1] = to
        /\ \A k \in 1..Len(h) : more[k] = h[k]
    BY <1>1
  <1>3. more # <<>> /\ Last(more) = to
    BY <1>2 DEF Last
  <1>4. SubSeq(h, 1, Len(h)) = h /\ SubSeq(more, 1, Len(h)) = h
    BY <1>1, <1>2
  <1>5. Contract!Moved(h, more)
    BY <1>2, <1>4 DEF Contract!Moved, Contract!IsPrefix
  <1> QED
    BY <1>1, <1>2, <1>3, <1>5

(* A history as it was, or with the status of the update, or that of a new *)
(* item.                                                                   *)
ItemPlain(stored, item, history) ==
  IF HasItem(stored, item.id)
  THEN \E k \in DOMAIN stored :
         /\ stored[k].id = item.id
         /\ history = IF item.status = Last(stored[k].history) THEN stored[k].history
                      ELSE Append(stored[k].history, item.status)
  ELSE history = <<CREATED>> /\ item.status = NONE

Plainly(stored, items, next) ==
  /\ DOMAIN next = DOMAIN items
  /\ \A i \in DOMAIN items :
       /\ next[i].id = items[i].id /\ next[i].fields = items[i].fields
       /\ ItemPlain(stored, items[i], next[i].history)

(* The statuses and histories of an update of what is stored.              *)
UpdatedFrom(S, stored, items) ==
  /\ CREATED \in S /\ NONE \notin S /\ Distinct(stored) /\ Histories(stored, S)
  /\ \A i \in DOMAIN items :
       HasItem(stored, items[i].id) => items[i].status \in S

LEMMA PlainHistory ==
  ASSUME NEW kind, NEW U, NEW stored, NEW existing \in Seq(U), ReadsItems(stored, existing),
         Distinct(stored), NEW items \in Seq(U), Continues(kind, items, stored),
         NEW i \in DOMAIN items,
         \A k \in DOMAIN stored :
           stored[k].id = items[i].id /\ items[i].status = Last(stored[k].history)
             => items[i].history = stored[k].history
  PROVE  ItemPlain(stored, items[i], NextHistory(existing, items, i))
  <1>1. PICK item : item = items[i]
    OBVIOUS
  <1>2. Distinct(existing) /\ Distinct(items)
    BY DEF ReadsItems, Distinct, Continues
  <1>3. HasItem(existing, item.id) <=> HasItem(stored, item.id)
    BY DEF ReadsItems, HasItem, Ids
  <1>4. CASE ~ HasItem(stored, item.id)
    <2>1. NextHistory(existing, items, i) = <<CREATED>>
      BY <1>1, <1>2, <1>3, <1>4, Updating DEF NextHistory, InitialStatusHistory
    <2>2. item.status = NONE
      BY <1>1, <1>4 DEF Continues
    <2> QED
      BY <1>1, <1>4, <2>1, <2>2 DEF ItemPlain
  <1>5. CASE HasItem(stored, item.id)
    <2>1. PICK k \in DOMAIN stored : stored[k].id = item.id
      BY <1>5 DEF HasItem, Ids
    <2>2. /\ k \in DOMAIN existing /\ existing[k].id = item.id
          /\ existing[k].history = stored[k].history
          /\ existing[k].status = Last(stored[k].history)
      BY <2>1 DEF ReadsItems
    <2>3. NextHistory(existing, items, i) = StatusHistoryWithChanges(item, existing[k])
      BY <1>1, <1>2, <2>2, HistoryOfKnown
    <2>4. item.status # NONE
      BY <1>1, <1>5 DEF Continues
    <2>5. item.status = Last(stored[k].history) => item.history = stored[k].history
      BY <1>1, <2>1
    <2>6. StatusHistoryWithChanges(item, existing[k]) =
            IF item.status = Last(stored[k].history) THEN stored[k].history
            ELSE Append(stored[k].history, item.status)
      BY <2>2, <2>4, <2>5 DEF StatusHistoryWithChanges, ChangesStatus
    <2> QED
      BY <1>1, <1>5, <2>1, <2>3, <2>6 DEF ItemPlain
  <1> QED
    BY <1>4, <1>5

LEMMA PlainStatus ==
  ASSUME NEW S, NEW stored, NEW items, NEW next, UpdatedFrom(S, stored, items),
         Plainly(stored, items, next)
  PROVE  Stores("put", items, next)
  <1> SUFFICES ASSUME NEW i \in DOMAIN items
               PROVE  Last(next[i].history) = StatusStored(items[i])
    BY DEF Stores, Plainly
  <1>1. PICK item, history : item = items[i] /\ history = next[i].history
    OBVIOUS
  <1>2. ItemPlain(stored, item, history)
    BY <1>1 DEF Plainly
  <1>3. CASE HasItem(stored, item.id)
    <2>1. PICK k \in DOMAIN stored :
            history = IF item.status = Last(stored[k].history) THEN stored[k].history
                      ELSE Append(stored[k].history, item.status)
      BY <1>2, <1>3 DEF ItemPlain
    <2>2. stored[k].history \in Seq(S) /\ item.status \in S /\ item.status # NONE
      BY <1>1, <1>3 DEF UpdatedFrom, Histories
    <2>3. Last(history) = item.status
      BY <2>1, <2>2, MovesOn
    <2> QED
      BY <1>1, <2>2, <2>3 DEF StatusStored
  <1>4. CASE ~ HasItem(stored, item.id)
    <2>1. history = <<CREATED>> /\ item.status = NONE
      BY <1>2, <1>4 DEF ItemPlain
    <2> QED
      BY <1>1, <2>1 DEF StatusStored, Last
  <1> QED
    BY <1>3, <1>4

(* An item that is stored, and how it was moved.                           *)
LEMMA PlainMove ==
  ASSUME NEW S, NEW stored, NEW items, NEW next, UpdatedFrom(S, stored, items),
         Plainly(stored, items, next), NEW i \in DOMAIN items, NEW k \in DOMAIN stored,
         stored[k].id = items[i].id
  PROVE  /\ Contract!Supplied(stored[k].history, next[i].history)
              \/ Contract!Moved(stored[k].history, next[i].history)
         /\ items[i].status = Last(stored[k].history) => next[i].history = stored[k].history
         /\ Contract!Moved(stored[k].history, next[i].history)
              => items[i].status # Last(stored[k].history)
         /\ Last(next[i].history) = items[i].status
  <1>1. PICK item, history : item = items[i] /\ history = next[i].history
    OBVIOUS
  <1>2. HasItem(stored, item.id)
    BY <1>1 DEF HasItem, Ids
  <1>3. PICK m \in DOMAIN stored :
          /\ stored[m].id = item.id
          /\ history = IF item.status = Last(stored[m].history) THEN stored[m].history
                       ELSE Append(stored[m].history, item.status)
    BY <1>1, <1>2 DEF Plainly, ItemPlain
  <1>4. m = k
    BY <1>1, <1>3 DEF UpdatedFrom, Distinct
  <1>5. stored[k].history \in Seq(S) /\ item.status \in S
    BY <1>1, <1>2 DEF UpdatedFrom, Histories
  <1> QED
    BY <1>1, <1>3, <1>4, <1>5, StaysPut, MovesOn

-----------------------------------------------------------------------------
(* Items of an update and what replace stores of them.                     *)
NextOf(existing, items, next) ==
  /\ DOMAIN next = DOMAIN items
  /\ \A i \in DOMAIN items :
       /\ next[i].id = items[i].id /\ next[i].fields = items[i].fields
       /\ next[i].history = NextHistory(existing, items, i)

IsReplaced(kind, doc, read, update, cascaded, next) ==
  /\ doc \in StoredDocs /\ next \in StoredDocs /\ update \in Updates /\ IsRead(doc, read)
  /\ Distinct(doc.regs) /\ Distinct(doc.accs) /\ OneEach(doc.users)
  /\ cascaded \in Seq(UpdatedAccs)
  /\ cascaded = ApplyRegistrationStatusToLinkedAccreditations(update.regs, update.accs)
  /\ IsCascaded(update.regs, update.accs, cascaded)
  /\ Continues(kind, update.regs, doc.regs)
  /\ Continues(kind, update.accs, doc.accs) /\ Continues(kind, cascaded, doc.accs)
  /\ UpdateAcceptable(read, update) /\ Lawful(kind, read, update)
  /\ next.version = doc.version + 1 /\ next.link = update.link
  /\ next.history = StatusHistoryWithChanges([status |-> update.status, history |-> <<>>], read)
  /\ NextOf(read.regs, update.regs, next.regs) /\ NextOf(read.accs, cascaded, next.accs)
  /\ \A i \in DOMAIN update.regs : next.regs[i].acc = update.regs[i].acc
  /\ next.users = CollateUsers(update.users, Last(next.history), next.regs, next.accs)

LEMMA Replacement ==
  ASSUME Inv, AllLawful, NEW q \in Requests, req[q] # Idle, req[q].kind \in Replacing,
         req[q].version = Doc.version, UpdateAcceptable(Read, req[q].update),
         NEW next, next = PrepareForReplace(Read, req[q].update)
  PROVE  \E cascaded : IsReplaced(req[q].kind, Doc, Read, req[q].update, cascaded, next)
  <1>1. PICK kind, update, doc, read :
          kind = req[q].kind /\ update = req[q].update /\ doc = Doc /\ read = Read
    OBVIOUS
  <1>2. /\ update \in Updates
        /\ Continues(kind, update.regs, doc.regs) /\ Continues(kind, update.accs, doc.accs)
        /\ Distinct(doc.regs) /\ Distinct(doc.accs)
    BY <1>1 DEF Inv, Holds
  <1>3. /\ doc \in StoredDocs /\ IsRead(doc, read) /\ UpdateAcceptable(read, update)
        /\ Lawful(kind, read, update) /\ OneEach(doc.users)
    BY <1>1, ReadOfDoc DEF Inv, AllLawful
  <1>4. PICK cascaded :
          cascaded = ApplyRegistrationStatusToLinkedAccreditations(update.regs, update.accs)
    OBVIOUS
  <1>5. /\ update.regs \in Seq(UpdatedRegs) /\ update.accs \in Seq(UpdatedAccs)
        /\ cascaded \in Seq(UpdatedAccs) /\ IsCascaded(update.regs, update.accs, cascaded)
    <2>1. update.regs \in Seq(UpdatedRegs) /\ update.accs \in Seq(UpdatedAccs)
      BY <1>2 DEF Updates
    <2> QED
      BY <1>4, <2>1, CascadeOf
  <1>6. Continues(kind, cascaded, doc.accs)
    BY <1>2, <1>5, CascadedContinues
  <1>7. PICK regs, accs, items, existing :
          /\ regs = UpdateStatusHistoryForItems(read.regs, update.regs)
          /\ accs = UpdateStatusHistoryForItems(read.accs, cascaded)
          /\ items = update.regs /\ existing = read.regs
    OBVIOUS
  <1>8. PICK history :
          history = StatusHistoryWithChanges([status |-> update.status, history |-> <<>>], read)
    OBVIOUS
  <1>9. PICK users : users = CollateUsers(update.users, Last(history), regs, accs)
    OBVIOUS
  <1>10. /\ next.history = history /\ next.link = update.link /\ next.regs = regs
         /\ next.accs = accs /\ next.users = users
    BY <1>1, <1>4, <1>7, <1>8, <1>9 DEF PrepareForReplace
  <1>11. next \in StoredDocs /\ next.version = doc.version + 1
    BY <1>1, Prepared
  <1>12. NextOf(existing, items, regs) /\ \A i \in DOMAIN items : regs[i].acc = items[i].acc
    <2>1. DOMAIN regs = DOMAIN items
      BY <1>7 DEF UpdateStatusHistoryForItems
    <2>2. \A k \in DOMAIN items :
            regs[k] = [id |-> items[k].id, history |-> NextHistory(existing, items, k),
                       fields |-> items[k].fields, acc |-> items[k].acc, sites |-> items[k].sites]
      BY <1>5, <1>7, RegStoredAs
    <2> QED
      BY <2>1, <2>2 DEF NextOf
  <1>13. NextOf(read.accs, cascaded, accs)
    <2>1. PICK olds : olds = read.accs
      OBVIOUS
    <2>2. DOMAIN accs = DOMAIN cascaded
      BY <1>7 DEF UpdateStatusHistoryForItems
    <2>3. \A k \in DOMAIN cascaded :
            accs[k] = [id |-> cascaded[k].id, history |-> NextHistory(olds, cascaded, k),
                       fields |-> cascaded[k].fields]
      BY <1>5, <1>7, <2>1, AccStoredAs
    <2> QED
      BY <2>1, <2>2, <2>3 DEF NextOf
  <1>14. IsReplaced(kind, doc, read, update, cascaded, next)
    BY <1>2, <1>3, <1>4, <1>5, <1>6, <1>7, <1>8, <1>9, <1>10, <1>11, <1>12, <1>13 DEF IsReplaced
  <1> QED
    BY <1>1, <1>14

(* Seen from the contract.                                                 *)
LEMMA ReplacedItems ==
  ASSUME NEW kind, NEW doc, NEW read, NEW update, NEW cascaded, NEW next,
         IsReplaced(kind, doc, read, update, cascaded, next)
  PROVE  /\ UpdatedFrom(REGISTRATION_STATUS, doc.regs, update.regs)
         /\ UpdatedFrom(ACCREDITATION_STATUS, doc.accs, cascaded)
         /\ ReadsItems(doc.regs, read.regs) /\ ReadsItems(doc.accs, read.accs)
         /\ doc.regs \in Seq(StoredRegs) /\ doc.accs \in Seq(StoredAccs)
         /\ next.regs \in Seq(StoredRegs) /\ next.accs \in Seq(StoredAccs)
         /\ read.regs \in Seq(UpdatedRegs) /\ read.accs \in Seq(UpdatedAccs)
         /\ update.regs \in Seq(UpdatedRegs) /\ update.accs \in Seq(UpdatedAccs)
         /\ Distinct(next.regs) /\ Distinct(next.accs) /\ Distinct(update.regs)
         /\ Distinct(update.accs) /\ Distinct(cascaded)
         /\ Distinct(read.regs) /\ Distinct(read.accs)
  <1>1. /\ doc.regs \in Seq(StoredRegs) /\ doc.accs \in Seq(StoredAccs)
        /\ next.regs \in Seq(StoredRegs) /\ next.accs \in Seq(StoredAccs)
        /\ read.regs \in Seq(UpdatedRegs) /\ read.accs \in Seq(UpdatedAccs)
        /\ update.regs \in Seq(UpdatedRegs) /\ update.accs \in Seq(UpdatedAccs)
        /\ cascaded \in Seq(UpdatedAccs)
    BY DEF IsReplaced, StoredDocs, IsRead, Updates
  <1>2. ReadsItems(doc.regs, read.regs) /\ ReadsItems(doc.accs, read.accs)
    BY DEF IsReplaced, IsRead, ReadsItems
  <1>3. /\ Distinct(doc.regs) /\ Distinct(doc.accs)
        /\ Distinct(update.regs) /\ Distinct(update.accs) /\ Distinct(cascaded)
        /\ Distinct(next.regs) /\ Distinct(next.accs)
    BY DEF IsReplaced, Continues, NextOf, Distinct
  <1>4. Distinct(read.regs) /\ Distinct(read.accs)
    BY <1>2, <1>3 DEF ReadsItems, Distinct
  <1>5. Histories(doc.regs, REGISTRATION_STATUS)
    <2>1. \A k \in DOMAIN doc.regs : doc.regs[k] \in StoredRegs
      BY <1>1
    <2> QED
      BY ONLY <2>1 DEF StoredRegs, Histories
  <1>6. Histories(doc.accs, ACCREDITATION_STATUS)
    <2>1. \A k \in DOMAIN doc.accs : doc.accs[k] \in StoredAccs
      BY <1>1
    <2> QED
      BY ONLY <2>1 DEF StoredAccs, Histories
  <1>7. /\ CREATED \in REGISTRATION_STATUS /\ NONE \notin REGISTRATION_STATUS
        /\ CREATED \in ACCREDITATION_STATUS /\ NONE \notin ACCREDITATION_STATUS
    BY StatusesNamed DEF REGISTRATION_STATUS, ACCREDITATION_STATUS
  <1>8. ASSUME NEW i \in DOMAIN update.regs, HasItem(doc.regs, update.regs[i].id)
        PROVE  update.regs[i].status \in REGISTRATION_STATUS
    <2>1. PICK item \in UpdatedRegs : item = update.regs[i]
      BY <1>1
    <2>2. item.status # NONE
      BY <1>8, <2>1 DEF IsReplaced, Continues
    <2> QED
      BY <2>1, <2>2 DEF UpdatedRegs
  <1>9. ASSUME NEW i \in DOMAIN cascaded, HasItem(doc.accs, cascaded[i].id)
        PROVE  cascaded[i].status \in ACCREDITATION_STATUS
    <2>1. PICK item \in UpdatedAccs : item = cascaded[i]
      BY <1>1
    <2>2. item.status # NONE
      BY <1>9, <2>1 DEF IsReplaced, Continues
    <2> QED
      BY <2>1, <2>2 DEF UpdatedAccs
  <1>10. UpdatedFrom(REGISTRATION_STATUS, doc.regs, update.regs)
    BY <1>3, <1>5, <1>7, <1>8 DEF UpdatedFrom
  <1>11. UpdatedFrom(ACCREDITATION_STATUS, doc.accs, cascaded)
    BY <1>3, <1>6, <1>7, <1>9 DEF UpdatedFrom
  <1> QED
    BY <1>1, <1>2, <1>3, <1>4, <1>10, <1>11

(* A history is as long as it was, or moves on by the status.              *)
LEMMA ContinuedHistories ==
  ASSUME NEW S, NEW T, NEW U, NEW stored \in Seq(T), NEW existing \in Seq(U),
         ReadsItems(stored, existing), NEW items \in Seq(U), UpdatedFrom(S, stored, items),
         Distinct(items), NEW next, NextOf(existing, items, next),
         \A i \in DOMAIN items, k \in DOMAIN stored :
           stored[k].id = items[i].id =>
             items[i].history # <<>> /\ Len(items[i].history) = Len(stored[k].history)
  PROVE  Contract!ItemHistories(stored, next)
  <1> SUFFICES ASSUME NEW i \in DOMAIN items
               PROVE  IF HasItem(stored, items[i].id)
                      THEN \/ Contract!Supplied(Find(stored, items[i].id).history, next[i].history)
                           \/ Contract!Moved(Find(stored, items[i].id).history, next[i].history)
                      ELSE Contract!Initial(next[i].history)
    BY ContractWords DEF Contract!ItemHistories, NextOf
  <1>1. CASE HasItem(stored, items[i].id)
    <2>1. PICK k \in DOMAIN stored :
            stored[k].id = items[i].id /\ Find(stored, items[i].id) = stored[k]
      BY <1>1, Finding
    <2>2. Distinct(existing) /\ k \in DOMAIN existing /\ items[i].id = existing[k].id
      BY <2>1 DEF ReadsItems, UpdatedFrom, Distinct
    <2>3. next[i].history = StatusHistoryWithChanges(items[i], existing[k])
      BY <2>2, HistoryOfKnown DEF NextOf
    <2>4. /\ next[i].history = Append(stored[k].history, items[i].status)
             \/ next[i].history = items[i].history
      BY <2>1, <2>3 DEF StatusHistoryWithChanges, ReadsItems
    <2>5. stored[k].history \in Seq(S) /\ items[i].status \in S
      BY <1>1 DEF UpdatedFrom, Histories
    <2>6. PICK h, now : h = stored[k].history /\ now = next[i].history
      OBVIOUS
    <2>7. now = items[i].history => Contract!Supplied(h, now)
      BY <2>1, <2>6 DEF Contract!Supplied
    <2>8. now = Append(h, items[i].status) => Contract!Moved(h, now)
      BY <2>5, <2>6, MovesOn
    <2> QED
      BY <1>1, <2>1, <2>4, <2>6, <2>7, <2>8
  <1>2. CASE ~ HasItem(stored, items[i].id)
    <2>1. ~ HasItem(existing, items[i].id)
      BY <1>2 DEF ReadsItems, HasItem, Ids
    <2>2. next[i].history = <<CREATED>>
      BY <2>1, Updating DEF NextOf, NextHistory, InitialStatusHistory
    <2> QED
      BY <1>2, <2>2 DEF Contract!Initial, CREATED
  <1> QED
    BY <1>1, <1>2

LEMMA ReplacedHistories ==
  ASSUME NEW kind, NEW doc, NEW read, NEW update, NEW cascaded, NEW next,
         IsReplaced(kind, doc, read, update, cascaded, next)
  PROVE  /\ Contract!ItemHistories(doc.regs, next.regs)
         /\ Contract!ItemHistories(doc.accs, next.accs)
  <1>1. /\ UpdatedFrom(REGISTRATION_STATUS, doc.regs, update.regs)
        /\ UpdatedFrom(ACCREDITATION_STATUS, doc.accs, cascaded)
        /\ ReadsItems(doc.regs, read.regs) /\ ReadsItems(doc.accs, read.accs)
        /\ doc.regs \in Seq(StoredRegs) /\ doc.accs \in Seq(StoredAccs)
        /\ read.regs \in Seq(UpdatedRegs) /\ read.accs \in Seq(UpdatedAccs)
        /\ update.regs \in Seq(UpdatedRegs) /\ cascaded \in Seq(UpdatedAccs)
        /\ Distinct(update.regs) /\ Distinct(cascaded)
        /\ Distinct(read.regs) /\ Distinct(read.accs)
    BY ReplacedItems DEF IsReplaced
  <1>2. /\ NextOf(read.regs, update.regs, next.regs) /\ NextOf(read.accs, cascaded, next.accs)
        /\ Continues(kind, update.regs, doc.regs) /\ Continues(kind, cascaded, doc.accs)
        /\ Lawful(kind, read, update) /\ IsCascaded(update.regs, update.accs, cascaded)
    BY DEF IsReplaced
  <1>3. ASSUME kind = "correct"
        PROVE  /\ update.regs = read.regs \/ Redated(read.regs, update.regs)
               /\ update.accs = read.accs \/ Redated(read.accs, update.accs)
    BY <1>2, <1>3 DEF Lawful
  <1>4. ASSUME NEW i \in DOMAIN update.regs, NEW k \in DOMAIN doc.regs,
               doc.regs[k].id = update.regs[i].id
        PROVE  /\ update.regs[i].history # <<>>
               /\ Len(update.regs[i].history) = Len(doc.regs[k].history)
    <2>1. HasItem(doc.regs, update.regs[i].id)
      BY <1>4 DEF HasItem, Ids
    <2>2. update.regs[i].history # <<>>
      BY <1>2, <2>1 DEF Continues
    <2>3. CASE kind # "correct"
      BY <1>2, <1>4, <2>1, <2>2, <2>3 DEF Continues
    <2>4. CASE kind = "correct"
      <3>1. k \in DOMAIN read.regs /\ read.regs[k].id = update.regs[i].id
        BY <1>1, <1>4 DEF ReadsItems
      <3>2. k = i
        BY <1>1, <1>3, <2>4, <3>1 DEF Redated, Distinct
      <3>3. Len(update.regs[i].history) = Len(read.regs[k].history)
        BY <1>3, <2>4, <3>1, <3>2 DEF Redated
      <3> QED
        BY <1>1, <2>2, <3>3 DEF ReadsItems
    <2> QED
      BY <2>3, <2>4
  <1>5. ASSUME NEW i \in DOMAIN cascaded, NEW k \in DOMAIN doc.accs,
               doc.accs[k].id = cascaded[i].id
        PROVE  /\ cascaded[i].history # <<>>
               /\ Len(cascaded[i].history) = Len(doc.accs[k].history)
    <2>1. HasItem(doc.accs, cascaded[i].id)
      BY <1>5 DEF HasItem, Ids
    <2>2. cascaded[i].history # <<>>
      BY <1>2, <2>1 DEF Continues
    <2>3. CASE kind # "correct"
      BY <1>2, <1>5, <2>1, <2>2, <2>3 DEF Continues
    <2>4. CASE kind = "correct"
      <3>0. /\ i \in DOMAIN update.accs /\ cascaded[i].id = update.accs[i].id
            /\ cascaded[i].history = update.accs[i].history
        BY <1>2 DEF IsCascaded
      <3>1. k \in DOMAIN read.accs /\ read.accs[k].id = update.accs[i].id
        BY <1>1, <1>5, <3>0 DEF ReadsItems
      <3>2. k = i
        BY <1>1, <1>3, <2>4, <3>0, <3>1 DEF Redated, Distinct
      <3>3. Len(update.accs[i].history) = Len(read.accs[k].history)
        BY <1>3, <2>4, <3>1, <3>2 DEF Redated
      <3> QED
        BY <1>1, <2>2, <3>0, <3>3 DEF ReadsItems
    <2> QED
      BY <2>3, <2>4
  <1>6. Contract!ItemHistories(doc.regs, next.regs)
    <2>1. PICK stored, existing, items, after :
            stored = doc.regs /\ existing = read.regs /\ items = update.regs /\ after = next.regs
      OBVIOUS
    <2>2. /\ stored \in Seq(StoredRegs) /\ existing \in Seq(UpdatedRegs) /\ items \in Seq(UpdatedRegs)
          /\ ReadsItems(stored, existing) /\ UpdatedFrom(REGISTRATION_STATUS, stored, items)
          /\ Distinct(items) /\ NextOf(existing, items, after)
      BY <1>1, <1>2, <2>1
    <2>3. \A i \in DOMAIN items, k \in DOMAIN stored :
            stored[k].id = items[i].id =>
              items[i].history # <<>> /\ Len(items[i].history) = Len(stored[k].history)
      BY <1>4, <2>1
    <2>4. Contract!ItemHistories(stored, after)
      BY ONLY <2>2, <2>3, ContinuedHistories
    <2> QED
      BY <2>1, <2>4
  <1>7. Contract!ItemHistories(doc.accs, next.accs)
    <2>1. PICK stored, existing, after :
            stored = doc.accs /\ existing = read.accs /\ after = next.accs
      OBVIOUS
    <2>2. /\ stored \in Seq(StoredAccs) /\ existing \in Seq(UpdatedAccs) /\ cascaded \in Seq(UpdatedAccs)
          /\ ReadsItems(stored, existing) /\ UpdatedFrom(ACCREDITATION_STATUS, stored, cascaded)
          /\ Distinct(cascaded) /\ NextOf(existing, cascaded, after)
      BY <1>1, <1>2, <2>1
    <2>3. \A i \in DOMAIN cascaded, k \in DOMAIN stored :
            stored[k].id = cascaded[i].id =>
              cascaded[i].history # <<>> /\ Len(cascaded[i].history) = Len(stored[k].history)
      BY <1>5, <2>1
    <2>4. Contract!ItemHistories(stored, after)
      BY ONLY <2>2, <2>3, ContinuedHistories
    <2> QED
      BY <2>1, <2>4
  <1> QED
    BY <1>6, <1>7

(* The organisation's own status.                                          *)
LEMMA ReplacedStatus ==
  ASSUME NEW kind, NEW doc, NEW read, NEW update, NEW cascaded, NEW next,
         IsReplaced(kind, doc, read, update, cascaded, next)
  PROVE  /\ Contract!OrganisationHistory(doc.history, next.history)
         /\ Contract!Moved(doc.history, next.history) => update.status # read.status
         /\ Last(next.history) = update.status /\ Last(doc.history) = read.status
  <1>1. PICK status, h : status = update.status /\ h = doc.history
    OBVIOUS
  <1>2. /\ status \in ORGANISATION_STATUS /\ h \in Seq(ORGANISATION_STATUS) \ {<<>>}
        /\ read.history = h /\ read.status = Last(h)
    BY <1>1 DEF IsReplaced, IsRead, StoredDocs, Updates
  <1>3. status # NONE
    BY <1>2, StatusesNamed
  <1>4. PICK item : item = [status |-> status, history |-> <<>>]
    OBVIOUS
  <1>5. item.status = status /\ item.history = <<>>
    BY <1>4
  <1>6. next.history = StatusHistoryWithChanges(item, read)
    BY <1>1, <1>4 DEF IsReplaced
  <1>7. next.history = IF status # read.status THEN Append(h, status) ELSE h
    BY <1>2, <1>3, <1>5, <1>6 DEF StatusHistoryWithChanges, ChangesStatus
  <1>8. Contract!Moved(h, Append(h, status)) /\ Last(Append(h, status)) = status
    BY <1>2, MovesOn
  <1>9. ~ Contract!Moved(h, h)
    BY <1>2, StaysPut
  <1> QED
    BY <1>1, <1>2, <1>7, <1>8, <1>9 DEF Contract!OrganisationHistory

LEMMA ReplacedLinks ==
  ASSUME NEW kind, NEW doc, NEW read, NEW update, NEW cascaded, NEW next,
         IsReplaced(kind, doc, read, update, cascaded, next)
  PROVE  /\ Contract!LinksAreUnique(next) /\ Contract!LinksExist(next) /\ Contract!LinksMatch(next)
         /\ Contract!RegistrationDatesAreDates(next) /\ Contract!AccreditationDatesAreDates(next)
  <1>1. PICK regs, accs, items : regs = next.regs /\ accs = next.accs /\ items = update.regs
    OBVIOUS
  <1>2. /\ AccreditationLinkUniqueness(items) /\ AccreditationLinkExists(items, cascaded)
        /\ AccreditationLinkMatches(items, cascaded)
    BY <1>1 DEF IsReplaced, UpdateAcceptable
  <1>3. /\ DOMAIN regs = DOMAIN items /\ DOMAIN accs = DOMAIN cascaded
        /\ \A i \in DOMAIN items : regs[i].id = items[i].id /\ regs[i].acc = items[i].acc
        /\ \A j \in DOMAIN cascaded : accs[j].id = cascaded[j].id
        /\ cascaded \in Seq(UpdatedAccs)
    BY <1>1 DEF IsReplaced, NextOf
  <1>4. \A id : HasItem(accs, id) <=> HasItem(cascaded, id)
    BY <1>3 DEF HasItem, Ids
  <1>5. \A i \in DOMAIN items : items[i].acc # NoAcc => i \in LinkedRegistrations(items)
    BY DEF LinkedRegistrations
  <1>6. Contract!LinksAreUnique(next)
    BY <1>1, <1>2, <1>3, <1>5 DEF Contract!LinksAreUnique, AccreditationLinkUniqueness
  <1>7. Contract!LinksExist(next)
    BY <1>1, <1>2, <1>3, <1>4, <1>5, ContractWords DEF Contract!LinksExist, AccreditationLinkExists
  <1>8. Contract!LinksMatch(next)
    <2> SUFFICES ASSUME NEW i \in DOMAIN items, items[i].acc # NoAcc
                 PROVE  Key[items[i].acc] = Key[items[i].id]
      BY <1>1, <1>3 DEF Contract!LinksMatch
    <2>1. i \in LinkedRegistrations(items) /\ HasItem(cascaded, items[i].acc)
      BY <1>2, <1>5 DEF AccreditationLinkExists
    <2>2. IsAccreditationForRegistration(Find(cascaded, items[i].acc), items[i])
      BY <1>2, <2>1 DEF AccreditationLinkMatches
    <2>3. Find(cascaded, items[i].acc).id = items[i].acc
      BY <1>3, <2>1, Finding
    <2> QED
      BY <2>2, <2>3 DEF IsAccreditationForRegistration
  <1>9. /\ \A i \in DOMAIN regs : regs[i] \in StoredRegs
        /\ \A j \in DOMAIN accs : accs[j] \in StoredAccs
    BY <1>1, ReplacedItems
  <1>10. "malformed" \notin FIELDS
    BY StatusesNamed DEF MALFORMED
  <1>11. \A item \in StoredRegs \cup StoredAccs : "malformed" \notin item.fields
    BY <1>10 DEF StoredRegs, StoredAccs
  <1>12. Contract!DatesAreDates(regs) /\ Contract!DatesAreDates(accs)
    BY <1>9, <1>11 DEF Contract!DatesAreDates
  <1> QED
    BY <1>1, <1>6, <1>7, <1>8, <1>12
       DEF Contract!RegistrationDatesAreDates, Contract!AccreditationDatesAreDates

(* Users.                                                                  *)
LEMMA Deduplicated ==
  ASSUME NEW users, NEW more, OneEach(users), OneEach(more), NEW all,
         all = DeduplicateUsers(users, more)
  PROVE  /\ users \subseteq all /\ OneEach(all)
         /\ \A user \in more : \E known \in all : known.who = user.who
  BY DEF DeduplicateUsers, OneEach

LEMMA ReplacedUsers ==
  ASSUME NEW kind, NEW doc, NEW read, NEW update, NEW cascaded, NEW next,
         IsReplaced(kind, doc, read, update, cascaded, next)
  PROVE  /\ Contract!SubmitterIsListed(next) /\ Contract!UsersAreKept(doc, next)
         /\ Contract!RegistrationContactsAreListed(next)
         /\ Contract!AccreditationContactsAreListed(next)
         /\ OneEach(next.users)
  <1>1. PICK users, status, regs, accs, all :
          /\ users = update.users /\ status = Last(next.history) /\ regs = next.regs
          /\ accs = next.accs /\ all = next.users
    OBVIOUS
  <1>2. doc.users \subseteq users /\ OneEach(users)
    BY <1>1 DEF IsReplaced, Lawful, IsRead
  <1>3. all = CollateUsers(users, status, regs, accs)
    BY <1>1 DEF IsReplaced
  <1>4. PICK submitter : submitter = GetUserRolesForStatus(Submitter, status)
    OBVIOUS
  <1>5. PICK listed : listed = DeduplicateUsers(users, {submitter})
    OBVIOUS
  <1>6. submitter.who = Submitter /\ OneEach({submitter})
    BY <1>4 DEF GetUserRolesForStatus, OneEach
  <1>7. /\ users \subseteq listed /\ OneEach(listed)
        /\ \E known \in listed : known.who = Submitter
    BY <1>2, <1>5, <1>6, Deduplicated
  <1>8. PICK more : more = CollateItems(regs) \cup CollateItems(accs)
    OBVIOUS
  <1>9. \A user \in more : \E who : user = GetUserRolesForStatus(who, APPROVED)
    BY <1>8 DEF CollateItems
  <1>10. OneEach(more)
    <2>1. \A who : GetUserRolesForStatus(who, APPROVED).who = who
      BY DEF GetUserRolesForStatus
    <2> QED
      BY <1>9, <2>1 DEF OneEach
  <1>11. all = DeduplicateUsers(listed, more)
    BY <1>3, <1>4, <1>5, <1>8 DEF CollateUsers
  <1>12. /\ listed \subseteq all /\ OneEach(all)
         /\ \A user \in more : \E known \in all : known.who = user.who
    BY <1>7, <1>10, <1>11, Deduplicated
  <1>13. Contract!SubmitterIsListed(next)
    BY <1>1, <1>7, <1>12 DEF Contract!SubmitterIsListed, Contract!Lists
  <1>14. Contract!UsersAreKept(doc, next)
    BY <1>1, <1>2, <1>7, <1>12 DEF Contract!UsersAreKept, OneEach
  <1>15. ASSUME NEW items \in {regs, accs} PROVE Contract!ApprovedContactsAreListed(items, next)
    <2> SUFFICES ASSUME NEW i \in DOMAIN items, Last(items[i].history) = APPROVED
                 PROVE  \E known \in all : known.who = Contact[items[i].id]
      BY <1>1, ContractStatus DEF Contract!ApprovedContactsAreListed, Contract!Lists, APPROVED
    <2>1. PICK user : user = GetUserRolesForStatus(Contact[items[i].id], APPROVED)
      OBVIOUS
    <2>2. user \in more
      BY <1>8, <1>15, <2>1 DEF CollateItems, GetCurrentStatus
    <2>3. user.who = Contact[items[i].id]
      BY <2>1 DEF GetUserRolesForStatus
    <2> QED
      BY <1>12, <2>2, <2>3
  <1> QED
    BY <1>1, <1>12, <1>13, <1>14, <1>15
       DEF Contract!RegistrationContactsAreListed, Contract!AccreditationContactsAreListed

LEMMA NextPlainly ==
  ASSUME NEW kind, NEW U, NEW stored, NEW existing \in Seq(U), ReadsItems(stored, existing),
         Distinct(stored), NEW items \in Seq(U), Continues(kind, items, stored),
         NEW next, NextOf(existing, items, next),
         \A i \in DOMAIN items, k \in DOMAIN stored :
           stored[k].id = items[i].id /\ items[i].status = Last(stored[k].history)
             => items[i].history = stored[k].history
  PROVE  Plainly(stored, items, next)
  <1>1. ASSUME NEW i \in DOMAIN items
        PROVE  ItemPlain(stored, items[i], NextHistory(existing, items, i))
    BY <1>1, PlainHistory
  <1> QED
    BY <1>1 DEF Plainly, NextOf

LEMMA CorrectionStored ==
  ASSUME NEW T, NEW U, NEW stored \in Seq(T), Distinct(stored), NEW existing \in Seq(U),
         ReadsItems(stored, existing), NEW items \in Seq(U), Distinct(items),
         NEW next, NextOf(existing, items, next), NEW i \in DOMAIN items, i \in DOMAIN stored,
         items[i].id = existing[i].id, items[i].status = existing[i].status,
         items[i].history # existing[i].history, items[i].history # <<>>,
         Len(items[i].history) = Len(existing[i].history)
  PROVE  Contract!Corrects(stored, next)
  <1>1. /\ i \in DOMAIN existing /\ existing[i].id = stored[i].id
        /\ existing[i].history = stored[i].history /\ Distinct(existing)
    BY DEF ReadsItems, Distinct
  <1>2. next[i].history = StatusHistoryWithChanges(items[i], existing[i])
    BY <1>1, HistoryOfKnown DEF NextOf
  <1>3. next[i].history = items[i].history /\ next[i].id = stored[i].id /\ i \in DOMAIN next
    BY <1>1, <1>2 DEF StatusHistoryWithChanges, ChangesStatus, NextOf
  <1>4. HasItem(stored, next[i].id) /\ Find(stored, next[i].id) = stored[i]
    BY <1>3, Found
  <1>5. Contract!Has(stored, next[i].id) /\ Contract!ById(stored, next[i].id) = stored[i]
    BY <1>4, ContractWords
  <1> QED
    BY <1>1, <1>3, <1>5 DEF Contract!Corrects, Contract!Supplied

(* A correction is stored as it was made, or given up for a cancellation.  *)
LEMMA ReplacedPlainly ==
  ASSUME NEW kind, NEW doc, NEW read, NEW update, NEW cascaded, NEW next,
         IsReplaced(kind, doc, read, update, cascaded, next)
  PROVE  \/ Contract!Corrects(doc.regs, next.regs) \/ Contract!Corrects(doc.accs, next.accs)
         \/ Plainly(doc.regs, update.regs, next.regs) /\ Plainly(doc.accs, cascaded, next.accs)
  <1>1. PICK regs, accs, readRegs, readAccs, items, raw :
          /\ regs = doc.regs /\ accs = doc.accs /\ readRegs = read.regs /\ readAccs = read.accs
          /\ items = update.regs /\ raw = update.accs
    OBVIOUS
  <1>2. /\ ReadsItems(regs, readRegs) /\ ReadsItems(accs, readAccs)
        /\ regs \in Seq(StoredRegs) /\ accs \in Seq(StoredAccs)
        /\ readRegs \in Seq(UpdatedRegs) /\ readAccs \in Seq(UpdatedAccs)
        /\ items \in Seq(UpdatedRegs) /\ cascaded \in Seq(UpdatedAccs)
        /\ Distinct(items) /\ Distinct(cascaded) /\ Distinct(regs) /\ Distinct(accs)
        /\ Distinct(raw)
    BY <1>1, ReplacedItems DEF IsReplaced
  <1>3. /\ NextOf(readRegs, items, next.regs) /\ NextOf(readAccs, cascaded, next.accs)
        /\ Continues(kind, items, regs) /\ Continues(kind, cascaded, accs)
        /\ Continues(kind, raw, accs) /\ Lawful(kind, read, update)
        /\ IsCascaded(items, raw, cascaded)
    BY <1>1 DEF IsReplaced
  <1>4. ASSUME \A i \in DOMAIN items, k \in DOMAIN regs :
                 regs[k].id = items[i].id /\ items[i].status = Last(regs[k].history)
                   => items[i].history = regs[k].history
        PROVE  Plainly(regs, items, next.regs)
    BY ONLY <1>2, <1>3, <1>4, NextPlainly
  <1>5. ASSUME \A i \in DOMAIN cascaded, k \in DOMAIN accs :
                 accs[k].id = cascaded[i].id /\ cascaded[i].status = Last(accs[k].history)
                   => cascaded[i].history = accs[k].history
        PROVE  Plainly(accs, cascaded, next.accs)
    BY ONLY <1>2, <1>3, <1>5, NextPlainly
  <1>6. CASE kind # "correct"
    <2>1. \A i \in DOMAIN items, k \in DOMAIN regs :
            regs[k].id = items[i].id => items[i].history = regs[k].history
      BY <1>3, <1>6 DEF Continues, HasItem, Ids
    <2>2. \A i \in DOMAIN cascaded, k \in DOMAIN accs :
            accs[k].id = cascaded[i].id => cascaded[i].history = accs[k].history
      BY <1>3, <1>6 DEF Continues, HasItem, Ids
    <2> QED
      BY <1>1, <1>4, <1>5, <2>1, <2>2
  <1>7. CASE kind = "correct" /\ Redated(readRegs, items)
    <2>1. PICK i \in DOMAIN readRegs : items[i].history # readRegs[i].history
      BY <1>7 DEF Redated
    <2>2. /\ i \in DOMAIN items /\ i \in DOMAIN regs /\ items[i].id = readRegs[i].id
          /\ items[i].status = readRegs[i].status
          /\ Len(items[i].history) = Len(readRegs[i].history)
      BY <1>2, <1>7, <2>1 DEF Redated, ReadsItems
    <2>3. items[i].history # <<>>
      <3>1. regs[i].id = items[i].id
        BY <1>2, <2>2 DEF ReadsItems
      <3>2. HasItem(regs, items[i].id)
        BY <2>2, <3>1 DEF HasItem, Ids
      <3> QED
        BY <1>3, <2>2, <3>2 DEF Continues
    <2>4. Contract!Corrects(regs, next.regs)
      BY ONLY <1>2, <1>3, <2>1, <2>2, <2>3, CorrectionStored
    <2> QED
      BY <1>1, <2>4
  <1>8. CASE kind = "correct" /\ Redated(readAccs, raw) /\ items = readRegs
    <2>1. PICK i \in DOMAIN readAccs :
            /\ raw[i].history # readAccs[i].history
            /\ \A k \in DOMAIN readAccs \ {i} : raw[k].history = readAccs[k].history
      BY <1>8 DEF Redated
    <2>2. /\ DOMAIN raw = DOMAIN readAccs /\ DOMAIN cascaded = DOMAIN raw
          /\ DOMAIN accs = DOMAIN readAccs
          /\ \A k \in DOMAIN readAccs :
               /\ raw[k].id = readAccs[k].id /\ raw[k].status = readAccs[k].status
               /\ Len(raw[k].history) = Len(readAccs[k].history)
               /\ cascaded[k].id = raw[k].id /\ cascaded[k].history = raw[k].history
               /\ readAccs[k].id = accs[k].id /\ readAccs[k].history = accs[k].history
               /\ readAccs[k].status = Last(accs[k].history)
      BY <1>2, <1>3, <1>8 DEF Redated, ReadsItems, IsCascaded
    <2>3. CASE cascaded[i].status = readAccs[i].status
      <3>1. cascaded[i].history # <<>>
        BY <1>3, <2>2 DEF Continues, HasItem, Ids
      <3>2. /\ i \in DOMAIN cascaded /\ i \in DOMAIN accs /\ cascaded[i].id = readAccs[i].id
            /\ cascaded[i].history # readAccs[i].history
            /\ Len(cascaded[i].history) = Len(readAccs[i].history)
        BY <2>1, <2>2
      <3>3. Contract!Corrects(accs, next.accs)
        BY ONLY <1>2, <1>3, <2>3, <3>1, <3>2, CorrectionStored
      <3> QED
        BY <1>1, <3>3
    <2>4. CASE cascaded[i].status # readAccs[i].status
      <3>1. ASSUME NEW n \in DOMAIN cascaded, NEW k \in DOMAIN accs,
                   accs[k].id = cascaded[n].id, cascaded[n].status = Last(accs[k].history)
            PROVE  cascaded[n].history = accs[k].history
        <4>1. n = k
          BY <1>2, <2>2, <3>1 DEF Distinct
        <4>2. n # i
          BY <2>2, <2>4, <3>1, <4>1
        <4> QED
          BY <2>1, <2>2, <4>1, <4>2
      <3>2. \A n \in DOMAIN items, k \in DOMAIN regs :
              regs[k].id = items[n].id => items[n].history = regs[k].history
        BY <1>2, <1>8 DEF ReadsItems, Distinct
      <3> QED
        BY <1>1, <1>4, <1>5, <3>1, <3>2
    <2> QED
      BY <2>3, <2>4
  <1> QED
    BY <1>1, <1>3, <1>6, <1>7, <1>8 DEF Lawful

(* A status that is moved is moved along the table, but for those exempt.  *)
LEMMA MovesAlongTable ==
  ASSUME NEW S, NEW U, NEW stored, NEW existing \in Seq(U), ReadsItems(stored, existing),
         NEW items \in Seq(U), Distinct(items), UpdatedFrom(S, stored, items),
         NEW next, Plainly(stored, items, next), NEW table, NEW exempt,
         ItemTransitionsValid(existing, items, table, exempt),
         NEW i \in DOMAIN items, NEW k \in DOMAIN stored, stored[k].id = items[i].id,
         Contract!Moved(stored[k].history, next[i].history), items[i].id \notin exempt
  PROVE  <<Last(stored[k].history), Last(next[i].history)>> \in table
  <1>1. items[i].status # Last(stored[k].history) /\ Last(next[i].history) = items[i].status
    BY PlainMove
  <1>2. HasItem(stored, items[i].id)
    BY DEF HasItem, Ids
  <1>3. items[i].status # NONE
    BY <1>2 DEF UpdatedFrom
  <1>4. /\ k \in DOMAIN existing /\ existing[k].id = items[i].id
        /\ existing[k].status = Last(stored[k].history) /\ Distinct(existing)
    BY DEF ReadsItems, UpdatedFrom, Distinct
  <1>5. HasItem(existing, items[i].id) /\ Find(existing, items[i].id) = existing[k]
    BY <1>4, Found
  <1>6. UpdatesExisting(existing, items, i)
    BY <1>5, Updating
  <1>7. ChangesStatus(items[i], existing[k])
    BY <1>1, <1>3, <1>4 DEF ChangesStatus
  <1>8. <<existing[k].status, items[i].status>> \in table
    BY <1>5, <1>6, <1>7 DEF ItemTransitionsValid
  <1> QED
    BY <1>1, <1>4, <1>8

(* What the contract says of moves, without a set of them.                 *)
LEMMA MovesWithin ==
  ASSUME NEW T, NEW stored \in Seq(T), NEW next \in Seq(T), NEW table,
         \A i \in DOMAIN next, k \in DOMAIN stored :
           stored[k].id = next[i].id /\ Contract!Moved(stored[k].history, next[i].history)
             => <<Last(stored[k].history), Last(next[i].history)>> \in table
  PROVE  Contract!MovesOf(stored, next) \subseteq table
  <1> SUFFICES ASSUME NEW i \in DOMAIN next, Contract!Has(stored, next[i].id),
                      Contract!Moved(Contract!ById(stored, next[i].id).history, next[i].history)
               PROVE  <<Contract!StatusOf(Contract!ById(stored, next[i].id)),
                        Contract!StatusOf(next[i])>> \in table
    BY DEF Contract!MovesOf
  <1>1. HasItem(stored, next[i].id) /\ Contract!ById(stored, next[i].id) = Find(stored, next[i].id)
    BY ContractWords
  <1>2. PICK k \in DOMAIN stored :
          stored[k].id = next[i].id /\ Find(stored, next[i].id) = stored[k]
    BY <1>1, Finding
  <1> QED
    BY <1>1, <1>2, ContractStatus

(* A replacement whose histories all follow their statuses.                *)
IsPlain(doc, update, cascaded, next) ==
  Plainly(doc.regs, update.regs, next.regs) /\ Plainly(doc.accs, cascaded, next.accs)

LEMMA ReplacedTransitions ==
  ASSUME NEW kind, NEW doc, NEW read, NEW update, NEW cascaded, NEW next,
         IsReplaced(kind, doc, read, update, cascaded, next),
         IsPlain(doc, update, cascaded, next)
  PROVE  /\ \A i \in DOMAIN next.regs, k \in DOMAIN doc.regs :
              /\ doc.regs[k].id = next.regs[i].id
              /\ Contract!Moved(doc.regs[k].history, next.regs[i].history)
              => <<Last(doc.regs[k].history), Last(next.regs[i].history)>> \in VALID_REG_TRANSITIONS
         /\ \A j \in DOMAIN next.accs, k \in DOMAIN doc.accs :
              /\ doc.accs[k].id = next.accs[j].id
              /\ Contract!Moved(doc.accs[k].history, next.accs[j].history)
              => IF next.accs[j].id \in CascadeCancelledIds(update.regs, update.accs)
                 THEN Last(next.accs[j].history) = CANCELLED
                 ELSE <<Last(doc.accs[k].history), Last(next.accs[j].history)>>
                        \in VALID_ACC_TRANSITIONS
  <1>1. PICK regs, accs, readRegs, readAccs, items, raw, nextRegs, nextAccs :
          /\ regs = doc.regs /\ accs = doc.accs /\ readRegs = read.regs /\ readAccs = read.accs
          /\ items = update.regs /\ raw = update.accs /\ nextRegs = next.regs
          /\ nextAccs = next.accs
    OBVIOUS
  <1>2. PICK exempt : exempt = CascadeCancelledIds(items, raw)
    OBVIOUS
  <1>3. /\ ReadsItems(regs, readRegs) /\ ReadsItems(accs, readAccs)
        /\ readRegs \in Seq(UpdatedRegs) /\ readAccs \in Seq(UpdatedAccs)
        /\ items \in Seq(UpdatedRegs) /\ cascaded \in Seq(UpdatedAccs)
        /\ Distinct(items) /\ Distinct(cascaded)
        /\ UpdatedFrom(REGISTRATION_STATUS, regs, items)
        /\ UpdatedFrom(ACCREDITATION_STATUS, accs, cascaded)
    BY <1>1, ReplacedItems DEF IsReplaced
  <1>4. Plainly(regs, items, nextRegs) /\ Plainly(accs, cascaded, nextAccs)
    BY <1>1 DEF IsPlain
  <1>5. /\ ItemTransitionsValid(readRegs, items, VALID_REG_TRANSITIONS, {})
        /\ ItemTransitionsValid(readAccs, cascaded, VALID_ACC_TRANSITIONS, exempt)
        /\ IsCascaded(items, raw, cascaded)
    BY <1>1, <1>2 DEF IsReplaced, UpdateAcceptable
  <1>6. ASSUME NEW i \in DOMAIN nextRegs, NEW k \in DOMAIN regs, regs[k].id = nextRegs[i].id,
               Contract!Moved(regs[k].history, nextRegs[i].history)
        PROVE  <<Last(regs[k].history), Last(nextRegs[i].history)>> \in VALID_REG_TRANSITIONS
    <2>1. PICK none : none = {}
      OBVIOUS
    <2>2. i \in DOMAIN items /\ regs[k].id = items[i].id /\ items[i].id \notin none
      BY <1>4, <1>6, <2>1 DEF Plainly
    <2>3. ItemTransitionsValid(readRegs, items, VALID_REG_TRANSITIONS, none)
      BY <1>5, <2>1
    <2> QED
      BY ONLY <1>3, <1>4, <1>6, <2>2, <2>3, MovesAlongTable
  <1>7. ASSUME NEW j \in DOMAIN nextAccs, NEW k \in DOMAIN accs, accs[k].id = nextAccs[j].id,
               Contract!Moved(accs[k].history, nextAccs[j].history)
        PROVE  IF nextAccs[j].id \in exempt THEN Last(nextAccs[j].history) = CANCELLED
               ELSE <<Last(accs[k].history), Last(nextAccs[j].history)>> \in VALID_ACC_TRANSITIONS
    <2>1. /\ j \in DOMAIN cascaded /\ accs[k].id = cascaded[j].id
          /\ cascaded[j].id = nextAccs[j].id
      BY <1>4, <1>7 DEF Plainly
    <2>2. CASE nextAccs[j].id \in exempt
      <3>1. cascaded[j].status = CANCELLED
        BY <1>2, <1>5, <2>1, <2>2 DEF IsCascaded
      <3>2. Last(nextAccs[j].history) = cascaded[j].status
        BY ONLY <1>3, <1>4, <2>1, PlainMove
      <3> QED
        BY <2>2, <3>1, <3>2
    <2>3. CASE nextAccs[j].id \notin exempt
      <3>1. cascaded[j].id \notin exempt
        BY <2>1, <2>3
      <3>2. <<Last(accs[k].history), Last(nextAccs[j].history)>> \in VALID_ACC_TRANSITIONS
        BY ONLY <1>3, <1>4, <1>5, <1>7, <2>1, <3>1, MovesAlongTable
      <3> QED
        BY <2>3, <3>2
    <2> QED
      BY <2>2, <2>3
  <1> QED
    BY <1>1, <1>2, <1>6, <1>7

LEMMA CoherentIsConsistent ==
  ASSUME NEW doc \in StoredDocs, NEW read, IsRead(doc, read), Coherent(read)
  PROVE  Contract!Consistent(doc)
  <1>1. PICK regs, accs, docRegs, docAccs :
          regs = read.regs /\ accs = read.accs /\ docRegs = doc.regs /\ docAccs = doc.accs
    OBVIOUS
  <1>2. /\ DOMAIN docRegs = DOMAIN regs /\ DOMAIN docAccs = DOMAIN accs
        /\ \A i \in DOMAIN regs :
             /\ regs[i].id = docRegs[i].id /\ regs[i].fields = docRegs[i].fields
             /\ regs[i].acc = docRegs[i].acc /\ regs[i].status = Last(docRegs[i].history)
        /\ \A j \in DOMAIN accs :
             /\ accs[j].id = docAccs[j].id /\ accs[j].fields = docAccs[j].fields
             /\ accs[j].status = Last(docAccs[j].history)
    BY <1>1 DEF IsRead
  <1>3. /\ FieldsAcceptable(regs, {APPROVED})
        /\ FieldsAcceptable(accs, ACTIVE_ACCREDITATION_STATUSES)
        /\ AccreditationLinkUniqueness(regs) /\ AccreditationLinkExists(regs, accs)
        /\ AccreditationLinkMatches(regs, accs) /\ ValidateApprovals(regs, accs)
    BY <1>1 DEF Coherent
  <1>4. accs \in Seq(UpdatedAccs)
    BY <1>1 DEF IsRead, Updates
  <1>5. \A i \in DOMAIN regs : regs[i].acc # NoAcc => i \in LinkedRegistrations(regs)
    BY DEF LinkedRegistrations
  <1>6. /\ \A i \in DOMAIN regs : Contract!StatusOf(docRegs[i]) = regs[i].status
        /\ \A j \in DOMAIN accs : Contract!StatusOf(docAccs[j]) = accs[j].status
    BY <1>2, ContractStatus
  <1>7. \A id : HasItem(docAccs, id) <=> HasItem(accs, id)
    BY <1>2 DEF HasItem, Ids
  <1>8. Contract!LinksAreUnique(doc)
    BY <1>1, <1>2, <1>3, <1>5 DEF Contract!LinksAreUnique, AccreditationLinkUniqueness
  <1>9. Contract!LinksExist(doc)
    BY <1>1, <1>2, <1>3, <1>5, <1>7, ContractWords
       DEF Contract!LinksExist, AccreditationLinkExists
  <1>10. Contract!LinksMatch(doc)
    <2> SUFFICES ASSUME NEW i \in DOMAIN regs, regs[i].acc # NoAcc
                 PROVE  Key[regs[i].acc] = Key[regs[i].id]
      BY <1>1, <1>2 DEF Contract!LinksMatch
    <2>1. i \in LinkedRegistrations(regs) /\ HasItem(accs, regs[i].acc)
      BY <1>3, <1>5 DEF AccreditationLinkExists
    <2>2. IsAccreditationForRegistration(Find(accs, regs[i].acc), regs[i])
      BY <1>3, <2>1 DEF AccreditationLinkMatches
    <2>3. Find(accs, regs[i].acc).id = regs[i].acc
      BY <1>4, <2>1, Finding
    <2> QED
      BY <2>2, <2>3 DEF IsAccreditationForRegistration
  <1>11. Contract!ApprovedHasApprovedRegistration(doc)
    <2> SUFFICES ASSUME NEW j \in DOMAIN accs, accs[j].status = APPROVED
                 PROVE  \E i \in DOMAIN regs :
                          regs[i].acc = accs[j].id /\ regs[i].status = APPROVED
      BY <1>1, <1>2, <1>6 DEF Contract!ApprovedHasApprovedRegistration, APPROVED
    <2> QED
      BY <1>3 DEF ValidateApprovals, AccreditationsHaveApprovedRegistration
  <1>12. Contract!UniqueApprovals(docRegs)
    <2>1. NoDuplicateApprovals(regs)
      BY <1>3 DEF ValidateApprovals
    <2> QED
      BY <1>2, <1>6, <2>1 DEF Contract!UniqueApprovals, NoDuplicateApprovals, APPROVED
  <1>13. Contract!UniqueApprovals(docAccs)
    <2>1. NoDuplicateApprovals(accs)
      BY <1>3 DEF ValidateApprovals
    <2> QED
      BY <1>2, <1>6, <2>1 DEF Contract!UniqueApprovals, NoDuplicateApprovals, APPROVED
  <1>14. FIELDS = {"number", "validFrom", "validTo", "reprocessingType"}
    BY DEF FIELDS, GRANTED
  <1>15. \A i \in DOMAIN docRegs :
           Contract!StatusOf(docRegs[i]) = "approved" => FIELDS \subseteq docRegs[i].fields
    BY <1>2, <1>3, <1>6 DEF FieldsAcceptable, APPROVED
  <1>16. \A j \in DOMAIN docAccs :
           Contract!StatusOf(docAccs[j]) \in {"approved", "suspended"}
             => FIELDS \subseteq docAccs[j].fields
    BY <1>2, <1>3, <1>6
       DEF FieldsAcceptable, ACTIVE_ACCREDITATION_STATUSES, APPROVED, SUSPENDED
  <1>17. Contract!ApprovedAreComplete(doc)
    BY <1>1, <1>14, <1>15, <1>16
       DEF Contract!ApprovedAreComplete, Contract!ReprocessingTypesAreGiven,
           Contract!RegistrationsAreNumbered, Contract!AccreditationsAreNumbered,
           Contract!RegistrationsAreDated, Contract!AccreditationsAreDated,
           Contract!SuspendedAccreditationsAreDated, Contract!Given
  <1> QED
    BY <1>1, <1>8, <1>9, <1>10, <1>11, <1>12, <1>13, <1>17
       DEF Contract!Consistent, Contract!UniqueApprovedAccreditations,
           Contract!UniqueApprovedRegistrations

LEMMA ReplacedConsistently ==
  ASSUME NEW kind, NEW doc, NEW read, NEW update, NEW cascaded, NEW next,
         IsReplaced(kind, doc, read, update, cascaded, next),
         IsPlain(doc, update, cascaded, next)
  PROVE  Contract!Consistent(next)
  <1>1. PICK after : after = MapDocumentWithCurrentStatuses(next)
    OBVIOUS
  <1>2. next \in StoredDocs /\ IsRead(next, after)
    BY <1>1, Reading DEF IsReplaced
  <1>3. Stores("put", update.regs, next.regs) /\ Stores("put", cascaded, next.accs)
    BY ReplacedItems, PlainStatus DEF IsPlain
  <1>4. /\ update \in Updates /\ UpdateAcceptable(read, update) /\ cascaded \in Seq(UpdatedAccs)
        /\ cascaded = ApplyRegistrationStatusToLinkedAccreditations(update.regs, update.accs)
        /\ \A i \in DOMAIN update.regs : next.regs[i].acc = update.regs[i].acc
    BY DEF IsReplaced
  <1>5. Distinct(update.accs)
    BY ReplacedItems
  <1>6. Coherent(after)
    BY ONLY <1>2, <1>3, <1>4, <1>5, AcceptedIsCoherent
  <1> QED
    BY <1>2, <1>6, CoherentIsConsistent

(* Statuses as they are stored.                                            *)
LEMMA ReplacedStatuses ==
  ASSUME NEW kind, NEW doc, NEW read, NEW update, NEW cascaded, NEW next,
         IsReplaced(kind, doc, read, update, cascaded, next),
         IsPlain(doc, update, cascaded, next)
  PROVE  /\ DOMAIN next.regs = DOMAIN update.regs /\ DOMAIN next.accs = DOMAIN update.accs
         /\ DOMAIN next.accs = DOMAIN cascaded
         /\ \A i \in DOMAIN update.regs :
              /\ next.regs[i].id = update.regs[i].id /\ next.regs[i].acc = update.regs[i].acc
              /\ \A s \in {APPROVED, SUSPENDED, CANCELLED} :
                   Last(next.regs[i].history) = s <=> update.regs[i].status = s
         /\ \A j \in DOMAIN update.accs :
              /\ next.accs[j].id = update.accs[j].id /\ cascaded[j].id = update.accs[j].id
              /\ cascaded[j].status =
                   IF update.accs[j].id \in CascadeCancelledIds(update.regs, update.accs)
                   THEN CANCELLED ELSE update.accs[j].status
              /\ \A s \in {APPROVED, SUSPENDED, CANCELLED} :
                   Last(next.accs[j].history) = s <=> cascaded[j].status = s
  <1>1. PICK regs, accs, items, raw :
          regs = next.regs /\ accs = next.accs /\ items = update.regs /\ raw = update.accs
    OBVIOUS
  <1>2. Stores("put", items, regs) /\ Stores("put", cascaded, accs)
    BY <1>1, ReplacedItems, PlainStatus DEF IsPlain
  <1>3. \A s \in {APPROVED, SUSPENDED, CANCELLED} : \A item : StatusStored(item) = s <=> item.status = s
    BY DEF StatusStored, NONE, APPROVED, SUSPENDED, CANCELLED, CREATED
  <1>4. IsCascaded(items, raw, cascaded) /\ \A i \in DOMAIN items : regs[i].acc = items[i].acc
    BY <1>1 DEF IsReplaced
  <1> QED
    BY <1>1, <1>2, <1>3, <1>4 DEF Stores, IsCascaded

LEMMA OrganisationMoves ==
  ASSUME NEW kind, NEW doc, NEW read, NEW update, NEW cascaded, NEW next,
         IsReplaced(kind, doc, read, update, cascaded, next),
         IsPlain(doc, update, cascaded, next)
  PROVE  Contract!OrganisationTransition(doc, next)
  <1> SUFFICES ASSUME Contract!Moved(doc.history, next.history)
               PROVE  /\ <<Last(doc.history), Last(next.history)>> \in VALID_ORG_TRANSITIONS
                      /\ Last(next.history) = APPROVED =>
                           \E i \in DOMAIN next.regs : Last(next.regs[i].history) = APPROVED
                      /\ Last(next.history) = ACTIVE => next.link # NotLinked
    BY ContractStatus
       DEF Contract!OrganisationTransition, VALID_ORG_TRANSITIONS, CREATED, APPROVED, ACTIVE, REJECTED
  <1>1. /\ update.status # read.status /\ Last(next.history) = update.status
        /\ Last(doc.history) = read.status
    BY ReplacedStatus
  <1>2. OrgTransitionValid(read, update) /\ next.link = update.link
    BY DEF IsReplaced, UpdateAcceptable
  <1>3. ASSUME update.status = APPROVED
        PROVE  \E i \in DOMAIN next.regs : Last(next.regs[i].history) = APPROVED
    <2>1. PICK i \in DOMAIN update.regs : update.regs[i].status = APPROVED
      BY <1>1, <1>2, <1>3 DEF OrgTransitionValid
    <2> QED
      BY <2>1, ReplacedStatuses
  <1> QED
    BY <1>1, <1>2, <1>3 DEF OrgTransitionValid

LEMMA RegistrationsMove ==
  ASSUME NEW kind, NEW doc, NEW read, NEW update, NEW cascaded, NEW next,
         IsReplaced(kind, doc, read, update, cascaded, next),
         IsPlain(doc, update, cascaded, next)
  PROVE  Contract!RegistrationTransitions(doc, next)
  <1>1. PICK stored, after : stored = doc.regs /\ after = next.regs
    OBVIOUS
  <1>2. stored \in Seq(StoredRegs) /\ after \in Seq(StoredRegs)
    BY <1>1, ReplacedItems
  <1>3. \A i \in DOMAIN after, k \in DOMAIN stored :
          stored[k].id = after[i].id /\ Contract!Moved(stored[k].history, after[i].history)
            => <<Last(stored[k].history), Last(after[i].history)>> \in VALID_REG_TRANSITIONS
    BY <1>1, ReplacedTransitions
  <1>4. Contract!MovesOf(stored, after) \subseteq VALID_REG_TRANSITIONS
    BY ONLY <1>2, <1>3, MovesWithin
  <1> QED
    BY <1>1, <1>4
       DEF Contract!RegistrationTransitions, VALID_REG_TRANSITIONS, CREATED, APPROVED, CANCELLED,
           REJECTED

(* The cascade takes what was in force before, and nothing that only the   *)
(* same write brings into force.                                           *)
LEMMA CascadeEndsWhatWas ==
  ASSUME NEW kind, NEW doc, NEW read, NEW update, NEW cascaded, NEW next,
         IsReplaced(kind, doc, read, update, cascaded, next),
         NEW j \in DOMAIN update.accs, NEW k \in DOMAIN doc.accs,
         doc.accs[k].id = update.accs[j].id,
         update.accs[j].id \in CascadeCancelledIds(update.regs, update.accs)
  PROVE  Last(doc.accs[k].history) \in ACTIVE_ACCREDITATION_STATUSES
  <1>1. PICK items, raw, readAccs :
          items = update.regs /\ raw = update.accs /\ readAccs = read.accs
    OBVIOUS
  <1>2. raw[j].status \in ACTIVE_ACCREDITATION_STATUSES
    BY <1>1, ReplacedItems, CascadedWereActive
  <1>3. PICK i \in DOMAIN items : items[i].acc = raw[j].id /\ items[i].status = CANCELLED
    BY <1>1 DEF CascadeCancelledIds
  <1>4. /\ k \in DOMAIN readAccs /\ readAccs[k].id = raw[j].id
        /\ readAccs[k].status = Last(doc.accs[k].history)
    BY <1>1, ReplacedItems DEF ReadsItems
  <1>5. Founded(items, readAccs, raw) /\ AccreditationLinkUniqueness(items)
    BY <1>1 DEF IsReplaced, Lawful, UpdateAcceptable
  <1>6. raw[j].id # NoAcc
    <2>1. PICK acc \in UpdatedAccs : acc = raw[j]
      BY <1>1, ReplacedItems
    <2> QED
      BY <2>1, ItemAssumption DEF UpdatedAccs
  <1>7. ASSUME NEW m \in DOMAIN items, items[m].acc = raw[j].id, items[m].status = APPROVED
        PROVE  FALSE
    <2>1. m = i
      BY <1>3, <1>5, <1>6, <1>7 DEF AccreditationLinkUniqueness, LinkedRegistrations
    <2> QED
      BY <1>3, <1>7, <2>1 DEF APPROVED, CANCELLED
  <1> QED
    BY <1>1, <1>2, <1>4, <1>5, <1>7 DEF Founded

LEMMA AccreditationsMove ==
  ASSUME NEW kind, NEW doc, NEW read, NEW update, NEW cascaded, NEW next,
         IsReplaced(kind, doc, read, update, cascaded, next),
         IsPlain(doc, update, cascaded, next)
  PROVE  Contract!AccreditationTransitions(doc, next)
  <1>1. PICK stored, after, raw : stored = doc.accs /\ after = next.accs /\ raw = update.accs
    OBVIOUS
  <1>2. PICK table : table = VALID_ACC_TRANSITIONS \cup { <<APPROVED, CANCELLED>> }
    OBVIOUS
  <1>3. stored \in Seq(StoredAccs) /\ after \in Seq(StoredAccs)
    BY <1>1, ReplacedItems
  <1>4. ASSUME NEW j \in DOMAIN after, NEW k \in DOMAIN stored, stored[k].id = after[j].id,
               Contract!Moved(stored[k].history, after[j].history)
        PROVE  <<Last(stored[k].history), Last(after[j].history)>> \in table
    <2>1. IF after[j].id \in CascadeCancelledIds(update.regs, raw)
          THEN Last(after[j].history) = CANCELLED
          ELSE <<Last(stored[k].history), Last(after[j].history)>> \in VALID_ACC_TRANSITIONS
      BY <1>1, <1>4, ReplacedTransitions
    <2>2. j \in DOMAIN raw /\ raw[j].id = after[j].id
      BY <1>1, ReplacedStatuses
    <2>3. after[j].id \in CascadeCancelledIds(update.regs, raw)
            => Last(stored[k].history) \in {APPROVED, SUSPENDED}
      BY <1>1, <1>4, <2>2, CascadeEndsWhatWas DEF ACTIVE_ACCREDITATION_STATUSES
    <2>4. <<SUSPENDED, CANCELLED>> \in VALID_ACC_TRANSITIONS
      BY DEF VALID_ACC_TRANSITIONS
    <2> QED
      BY <1>2, <2>1, <2>3, <2>4
  <1>5. Contract!MovesOf(stored, after) \subseteq table
    BY ONLY <1>3, <1>4, MovesWithin
  <1> QED
    BY <1>1, <1>2, <1>5
       DEF Contract!AccreditationTransitions, VALID_ACC_TRANSITIONS, CREATED, APPROVED, SUSPENDED,
           CANCELLED, REJECTED

LEMMA CancellationsCascade ==
  ASSUME NEW kind, NEW doc, NEW read, NEW update, NEW cascaded, NEW next,
         IsReplaced(kind, doc, read, update, cascaded, next),
         IsPlain(doc, update, cascaded, next)
  PROVE  Contract!CancellationCascades(doc, next)
  <1>1. PICK stored, regs, after, items, raw :
          /\ stored = doc.accs /\ regs = next.regs /\ after = next.accs
          /\ items = update.regs /\ raw = update.accs
    OBVIOUS
  <1>2. PICK ids : ids = CascadeCancelledIds(items, raw)
    OBVIOUS
  <1>3. /\ DOMAIN regs = DOMAIN items /\ DOMAIN after = DOMAIN raw
        /\ \A i \in DOMAIN items :
             /\ regs[i].acc = items[i].acc
             /\ Last(regs[i].history) = CANCELLED <=> items[i].status = CANCELLED
        /\ \A j \in DOMAIN raw :
             /\ after[j].id = raw[j].id
             /\ cascaded[j].status = IF raw[j].id \in ids THEN CANCELLED ELSE raw[j].status
             /\ \A s \in {APPROVED, SUSPENDED, CANCELLED} :
                  Last(after[j].history) = s <=> cascaded[j].status = s
    BY <1>1, <1>2, ReplacedStatuses
  <1>4. ASSUME NEW acc
        PROVE  Contract!UnderCancelled(acc, regs) <=>
                 \E i \in DOMAIN items : items[i].acc = acc.id /\ items[i].status = CANCELLED
    BY <1>3, ContractStatus DEF Contract!UnderCancelled, CANCELLED
  <1>5. ASSUME NEW j \in DOMAIN after, Contract!UnderCancelled(after[j], regs)
        PROVE  Last(after[j].history) \notin {APPROVED, SUSPENDED}
    <2>1. PICK i \in DOMAIN items : items[i].acc = raw[j].id /\ items[i].status = CANCELLED
      BY <1>3, <1>4, <1>5
    <2>2. raw[j].status \in {APPROVED, SUSPENDED} => raw[j].id \in ids
      BY <1>2, <1>3, <2>1 DEF CascadeCancelledIds, ACTIVE_ACCREDITATION_STATUSES
    <2>3. CANCELLED \notin {APPROVED, SUSPENDED}
      BY DEF CANCELLED, APPROVED, SUSPENDED
    <2> QED
      BY <1>3, <2>2, <2>3
  <1>6. ASSUME NEW j \in DOMAIN after, NEW k \in DOMAIN stored, stored[k].id = after[j].id,
               Contract!Moved(stored[k].history, after[j].history),
               Last(stored[k].history) = APPROVED, Last(after[j].history) = CANCELLED
        PROVE  Contract!UnderCancelled(after[j], regs)
    <2>1. IF after[j].id \in ids THEN Last(after[j].history) = CANCELLED
          ELSE <<Last(stored[k].history), Last(after[j].history)>> \in VALID_ACC_TRANSITIONS
      BY <1>1, <1>2, <1>6, ReplacedTransitions
    <2>2. <<APPROVED, CANCELLED>> \notin VALID_ACC_TRANSITIONS
      BY DEF VALID_ACC_TRANSITIONS, CREATED, APPROVED, SUSPENDED, CANCELLED, REJECTED
    <2>3. raw[j].id \in ids
      BY <1>3, <1>6, <2>1, <2>2
    <2>4. \E i \in DOMAIN items : items[i].acc = raw[j].id /\ items[i].status = CANCELLED
      BY <1>2, <2>3 DEF CascadeCancelledIds
    <2> QED
      BY <1>3, <1>4, <2>4
  <1>7. stored \in Seq(StoredAccs)
    BY <1>1, ReplacedItems
  <1> SUFFICES ASSUME NEW j \in DOMAIN after
               PROVE  /\ Contract!UnderCancelled(after[j], regs) =>
                           Contract!StatusOf(after[j]) \notin {"approved", "suspended"}
                      /\ /\ Contract!Has(stored, after[j].id)
                         /\ Contract!Moved(Contract!ById(stored, after[j].id).history, after[j].history)
                         /\ Contract!StatusOf(Contract!ById(stored, after[j].id)) = "approved"
                         /\ Contract!StatusOf(after[j]) = "cancelled"
                         => Contract!UnderCancelled(after[j], regs)
    BY <1>1 DEF Contract!CancellationCascades
  <1>8. Contract!UnderCancelled(after[j], regs) =>
          Contract!StatusOf(after[j]) \notin {"approved", "suspended"}
    BY <1>5, ContractStatus DEF APPROVED, SUSPENDED
  <1>9. ASSUME Contract!Has(stored, after[j].id),
               Contract!Moved(Contract!ById(stored, after[j].id).history, after[j].history),
               Contract!StatusOf(Contract!ById(stored, after[j].id)) = "approved",
               Contract!StatusOf(after[j]) = "cancelled"
        PROVE  Contract!UnderCancelled(after[j], regs)
    <2>1. HasItem(stored, after[j].id) /\ Contract!ById(stored, after[j].id) = Find(stored, after[j].id)
      BY <1>9, ContractWords
    <2>2. PICK k \in DOMAIN stored :
            stored[k].id = after[j].id /\ Find(stored, after[j].id) = stored[k]
      BY <1>7, <2>1, Finding
    <2>3. Last(stored[k].history) = APPROVED /\ Last(after[j].history) = CANCELLED
      BY <1>9, <2>1, <2>2, ContractStatus DEF APPROVED, CANCELLED
    <2> QED
      BY <1>6, <1>9, <2>1, <2>2, <2>3
  <1> QED
    BY <1>8, <1>9

(* Where a registration moves no accreditation is moved but by the cascade.*)
LEMMA AccreditationsStay ==
  ASSUME NEW kind, NEW doc, NEW read, NEW update, NEW cascaded, NEW next,
         IsReplaced(kind, doc, read, update, cascaded, next),
         IsPlain(doc, update, cascaded, next), NEW from, NEW to, NEW statuses,
         statuses \cap ACTIVE_ACCREDITATION_STATUSES = {}
  PROVE  Contract!AccreditationsKept(doc, next, from, to, statuses)
  <1> SUFFICES ASSUME NEW j \in DOMAIN doc.accs, Last(doc.accs[j].history) \in statuses,
                      Contract!RegistrationMoves(doc, next, from, to, doc.accs[j])
               PROVE  Contract!ById(next.accs, doc.accs[j].id).history = doc.accs[j].history
    BY ContractStatus DEF Contract!AccreditationsKept
  <1>1. PICK regs, nextRegs, items, readRegs :
          regs = doc.regs /\ nextRegs = next.regs /\ items = update.regs /\ readRegs = read.regs
    OBVIOUS
  <1>2. PICK i \in DOMAIN nextRegs :
          /\ Contract!Has(regs, nextRegs[i].id)
          /\ Contract!Moved(Contract!ById(regs, nextRegs[i].id).history, nextRegs[i].history)
    BY <1>1 DEF Contract!RegistrationMoves
  <1>3. /\ regs \in Seq(StoredRegs) /\ UpdatedFrom(REGISTRATION_STATUS, regs, items)
        /\ ReadsItems(regs, readRegs) /\ Plainly(regs, items, nextRegs)
    BY <1>1, ReplacedItems DEF IsPlain
  <1>4. HasItem(regs, nextRegs[i].id) /\ Contract!ById(regs, nextRegs[i].id) = Find(regs, nextRegs[i].id)
    BY <1>2, ContractWords
  <1>5. PICK k \in DOMAIN regs :
          regs[k].id = nextRegs[i].id /\ Find(regs, nextRegs[i].id) = regs[k]
    BY <1>3, <1>4, Finding
  <1>6. /\ Contract!Moved(regs[k].history, nextRegs[i].history)
        /\ i \in DOMAIN items /\ regs[k].id = items[i].id
    BY <1>2, <1>3, <1>4, <1>5 DEF Plainly
  <1>7. items[i].status # readRegs[k].status /\ readRegs[k].id = items[i].id /\ k \in DOMAIN readRegs
    <2>1. items[i].status # Last(regs[k].history)
      BY ONLY <1>3, <1>5, <1>6, PlainMove
    <2> QED
      BY <1>3, <1>5, <1>6, <2>1 DEF ReadsItems
  <1>8. update.accs = read.accs
    <2>1. ~ SameStatuses(readRegs, items)
      BY <1>6, <1>7 DEF SameStatuses
    <2>2. Lawful(kind, read, update)
      BY DEF IsReplaced
    <2> QED
      BY <1>1, <2>1, <2>2 DEF Lawful
  <1>9. PICK accs, raw, after : accs = doc.accs /\ raw = update.accs /\ after = next.accs
    OBVIOUS
  <1>10. /\ accs \in Seq(StoredAccs) /\ UpdatedFrom(ACCREDITATION_STATUS, accs, cascaded)
         /\ ReadsItems(accs, raw) /\ Plainly(accs, cascaded, after)
         /\ after \in Seq(StoredAccs) /\ Distinct(after) /\ Distinct(raw)
         /\ IsCascaded(items, raw, cascaded)
    BY <1>1, <1>8, <1>9, ReplacedItems DEF IsPlain, IsReplaced
  <1>11. /\ j \in DOMAIN raw /\ j \in DOMAIN cascaded /\ j \in DOMAIN after /\ j \in DOMAIN accs
         /\ cascaded[j].id = accs[j].id /\ after[j].id = accs[j].id
         /\ raw[j].status = Last(accs[j].history)
    BY <1>9, <1>10 DEF ReadsItems, IsCascaded, Plainly
  <1>12. cascaded[j].status = Last(accs[j].history)
    <2>1. raw[j].id \notin CascadeCancelledIds(items, raw)
      BY <1>9, <1>10, <1>11, CascadedWereActive
    <2> QED
      BY <1>10, <1>11, <2>1 DEF IsCascaded
  <1>13. after[j].history = accs[j].history
    BY ONLY <1>10, <1>11, <1>12, PlainMove
  <1>14. HasItem(after, accs[j].id) /\ Find(after, accs[j].id) = after[j]
    BY <1>10, <1>11, Found
  <1> QED
    BY <1>9, <1>13, <1>14, ContractWords

LEMMA ReplacedLawfully ==
  ASSUME NEW kind, NEW doc, NEW read, NEW update, NEW cascaded, NEW next,
         IsReplaced(kind, doc, read, update, cascaded, next),
         IsPlain(doc, update, cascaded, next)
  PROVE  /\ Contract!OrganisationTransition(doc, next)
         /\ Contract!RegistrationTransitions(doc, next)
         /\ Contract!AccreditationTransitions(doc, next)
         /\ Contract!CancellationCascades(doc, next)
         /\ Contract!CreatedSurvivesCancellation(doc, next)
         /\ Contract!ReinstatedAlone(doc, next)
         /\ Contract!Consistent(next)
  <1>1. /\ {"created", "rejected"} \cap ACTIVE_ACCREDITATION_STATUSES = {}
        /\ {"cancelled"} \cap ACTIVE_ACCREDITATION_STATUSES = {}
    BY DEF ACTIVE_ACCREDITATION_STATUSES, APPROVED, SUSPENDED
  <1>2. Contract!CreatedSurvivesCancellation(doc, next)
    BY <1>1, AccreditationsStay DEF Contract!CreatedSurvivesCancellation
  <1>3. Contract!ReinstatedAlone(doc, next)
    BY <1>1, AccreditationsStay DEF Contract!ReinstatedAlone
  <1> QED
    BY <1>2, <1>3, OrganisationMoves, RegistrationsMove, AccreditationsMove,
       CancellationsCascade, ReplacedConsistently

-----------------------------------------------------------------------------
(* The versions callers hold, as the contract knows them.                  *)
Callers == [q \in Requests |-> IF req[q] = Idle THEN 0 ELSE req[q].version]

LEMMA TakesRead ==
  ASSUME Inv, NEW q \in Requests, NEW r, req[q] = Idle, req' = [req EXCEPT ![q] = r],
         docs' = docs, r # Idle, r.version = Doc.version
  PROVE  Contract!Reads(q)
  <1>1. req'[q] = r /\ \A p \in Requests \ {q} : req'[p] = req[p]
    BY DEF Inv, Typed
  <1>2. Callers[q] = 0 /\ Callers' = [Callers EXCEPT ![q] = Doc.version]
    <2>1. PICK was, now, v : was = Callers /\ now = Callers' /\ v = Doc.version
      OBVIOUS
    <2>2. /\ was = [p \in Requests |-> was[p]] /\ now = [p \in Requests |-> now[p]]
          /\ was[q] = 0 /\ now[q] = v /\ \A p \in Requests \ {q} : now[p] = was[p]
      BY <1>1, <2>1 DEF Callers
    <2> QED
      BY <2>1, <2>2
  <1>3. Doc' = Doc
    BY DEF Doc
  <1> QED
    BY <1>2, <1>3 DEF Contract!Reads, Callers

LEMMA GivesUp ==
  ASSUME Inv, NEW q \in Requests, req[q] # Idle, req' = [req EXCEPT ![q] = Idle]
  PROVE  Contract!Done(q) /\ Callers[q] = req[q].version /\ req[q].version # 0
  <1>1. req'[q] = Idle /\ \A p \in Requests \ {q} : req'[p] = req[p]
    BY DEF Inv, Typed
  <1>2. Callers' = [Callers EXCEPT ![q] = 0]
    <2>1. PICK was, now : was = Callers /\ now = Callers'
      OBVIOUS
    <2>2. /\ was = [p \in Requests |-> was[p]] /\ now = [p \in Requests |-> now[p]]
          /\ now[q] = 0 /\ \A p \in Requests \ {q} : now[p] = was[p]
      BY <1>1, <2>1 DEF Callers
    <2> QED
      BY <2>1, <2>2
  <1>3. req[q].version # 0
    <2>1. req[q].version \in 1..Doc.version /\ Doc.version \in Nat
      BY ReadOfDoc, BoundAssumption DEF Inv, Holds, StoredDocs
    <2> QED
      BY <2>1
  <1> QED
    BY <1>2, <1>3 DEF Contract!Done, Callers

LEMMA UpdateRead ==
  ASSUME Inv, NEW q \in Requests, NEW kind, kind # "idle", NEW own, NEW update, MayBegin(q),
         update.version = Read.version, Register(q, Pending(kind, own, update))
  PROVE  Contract!Reads(q)
  <1>1. PICK r : r = Pending(kind, own, update)
    OBVIOUS
  <1>2. /\ r.kind = kind /\ r.version = update.version
        /\ req' = [req EXCEPT ![q] = r] /\ docs' = docs
    BY <1>1 DEF Register, Pending
  <1>3. r # Idle
    BY <1>2 DEF Idle
  <1>4. Read.version = Doc.version
    BY ReadOfDoc DEF Inv, IsRead
  <1> QED
    BY <1>2, <1>3, <1>4, TakesRead DEF MayBegin

LEMMA DecisionReads ==
  ASSUME Inv, AllLawful, NEW q \in Requests,
         \/ \E i, to : RegistrationStatusHistory(q, i, to)
         \/ \E i, j, to : AccreditationStatusHistory(q, i, j, to)
         \/ \E i : PutRegistrationHistory(q, i)
         \/ \E j : PutAccreditationHistory(q, j)
  PROVE  Contract!Reads(q)
  <1>1. PICK read \in Updates : read = Read
    BY ReadOnce
  <1>2. ASSUME NEW i, NEW to, RegistrationStatusHistory(q, i, to)
        PROVE  Contract!Reads(q)
    <2>1. PICK own, item : own = {read.regs[i].id} /\ item = Decided(read.regs[i], to)
      OBVIOUS
    <2>2. PICK update : update = [read EXCEPT !.regs[i] = item]
      OBVIOUS
    <2>3. update.version = read.version
      BY <2>2 DEF Updates
    <2>4. MayBegin(q) /\ Register(q, Pending("registration", own, update))
      BY <1>1, <1>2, <2>1, <2>2 DEF RegistrationStatusHistory
    <2> QED
      BY <1>1, <2>3, <2>4, UpdateRead
  <1>3. ASSUME NEW i, NEW j, NEW to, AccreditationStatusHistory(q, i, j, to)
        PROVE  Contract!Reads(q)
    <2>1. PICK own, item : own = {read.accs[j].id} /\ item = Decided(read.accs[j], to)
      OBVIOUS
    <2>2. PICK update : update = [read EXCEPT !.accs[j] = item]
      OBVIOUS
    <2>3. update.version = read.version
      BY <2>2 DEF Updates
    <2>4. MayBegin(q) /\ Register(q, Pending("accreditation", own, update))
      BY <1>1, <1>3, <2>1, <2>2 DEF AccreditationStatusHistory
    <2> QED
      BY <1>1, <2>3, <2>4, UpdateRead
  <1>4. ASSUME NEW i, PutRegistrationHistory(q, i)
        PROVE  Contract!Reads(q)
    <2>1. PICK h : Register(q, Pending("correct", {read.regs[i].id},
                                       [read EXCEPT !.regs[i].history = h]))
      BY <1>1, <1>4 DEF PutRegistrationHistory
    <2>2. PICK own, item : own = {read.regs[i].id} /\ item = [read.regs[i] EXCEPT !.history = h]
      OBVIOUS
    <2>3. PICK update : update = [read EXCEPT !.regs[i] = item]
      OBVIOUS
    <2>4. update.version = read.version
      BY <2>3 DEF Updates
    <2>5. MayBegin(q) /\ Register(q, Pending("correct", own, update))
      BY <1>4, <2>1, <2>2, <2>3 DEF PutRegistrationHistory
    <2> QED
      BY <1>1, <2>4, <2>5, UpdateRead
  <1>5. ASSUME NEW j, PutAccreditationHistory(q, j)
        PROVE  Contract!Reads(q)
    <2>1. PICK h : Register(q, Pending("correct", {read.accs[j].id},
                                       [read EXCEPT !.accs[j].history = h]))
      BY <1>1, <1>5 DEF PutAccreditationHistory
    <2>2. PICK own, item : own = {read.accs[j].id} /\ item = [read.accs[j] EXCEPT !.history = h]
      OBVIOUS
    <2>3. PICK update : update = [read EXCEPT !.accs[j] = item]
      OBVIOUS
    <2>4. update.version = read.version
      BY <2>3 DEF Updates
    <2>5. MayBegin(q) /\ Register(q, Pending("correct", own, update))
      BY <1>5, <2>1, <2>2, <2>3 DEF PutAccreditationHistory
    <2> QED
      BY <1>1, <2>4, <2>5, UpdateRead
  <1> QED
    BY <1>2, <1>3, <1>4, <1>5

LEMMA EditReads ==
  ASSUME Inv, AllLawful, NEW q \in Requests,
         \/ \E to : PutOrganisationStatus(q, to)
         \/ \E i, a : PutLink(q, i, a)
         \/ \E ids, field : PutField(q, ids, field)
         \/ \E i : PutWithoutRegistration(q, i)
         \/ \E j : PutWithoutAccreditation(q, j)
  PROVE  Contract!Reads(q)
  <1>1. PICK read \in Updates : read = Read
    BY ReadOnce
  <1>2. ASSUME NEW to, PutOrganisationStatus(q, to)
        PROVE  Contract!Reads(q)
    <2>1. PICK own, update : own = {"status"} /\ update = [read EXCEPT !.status = to]
      OBVIOUS
    <2>2. update.version = read.version
      BY <2>1 DEF Updates
    <2>3. MayBegin(q) /\ Register(q, Pending("put", own, update))
      BY <1>1, <1>2, <2>1 DEF PutOrganisationStatus
    <2> QED
      BY <1>1, <2>2, <2>3, UpdateRead
  <1>3. ASSUME NEW i, NEW a, PutLink(q, i, a)
        PROVE  Contract!Reads(q)
    <2>1. PICK own, item : own = {read.regs[i].id} /\ item = [read.regs[i] EXCEPT !.acc = a]
      OBVIOUS
    <2>2. PICK update : update = [read EXCEPT !.regs[i] = item]
      OBVIOUS
    <2>3. update.version = read.version
      BY <2>2 DEF Updates
    <2>4. MayBegin(q) /\ Register(q, Pending("put", own, update))
      BY <1>1, <1>3, <2>1, <2>2 DEF PutLink
    <2> QED
      BY <1>1, <2>3, <2>4, UpdateRead
  <1>4. ASSUME NEW ids, NEW field, PutField(q, ids, field)
        PROVE  Contract!Reads(q)
    <2>1. PICK regs, accs :
            /\ regs = [i \in DOMAIN read.regs |-> EditedItem(read.regs[i], ids, field)]
            /\ accs = [j \in DOMAIN read.accs |-> EditedItem(read.accs[j], ids, field)]
      OBVIOUS
    <2>2. PICK update : update = Spread(read, [regs |-> regs, accs |-> accs])
      OBVIOUS
    <2>3. update.version = read.version
      BY <2>2 DEF Updates, Spread
    <2>4. MayBegin(q) /\ Register(q, Pending("put", ids, update))
      BY <1>1, <1>4, <2>1, <2>2 DEF PutField, EditedItem
    <2> QED
      BY <1>1, <2>3, <2>4, UpdateRead
  <1>5. ASSUME NEW i, PutWithoutRegistration(q, i)
        PROVE  Contract!Reads(q)
    <2>1. PICK own, items : own = {read.regs[i].id} /\ items = RemoveAt(read.regs, i)
      OBVIOUS
    <2>2. PICK update : update = [read EXCEPT !.regs = items]
      OBVIOUS
    <2>3. update.version = read.version
      BY <2>2 DEF Updates
    <2>4. MayBegin(q) /\ Register(q, Pending("put", own, update))
      BY <1>1, <1>5, <2>1, <2>2 DEF PutWithoutRegistration
    <2> QED
      BY <1>1, <2>3, <2>4, UpdateRead
  <1>6. ASSUME NEW j, PutWithoutAccreditation(q, j)
        PROVE  Contract!Reads(q)
    <2>1. PICK own, items : own = {read.accs[j].id} /\ items = RemoveAt(read.accs, j)
      OBVIOUS
    <2>2. PICK update : update = [read EXCEPT !.accs = items]
      OBVIOUS
    <2>3. update.version = read.version
      BY <2>2 DEF Updates
    <2>4. MayBegin(q) /\ Register(q, Pending("put", own, update))
      BY <1>1, <1>6, <2>1, <2>2 DEF PutWithoutAccreditation
    <2> QED
      BY <1>1, <2>3, <2>4, UpdateRead
  <1> QED
    BY <1>2, <1>3, <1>4, <1>5, <1>6

LEMMA OthersRead ==
  ASSUME Inv, AllLawful, NEW q \in Requests,
         \/ \E t : Link(q, t)
         \/ Unlink(q)
         \/ \E u : AddOrUpdateOrganisationUser(q, u)
         \/ \E i, sites : MapOverseasSites(q, i, sites)
         \/ MigrationBegins(q)
  PROVE  Contract!Reads(q)
  <1>1. PICK read \in Updates : read = Read
    BY ReadOnce
  <1>2. ASSUME NEW t, Link(q, t)
        PROVE  Contract!Reads(q)
    <2>1. PICK own, update :
            own = {"status", "link"} /\ update = Spread(read, [status |-> ACTIVE, link |-> t])
      OBVIOUS
    <2>2. update.version = read.version
      BY <2>1 DEF Updates, Spread
    <2>3. MayBegin(q) /\ Register(q, Pending("link", own, update))
      BY <1>1, <1>2, <2>1 DEF Link
    <2> QED
      BY <1>1, <2>2, <2>3, UpdateRead
  <1>3. ASSUME Unlink(q)
        PROVE  Contract!Reads(q)
    <2>1. PICK own, update : own = {"link"} /\ update = [read EXCEPT !.link = NotLinked]
      OBVIOUS
    <2>2. update.version = read.version
      BY <2>1 DEF Updates
    <2>3. MayBegin(q) /\ Register(q, Pending("unlink", own, update))
      BY <1>1, <1>3, <2>1 DEF Unlink
    <2> QED
      BY <1>1, <2>2, <2>3, UpdateRead
  <1>4. ASSUME NEW u, AddOrUpdateOrganisationUser(q, u)
        PROVE  Contract!Reads(q)
    <2>1. PICK users : users = read.users \cup {[who |-> u, initial |-> FALSE]}
      OBVIOUS
    <2>2. PICK update : update = [read EXCEPT !.users = users]
      OBVIOUS
    <2>3. update.version = read.version
      BY <2>2 DEF Updates
    <2>4. MayBegin(q) /\ Register(q, Pending("user", {"users"}, update))
      BY <1>1, <1>4, <2>1, <2>2 DEF AddOrUpdateOrganisationUser
    <2> QED
      BY <1>1, <2>3, <2>4, UpdateRead
  <1>5. ASSUME NEW i, NEW sites, MapOverseasSites(q, i, sites)
        PROVE  Contract!Reads(q)
    <2>1. PICK r : r = [kind |-> "sites", version |-> Doc.version, own |-> {Doc.regs[i].id},
                        sites |-> sites]
      OBVIOUS
    <2>2. /\ r.kind = "sites" /\ r.version = Doc.version /\ docs' = docs
          /\ req' = [req EXCEPT ![q] = r] /\ req[q] = Idle
      BY <1>5, <2>1 DEF Register, MapOverseasSites, MayBegin
    <2>3. r # Idle
      BY <2>2 DEF Idle
    <2> QED
      BY <2>2, <2>3, TakesRead
  <1>6. ASSUME MigrationBegins(q)
        PROVE  Contract!Reads(q)
    <2>1. PICK update, submissions :
            /\ update = TransformAndLinkAllNewSubmissions(submissions)
            /\ Register(q, Pending("migration", {"forms"}, update))
      BY <1>6 DEF MigrationBegins
    <2>2. PICK regs, accs : update = Spread(read, [regs |-> regs, accs |-> accs])
      BY <1>1, <2>1 DEF TransformAndLinkAllNewSubmissions
    <2>3. update.version = read.version
      BY <2>2 DEF Updates, Spread
    <2> QED
      BY <1>1, <1>6, <2>1, <2>3, UpdateRead DEF MigrationBegins
  <1> QED
    BY <1>2, <1>3, <1>4, <1>5, <1>6

LEMMA BeginReads ==
  ASSUME Inv, AllLawful, NEW q \in Requests, Begin(q)
  PROVE  Contract!Reads(q)
  BY DecisionReads, EditReads, OthersRead DEF Begin

-----------------------------------------------------------------------------
(* A write, accepted or refused, is one of the contract's, and outdates    *)
(* what the others have read.                                              *)
LEMMA OutdatesOthers ==
  ASSUME Inv, AllLawful, NEW q \in Requests, req' = [req EXCEPT ![q] = Idle],
         UNCHANGED docs \/ (Doc'.version = Doc.version + 1 /\ OneEach(Doc'.users))
  PROVE  AllLawful'
  <1>1. req'[q] = Idle /\ \A p \in Requests \ {q} : req'[p] = req[p]
    BY DEF Inv, Typed
  <1>2. CASE UNCHANGED docs
    <2>1. Doc' = Doc /\ Read' = Read
      BY <1>2 DEF Doc, Read
    <2> QED
      BY <1>1, <2>1 DEF AllLawful
  <1>3. CASE Doc'.version = Doc.version + 1 /\ OneEach(Doc'.users)
    <2>1. Doc.version \in Nat
      BY ReadOfDoc, BoundAssumption DEF Inv, StoredDocs
    <2>2. \A p \in Requests \ {q} : req[p] # Idle => req[p].version \in 1..Doc.version
      BY DEF Inv, Holds
    <2>3. \A p \in Requests : req'[p] # Idle => req'[p].version # Doc'.version
      BY <1>1, <1>3, <2>1, <2>2
    <2> QED
      BY <1>3, <2>3 DEF AllLawful
  <1> QED
    BY <1>2, <1>3

LEMMA Refused ==
  ASSUME Inv, NEW q \in Requests, req[q] # Idle, req' = [req EXCEPT ![q] = Idle], docs' = docs
  PROVE  Contract!Refuses(q)
  <1>1. Contract!Done(q) /\ Callers[q] # 0
    BY GivesUp
  <1>2. Doc' = Doc
    BY DEF Doc
  <1> QED
    BY <1>1, <1>2 DEF Contract!Refuses, Callers

LEMMA ReplaceHonours ==
  ASSUME Inv, AllLawful, "staleExisting" \notin Disturbances, NEW q \in Requests, Replace(q)
  PROVE  (Contract!Replaces(q) \/ Contract!Refuses(q)) /\ AllLawful'
  <1>1. req' = [req EXCEPT ![q] = Idle]
    BY DEF Replace
  <1>2. /\ req[q].kind \notin {"idle", "sites"}
        /\ IF ReplaceAccepted(q, Doc)
           THEN Store(PrepareForReplace(Read, req[q].update))
           ELSE UNCHANGED <<docs, corrected>>
    BY DEF Replace, View, Read
  <1>3. req[q] # Idle /\ req[q].kind \in Replacing
    BY <1>2 DEF Idle, Inv, Holds
  <1>4. CASE ~ ReplaceAccepted(q, Doc)
    BY <1>1, <1>2, <1>3, <1>4, Refused, OutdatesOthers
  <1>5. CASE ReplaceAccepted(q, Doc)
    <2>1. PICK next, doc, read, kind, update :
            /\ next = PrepareForReplace(Read, req[q].update) /\ doc = Doc /\ read = Read
            /\ kind = req[q].kind /\ update = req[q].update
      OBVIOUS
    <2>2. req[q].version = Doc.version /\ UpdateAcceptable(Read, req[q].update)
      BY <1>5 DEF ReplaceAccepted, Read
    <2>3. PICK cascaded : IsReplaced(kind, doc, read, update, cascaded, next)
      BY <1>3, <2>1, <2>2, Replacement
    <2>4. Doc' = next
      <3>1. next \in StoredDocs /\ Store(next)
        BY <1>2, <1>5, <2>1, <2>3 DEF IsReplaced
      <3> QED
        BY <3>1, Storing DEF Inv
    <2>5. /\ Contract!ItemHistories(doc.regs, next.regs)
          /\ Contract!ItemHistories(doc.accs, next.accs)
          /\ Contract!OrganisationHistory(doc.history, next.history)
      BY <2>3, ReplacedHistories, ReplacedStatus
    <2>6. /\ Contract!LinksAreUnique(next) /\ Contract!LinksExist(next)
          /\ Contract!LinksMatch(next)
          /\ Contract!RegistrationDatesAreDates(next)
          /\ Contract!AccreditationDatesAreDates(next)
      BY <2>3, ReplacedLinks
    <2>7. /\ Contract!SubmitterIsListed(next) /\ Contract!UsersAreKept(doc, next)
          /\ Contract!RegistrationContactsAreListed(next)
          /\ Contract!AccreditationContactsAreListed(next)
          /\ OneEach(next.users)
      BY <2>3, ReplacedUsers
    <2>8. \/ Contract!Corrects(doc.regs, next.regs) \/ Contract!Corrects(doc.accs, next.accs)
          \/ /\ Contract!OrganisationTransition(doc, next)
             /\ Contract!RegistrationTransitions(doc, next)
             /\ Contract!AccreditationTransitions(doc, next)
             /\ Contract!CancellationCascades(doc, next)
             /\ Contract!CreatedSurvivesCancellation(doc, next)
             /\ Contract!ReinstatedAlone(doc, next)
             /\ Contract!Consistent(next)
      <3>1. \/ Contract!Corrects(doc.regs, next.regs) \/ Contract!Corrects(doc.accs, next.accs)
            \/ IsPlain(doc, update, cascaded, next)
        BY <2>3, ReplacedPlainly DEF IsPlain
      <3> QED
        BY <2>3, <3>1, ReplacedLawfully
    <2>9. next.version = doc.version + 1
      BY <2>3 DEF IsReplaced
    <2>10. Contract!Done(q) /\ Callers[q] = req[q].version
      BY <1>1, <1>3, GivesUp
    <2>11. Contract!VersionMatches(q)
      BY <2>2, <2>10 DEF Contract!VersionMatches, Callers
    <2>12. Contract!Replaces(q)
      BY <2>1, <2>4, <2>5, <2>6, <2>7, <2>8, <2>9, <2>10, <2>11 DEF Contract!Replaces
    <2>13. AllLawful'
      BY <1>1, <2>1, <2>4, <2>7, <2>9, OutdatesOthers
    <2> QED
      BY <2>12, <2>13
  <1> QED
    BY <1>4, <1>5

(* Sites and version aside a document is what it was.                      *)
SameAside(doc, after) ==
  [after EXCEPT !.version = doc.version, !.regs = Contract!WithoutSites(@)]
    = [doc EXCEPT !.regs = Contract!WithoutSites(@)]

LEMMA SitesAside ==
  ASSUME NEW doc \in StoredDocs, NEW after \in StoredDocs, NEW ids, NEW sites \in SUBSET Sites,
         after.history = doc.history, after.link = doc.link, after.users = doc.users,
         after.accs = doc.accs, after.regs = WithSites(doc.regs, ids, sites)
  PROVE  SameAside(doc, after)
  <1>1. PICK regs, now : regs = doc.regs /\ now = after.regs
    OBVIOUS
  <1>2. PICK bare, bareNow :
          bare = Contract!WithoutSites(regs) /\ bareNow = Contract!WithoutSites(now)
    OBVIOUS
  <1>3. /\ now = [i \in DOMAIN regs |-> IF regs[i].id \in ids THEN [regs[i] EXCEPT !.sites = sites]
                                        ELSE regs[i]]
    BY <1>1 DEF WithSites
  <1>4. /\ bare = [i \in DOMAIN regs |-> [regs[i] EXCEPT !.sites = {}]]
        /\ bareNow = [i \in DOMAIN now |-> [now[i] EXCEPT !.sites = {}]]
    BY <1>2 DEF Contract!WithoutSites
  <1>5. ASSUME NEW i \in DOMAIN regs PROVE bareNow[i] = bare[i]
    <2>1. PICK reg \in StoredRegs : reg = regs[i]
      BY <1>1 DEF StoredDocs
    <2>2. now[i] \in {reg, [reg EXCEPT !.sites = sites]} /\ i \in DOMAIN now
      BY <1>3, <2>1
    <2>3. [[reg EXCEPT !.sites = sites] EXCEPT !.sites = {}] = [reg EXCEPT !.sites = {}]
      BY DEF StoredRegs
    <2> QED
      BY <1>4, <2>1, <2>2, <2>3
  <1>6. bareNow = bare
    BY <1>3, <1>4, <1>5
  <1>7. PICK history, link, accs, users, v, w :
          /\ history = doc.history /\ link = doc.link /\ accs = doc.accs /\ users = doc.users
          /\ v = doc.version /\ w = after.version
    OBVIOUS
  <1>8. /\ doc = [version |-> v, history |-> history, link |-> link, regs |-> regs,
                  accs |-> accs, users |-> users]
        /\ after = [version |-> w, history |-> history, link |-> link, regs |-> now,
                    accs |-> accs, users |-> users]
    BY <1>1, <1>7 DEF StoredDocs
  <1>9. PICK one, other :
          /\ one = [version |-> v, history |-> history, link |-> link, regs |-> regs,
                    accs |-> accs, users |-> users]
          /\ other = [version |-> w, history |-> history, link |-> link, regs |-> now,
                      accs |-> accs, users |-> users]
    OBVIOUS
  <1>10. [other EXCEPT !.version = v, !.regs = bareNow] = [one EXCEPT !.regs = bare]
    <2>1. PICK x, y :
            x = [other EXCEPT !.version = v, !.regs = bare] /\ y = [one EXCEPT !.regs = bare]
      OBVIOUS
    <2>2. /\ x = [f \in DOMAIN other |-> x[f]] /\ y = [f \in DOMAIN one |-> y[f]]
          /\ DOMAIN other = {"version", "history", "link", "regs", "accs", "users"}
          /\ DOMAIN one = {"version", "history", "link", "regs", "accs", "users"}
      BY <1>9, <2>1
    <2>3. /\ x["version"] = y["version"] /\ x["history"] = y["history"]
          /\ x["link"] = y["link"] /\ x["regs"] = y["regs"]
          /\ x["accs"] = y["accs"] /\ x["users"] = y["users"]
      BY <1>9, <2>1
    <2> QED
      BY <1>6, <2>1, <2>2, <2>3
  <1>11. [after EXCEPT !.version = v, !.regs = bareNow] = [doc EXCEPT !.regs = bare]
    BY <1>8, <1>9, <1>10
  <1>12. /\ [after EXCEPT !.version = v, !.regs = Contract!WithoutSites(@)]
              = [after EXCEPT !.version = v, !.regs = bareNow]
         /\ [doc EXCEPT !.regs = Contract!WithoutSites(@)] = [doc EXCEPT !.regs = bare]
    BY <1>1, <1>2
  <1> QED
    BY <1>7, <1>11, <1>12 DEF SameAside

LEMMA SitesHonour ==
  ASSUME Inv, AllLawful, NEW q \in Requests, ReplaceRegistrationOverseasSites(q)
  PROVE  (Contract!ReplacesSites(q) \/ Contract!Refuses(q)) /\ AllLawful'
  <1>1. req' = [req EXCEPT ![q] = Idle] /\ req[q].kind = "sites"
    BY DEF ReplaceRegistrationOverseasSites
  <1>2. req[q] # Idle
    BY <1>1 DEF Idle
  <1>3. CASE req[q].version # Doc.version
    <2>1. docs' = docs
      BY <1>3 DEF ReplaceRegistrationOverseasSites
    <2> QED
      BY <1>1, <1>2, <2>1, Refused, OutdatesOthers
  <1>4. CASE req[q].version = Doc.version
    <2>1. PICK doc, own, sites : doc = Doc /\ own = req[q].own /\ sites = req[q].sites
      OBVIOUS
    <2>2. PICK regs : regs = WithSites(doc.regs, own, sites)
      OBVIOUS
    <2>3. PICK d : d = Spread(doc, [version |-> doc.version + 1, regs |-> regs])
      OBVIOUS
    <2>4. Store(d)
      BY <1>4, <2>1, <2>2, <2>3 DEF ReplaceRegistrationOverseasSites
    <2>5. doc \in StoredDocs /\ OneEach(doc.users)
      BY <2>1, ReadOfDoc DEF Inv, AllLawful
    <2>6. sites \in SUBSET Sites /\ doc.version < MaxVersion
      BY <1>1, <1>2, <1>4, <2>1 DEF Inv, Holds
    <2>7. regs \in Seq(StoredRegs)
      BY <2>2, <2>5, <2>6, SitesReplaced DEF StoredDocs
    <2>8. doc.version + 1 \in 1..MaxVersion
      BY <2>5, <2>6, BoundAssumption DEF StoredDocs
    <2>9. /\ d \in StoredDocs /\ d.history = doc.history /\ d.link = doc.link
          /\ d.users = doc.users /\ d.accs = doc.accs /\ d.regs = regs
          /\ d.version = doc.version + 1
      BY <2>3, <2>5, <2>7, <2>8 DEF StoredDocs, Spread
    <2>10. Doc' = d
      BY <2>4, <2>9, Storing DEF Inv
    <2>11. SameAside(doc, d)
      BY <2>2, <2>5, <2>6, <2>9, SitesAside
    <2>12. Contract!Done(q) /\ Callers[q] = req[q].version
      BY <1>1, <1>2, GivesUp
    <2>13. Contract!VersionMatches(q)
      BY <1>4, <2>12 DEF Contract!VersionMatches, Callers
    <2>14. Contract!ReplacesSites(q)
      BY <2>1, <2>9, <2>10, <2>11, <2>12, <2>13 DEF Contract!ReplacesSites, SameAside
    <2>15. AllLawful'
      BY <1>1, <2>1, <2>5, <2>9, <2>10, OutdatesOthers
    <2> QED
      BY <2>14, <2>15
  <1> QED
    BY <1>3, <1>4

LEMMA FirstIsHonoured ==
  ASSUME Init PROVE Contract!Init /\ AllLawful
  <1>1. Inv /\ req = [q \in Requests |-> Idle] /\ corrected = FALSE
    BY InitHolds DEF Init
  <1>2. PICK doc, read : doc = Doc /\ read = Read
    OBVIOUS
  <1>3. doc \in StoredDocs /\ IsRead(doc, read) /\ Coherent(read)
    BY <1>1, <1>2, ReadOfDoc DEF Inv
  <1>4. Contract!Consistent(doc)
    BY <1>3, CoherentIsConsistent
  <1>5. Callers = [q \in Requests |-> 0]
    BY <1>1 DEF Callers
  <1>6. OneEach(doc.users)
    <2>1. PICK a \in Accs, r \in Regs : docs \in { <<Established(r, a)>>, <<Inserted(r, a)>>,
                                                   <<Completed(r, a)>> }
      BY DEF Init
    <2>2. \A who, status : GetUserRolesForStatus(who, status).who = who
      BY DEF GetUserRolesForStatus
    <2>3. CASE doc = Established(r, a)
      <3>1. PICK users :
              users = {GetUserRolesForStatus(u, APPROVED) : u \in {Submitter, Contact[r], Contact[a]}}
        OBVIOUS
      <3>2. doc.users = users
        BY <2>3, <3>1 DEF Established, Document
      <3>3. \A user \in users : \E who : user = GetUserRolesForStatus(who, APPROVED)
        BY <3>1
      <3> QED
        BY <2>2, <3>2, <3>3 DEF OneEach
    <2>4. CASE doc = Inserted(r, a)
      <3>1. doc.users = {}
        BY <2>4 DEF Inserted, Document
      <3> QED
        BY <3>1 DEF OneEach
    <2>5. CASE doc = Completed(r, a)
      <3>1. doc.users = {GetUserRolesForStatus(Submitter, CREATED)}
        BY <2>5 DEF Completed, Document
      <3> QED
        BY <3>1 DEF OneEach
    <2> QED
      BY <1>2, <2>1, <2>3, <2>4, <2>5 DEF Doc
  <1>7. AllLawful
    BY <1>1, <1>2, <1>6 DEF AllLawful
  <1>8. Contract!Init
    BY <1>2, <1>4, <1>5 DEF Contract!Init, Callers
  <1> QED
    BY <1>7, <1>8

LEMMA StepHonours ==
  ASSUME Inv, AllLawful, ReadsAreCurrent, [Next]_vars
  PROVE  [Contract!Next]_(Contract!vars) /\ AllLawful'
  <1>1. CASE UNCHANGED vars
    <2>1. docs' = docs /\ req' = req
      BY <1>1 DEF vars
    <2>2. Doc' = Doc /\ Read' = Read /\ Callers' = Callers
      BY <2>1 DEF Doc, Read, Callers
    <2>3. AllLawful'
      BY <2>1, <2>2 DEF AllLawful
    <2> QED
      BY <2>2, <2>3 DEF Contract!vars, Callers
  <1>2. CASE Next
    <2>1. PICK q \in Requests : Begin(q) \/ Replace(q) \/ ReplaceRegistrationOverseasSites(q)
      BY <1>2 DEF Next
    <2>2. "staleExisting" \notin Disturbances /\ "staleIds" \notin Disturbances
      BY DEF ReadsAreCurrent
    <2>3. CASE Begin(q)
      BY <2>2, <2>3, BeginReads, BeginLawful DEF Contract!Next
    <2>4. CASE Replace(q)
      BY <2>2, <2>4, ReplaceHonours DEF Contract!Next
    <2>5. CASE ReplaceRegistrationOverseasSites(q)
      BY <2>5, SitesHonour DEF Contract!Next
    <2> QED
      BY <2>1, <2>3, <2>4, <2>5
  <1> QED
    BY <1>1, <1>2

(* The register implements the contract of its repository's tests, for all *)
(* constants: every read, replace and refusal of a caller is one the       *)
(* contract allows, whatever a caller changed in its copy.  A replace that *)
(* is accepted moves statuses along their tables, cancels with its         *)
(* registration what was in force and nothing else, keeps every user who   *)
(* is listed and leaves a document that agrees with itself, unless it is   *)
(* the correction of a history, which is stored entry for entry.           *)
THEOREM RegisterHonoursContract ==
  ASSUME ReadsAreCurrent
  PROVE  Spec => HonoursContract
  <1>1. ASSUME Init PROVE Contract!Init /\ AllLawful
    BY <1>1, FirstIsHonoured
  <1>2. ASSUME Inv, AllLawful, [Next]_vars PROVE [Contract!Next]_(Contract!vars) /\ AllLawful'
    BY <1>2, StepHonours
  <1>3. Spec => []Inv
    BY InvHolds
  <1> QED
    BY <1>1, <1>2, <1>3, PTL DEF Spec, HonoursContract, Contract!Spec

=============================================================================
