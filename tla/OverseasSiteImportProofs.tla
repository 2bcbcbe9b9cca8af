---------------------- MODULE OverseasSiteImportProofs ----------------------
(***************************************************************************)
(* Theorems about OverseasSiteImport, for any imports, files, sites,       *)
(* executions, deliveries and disturbances.                                *)
(*                                                                         *)
(* A registration maps one file: while the sites of a file are looked up,  *)
(* those found and those left are together the file's, and a record, once  *)
(* created, never changes; so what is found when none is left, and         *)
(* replaces the registration's sites, is what the file lists, however      *)
(* other executions create records meanwhile.                              *)
(*                                                                         *)
(* The status of an import tells what was applied: as long as nothing was  *)
(* delivered while an execution ran, an import that is open has one        *)
(* execution that is waited for, whose results are those of the document,  *)
(* and one that is completed or failed has none, and no command to come.   *)
(***************************************************************************)
EXTENDS OverseasSiteImport, TLAPS

FileResult == {"none", SUCCESS, FAILURE}

ListedFile == [file : Files, result : FileResult]

Status == {"none", "expired", PREPROCESSING, PROCESSING, COMPLETED, FAILED}

ImportDocument == [status : Status, files : Seq(ListedFile)]

RunRecord ==
  [pc : {"read", "start", "fetch", "resolve", "find", "create",
         "delete", "record", "finish"},
   message : Message, live : BOOLEAN, files : Seq(Files),
   results : Seq(FileResult), result : FileResult,
   version : Nat, todo : SUBSET Sites, site : Sites \cup {NoSite},
   map : SUBSET Ids]

Types ==
  /\ imports \in [Imports -> ImportDocument]
  /\ queue \subseteq Message
  /\ run \in [Executions -> {Idle} \cup RunRecord]
  /\ records \in [Ids -> Sites \cup {NoSite}]
  /\ registration \in [version : Nat, map : SUBSET Ids]

(* The records of map, with the sites still to be found, are those of f.   *)
Lists(f, map, todo) ==
  /\ \A n \in map : records[n] \in Content[f]
  /\ todo \subseteq Content[f]
  /\ \A s \in Content[f] : s \in todo \/ \E n \in map : records[n] = s

(* While a file is worked on there is a file to work on; while its sites   *)
(* are looked up, those found and those left are the sites of one file.    *)
Holds(x) ==
  /\ x.pc \in {"read", "start"} => x.results = <<>>
  /\ x.pc \in {"fetch", "resolve", "find", "create", "delete", "record"} =>
       Len(x.results) < Len(x.files)
  /\ x.pc \in {"find", "create"} => \E f \in Files : Lists(f, x.map, x.todo)
  /\ x.pc = "create" => x.site \in x.todo

RegistrationHolds ==
  registration.map = {} \/ \E f \in Files : Lists(f, registration.map, {})

Inv ==
  /\ Types
  /\ \A e \in Executions : Holds(run[e])
  /\ RegistrationHolds

-----------------------------------------------------------------------------
(* Steps that leave the executions alone, or only move one of them.        *)

LEMMA IdleHolds == Idle.pc = "idle" /\ Holds(Idle)
  BY DEF Idle, Holds

LEMMA NoRunIsIdle == ASSUME NEW x \in RunRecord PROVE x # Idle /\ x.pc # "idle"
  BY DEF RunRecord, Idle

(* What an execution holds depends on the records alone.                   *)
LEMMA Moved ==
  ASSUME Inv, NEW e \in Executions, NEW x \in {Idle} \cup RunRecord, Holds(x), Become(e, x),
         imports' \in [Imports -> ImportDocument],
         queue' \subseteq Message,
         UNCHANGED <<records, registration>>
  PROVE  Inv'
  <1>1. run' = [run EXCEPT ![e] = x] /\ run \in [Executions -> {Idle} \cup RunRecord]
    BY DEF Become, Inv, Types
  <1>2. Types'
    BY <1>1 DEF Inv, Types
  <1>3. ASSUME NEW d \in Executions PROVE Holds(run[d])'
    <2>1. Holds(run'[d])
      BY <1>1 DEF Inv
    <2> QED
      BY <2>1 DEF Holds, Lists
  <1>4. RegistrationHolds'
    BY DEF Inv, RegistrationHolds, Lists
  <1> QED
    BY <1>2, <1>3, <1>4 DEF Inv

LEMMA Unmoved ==
  ASSUME Inv, imports' \in [Imports -> ImportDocument],
         queue' \subseteq Message,
         UNCHANGED <<run, records, registration>>
  PROVE  Inv'
  <1>1. Types'
    BY DEF Inv, Types
  <1> QED
    BY <1>1 DEF Inv, Holds, Lists, RegistrationHolds

(* A status or a result is written, and the files stay.                    *)
LEMMA StatusTyped ==
  ASSUME Inv, NEW i \in Imports, NEW status \in Status, UpdateStatus(i, status)
  PROVE  imports' \in [Imports -> ImportDocument]
  <1>1. imports \in [Imports -> ImportDocument]
    BY DEF Inv, Types
  <1> DEFINE doc == [imports[i] EXCEPT !.status = status]
  <1>2. doc \in ImportDocument
    <2>1. imports[i] \in ImportDocument
      BY <1>1
    <2> QED
      BY <2>1 DEF ImportDocument
  <1>3. imports' = imports \/ imports' = [imports EXCEPT ![i] = doc]
    BY DEF UpdateStatus
  <1> HIDE DEF doc
  <1> QED
    BY <1>1, <1>2, <1>3

LEMMA ResultTyped ==
  ASSUME Inv, NEW i \in Imports, NEW index \in Nat, NEW result \in FileResult,
         RecordFileResult(i, index, result)
  PROVE  imports' \in [Imports -> ImportDocument]
  <1>1. imports[i] \in ImportDocument /\ imports \in [Imports -> ImportDocument]
    BY DEF Inv, Types
  <1> DEFINE old   == imports[i].files
             file  == [old[index] EXCEPT !.result = result]
             files == [old EXCEPT ![index] = file]
             doc   == [imports[i] EXCEPT !.files = files]
  <1>2. files \in Seq(ListedFile)
    <2>1. old \in Seq(ListedFile)
      BY <1>1 DEF ImportDocument
    <2> HIDE DEF old
    <2>2. CASE index \in 1..Len(old)
      <3>1. old[index] \in ListedFile
        BY <2>1, <2>2
      <3>2. file \in ListedFile
        BY <3>1 DEF ListedFile
      <3> HIDE DEF file
      <3> QED
        BY <2>1, <2>2, <3>2
    <2>3. CASE index \notin 1..Len(old)
      <3> HIDE DEF file
      <3>1. files = old
        BY <2>1, <2>3
      <3> QED
        BY <2>1, <3>1
    <2> QED
      BY <2>2, <2>3
  <1>3. imports' = imports \/ imports' = [imports EXCEPT ![i] = doc]
    BY DEF RecordFileResult
  <1> HIDE DEF files
  <1>4. doc \in ImportDocument
    BY <1>1, <1>2 DEF ImportDocument
  <1> HIDE DEF doc
  <1> QED
    BY <1>1, <1>3, <1>4

-----------------------------------------------------------------------------
(* The steps of an execution.                                              *)

LEMMA RunTyped ==
  ASSUME Inv, NEW e \in Executions, run[e].pc # "idle"
  PROVE  /\ run[e] \in RunRecord
         /\ Holds(run[e])
         /\ run[e].message.import \in Imports
  <1>1. run[e] \in RunRecord /\ Holds(run[e])
    BY IdleHolds DEF Inv, Types
  <1> QED
    BY <1>1 DEF RunRecord, Message

(* An execution moves on, and nothing else changes that the proof is about. *)
LEMMA Stepped ==
  ASSUME Inv, NEW e \in Executions, NEW x \in {Idle} \cup RunRecord, Holds(x), Become(e, x),
         UNCHANGED <<imports, queue, records, registration>>
  PROVE  Inv'
  <1>1. imports' \in [Imports -> ImportDocument] /\ queue' \subseteq Message
    BY DEF Inv, Types
  <1> QED
    BY <1>1, Moved

LEMMA StartKeeps ==
  ASSUME Inv, NEW e \in Executions, NEW m \in queue, Start(e, m),
         UNCHANGED <<imports, records, registration>>
  PROVE  Inv'
  <1> DEFINE received == [m EXCEPT !.receives = @ + 1]
             x == [pc |-> "read", message |-> received, live |-> TRUE,
                   files |-> <<>>, results |-> <<>>, result |-> "none",
                   version |-> 0, todo |-> {}, site |-> NoSite, map |-> {}]
  <1>1. received \in Message
    BY BoundAssumption DEF Inv, Types, Message, Start, MayBeReceived
  <1>2. queue' = (queue \ {m}) \cup {received} /\ Become(e, x)
    BY DEF Start
  <1>3. queue' \subseteq Message /\ imports' \in [Imports -> ImportDocument]
    BY <1>1, <1>2 DEF Inv, Types
  <1> HIDE DEF received
  <1>4. x \in RunRecord /\ Holds(x)
    BY <1>1 DEF RunRecord, Holds, FileResult
  <1> HIDE DEF x
  <1> QED
    BY <1>2, <1>3, <1>4, Moved

LEMMA Acknowledged ==
  ASSUME Inv, NEW x, Acknowledge(x) PROVE queue' \subseteq Message
  BY DEF Inv, Types, Acknowledge

LEMMA ReadImportKeeps ==
  ASSUME Inv, NEW e \in Executions, ReadImport(e) PROVE Inv'
  <1>1. run[e].pc = "read" /\ run[e] \in RunRecord /\ Holds(run[e])
        /\ run[e].message.import \in Imports
    BY RunTyped DEF ReadImport
  <1> DEFINE doc   == imports[run[e].message.import]
             files == [k \in DOMAIN doc.files |-> doc.files[k].file]
             x     == [run[e] EXCEPT !.pc = "start", !.files = files]
  <1>2. UNCHANGED <<imports, records, registration>>
    BY DEF ReadImport
  <1>3. CASE Become(e, x) /\ UNCHANGED queue
    <2>1. doc \in ImportDocument
      BY <1>1 DEF Inv, Types
    <2>2. doc.files \in Seq(ListedFile)
      BY <2>1 DEF ImportDocument
    <2>3. files \in Seq(Files)
      <3> DEFINE listed == doc.files
      <3>1. listed \in Seq(ListedFile)
        BY <2>2
      <3> HIDE DEF listed
      <3>2. \A k \in 1..Len(listed) : listed[k] \in ListedFile
        BY <3>1
      <3>3. \A k \in 1..Len(listed) : listed[k].file \in Files
        BY <3>2 DEF ListedFile
      <3>4. [k \in DOMAIN listed |-> listed[k].file] \in Seq(Files)
        BY <3>1, <3>3
      <3> QED
        BY <3>4 DEF listed
    <2> HIDE DEF doc, files
    <2>4. x \in RunRecord /\ Holds(x)
      BY <1>1, <2>3 DEF RunRecord, Holds
    <2> HIDE DEF x
    <2> QED
      BY <1>2, <1>3, <2>4, Stepped
  <1>4. CASE Acknowledge(run[e]) /\ Become(e, Idle)
    <2>1. queue' \subseteq Message /\ imports' \in [Imports -> ImportDocument]
      BY <1>2, <1>4, Acknowledged DEF Inv, Types
    <2> QED
      BY <1>2, <1>4, <2>1, IdleHolds, Moved
  <1> QED
    BY <1>3, <1>4 DEF ReadImport

LEMMA StartProcessingKeeps ==
  ASSUME Inv, NEW e \in Executions, StartProcessing(e) PROVE Inv'
  <1>1. run[e].pc = "start" /\ run[e] \in RunRecord /\ Holds(run[e])
        /\ run[e].message.import \in Imports
    BY RunTyped DEF StartProcessing
  <1> DEFINE x == [run[e] EXCEPT !.pc = IF run[e].files = <<>> THEN "finish" ELSE "fetch"]
  <1>2. imports' \in [Imports -> ImportDocument]
    BY <1>1, StatusTyped DEF StartProcessing, Status
  <1>3. x \in RunRecord
    BY <1>1 DEF RunRecord
  <1>4. Holds(x)
    BY <1>1 DEF RunRecord, Holds
  <1>5. Become(e, x) /\ UNCHANGED <<queue, records, registration>>
    BY DEF StartProcessing
  <1>6. queue' \subseteq Message
    BY <1>5 DEF Inv, Types
  <1> HIDE DEF x
  <1> QED
    BY <1>2, <1>3, <1>4, <1>5, <1>6, Moved

LEMMA FetchFileKeeps ==
  ASSUME Inv, NEW e \in Executions, FetchFile(e) PROVE Inv'
  <1>1. run[e].pc = "fetch" /\ run[e] \in RunRecord /\ Holds(run[e])
    BY RunTyped DEF FetchFile
  <1>2. PICK x \in {[run[e] EXCEPT !.pc = "record", !.result = FAILURE],
                    [run[e] EXCEPT !.pc = "delete", !.result = FAILURE],
                    [run[e] EXCEPT !.pc = "resolve"]} : Become(e, x)
    BY DEF FetchFile
  <1>3. x \in RunRecord /\ Holds(x)
    BY <1>1 DEF RunRecord, Holds, FileResult
  <1> QED
    BY <1>2, <1>3, Stepped DEF FetchFile

LEMMA FileListed ==
  ASSUME NEW x \in RunRecord, Len(x.results) < Len(x.files) PROVE File(x) \in Files
  <1>1. x.files \in Seq(Files) /\ x.results \in Seq(FileResult)
    BY DEF RunRecord
  <1> QED
    BY <1>1 DEF File

LEMMA ResolveRegistrationKeeps ==
  ASSUME Inv, NEW e \in Executions, ResolveRegistration(e) PROVE Inv'
  <1>1. run[e].pc = "resolve" /\ run[e] \in RunRecord /\ Holds(run[e])
    BY RunTyped DEF ResolveRegistration
  <1> DEFINE f == File(run[e])
             x == [run[e] EXCEPT !.pc = "find", !.version = registration.version,
                     !.todo = Content[f], !.map = {}]
  <1>2. f \in Files
    BY <1>1, FileListed DEF Holds
  <1>3. registration.version \in Nat
    BY DEF Inv, Types
  <1>4. Become(e, x) /\ UNCHANGED <<imports, queue, records, registration>>
    BY DEF ResolveRegistration
  <1> HIDE DEF f
  <1>5. Content[f] \subseteq Sites
    BY <1>2, UploadAssumption
  <1>6. x \in RunRecord
    BY <1>1, <1>3, <1>5 DEF RunRecord
  <1>7. Lists(f, x.map, x.todo)
    BY <1>1 DEF Lists, RunRecord
  <1>8. Holds(x)
    BY <1>1, <1>2, <1>7 DEF Holds, RunRecord
  <1> HIDE DEF x
  <1> QED
    BY <1>4, <1>6, <1>8, Stepped

LEMMA FindSiteKeeps ==
  ASSUME Inv, NEW e \in Executions, FindSite(e) PROVE Inv'
  <1>1. run[e].pc = "find" /\ run[e] \in RunRecord /\ Holds(run[e])
    BY RunTyped DEF FindSite
  <1>2. PICK f \in Files : Lists(f, run[e].map, run[e].todo)
    BY <1>1 DEF Holds
  <1>3. PICK s \in run[e].todo :
          \/ Become(e, [run[e] EXCEPT !.pc = "create", !.site = s])
          \/ \E n \in FindByProperties(s) :
               Become(e, [run[e] EXCEPT !.todo = @ \ {s}, !.map = @ \cup {n}])
    BY DEF FindSite
  <1>4. run[e].todo \subseteq Sites /\ run[e].map \subseteq Ids
    BY <1>1 DEF RunRecord
  <1>5. CASE Become(e, [run[e] EXCEPT !.pc = "create", !.site = s])
    <2> DEFINE x == [run[e] EXCEPT !.pc = "create", !.site = s]
    <2>1. x \in RunRecord /\ Holds(x)
      BY <1>1, <1>2, <1>4 DEF RunRecord, Holds
    <2>2. Become(e, x)
      BY <1>5
    <2> HIDE DEF x
    <2> QED
      BY <2>1, <2>2, Stepped DEF FindSite
  <1>6. ASSUME NEW n \in FindByProperties(s),
               Become(e, [run[e] EXCEPT !.todo = @ \ {s}, !.map = @ \cup {n}])
        PROVE  Inv'
    <2> DEFINE x == [run[e] EXCEPT !.todo = @ \ {s}, !.map = @ \cup {n}]
    <2>1. n \in Ids /\ records[n] = s
      BY DEF FindByProperties
    <2>2. x \in RunRecord /\ x.pc = "find" /\ x.results = run[e].results
          /\ x.files = run[e].files /\ x.map = run[e].map \cup {n} /\ x.todo = run[e].todo \ {s}
      BY <1>1, <1>4, <2>1 DEF RunRecord
    <2>3. Become(e, x)
      BY <1>6
    <2> HIDE DEF x
    <2>4. Lists(f, x.map, x.todo)
      BY <1>2, <2>1, <2>2 DEF Lists
    <2>5. Holds(x)
      BY <1>1, <2>2, <2>4 DEF Holds
    <2> QED
      BY <2>2, <2>3, <2>5, Stepped DEF FindSite
  <1> QED
    BY <1>3, <1>5, <1>6

(* A new record disturbs nothing that was found: its id was no record's.   *)
LEMMA ListsKept ==
  ASSUME Inv, NEW n \in Ids, NEW s, InsertRecord(n, s),
         NEW f \in Files, NEW map \in SUBSET Ids, NEW todo, Lists(f, map, todo)
  PROVE  Lists(f, map, todo)'
  <1>1. \A k \in map : records[k] # NoSite
    BY UploadAssumption DEF Lists
  <1>2. \A k \in map : records'[k] = records[k]
    BY <1>1 DEF InsertRecord, Inv, Types
  <1> QED
    BY <1>2 DEF Lists

LEMMA CreateSiteKeeps ==
  ASSUME Inv, NEW e \in Executions, CreateSite(e) PROVE Inv'
  <1>1. run[e].pc = "create" /\ run[e] \in RunRecord /\ Holds(run[e])
    BY RunTyped DEF CreateSite
  <1> DEFINE s == run[e].site
             x(n) == [run[e] EXCEPT !.pc = "find", !.todo = @ \ {s},
                        !.map = @ \cup {n}, !.site = NoSite]
  <1>2. PICK n \in Ids : InsertRecord(n, s) /\ Become(e, x(n))
    BY DEF CreateSite
  <1>3. PICK f \in Files : Lists(f, run[e].map, run[e].todo)
    BY <1>1 DEF Holds
  <1>4. s \in run[e].todo /\ run[e].todo \subseteq Sites /\ run[e].map \subseteq Ids
    BY <1>1 DEF Holds, RunRecord
  <1>5. records' = [records EXCEPT ![n] = s] /\ records \in [Ids -> Sites \cup {NoSite}]
    BY <1>2 DEF InsertRecord, Inv, Types
  <1>6. PICK y : y = x(n)
    OBVIOUS
  <1>7. y \in RunRecord /\ y.pc = "find" /\ y.results = run[e].results
        /\ y.files = run[e].files /\ y.map = run[e].map \cup {n} /\ y.todo = run[e].todo \ {s}
    BY <1>1, <1>4, <1>6 DEF RunRecord
  <1>8. Become(e, y) /\ UNCHANGED <<imports, queue, registration>>
    BY <1>2, <1>6 DEF CreateSite
  <1> HIDE DEF x
  <1>9. Holds(y)'
    <2>1. PICK old : old = run[e].map
      OBVIOUS
    <2>2. PICK left : left = run[e].todo
      OBVIOUS
    <2>3. Lists(f, old, left)'
      BY <1>2, <1>3, <1>4, <2>1, <2>2, ListsKept
    <2>4. records'[n] = s /\ s \in left
      BY <1>4, <1>5, <2>2
    <2>5. Lists(f, y.map, y.todo)'
      BY <1>7, <2>1, <2>2, <2>3, <2>4 DEF Lists
    <2> QED
      BY <1>1, <1>7, <2>5 DEF Holds
  <1>10. run' = [run EXCEPT ![e] = y]
    BY <1>8 DEF Become
  <1>11. Types'
    BY <1>4, <1>5, <1>7, <1>8, <1>10 DEF Inv, Types
  <1>12. ASSUME NEW d \in Executions PROVE Holds(run[d])'
    <2>1. CASE d = e
      <3>1. run'[d] = y
        BY <1>10, <2>1 DEF Inv, Types
      <3> QED
        BY <1>9, <3>1 DEF Holds, Lists
    <2>2. CASE d # e
      <3>1. PICK z : z = run[d]
        OBVIOUS
      <3>2. run'[d] = z /\ Holds(z) /\ z \in {Idle} \cup RunRecord
        BY <1>10, <2>2, <3>1 DEF Inv, Types
      <3>3. ASSUME z.pc \in {"find", "create"} PROVE (\E g \in Files : Lists(g, z.map, z.todo))'
        <4>1. PICK g \in Files : Lists(g, z.map, z.todo)
          BY <3>2, <3>3 DEF Holds
        <4>2. z.map \in SUBSET Ids
          BY <3>2, <3>3, IdleHolds DEF RunRecord
        <4>3. Lists(g, z.map, z.todo)'
          BY <1>2, <4>1, <4>2, ListsKept
        <4> QED
          BY <4>3
      <3>4. Holds(z)'
        BY <3>2, <3>3 DEF Holds
      <3> QED
        BY <3>2, <3>4 DEF Holds, Lists
    <2> QED
      BY <2>1, <2>2
  <1>13. RegistrationHolds'
    <2>1. PICK map : map = registration.map
      OBVIOUS
    <2>2. map \in SUBSET Ids /\ registration'.map = map
      BY <1>8, <2>1 DEF Inv, Types
    <2>3. CASE map = {}
      BY <2>2, <2>3 DEF RegistrationHolds
    <2>4. ASSUME NEW g \in Files, Lists(g, map, {}) PROVE RegistrationHolds'
      <3>1. Lists(g, map, {})'
        BY <1>2, <2>2, <2>4, ListsKept
      <3> QED
        BY <2>2, <3>1 DEF RegistrationHolds, Lists
    <2> QED
      BY <2>1, <2>3, <2>4 DEF Inv, RegistrationHolds
  <1> QED
    BY <1>11, <1>12, <1>13 DEF Inv

LEMMA ReplaceSitesKeeps ==
  ASSUME Inv, NEW e \in Executions, ReplaceSites(e) PROVE Inv'
  <1>1. run[e].pc = "find" /\ run[e].todo = {} /\ run[e] \in RunRecord /\ Holds(run[e])
    BY RunTyped DEF ReplaceSites
  <1>2. PICK result \in {SUCCESS, FAILURE} :
          Become(e, [run[e] EXCEPT !.pc = "delete", !.result = result])
    BY DEF ReplaceSites
  <1> DEFINE x == [run[e] EXCEPT !.pc = "delete", !.result = result]
  <1>3. x \in RunRecord /\ Holds(x)
    BY <1>1 DEF RunRecord, Holds, FileResult
  <1>4. Become(e, x) /\ UNCHANGED <<imports, queue, records>>
    BY <1>2 DEF ReplaceSites
  <1> HIDE DEF x
  <1>5. CASE UNCHANGED registration
    BY <1>3, <1>4, <1>5, Stepped
  <1>6. CASE registration' = [version |-> registration.version + 1, map |-> run[e].map]
    <2>1. run' = [run EXCEPT ![e] = x]
      BY <1>4 DEF Become
    <2>2. registration' \in [version : Nat, map : SUBSET Ids]
      BY <1>1, <1>6 DEF Inv, Types, RunRecord
    <2>3. Types'
      BY <1>3, <1>4, <2>1, <2>2 DEF Inv, Types
    <2>4. ASSUME NEW d \in Executions PROVE Holds(run[d])'
      <3>1. Holds(run'[d])
        BY <1>3, <2>1 DEF Inv, Types
      <3> QED
        BY <1>4, <3>1 DEF Holds, Lists
    <2>5. RegistrationHolds'
      <3>1. PICK f \in Files : Lists(f, run[e].map, {})
        BY <1>1 DEF Holds
      <3>2. registration'.map = run[e].map
        BY <1>6
      <3> QED
        BY <1>4, <3>1, <3>2 DEF RegistrationHolds, Lists
    <2> QED
      BY <2>3, <2>4, <2>5 DEF Inv
  <1> QED
    BY <1>5, <1>6 DEF ReplaceSites, OverseasSites

LEMMA DeleteFileKeeps ==
  ASSUME Inv, NEW e \in Executions, DeleteFile(e) PROVE Inv'
  <1>1. run[e].pc = "delete" /\ run[e] \in RunRecord /\ Holds(run[e])
    BY RunTyped DEF DeleteFile
  <1> DEFINE x == [run[e] EXCEPT !.pc = "record"]
  <1>2. x \in RunRecord /\ Holds(x)
    BY <1>1 DEF RunRecord, Holds
  <1>3. Become(e, x) /\ UNCHANGED <<imports, queue, records, registration>>
    BY DEF DeleteFile
  <1> HIDE DEF x
  <1> QED
    BY <1>2, <1>3, Stepped

LEMMA RecordResultKeeps ==
  ASSUME Inv, NEW e \in Executions, RecordResult(e) PROVE Inv'
  <1>1. run[e].pc = "record" /\ run[e] \in RunRecord /\ Holds(run[e])
        /\ run[e].message.import \in Imports
    BY RunTyped DEF RecordResult
  <1> DEFINE results == Append(run[e].results, run[e].result)
             pc == IF Len(results) = Len(run[e].files) THEN "finish" ELSE "fetch"
             x == [run[e] EXCEPT !.results = results, !.result = "none", !.version = 0,
                     !.map = {}, !.todo = {}, !.site = NoSite, !.pc = pc]
  <1>2. run[e].results \in Seq(FileResult) /\ run[e].result \in FileResult
        /\ run[e].files \in Seq(Files)
    BY <1>1 DEF RunRecord
  <1>3. results \in Seq(FileResult) /\ Len(results) = Len(run[e].results) + 1
    BY <1>2
  <1>4. Len(results) \in Nat
    BY <1>3
  <1>5. imports' \in [Imports -> ImportDocument]
    BY <1>1, <1>2, <1>4, ResultTyped DEF RecordResult
  <1>6. Become(e, x) /\ UNCHANGED <<queue, records, registration>>
    BY DEF RecordResult
  <1> HIDE DEF results
  <1>7. pc \in {"finish", "fetch"} /\ (pc = "fetch" => Len(results) < Len(run[e].files))
    BY <1>1, <1>2, <1>3, <1>4 DEF Holds
  <1> HIDE DEF pc
  <1>8. x \in RunRecord
    BY <1>1, <1>3, <1>7 DEF RunRecord, FileResult
  <1>9. x.pc = pc /\ x.results = results /\ x.files = run[e].files
    BY <1>1 DEF RunRecord
  <1> HIDE DEF x
  <1>10. Holds(x)
    BY <1>7, <1>9 DEF Holds
  <1>11. queue' \subseteq Message
    BY <1>6 DEF Inv, Types
  <1> QED
    BY <1>5, <1>6, <1>8, <1>10, <1>11, Moved

LEMMA FinishKeeps ==
  ASSUME Inv, NEW e \in Executions, Finish(e) PROVE Inv'
  <1>1. run[e].message.import \in Imports
    BY RunTyped DEF Finish
  <1>2. imports' \in [Imports -> ImportDocument]
    BY <1>1, StatusTyped DEF Finish, Status
  <1>3. queue' \subseteq Message
    BY Acknowledged DEF Finish
  <1> QED
    BY <1>2, <1>3, IdleHolds, Moved DEF Finish

LEMMA CallFailsKeeps ==
  ASSUME Inv, NEW e \in Executions, CallFails(e) PROVE Inv'
  <1>1. UNCHANGED <<records, registration>>
    BY DEF CallFails
  <1>2. CASE /\ run[e].pc \in {"fetch", "resolve", "find", "create"}
             /\ Become(e, [run[e] EXCEPT !.pc = "record", !.result = FAILURE])
             /\ UNCHANGED <<imports, queue>>
    <2> DEFINE x == [run[e] EXCEPT !.pc = "record", !.result = FAILURE]
    <2>1. run[e] \in RunRecord /\ Holds(run[e])
      BY <1>2, RunTyped
    <2>2. x \in RunRecord /\ Holds(x)
      BY <1>2, <2>1 DEF RunRecord, Holds, FileResult
    <2>3. Become(e, x)
      BY <1>2
    <2> HIDE DEF x
    <2> QED
      BY <1>1, <1>2, <2>2, <2>3, Stepped
  <1>3. CASE /\ run[e].pc = "delete"
             /\ Become(e, [run[e] EXCEPT !.pc = "record"])
             /\ UNCHANGED <<imports, queue>>
    <2> DEFINE x == [run[e] EXCEPT !.pc = "record"]
    <2>1. run[e] \in RunRecord /\ Holds(run[e])
      BY <1>3, RunTyped
    <2>2. x \in RunRecord /\ Holds(x)
      BY <1>3, <2>1 DEF RunRecord, Holds
    <2>3. Become(e, x)
      BY <1>3
    <2> HIDE DEF x
    <2> QED
      BY <1>1, <1>3, <2>2, <2>3, Stepped
  <1>4. CASE run[e].pc \in {"read", "start", "record", "finish"} /\ TransientError(e)
    <2>1. run[e].message.import \in Imports
      BY <1>4, RunTyped
    <2>2. UpdateStatus(run[e].message.import, FAILED) \/ UNCHANGED imports
      BY <1>4 DEF TransientError
    <2>3. imports' \in [Imports -> ImportDocument]
      BY <2>1, <2>2, StatusTyped DEF Status, Inv, Types
    <2>4. Become(e, Idle) /\ queue' \subseteq Message
      BY <1>4 DEF TransientError, Inv, Types
    <2> QED
      BY <1>1, <2>3, <2>4, IdleHolds, Moved
  <1> QED
    BY <1>2, <1>3, <1>4 DEF CallFails

LEMMA TimeoutKeeps ==
  ASSUME Inv, NEW e \in Executions, Timeout(e) PROVE Inv'
  <1>1. run[e] \in RunRecord /\ Holds(run[e]) /\ run[e].message.import \in Imports
    BY RunTyped DEF Timeout
  <1> DEFINE x == [run[e] EXCEPT !.live = FALSE]
  <1>2. imports' \in [Imports -> ImportDocument]
    BY <1>1, StatusTyped DEF Timeout, Status
  <1>3. x \in RunRecord /\ Holds(x)
    BY <1>1 DEF RunRecord, Holds
  <1>4. Become(e, x) /\ UNCHANGED <<queue, records, registration>>
    BY DEF Timeout
  <1>5. queue' \subseteq Message
    BY <1>4 DEF Inv, Types
  <1> HIDE DEF x
  <1> QED
    BY <1>2, <1>3, <1>4, <1>5, Moved

-----------------------------------------------------------------------------
(* The steps of requests, and the theorem on the registration.              *)

LEMMA NoImportTyped ==
  ASSUME Inv, NEW i \in Imports, NEW why \in Status, imports' = [imports EXCEPT ![i] = NoImport(why)]
  PROVE  imports' \in [Imports -> ImportDocument]
  <1>1. NoImport(why) \in ImportDocument
    BY DEF NoImport, ImportDocument
  <1> QED
    BY <1>1 DEF Inv, Types

LEMMA UploadCompletedKeeps ==
  ASSUME Inv, NEW i \in Imports, UploadCompleted(i) PROVE Inv'
  <1>1. UNCHANGED <<queue, run, records, registration>>
    BY DEF UploadCompleted
  <1>2. PICK complete \in {Upload[i], <<>>} :
          \/ UpdateStatus(i, FAILED)
          \/ imports' = [imports EXCEPT ![i].files =
                           [k \in 1..Len(complete) |-> UploadedFile(complete[k])]]
    BY DEF UploadCompleted
  <1> DEFINE files == [k \in 1..Len(complete) |-> UploadedFile(complete[k])]
             doc   == [imports[i] EXCEPT !.files = files]
  <1>3. ASSUME UpdateStatus(i, FAILED) PROVE imports' \in [Imports -> ImportDocument]
    BY <1>3, StatusTyped DEF Status
  <1>4. ASSUME imports' = [imports EXCEPT ![i].files = files]
        PROVE  imports' \in [Imports -> ImportDocument]
    <2>1. Upload[i] \in Seq(Files)
      BY UploadAssumption
    <2>2. complete \in Seq(Files)
      <3>1. <<>> \in Seq(Files)
        OBVIOUS
      <3>2. complete = Upload[i] \/ complete = <<>>
        OBVIOUS
      <3> QED
        BY <2>1, <3>1, <3>2
    <2>3. \A k \in 1..Len(complete) : UploadedFile(complete[k]) \in ListedFile
      BY <2>2 DEF UploadedFile, ListedFile, FileResult
    <2>4. files \in Seq(ListedFile)
      BY <2>2, <2>3
    <2>5. imports' = [imports EXCEPT ![i] = doc]
      BY <1>4
    <2> HIDE DEF files
    <2>6. imports \in [Imports -> ImportDocument] /\ imports[i] \in ImportDocument
      BY DEF Inv, Types
    <2>7. doc \in ImportDocument
      BY <2>4, <2>6 DEF ImportDocument
    <2> HIDE DEF doc
    <2> QED
      BY <2>5, <2>6, <2>7
  <1>5. imports' \in [Imports -> ImportDocument]
    BY <1>2, <1>3, <1>4
  <1>6. queue' \subseteq Message
    BY <1>1 DEF Inv, Types
  <1> QED
    BY <1>1, <1>5, <1>6, Unmoved

LEMMA SendKeeps ==
  ASSUME Inv, NEW i \in Imports, Send(i) PROVE Inv'
  <1>1. [import |-> i, receives |-> 0] \in Message
    BY BoundAssumption DEF Message
  <1>2. queue' \subseteq Message /\ imports' \in [Imports -> ImportDocument]
    BY <1>1 DEF Send, Inv, Types
  <1> QED
    BY <1>2, Unmoved DEF Send

LEMMA InvHolds == Spec => []Inv
  <1>1. ASSUME Init PROVE Inv
    <2>1. Types
      BY <1>1 DEF Init, Types, NoImport, ImportDocument, Status
    <2>2. \A e \in Executions : Holds(run[e])
      BY <1>1, IdleHolds DEF Init
    <2> QED
      BY <1>1, <2>1, <2>2 DEF Init, Inv, RegistrationHolds
  <1>2. ASSUME Inv, [Next]_vars PROVE Inv'
    <2>1. CASE UNCHANGED vars
      BY <1>2, <2>1, Unmoved DEF vars, Inv, Types
    <2>2. ASSUME NEW i \in Imports,
                 InitiateImport(i) \/ UploadCompleted(i) \/ Send(i) \/ SendFails(i) \/ Expire(i)
          PROVE  Inv'
      <3>1. CASE InitiateImport(i)
        BY <1>2, <3>1, NoImportTyped, Unmoved DEF InitiateImport, Status, Inv, Types
      <3>2. CASE UploadCompleted(i)
        BY <1>2, <3>2, UploadCompletedKeeps
      <3>3. CASE Send(i)
        BY <1>2, <3>3, SendKeeps
      <3>4. CASE SendFails(i)
        BY <1>2, <3>4, Unmoved DEF SendFails, Inv, Types
      <3>5. CASE Expire(i)
        BY <1>2, <3>5, NoImportTyped, Unmoved DEF Expire, Status, Inv, Types
      <3> QED
        BY <2>2, <3>1, <3>2, <3>3, <3>4, <3>5
    <2>3. ASSUME NEW e \in Executions, Receive(e) \/ ReceiveAgain(e) PROVE Inv'
      BY <1>2, <2>3, StartKeeps DEF Receive, ReceiveAgain
    <2>4. ASSUME NEW e \in Executions,
                 \/ ReadImport(e) \/ StartProcessing(e) \/ FetchFile(e)
                 \/ ResolveRegistration(e) \/ FindSite(e) \/ CreateSite(e)
          PROVE  Inv'
      BY <1>2, <2>4, ReadImportKeeps, StartProcessingKeeps, FetchFileKeeps,
         ResolveRegistrationKeeps, FindSiteKeeps, CreateSiteKeeps
    <2>5. ASSUME NEW e \in Executions,
                 \/ ReplaceSites(e) \/ DeleteFile(e) \/ RecordResult(e)
                 \/ Finish(e) \/ CallFails(e) \/ Timeout(e)
          PROVE  Inv'
      BY <1>2, <2>5, ReplaceSitesKeeps, DeleteFileKeeps, RecordResultKeeps, FinishKeeps,
         CallFailsKeeps, TimeoutKeeps
    <2>6. ASSUME NEW e \in Executions, Dies(e) PROVE Inv'
      BY <1>2, <2>6, IdleHolds, Stepped DEF Dies
    <2> QED
      BY <1>2, <2>1, <2>2, <2>3, <2>4, <2>5, <2>6 DEF Next
  <1> QED
    BY <1>1, <1>2, PTL DEF Spec

(* The sites of a registration are those one file lists, whatever imports, *)
(* executions, deliveries and failures there are.                          *)
THEOREM RegistrationsMapOneFile == Spec => []RegistrationMapsOneFile
  <1>1. ASSUME Inv PROVE RegistrationMapsOneFile
    <2>1. CASE registration.map = {}
      BY <2>1 DEF RegistrationMapsOneFile
    <2>2. ASSUME NEW f \in Files, Lists(f, registration.map, {}) PROVE RegistrationMapsOneFile
      <3>1. {records[n] : n \in registration.map} = Content[f]
        BY <2>2 DEF Lists
      <3> QED
        BY <3>1 DEF RegistrationMapsOneFile
    <2> QED
      BY <1>1, <2>1, <2>2 DEF Inv, RegistrationHolds
  <1> QED
    BY <1>1, InvHolds, PTL

-----------------------------------------------------------------------------
(* What the status of an import tells.                                     *)

(* A result is given while a file is worked on, and to every file at last. *)
Counts(x) ==
  /\ x.pc # "idle" => x.results \in Seq({SUCCESS, FAILURE})
  /\ x.pc \in {"delete", "record"} => x.result \in {SUCCESS, FAILURE}
  /\ x.pc = "finish" => Len(x.results) = Len(x.files)

Typed ==
  /\ Inv
  /\ \A e \in Executions : Counts(run[e])
  /\ stored \subseteq Files
  /\ callback \in [Imports -> {"idle", "send"}]
  /\ applied \subseteq Imports
  /\ cut \in [Imports -> SUBSET {"failed", "died", "overlapped"}]
  /\ disturbed \in 0..MaxDisturbed

LEMMA TransitionsNamed ==
  /\ DOMAIN VALID_ORS_IMPORT_TRANSITIONS = {PREPROCESSING, PROCESSING, COMPLETED, FAILED}
  /\ ORS_IMPORT_TERMINAL_STATUSES = {COMPLETED, FAILED}
  <1> DEFINE S == {PREPROCESSING, PROCESSING, COMPLETED, FAILED}
  <1>1. DOMAIN VALID_ORS_IMPORT_TRANSITIONS = S
    BY DEF VALID_ORS_IMPORT_TRANSITIONS
  <1>2. \A s \in S : VALID_ORS_IMPORT_TRANSITIONS[s] = {} <=> s \in {COMPLETED, FAILED}
    BY DEF VALID_ORS_IMPORT_TRANSITIONS, PREPROCESSING, PROCESSING, COMPLETED, FAILED
  <1> QED
    BY <1>1, <1>2 DEF ORS_IMPORT_TERMINAL_STATUSES

LEMMA CountsKept ==
  ASSUME Inv, \A e \in Executions : Counts(run[e]), NEW e \in Executions, NEW x,
         Become(e, x), Counts(x)
  PROVE  \A d \in Executions : Counts(run[d])'
  <1>1. \A d \in Executions : run'[d] = run[d] \/ run'[d] = x
    BY DEF Become, Inv, Types
  <1> QED
    BY <1>1 DEF Counts

LEMMA IdleCounts == Counts(Idle)
  BY DEF Counts, Idle

(* An execution that goes on with its results.                             *)
LEMMA StepCounts ==
  ASSUME Inv, \A e \in Executions : Counts(run[e]), NEW e \in Executions,
         \/ FetchFile(e) \/ ResolveRegistration(e) \/ FindSite(e) \/ CreateSite(e)
         \/ ReplaceSites(e) \/ DeleteFile(e) \/ Timeout(e)
  PROVE  \A d \in Executions : Counts(run[d])'
  <1>1. run[e] \in RunRecord /\ Counts(run[e])
    BY RunTyped DEF FetchFile, ResolveRegistration, FindSite, CreateSite, ReplaceSites,
       DeleteFile, Timeout
  <1> DEFINE R == run[e]
  <1>2. CASE FetchFile(e)
    <2>1. PICK x \in {[R EXCEPT !.pc = "record", !.result = FAILURE],
                      [R EXCEPT !.pc = "delete", !.result = FAILURE],
                      [R EXCEPT !.pc = "resolve"]} : Become(e, x)
      BY <1>2 DEF FetchFile
    <2>2. Counts(x)
      BY <1>1, <1>2 DEF Counts, RunRecord, FetchFile
    <2> QED
      BY <2>1, <2>2, CountsKept
  <1>3. CASE ResolveRegistration(e)
    <2>1. PICK x : /\ Become(e, x)
                   /\ x = [R EXCEPT !.pc = "find", !.version = registration.version,
                             !.todo = Content[File(R)], !.map = {}]
      BY <1>3 DEF ResolveRegistration
    <2>2. Counts(x)
      BY <1>1, <1>3, <2>1 DEF Counts, RunRecord, ResolveRegistration
    <2> QED
      BY <2>1, <2>2, CountsKept
  <1>4. CASE FindSite(e)
    <2>1. PICK s, n : \E x \in {[R EXCEPT !.pc = "create", !.site = s],
                             [R EXCEPT !.todo = @ \ {s}, !.map = @ \cup {n}]} : Become(e, x)
      BY <1>4 DEF FindSite
    <2>2. PICK x \in {[R EXCEPT !.pc = "create", !.site = s],
                      [R EXCEPT !.todo = @ \ {s}, !.map = @ \cup {n}]} : Become(e, x)
      BY <2>1
    <2>3. Counts(x)
      BY <1>1, <1>4 DEF Counts, RunRecord, FindSite
    <2> QED
      BY <2>2, <2>3, CountsKept
  <1>5. CASE CreateSite(e)
    <2>1. PICK n : Become(e, [R EXCEPT !.pc = "find", !.todo = @ \ {R.site},
                                !.map = @ \cup {n}, !.site = NoSite])
      BY <1>5 DEF CreateSite
    <2>2. PICK x : x = [R EXCEPT !.pc = "find", !.todo = @ \ {R.site},
                          !.map = @ \cup {n}, !.site = NoSite]
      OBVIOUS
    <2>3. Counts(x)
      BY <1>1, <1>5, <2>2 DEF Counts, RunRecord, CreateSite
    <2> QED
      BY <2>1, <2>2, <2>3, CountsKept
  <1>6. CASE ReplaceSites(e)
    <2>1. PICK result \in {SUCCESS, FAILURE} :
            Become(e, [R EXCEPT !.pc = "delete", !.result = result])
      BY <1>6 DEF ReplaceSites
    <2>2. Counts([R EXCEPT !.pc = "delete", !.result = result])
      BY <1>1, <1>6 DEF Counts, RunRecord, ReplaceSites
    <2> QED
      BY <2>1, <2>2, CountsKept
  <1>7. CASE DeleteFile(e)
    <2>1. Become(e, [R EXCEPT !.pc = "record"])
      BY <1>7 DEF DeleteFile
    <2>2. Counts([R EXCEPT !.pc = "record"])
      BY <1>1, <1>7 DEF Counts, RunRecord, DeleteFile
    <2> QED
      BY <2>1, <2>2, CountsKept
  <1>8. CASE Timeout(e)
    <2>1. Become(e, [R EXCEPT !.live = FALSE])
      BY <1>8 DEF Timeout
    <2>2. Counts([R EXCEPT !.live = FALSE])
      BY <1>1 DEF Counts, RunRecord
    <2> QED
      BY <2>1, <2>2, CountsKept
  <1> QED
    BY <1>2, <1>3, <1>4, <1>5, <1>6, <1>7, <1>8

LEMMA EndCounts ==
  ASSUME Inv, \A e \in Executions : Counts(run[e]), NEW e \in Executions,
         \/ Receive(e) \/ ReceiveAgain(e) \/ ReadImport(e) \/ StartProcessing(e)
         \/ RecordResult(e) \/ Finish(e) \/ CallFails(e) \/ Dies(e)
  PROVE  \A d \in Executions : Counts(run[d])'
  <1> DEFINE R == run[e]
  <1>1. R.pc # "idle" => R \in RunRecord /\ Counts(R) /\ Holds(R)
    BY RunTyped
  <1>2. CASE Become(e, Idle)
    BY <1>2, IdleCounts, CountsKept
  <1>3. CASE Receive(e) \/ ReceiveAgain(e)
    <2>1. PICK m \in queue : Start(e, m)
      BY <1>3 DEF Receive, ReceiveAgain
    <2>2. PICK x : Become(e, x) /\ x.pc = "read" /\ x.results = <<>>
      BY <2>1 DEF Start
    <2>3. Counts(x)
      BY <2>2 DEF Counts
    <2> QED
      BY <2>2, <2>3, CountsKept
  <1>4. CASE ReadImport(e)
    <2>1. CASE ~ Become(e, Idle)
      <3>1. PICK files : Become(e, [R EXCEPT !.pc = "start", !.files = files])
        BY <1>4, <2>1 DEF ReadImport
      <3>2. Counts([R EXCEPT !.pc = "start", !.files = files])
        BY <1>1, <1>4 DEF ReadImport, Counts, RunRecord
      <3> QED
        BY <3>1, <3>2, CountsKept
    <2> QED
      BY <1>2, <2>1
  <1>5. CASE StartProcessing(e)
    <2>1. PICK x : Become(e, x) /\ x = [R EXCEPT !.pc = IF R.files = <<>> THEN "finish" ELSE "fetch"]
      BY <1>5 DEF StartProcessing
    <2>2. Counts(x)
      BY <1>1, <1>5, <2>1 DEF StartProcessing, Counts, RunRecord, Holds
    <2> QED
      BY <2>1, <2>2, CountsKept
  <1>6. CASE RecordResult(e)
    <2> DEFINE results == Append(R.results, R.result)
               x == [R EXCEPT !.results = results, !.result = "none", !.version = 0,
                       !.map = {}, !.todo = {}, !.site = NoSite,
                       !.pc = IF Len(results) = Len(R.files) THEN "finish" ELSE "fetch"]
    <2>1. Become(e, x)
      BY <1>6 DEF RecordResult
    <2>2. results \in Seq({SUCCESS, FAILURE})
      BY <1>1, <1>6 DEF RecordResult, Counts
    <2> HIDE DEF results
    <2>3. Counts(x)
      BY <1>1, <1>6, <2>2 DEF RecordResult, Counts, RunRecord
    <2> HIDE DEF x
    <2> QED
      BY <2>1, <2>3, CountsKept
  <1>7. CASE CallFails(e)
    <2>1. CASE ~ Become(e, Idle)
      <3>1. CASE /\ R.pc \in {"fetch", "resolve", "find", "create"}
                 /\ Become(e, [R EXCEPT !.pc = "record", !.result = FAILURE])
        <4>1. Counts([R EXCEPT !.pc = "record", !.result = FAILURE])
          BY <1>1, <3>1 DEF Counts, RunRecord
        <4> QED
          BY <3>1, <4>1, CountsKept
      <3>2. CASE R.pc = "delete" /\ Become(e, [R EXCEPT !.pc = "record"])
        <4>1. Counts([R EXCEPT !.pc = "record"])
          BY <1>1, <3>2 DEF Counts, RunRecord
        <4> QED
          BY <3>2, <4>1, CountsKept
      <3> QED
        BY <1>7, <2>1, <3>1, <3>2 DEF CallFails, TransientError
    <2> QED
      BY <1>2, <2>1
  <1>8. CASE Finish(e) \/ Dies(e)
    BY <1>2, <1>8 DEF Finish, Dies
  <1> QED
    BY <1>3, <1>4, <1>5, <1>6, <1>7, <1>8

LEMMA FileUploaded ==
  ASSUME NEW i \in Imports
  PROVE  Upload[i] \in Seq(Files) /\ ToSet(Upload[i]) \subseteq Files
  BY UploadAssumption DEF ToSet

LEMMA TypedNext == Typed /\ [Next]_vars /\ Inv' => Typed'
  <1> SUFFICES ASSUME Typed, [Next]_vars, Inv' PROVE Typed'
    OBVIOUS
  <1> USE DEF Typed
  <1>1. \A e \in Executions : Counts(run[e])'
    <2>1. CASE run' = run
      BY <2>1 DEF Counts
    <2>2. CASE ~ (run' = run)
      BY <2>2, StepCounts, EndCounts DEF Next, vars, InitiateImport, UploadCompleted, Send,
         SendFails, Expire
    <2> QED
      BY <2>1, <2>2
  <1>2. stored' \subseteq Files
    <2>1. CASE stored' \subseteq stored
      BY <2>1
    <2>2. ASSUME NEW i \in Imports, UploadCompleted(i) PROVE stored' \subseteq Files
      BY <2>2, FileUploaded DEF UploadCompleted
    <2> QED
      BY <2>1, <2>2 DEF Next, vars, InitiateImport, Send, SendFails, Expire, Receive,
         ReceiveAgain, ReadImport, StartProcessing, FetchFile, ResolveRegistration, FindSite,
         CreateSite, ReplaceSites, DeleteFile, RecordResult, Finish, CallFails, Dies, Timeout
  <1>3. callback' \in [Imports -> {"idle", "send"}]
    BY DEF Next, vars, InitiateImport, UploadCompleted, Send, SendFails, Expire, Receive,
       ReceiveAgain, ReadImport, StartProcessing, FetchFile, ResolveRegistration, FindSite,
       CreateSite, ReplaceSites, DeleteFile, RecordResult, Finish, CallFails, Dies, Timeout
  <1>4. applied' \subseteq Imports
    <2>1. CASE applied' = applied
      BY <2>1
    <2>2. ASSUME NEW e \in Executions, ReplaceSites(e) PROVE applied' \subseteq Imports
      BY <2>2, RunTyped DEF ReplaceSites
    <2> QED
      BY <2>1, <2>2 DEF Next, vars, InitiateImport, UploadCompleted, Send, SendFails, Expire,
         Receive, ReceiveAgain, ReadImport, StartProcessing, FetchFile, ResolveRegistration,
         FindSite, CreateSite, DeleteFile, RecordResult, Finish, CallFails, Dies, Timeout
  <1>5. cut' \in [Imports -> SUBSET {"failed", "died", "overlapped"}]
    <2>1. CASE cut' = cut
      BY <2>1
    <2>2. ASSUME NEW i, NEW how \in {"failed", "died", "overlapped"}, Cut(i, how)
          PROVE  cut' \in [Imports -> SUBSET {"failed", "died", "overlapped"}]
      BY <2>2 DEF Cut
    <2> QED
      BY <2>1, <2>2 DEF Next, vars, InitiateImport, UploadCompleted, Send, SendFails, Expire,
         Receive, ReceiveAgain, ReadImport, StartProcessing, FetchFile, ResolveRegistration,
         FindSite, CreateSite, ReplaceSites, DeleteFile, RecordResult, Finish, CallFails,
         TransientError, Dies, Timeout
  <1>6. disturbed' \in 0..MaxDisturbed
    <2>1. CASE disturbed' = disturbed
      BY <2>1
    <2>2. CASE \E kind \in Disturbances : Disturb(kind)
      BY <2>2, BoundAssumption DEF Disturb
    <2> QED
      BY <2>1, <2>2 DEF Next, vars, InitiateImport, UploadCompleted, Send, SendFails, Expire,
         Receive, ReceiveAgain, ReadImport, StartProcessing, FetchFile, ResolveRegistration,
         FindSite, CreateSite, ReplaceSites, DeleteFile, RecordResult, Finish, CallFails,
         Dies, Timeout, Disturb
  <1> QED
    BY <1>1, <1>2, <1>3, <1>4, <1>5, <1>6

LEMMA TypedHolds == Spec => []Typed
  <1>1. ASSUME Init PROVE Inv => Typed
    BY <1>1, IdleCounts, BoundAssumption DEF Init, Typed
  <1> QED
    BY <1>1, InvHolds, TypedNext, PTL DEF Spec

LEMMA TypedIsTypeOK == Typed => TypeOK
  <1> SUFFICES ASSUME Typed PROVE TypeOK
    OBVIOUS
  <1>1. imports \in
          [Imports -> [status : DOMAIN VALID_ORS_IMPORT_TRANSITIONS \cup {"none", "expired"},
                       files  : Seq([file : Files, result : {"none", SUCCESS, FAILURE}])]]
    BY TransitionsNamed DEF Typed, Inv, Types, ImportDocument, ListedFile, FileResult, Status
  <1>2. run \in [Executions -> Run]
    <2>1. ASSUME NEW e \in Executions PROVE run[e] \in Run
      BY IdleCounts DEF Typed, Inv, Types, Counts, RunRecord, Run, FileResult
    <2> QED
      BY <2>1 DEF Typed, Inv, Types
  <1> QED
    BY <1>1, <1>2 DEF Typed, Inv, Types, TypeOK

-----------------------------------------------------------------------------
(* The status of an import, the executions on it, and what they changed.   *)

RunsOf(i) == {e \in Executions : run[e].pc # "idle" /\ run[e].message.import = i}

Open(i) == imports[i].status \in {PREPROCESSING, PROCESSING}

(* Nothing works on the import, nor will.                                  *)
Still(i) == RunsOf(i) = {} /\ callback[i] = "idle" /\ \A m \in queue : m.import # i

(* The results of an execution are in the document.                        *)
Recorded(i, x) ==
  /\ Len(x.files) = Len(imports[i].files)
  /\ \A k \in 1..Len(x.results) : imports[i].files[k].result = x.results[k]

Succeeded(x) ==
  \/ SUCCESS \in ToSet(x.results)
  \/ x.pc \in {"delete", "record"} /\ x.result = SUCCESS

(* An import is worked on once it has files, and its command is sent once. *)
SentWithFiles(i) ==
  /\ ~ Still(i) => imports[i].status # "none" /\ (Exists(i) => imports[i].files # <<>>)
  /\ callback[i] = "send" => RunsOf(i) = {} /\ \A m \in queue : m.import # i
  /\ imports[i].status = "none" => i \notin applied

(* While an import is open its executions are waited for; unless one was   *)
(* delivered while another ran there is one, whose results are recorded.   *)
OneWorks(i) ==
  /\ Open(i) => \A e \in RunsOf(i) : run[e].live
  /\ "overlapped" \notin cut[i] =>
       /\ \A d, e \in RunsOf(i) : run[d].live /\ run[e].live => d = e
       /\ Open(i) => \A e \in RunsOf(i) : run[e].pc # "read" => Recorded(i, run[e])

(* Who completed an import was the last to work on it.                     *)
CompletedIsOver(i) ==
  imports[i].status = COMPLETED /\ "overlapped" \notin cut[i] =>
    /\ Still(i)
    /\ \A k \in 1..Len(imports[i].files) : imports[i].files[k].result # "none"
    /\ \E k \in 1..Len(imports[i].files) : imports[i].files[k].result = SUCCESS

(* What replaced the sites of the registration is a success on its way to  *)
(* the status, as long as no execution is cut short.                       *)
AppliedIsSuccess(i) ==
  cut[i] = {} =>
    /\ imports[i].status = FAILED => Still(i) /\ i \notin applied
    /\ Open(i) /\ i \in applied => \E e \in RunsOf(i) : Succeeded(run[e])

Tells(i) == SentWithFiles(i) /\ OneWorks(i) /\ CompletedIsOver(i) /\ AppliedIsSuccess(i)

(* A step that does not concern i.                                         *)
Elsewhere(i) ==
  /\ imports'[i] = imports[i] /\ callback'[i] = callback[i] /\ cut'[i] = cut[i]
  /\ i \in applied' <=> i \in applied
  /\ \A m \in Message : m.import = i => (m \in queue' <=> m \in queue)
  /\ RunsOf(i)' = RunsOf(i)
  /\ \A e \in RunsOf(i) : run'[e] = run[e]

LEMMA TellsElsewhere ==
  ASSUME Typed, Typed', NEW i \in Imports, Tells(i), Elsewhere(i)
  PROVE  Tells(i)'
  <1> USE DEF Elsewhere
  <1>1. queue \subseteq Message /\ queue' \subseteq Message
    BY DEF Typed, Inv, Types
  <1>2. Still(i)' <=> Still(i)
    BY <1>1 DEF Still
  <1>3. (\A m \in queue' : m.import # i) <=> (\A m \in queue : m.import # i)
    BY <1>1
  <1>4. Open(i)' <=> Open(i)
    BY DEF Open
  <1>5. Exists(i)' <=> Exists(i)
    BY DEF Exists
  <1>6. SentWithFiles(i)'
    BY <1>2, <1>3, <1>5 DEF Tells, SentWithFiles
  <1>7. OneWorks(i)'
    BY <1>4 DEF Tells, OneWorks, Recorded
  <1>8. CompletedIsOver(i)'
    BY <1>2 DEF Tells, CompletedIsOver
  <1>9. AppliedIsSuccess(i)'
    <2>1. \A e \in RunsOf(i) : Succeeded(run[e])' <=> Succeeded(run[e])
      BY DEF Succeeded
    <2> QED
      BY <1>2, <1>4, <2>1 DEF Tells, AppliedIsSuccess
  <1> QED
    BY <1>6, <1>7, <1>8, <1>9 DEF Tells

(* Of the documents, messages and histories only those of j change.        *)
Concerns(j) ==
  \A i \in Imports \ {j} :
    /\ imports'[i] = imports[i] /\ callback'[i] = callback[i] /\ cut'[i] = cut[i]
    /\ i \in applied' <=> i \in applied
    /\ \A m \in Message : m.import = i => (m \in queue' <=> m \in queue)

LEMMA RunsMove ==
  ASSUME Typed, NEW e \in Executions, NEW x, Become(e, x)
  PROVE  /\ run'[e] = x
         /\ \A d \in Executions \ {e} : run'[d] = run[d]
         /\ \A i \in Imports :
              /\ \A d \in Executions \ {e} : d \in RunsOf(i)' <=> d \in RunsOf(i)
              /\ e \in RunsOf(i)' <=> x.pc # "idle" /\ x.message.import = i
  BY DEF Typed, Inv, Types, Become, RunsOf

(* Who neither worked on i nor does is no matter to it.                    *)
LEMMA OthersTell ==
  ASSUME Typed, Typed', \A i \in Imports : Tells(i), NEW j \in Imports, Concerns(j),
         \/ run' = run
         \/ \E e \in Executions, x \in {Idle} \cup RunRecord :
              /\ Become(e, x)
              /\ run[e].pc # "idle" => run[e].message.import = j
              /\ x.pc # "idle" => x.message.import = j
  PROVE  \A i \in Imports \ {j} : Tells(i)'
  <1> SUFFICES ASSUME NEW i \in Imports \ {j} PROVE Tells(i)'
    OBVIOUS
  <1>1. RunsOf(i)' = RunsOf(i) /\ \A d \in RunsOf(i) : run'[d] = run[d]
    <2>1. CASE run' = run
      BY <2>1 DEF RunsOf
    <2>2. ASSUME NEW e \in Executions, NEW x \in {Idle} \cup RunRecord, Become(e, x),
                 run[e].pc # "idle" => run[e].message.import = j,
                 x.pc # "idle" => x.message.import = j
          PROVE  RunsOf(i)' = RunsOf(i) /\ \A d \in RunsOf(i) : run'[d] = run[d]
      <3>1. e \notin RunsOf(i) /\ e \notin RunsOf(i)'
        BY <2>2, RunsMove DEF RunsOf
      <3>2. \A d \in Executions \ {e} : d \in RunsOf(i)' <=> d \in RunsOf(i)
        BY <2>2, RunsMove
      <3>3. RunsOf(i) \subseteq Executions /\ RunsOf(i)' \subseteq Executions
        BY DEF RunsOf
      <3>4. \A d \in Executions \ {e} : run'[d] = run[d]
        BY <2>2, RunsMove
      <3> QED
        BY <3>1, <3>2, <3>3, <3>4
    <2> QED
      BY <2>1, <2>2
  <1>2. Elsewhere(i)
    BY <1>1 DEF Concerns, Elsewhere
  <1> QED
    BY <1>2, TellsElsewhere

-----------------------------------------------------------------------------
(* What each step leaves true of the import it concerns.                   *)

LEMMA TypesOf ==
  ASSUME Typed
  PROVE  /\ imports \in [Imports -> ImportDocument]
         /\ queue \subseteq Message
         /\ callback \in [Imports -> {"idle", "send"}]
         /\ cut \in [Imports -> SUBSET {"failed", "died", "overlapped"}]
         /\ \A e \in Executions : run[e].pc # "idle" =>
              /\ run[e] \in RunRecord
              /\ Holds(run[e])
              /\ Counts(run[e])
              /\ run[e].message.import \in Imports
  BY RunTyped DEF Typed, Inv, Types

LEMMA StatusesDiffer ==
  /\ {"none", "expired"} \cap {PREPROCESSING, PROCESSING, COMPLETED, FAILED} = {}
  /\ {PREPROCESSING, PROCESSING} \cap {COMPLETED, FAILED} = {}
  /\ PREPROCESSING # PROCESSING /\ COMPLETED # FAILED /\ "none" # "expired"
  BY DEF PREPROCESSING, PROCESSING, COMPLETED, FAILED

(* What updateStatus leaves of a document, open or not.                    *)
LEMMA StatusMoves ==
  ASSUME Typed, NEW j \in Imports, NEW status \in {PROCESSING, COMPLETED, FAILED},
         UpdateStatus(j, status)
  PROVE  /\ \A i \in Imports \ {j} : imports'[i] = imports[i]
         /\ imports'[j].files = imports[j].files
         /\ Open(j) => imports'[j].status = status
         /\ ~ Open(j) => imports'[j] = imports[j]
  <1>1. imports \in [Imports -> ImportDocument] /\ imports[j] \in ImportDocument
    BY TypesOf
  <1>2. Open(j) <=> Exists(j) /\ imports[j].status \notin ORS_IMPORT_TERMINAL_STATUSES
    BY TransitionsNamed, StatusesDiffer DEF Open, Exists
  <1>3. CASE Open(j)
    <2> DEFINE doc == [imports[j] EXCEPT !.status = status]
    <2>1. imports' = [imports EXCEPT ![j] = doc]
      BY <1>2, <1>3 DEF UpdateStatus
    <2>2. doc.status = status /\ doc.files = imports[j].files
      BY <1>1 DEF ImportDocument
    <2> HIDE DEF doc
    <2> QED
      BY <1>1, <1>3, <2>1, <2>2
  <1>4. CASE ~ Open(j)
    BY <1>2, <1>4 DEF UpdateStatus
  <1> QED
    BY <1>3, <1>4

(* An execution that works on, with the results it had or more.            *)
LEMMA WorkTells ==
  ASSUME Typed, Typed', \A i \in Imports : Tells(i), NEW e \in Executions,
         run[e].pc # "idle", NEW j, j = run[e].message.import,
         NEW x \in RunRecord, Become(e, x), x.message = run[e].message, x.live = run[e].live,
         UNCHANGED <<callback, queue, cut>>,
         \A i \in Imports \ {j} :
           imports'[i] = imports[i] /\ (i \in applied' <=> i \in applied),
         Open(j)' <=> Open(j),
         ~ Open(j) => imports'[j].status = imports[j].status,
         imports[j].files # <<>> => imports'[j].files # <<>>,
         Open(j) /\ "overlapped" \notin cut[j] => Recorded(j, x)' /\ x.pc # "read",
         j \in applied' => j \in applied \/ Succeeded(x),
         Succeeded(run[e]) => Succeeded(x)
  PROVE  \A i \in Imports : Tells(i)'
  <1>1. run[e] \in RunRecord /\ j \in Imports /\ x.pc # "idle" /\ x.message.import = j
    BY TypesOf, NoRunIsIdle
  <1>2. e \in RunsOf(j) /\ RunsOf(j)' = RunsOf(j)
    BY <1>1, RunsMove DEF RunsOf
  <1>3. run'[e] = x /\ \A d \in Executions \ {e} : run'[d] = run[d]
    BY RunsMove
  <1>4. ~ Still(j) /\ Tells(j)
    BY <1>1, <1>2 DEF Still
  <1>5. \A i \in Imports \ {j} : Tells(i)'
    <2>1. Concerns(j)
      BY DEF Concerns
    <2> QED
      BY <1>1, <2>1, OthersTell
  <1>6. SentWithFiles(j)'
    <2>1. imports[j].status # "none" /\ imports'[j].status # "none"
      BY <1>4, StatusesDiffer DEF Tells, SentWithFiles, Open
    <2>2. Exists(j)' => Exists(j)
      BY TransitionsNamed DEF Exists, Open
    <2>3. Exists(j)' => imports'[j].files # <<>>
      BY <1>4, <2>2 DEF Tells, SentWithFiles
    <2>4. callback'[j] # "send"
      BY <1>2, <1>4 DEF Tells, SentWithFiles
    <2> QED
      BY <2>1, <2>3, <2>4 DEF SentWithFiles
  <1>7. OneWorks(j)'
    <2>1. \A d \in RunsOf(j) : run'[d].live = run[d].live
      BY <1>3 DEF RunsOf
    <2>2. ASSUME "overlapped" \notin cut[j], Open(j), NEW d \in RunsOf(j), run'[d].pc # "read"
          PROVE  Recorded(j, run[d])'
      <3>1. CASE d = e
        BY <1>3, <2>2, <3>1 DEF Recorded
      <3>2. CASE d # e
        <4>1. run[e].live /\ run[d].live
          BY <1>2, <1>4, <2>2 DEF Tells, OneWorks
        <4> QED
          BY <1>2, <1>4, <2>2, <3>2, <4>1 DEF Tells, OneWorks
      <3> QED
        BY <3>1, <3>2
    <2> QED
      BY <1>2, <1>4, <2>1, <2>2 DEF Tells, OneWorks
  <1>8. CompletedIsOver(j)'
    BY <1>4, StatusesDiffer DEF Tells, CompletedIsOver, Open
  <1>9. AppliedIsSuccess(j)'
    <2>1. CASE cut[j] = {}
      <3>1. imports'[j].status # FAILED
        BY <1>4, <2>1, StatusesDiffer DEF Tells, AppliedIsSuccess, Open
      <3>2. ASSUME Open(j), j \in applied' PROVE \E d \in RunsOf(j) : Succeeded(run[d])'
        <4>1. CASE Succeeded(x)
          BY <1>2, <1>3, <4>1 DEF Succeeded
        <4>2. CASE j \in applied /\ ~ Succeeded(run[e])
          <5>1. PICK d \in RunsOf(j) : Succeeded(run[d])
            BY <1>4, <2>1, <3>2, <4>2 DEF Tells, AppliedIsSuccess
          <5>2. run'[d] = run[d]
            BY <1>3, <4>2, <5>1 DEF RunsOf
          <5> QED
            BY <5>1, <5>2 DEF Succeeded
        <4> QED
          BY <3>2, <4>1, <4>2
      <3> QED
        BY <1>2, <3>1, <3>2 DEF AppliedIsSuccess
    <2> QED
      BY <2>1 DEF AppliedIsSuccess
  <1>10. Tells(j)'
    BY <1>6, <1>7, <1>8, <1>9 DEF Tells
  <1> QED
    BY <1>5, <1>10

(* An execution that ends, and with it perhaps its import and its message. *)
Ends(e, j) ==
  /\ run[e].pc # "idle" /\ j = run[e].message.import /\ Become(e, Idle)
  /\ UNCHANGED <<callback, applied>>
  /\ queue' \subseteq queue /\ \A m \in queue : m.import # j => m \in queue'
  /\ \A i \in Imports \ {j} : imports'[i] = imports[i] /\ cut'[i] = cut[i]
  /\ cut[j] \subseteq cut'[j]
  /\ imports'[j].files = imports[j].files
  /\ \/ imports'[j].status = imports[j].status
     \/ Open(j) /\ imports'[j].status \in {COMPLETED, FAILED}

LEMMA EndTells ==
  ASSUME Typed, Typed', \A i \in Imports : Tells(i), NEW e \in Executions, NEW j, Ends(e, j),
         CompletedIsOver(j)', AppliedIsSuccess(j)'
  PROVE  \A i \in Imports : Tells(i)'
  <1> USE DEF Ends
  <1>1. j \in Imports /\ Idle.pc = "idle"
    BY TypesOf, IdleHolds
  <1>2. e \in RunsOf(j) /\ RunsOf(j)' = RunsOf(j) \ {e}
    BY <1>1, RunsMove DEF RunsOf
  <1>3. \A d \in RunsOf(j)' : run'[d] = run[d]
    BY <1>2, RunsMove DEF RunsOf
  <1>4. ~ Still(j) /\ Tells(j)
    BY <1>1, <1>2 DEF Still
  <1>5. \A i \in Imports \ {j} : Tells(i)'
    <2>1. Concerns(j)
      BY TypesOf DEF Concerns
    <2> QED
      BY <1>1, <2>1, OthersTell
  <1>6. Open(j)' => imports'[j] = imports[j] /\ Open(j)
    <2>1. imports[j] \in ImportDocument /\ imports'[j] \in ImportDocument
      BY <1>1 DEF Typed, Inv, Types
    <2>2. ASSUME Open(j)' PROVE imports'[j].status = imports[j].status
      BY <2>2, StatusesDiffer DEF Open
    <2>3. imports'[j].status = imports[j].status => imports'[j] = imports[j]
      BY <2>1 DEF ImportDocument
    <2> QED
      BY <2>2, <2>3 DEF Open
  <1>7. SentWithFiles(j)'
    <2>1. imports'[j].status # "none"
      BY <1>4, StatusesDiffer DEF Tells, SentWithFiles
    <2>2. Exists(j)' => Exists(j)
      BY TransitionsNamed DEF Exists, Open
    <2>3. callback'[j] # "send"
      BY <1>2, <1>4 DEF Tells, SentWithFiles
    <2> QED
      BY <1>4, <2>1, <2>2, <2>3 DEF Tells, SentWithFiles
  <1>8. OneWorks(j)'
    <2>1. Open(j)' => \A d \in RunsOf(j)' : run'[d].live
      BY <1>2, <1>3, <1>4, <1>6 DEF Tells, OneWorks
    <2>2. ASSUME "overlapped" \notin cut'[j], NEW c \in RunsOf(j)', NEW d \in RunsOf(j)',
                 run'[c].live, run'[d].live
          PROVE  c = d
      BY <1>2, <1>3, <1>4, <2>2 DEF Tells, OneWorks
    <2>3. ASSUME "overlapped" \notin cut'[j], Open(j)', NEW d \in RunsOf(j)', run'[d].pc # "read"
          PROVE  Recorded(j, run[d])'
      BY <1>2, <1>3, <1>4, <1>6, <2>3 DEF Tells, OneWorks, Recorded
    <2> QED
      BY <2>1, <2>2, <2>3 DEF OneWorks
  <1> QED
    BY <1>5, <1>7, <1>8 DEF Tells

(* The steps within a file, and their calls that fail.                     *)
LEMMA InnerTells ==
  ASSUME Typed, Typed', \A i \in Imports : Tells(i), NEW e \in Executions,
         run[e].pc \in {"fetch", "resolve", "find", "create", "delete"},
         NEW x \in RunRecord, Become(e, x),
         x.message = run[e].message, x.live = run[e].live, x.files = run[e].files,
         x.results = run[e].results, x.pc # "read",
         UNCHANGED <<imports, callback, queue, cut, applied>>,
         run[e].pc = "delete" => x.pc = "record" /\ x.result = run[e].result
  PROVE  \A i \in Imports : Tells(i)'
  <1>1. PICK j : j = run[e].message.import
    OBVIOUS
  <1>2. j \in Imports /\ e \in RunsOf(j)
    BY <1>1, TypesOf DEF RunsOf
  <1>3. Open(j)' <=> Open(j)
    BY DEF Open
  <1>4. ASSUME Open(j), "overlapped" \notin cut[j] PROVE Recorded(j, x)'
    BY <1>2, <1>4 DEF Tells, OneWorks, Recorded
  <1>5. Succeeded(run[e]) => Succeeded(x)
    BY DEF Succeeded
  <1> QED
    BY <1>1, <1>3, <1>4, <1>5, WorkTells

LEMMA FileTells ==
  ASSUME Typed, Typed', \A i \in Imports : Tells(i), NEW e \in Executions,
         FetchFile(e) \/ ResolveRegistration(e) \/ FindSite(e) \/ CreateSite(e) \/ DeleteFile(e)
  PROVE  \A i \in Imports : Tells(i)'
  <1> DEFINE R == run[e]
  <1>1. /\ R \in RunRecord /\ R.pc \in {"fetch", "resolve", "find", "create", "delete"}
        /\ UNCHANGED <<imports, callback, queue, cut, applied>>
    BY TypesOf DEF FetchFile, ResolveRegistration, FindSite, CreateSite, DeleteFile
  <1>2. run'[e] \in {Idle} \cup RunRecord
    BY DEF Typed, Inv, Types
  <1> DEFINE Goes(x) ==
        /\ Become(e, x)
        /\ x.message = R.message /\ x.live = R.live /\ x.files = R.files /\ x.results = R.results
        /\ x.pc \notin {"read", "idle"}
        /\ R.pc = "delete" => x.pc = "record" /\ x.result = R.result
  <1>3. ASSUME NEW x, Goes(x) PROVE \A i \in Imports : Tells(i)'
    <2>1. run'[e] = x
      BY <1>3, RunsMove
    <2>2. x \in RunRecord
      BY <1>2, <1>3, <2>1, IdleHolds
    <2> QED
      BY <1>1, <1>3, <2>2, InnerTells
  <1>4. CASE FetchFile(e)
    <2>1. PICK x \in {[R EXCEPT !.pc = "record", !.result = FAILURE],
                      [R EXCEPT !.pc = "delete", !.result = FAILURE],
                      [R EXCEPT !.pc = "resolve"]} : Become(e, x)
      BY <1>4 DEF FetchFile
    <2>2. Goes(x)
      BY <1>1, <1>4, <2>1 DEF RunRecord, FetchFile
    <2> QED
      BY <1>3, <2>2
  <1>5. CASE ResolveRegistration(e)
    <2>1. PICK x : /\ Become(e, x)
                   /\ x = [R EXCEPT !.pc = "find", !.version = registration.version,
                             !.todo = Content[File(R)], !.map = {}]
      BY <1>5 DEF ResolveRegistration
    <2>2. Goes(x)
      BY <1>1, <1>5, <2>1 DEF RunRecord, ResolveRegistration
    <2> QED
      BY <1>3, <2>2
  <1>6. CASE FindSite(e)
    <2>1. PICK s, n : \E x \in {[R EXCEPT !.pc = "create", !.site = s],
                             [R EXCEPT !.todo = @ \ {s}, !.map = @ \cup {n}]} : Become(e, x)
      BY <1>6 DEF FindSite
    <2>2. PICK x \in {[R EXCEPT !.pc = "create", !.site = s],
                      [R EXCEPT !.todo = @ \ {s}, !.map = @ \cup {n}]} : Become(e, x)
      BY <2>1
    <2>3. Goes(x)
      BY <1>1, <1>6, <2>2 DEF RunRecord, FindSite
    <2> QED
      BY <1>3, <2>3
  <1>7. CASE CreateSite(e)
    <2>1. PICK n : Become(e, [R EXCEPT !.pc = "find", !.todo = @ \ {R.site},
                                !.map = @ \cup {n}, !.site = NoSite])
      BY <1>7 DEF CreateSite
    <2>2. PICK x : x = [R EXCEPT !.pc = "find", !.todo = @ \ {R.site},
                          !.map = @ \cup {n}, !.site = NoSite]
      OBVIOUS
    <2>3. Goes(x)
      BY <1>1, <1>7, <2>1, <2>2 DEF RunRecord, CreateSite
    <2> QED
      BY <1>3, <2>3
  <1>8. CASE DeleteFile(e)
    <2>1. PICK x : Become(e, x) /\ x = [R EXCEPT !.pc = "record"]
      BY <1>8 DEF DeleteFile
    <2>2. Goes(x)
      BY <1>1, <2>1 DEF RunRecord
    <2> QED
      BY <1>3, <2>2
  <1> QED
    BY <1>4, <1>5, <1>6, <1>7, <1>8

LEMMA ReplaceTells ==
  ASSUME Typed, Typed', \A i \in Imports : Tells(i), NEW e \in Executions, ReplaceSites(e)
  PROVE  \A i \in Imports : Tells(i)'
  <1>1. /\ run[e] \in RunRecord /\ run[e].pc = "find" /\ run[e].message.import \in Imports
        /\ UNCHANGED <<imports, callback, queue, cut>>
    BY TypesOf DEF ReplaceSites
  <1>2. PICK j : j = run[e].message.import
    OBVIOUS
  <1>3. e \in RunsOf(j) /\ j \in Imports
    BY <1>1, <1>2 DEF RunsOf
  <1>4. PICK result \in {SUCCESS, FAILURE} :
          /\ Become(e, [run[e] EXCEPT !.pc = "delete", !.result = result])
          /\ \/ result = SUCCESS /\ applied' = applied \cup {j}
             \/ UNCHANGED applied
    BY <1>2 DEF ReplaceSites
  <1>5. PICK x : x = [run[e] EXCEPT !.pc = "delete", !.result = result]
    OBVIOUS
  <1>6. /\ x.message = run[e].message /\ x.live = run[e].live /\ x.files = run[e].files
        /\ x.results = run[e].results /\ x.pc = "delete" /\ x.result = result
    BY <1>1, <1>5 DEF RunRecord
  <1>7. x \in RunRecord /\ Become(e, x)
    BY <1>1, <1>4, <1>5 DEF RunRecord, FileResult
  <1>8. Open(j)' <=> Open(j)
    BY <1>1 DEF Open
  <1>9. ASSUME Open(j), "overlapped" \notin cut[j] PROVE Recorded(j, x)'
    BY <1>1, <1>3, <1>6, <1>9 DEF Tells, OneWorks, Recorded
  <1>10. Succeeded(run[e]) => Succeeded(x)
    BY <1>1, <1>6 DEF Succeeded
  <1>11. j \in applied' => j \in applied \/ Succeeded(x)
    BY <1>4, <1>6 DEF Succeeded
  <1>12. \A i \in Imports \ {j} : i \in applied' <=> i \in applied
    BY <1>4
  <1> QED
    BY <1>1, <1>2, <1>6, <1>7, <1>8, <1>9, <1>10, <1>11, <1>12, WorkTells

LEMMA ReadTells ==
  ASSUME Typed, Typed', \A i \in Imports : Tells(i), NEW e \in Executions, ReadImport(e)
  PROVE  \A i \in Imports : Tells(i)'
  <1>1. /\ run[e] \in RunRecord /\ run[e].pc = "read" /\ run[e].message.import \in Imports
        /\ run[e].results = <<>>
        /\ UNCHANGED <<imports, callback, applied, cut>>
    BY TypesOf DEF ReadImport, Holds
  <1>2. PICK j : j = run[e].message.import
    OBVIOUS
  <1>3. e \in RunsOf(j) /\ j \in Imports /\ imports[j] \in ImportDocument
    BY <1>1, <1>2, TypesOf DEF RunsOf
  <1>4. Open(j) <=> Exists(j) /\ imports[j].status \notin ORS_IMPORT_TERMINAL_STATUSES
    BY TransitionsNamed, StatusesDiffer DEF Open, Exists
  <1>5. CASE Open(j)
    <2>1. PICK files : /\ files = [k \in DOMAIN imports[j].files |-> imports[j].files[k].file]
                       /\ Become(e, [run[e] EXCEPT !.pc = "start", !.files = files])
                       /\ UNCHANGED queue
      BY <1>2, <1>4, <1>5 DEF ReadImport
    <2>2. PICK x : x = [run[e] EXCEPT !.pc = "start", !.files = files]
      OBVIOUS
    <2>3. /\ x.message = run[e].message /\ x.live = run[e].live /\ x.files = files
          /\ x.results = <<>> /\ x.pc = "start"
      BY <1>1, <2>2 DEF RunRecord
    <2>4. Become(e, x) /\ x \in RunRecord
      <3>1. Become(e, x)
        BY <2>1, <2>2
      <3>2. run'[e] = x /\ run'[e] \in {Idle} \cup RunRecord
        BY <3>1, RunsMove DEF Typed, Inv, Types
      <3> QED
        BY <2>3, <3>1, <3>2, IdleHolds
    <2>5. Len(files) = Len(imports[j].files)
      <3>1. imports[j].files \in Seq(ListedFile)
        BY <1>3 DEF ImportDocument
      <3> QED
        BY <2>1, <3>1
    <2>6. Recorded(j, x)'
      BY <1>1, <2>3, <2>5 DEF Recorded
    <2>7. Succeeded(run[e]) => Succeeded(x)
      BY <1>1, <2>3 DEF Succeeded
    <2>8. Open(j)' <=> Open(j)
      BY <1>1 DEF Open
    <2> QED
      BY <1>1, <1>2, <1>5, <2>1, <2>3, <2>4, <2>6, <2>7, <2>8, WorkTells
  <1>6. CASE ~ Open(j)
    <2>1. Become(e, Idle) /\ Acknowledge(run[e])
      BY <1>2, <1>4, <1>6 DEF ReadImport
    <2>2. queue' \subseteq queue /\ \A m \in queue : m.import # j => m \in queue'
      BY <1>2, <2>1 DEF Acknowledge
    <2>3. ~ Still(j)
      BY <1>3 DEF Still
    <2>4. CompletedIsOver(j)'
      BY <1>1, <1>3, <2>3 DEF Tells, CompletedIsOver
    <2>5. AppliedIsSuccess(j)'
      BY <1>1, <1>3, <1>6, <2>3 DEF Tells, AppliedIsSuccess, Open
    <2>6. Ends(e, j)
      BY <1>1, <1>2, <2>1, <2>2 DEF Ends
    <2> QED
      BY <2>4, <2>5, <2>6, EndTells
  <1> QED
    BY <1>5, <1>6

LEMMA StartProcessingTells ==
  ASSUME Typed, Typed', \A i \in Imports : Tells(i), NEW e \in Executions, StartProcessing(e)
  PROVE  \A i \in Imports : Tells(i)'
  <1>1. /\ run[e] \in RunRecord /\ run[e].pc = "start" /\ run[e].message.import \in Imports
        /\ UNCHANGED <<callback, queue, applied, cut>>
    BY TypesOf DEF StartProcessing
  <1>2. PICK j : j = run[e].message.import
    OBVIOUS
  <1>3. e \in RunsOf(j) /\ j \in Imports
    BY <1>1, <1>2 DEF RunsOf
  <1>4. PICK x : Become(e, x) /\ x = [run[e] EXCEPT !.pc = IF run[e].files = <<>> THEN "finish" ELSE "fetch"]
    BY DEF StartProcessing
  <1>5. /\ x.message = run[e].message /\ x.live = run[e].live /\ x.files = run[e].files
        /\ x.results = run[e].results /\ x.pc \in {"finish", "fetch"} /\ x \in RunRecord
    BY <1>1, <1>4 DEF RunRecord
  <1>6. /\ \A i \in Imports \ {j} : imports'[i] = imports[i]
        /\ imports'[j].files = imports[j].files
        /\ Open(j) => imports'[j].status = PROCESSING
        /\ ~ Open(j) => imports'[j] = imports[j]
    BY <1>2, <1>3, StatusMoves DEF StartProcessing
  <1>7. Open(j)' <=> Open(j)
    BY <1>6 DEF Open
  <1>8. ASSUME Open(j), "overlapped" \notin cut[j] PROVE Recorded(j, x)'
    BY <1>1, <1>3, <1>5, <1>6, <1>8 DEF Tells, OneWorks, Recorded
  <1>9. Succeeded(run[e]) => Succeeded(x)
    BY <1>1, <1>5 DEF Succeeded
  <1> QED
    BY <1>1, <1>2, <1>4, <1>5, <1>6, <1>7, <1>8, <1>9, WorkTells

(* What recordFileResult leaves of a document.                             *)
LEMMA ResultMoves ==
  ASSUME Typed, NEW j \in Imports, NEW index \in Nat, NEW result \in FileResult,
         RecordFileResult(j, index, result)
  PROVE  /\ \A i \in Imports \ {j} : imports'[i] = imports[i]
         /\ imports'[j].status = imports[j].status
         /\ Len(imports'[j].files) = Len(imports[j].files)
         /\ \A k \in 1..Len(imports[j].files) :
              imports'[j].files[k].result = IF Exists(j) /\ k = index THEN result
                                            ELSE imports[j].files[k].result
         /\ imports[j].files # <<>> => imports'[j].files # <<>>
  <1>1. imports \in [Imports -> ImportDocument] /\ imports[j] \in ImportDocument
    BY TypesOf
  <1> DEFINE old   == imports[j].files
             file  == [old[index] EXCEPT !.result = result]
             files == [old EXCEPT ![index] = file]
             doc   == [imports[j] EXCEPT !.files = files]
  <1>2. old \in Seq(ListedFile)
    BY <1>1 DEF ImportDocument
  <1>3. CASE Exists(j)
    <2>1. imports' = [imports EXCEPT ![j] = doc]
      BY <1>3 DEF RecordFileResult
    <2>2. doc.status = imports[j].status /\ doc.files = files
      BY <1>1 DEF ImportDocument
    <2>3. index \in 1..Len(old) => file.result = result
      <3>1. index \in 1..Len(old) => old[index] \in ListedFile
        BY <1>2
      <3> QED
        BY <3>1 DEF ListedFile
    <2> HIDE DEF doc, file
    <2>4. Len(files) = Len(old) /\ DOMAIN files = DOMAIN old
          /\ \A k \in 1..Len(old) : files[k] = IF k = index THEN file ELSE old[k]
      BY <1>2
    <2>5. imports'[j] = doc /\ \A i \in Imports \ {j} : imports'[i] = imports[i]
      BY <1>1, <2>1
    <2>6. \A k \in 1..Len(old) : files[k].result = IF k = index THEN result ELSE old[k].result
      BY <2>3, <2>4
    <2>7. old # <<>> => files # <<>>
      BY <1>2, <2>4
    <2> HIDE DEF files
    <2> QED
      BY <1>3, <2>2, <2>4, <2>5, <2>6, <2>7
  <1>4. CASE ~ Exists(j)
    BY <1>4 DEF RecordFileResult
  <1> QED
    BY <1>3, <1>4

LEMMA RecordTells ==
  ASSUME Typed, Typed', \A i \in Imports : Tells(i), NEW e \in Executions, RecordResult(e)
  PROVE  \A i \in Imports : Tells(i)'
  <1>1. /\ run[e] \in RunRecord /\ run[e].pc = "record" /\ run[e].message.import \in Imports
        /\ Len(run[e].results) < Len(run[e].files)
        /\ run[e].result \in {SUCCESS, FAILURE} /\ run[e].results \in Seq({SUCCESS, FAILURE})
        /\ run[e].files \in Seq(Files)
        /\ UNCHANGED <<callback, queue, applied, cut>>
    BY TypesOf DEF RecordResult, Holds, Counts, RunRecord
  <1>2. PICK j : j = run[e].message.import
    OBVIOUS
  <1>3. e \in RunsOf(j) /\ j \in Imports
    BY <1>1, <1>2 DEF RunsOf
  <1>4. PICK results : results = Append(run[e].results, run[e].result)
    OBVIOUS
  <1>5. PICK x :
          /\ Become(e, x)
          /\ x = [run[e] EXCEPT !.results = results, !.result = "none", !.version = 0,
                    !.map = {}, !.todo = {}, !.site = NoSite,
                    !.pc = IF Len(results) = Len(run[e].files) THEN "finish" ELSE "fetch"]
    BY <1>4 DEF RecordResult
  <1>6. RecordFileResult(j, Len(results), run[e].result)
    BY <1>2, <1>4 DEF RecordResult
  <1>7. /\ Len(results) = Len(run[e].results) + 1 /\ Len(results) \in Nat
        /\ Len(results) <= Len(run[e].files)
        /\ results[Len(results)] = run[e].result
        /\ \A k \in 1..Len(run[e].results) : results[k] = run[e].results[k]
    BY <1>1, <1>4
  <1>8. /\ x.message = run[e].message /\ x.live = run[e].live /\ x.files = run[e].files
        /\ x.results = results /\ x.pc \in {"finish", "fetch"}
    BY <1>1, <1>5 DEF RunRecord
  <1>9. x \in RunRecord
    <2>1. run'[e] = x /\ run'[e] \in {Idle} \cup RunRecord
      BY <1>5, RunsMove DEF Typed, Inv, Types
    <2> QED
      BY <1>8, <2>1, IdleHolds
  <1>10. /\ \A i \in Imports \ {j} : imports'[i] = imports[i]
         /\ imports'[j].status = imports[j].status
         /\ Len(imports'[j].files) = Len(imports[j].files)
         /\ \A k \in 1..Len(imports[j].files) :
              imports'[j].files[k].result = IF Exists(j) /\ k = Len(results) THEN run[e].result
                                            ELSE imports[j].files[k].result
         /\ imports[j].files # <<>> => imports'[j].files # <<>>
    <2>1. run[e].result \in FileResult /\ Len(results) \in Nat
      BY <1>1, <1>7 DEF FileResult
    <2> QED
      BY ONLY Typed, <1>3, <1>6, <2>1, ResultMoves
  <1>11. Open(j)' <=> Open(j)
    BY <1>10 DEF Open
  <1>12. ASSUME Open(j), "overlapped" \notin cut[j] PROVE Recorded(j, x)'
    <2>1. Recorded(j, run[e])
      BY <1>1, <1>3, <1>12 DEF Tells, OneWorks
    <2>2. Exists(j)
      BY <1>12, TransitionsNamed DEF Open, Exists
    <2>3. Len(run[e].files) = Len(imports[j].files) /\ Len(run[e].files) \in Nat
      BY <1>1, <2>1 DEF Recorded
    <2>4. ASSUME NEW k \in 1..Len(results) PROVE imports'[j].files[k].result = results[k]
      <3>1. k \in 1..Len(imports[j].files) /\ (k = Len(results) \/ k \in 1..Len(run[e].results))
        BY <1>1, <1>7, <2>3
      <3>2. CASE k = Len(results)
        BY <1>7, <1>10, <2>2, <3>1, <3>2
      <3>3. CASE k # Len(results)
        BY <1>7, <1>10, <2>1, <3>1, <3>3 DEF Recorded
      <3> QED
        BY <3>2, <3>3
    <2> QED
      BY <1>8, <1>10, <2>1, <2>4 DEF Recorded
  <1>13. Succeeded(run[e]) => Succeeded(x)
    <2>1. ASSUME NEW k \in 1..Len(run[e].results), run[e].results[k] = SUCCESS
          PROVE  SUCCESS \in ToSet(results)
      <3>1. k \in 1..Len(results) /\ results[k] = SUCCESS
        BY <1>1, <1>7, <2>1
      <3>2. results \in Seq({SUCCESS, FAILURE})
        BY <1>1, <1>4
      <3> QED
        BY <3>1, <3>2 DEF ToSet
    <2>2. ASSUME run[e].result = SUCCESS PROVE SUCCESS \in ToSet(results)
      <3>1. results \in Seq({SUCCESS, FAILURE}) /\ Len(results) \in DOMAIN results
        BY <1>1, <1>4, <1>7
      <3> QED
        BY <1>7, <2>2, <3>1 DEF ToSet
    <2>3. SUCCESS \in ToSet(run[e].results) =>
            \E k \in 1..Len(run[e].results) : run[e].results[k] = SUCCESS
      BY <1>1 DEF ToSet
    <2> QED
      BY <1>8, <2>1, <2>2, <2>3 DEF Succeeded
  <1>14. /\ Become(e, x)
         /\ run[e].pc # "idle" /\ x.pc # "read"
         /\ UNCHANGED <<callback, queue, cut>>
         /\ \A i \in Imports \ {j} : imports'[i] = imports[i] /\ (i \in applied' <=> i \in applied)
         /\ j \in applied' => j \in applied \/ Succeeded(x)
         /\ imports[j].files # <<>> => imports'[j].files # <<>>
         /\ ~ Open(j) => imports'[j].status = imports[j].status
    BY <1>1, <1>5, <1>8, <1>10
  <1>15. Open(j) /\ "overlapped" \notin cut[j] => Recorded(j, x)' /\ x.pc # "read"
    BY <1>12, <1>14
  <1> QED
    BY ONLY Typed, Typed', \A i \in Imports : Tells(i), <1>2, <1>8, <1>9, <1>11, <1>13, <1>14,
            <1>15, WorkTells

LEMMA FinishTells ==
  ASSUME Typed, Typed', \A i \in Imports : Tells(i), NEW e \in Executions, Finish(e)
  PROVE  \A i \in Imports : Tells(i)'
  <1> DEFINE R == run[e]
  <1>1. /\ R \in RunRecord /\ R.pc = "finish" /\ R.message.import \in Imports
        /\ Len(R.results) = Len(R.files) /\ R.results \in Seq({SUCCESS, FAILURE})
        /\ UNCHANGED <<callback, applied, cut>>
        /\ Become(e, Idle) /\ Acknowledge(R)
    BY TypesOf DEF Finish, Counts
  <1>2. PICK j : j = R.message.import
    OBVIOUS
  <1>3. e \in RunsOf(j) /\ j \in Imports
    BY <1>1, <1>2 DEF RunsOf
  <1>4. PICK status \in {COMPLETED, FAILED} :
          /\ UpdateStatus(j, status)
          /\ status = FAILED <=> AllFailed(R.results)
    BY <1>2, StatusesDiffer DEF Finish
  <1>5. /\ \A i \in Imports \ {j} : imports'[i] = imports[i]
        /\ imports'[j].files = imports[j].files
        /\ Open(j) => imports'[j].status = status
        /\ ~ Open(j) => imports'[j] = imports[j]
    BY <1>3, <1>4, StatusMoves
  <1>6. Ends(e, j)
    <2>1. queue' \subseteq queue /\ \A m \in queue : m.import # j => m \in queue'
      BY <1>1, <1>2 DEF Acknowledge
    <2> QED
      BY <1>1, <1>2, <1>5, <2>1 DEF Ends
  <1>7. ~ Still(j) /\ Tells(j)
    BY <1>3 DEF Still
  <1>8. ASSUME Open(j), "overlapped" \notin cut[j]
        PROVE  /\ Still(j)' /\ RunsOf(j) = {e}
               /\ Len(R.results) = Len(imports[j].files) /\ imports[j].files # <<>>
               /\ \A k \in 1..Len(R.results) : imports'[j].files[k].result = R.results[k]
    <2>1. RunsOf(j) = {e} /\ R.live
      BY <1>3, <1>7, <1>8 DEF Tells, OneWorks
    <2>2. RunsOf(j)' = {}
      <3>1. RunsOf(j)' = RunsOf(j) \ {e}
        BY <1>1, <1>3, IdleHolds, RunsMove DEF RunsOf
      <3> QED
        BY <2>1, <3>1
    <2>3. callback'[j] = "idle"
      BY <1>1, <1>3, <1>7, TypesOf DEF Tells, SentWithFiles
    <2>4. \A m \in queue' : m.import # j
      BY <1>1, <1>2, <2>1 DEF Acknowledge
    <2>5. Recorded(j, R)
      BY <1>1, <1>3, <1>7, <1>8 DEF Tells, OneWorks
    <2>6. imports[j].files # <<>>
      BY <1>7, <1>8, TransitionsNamed DEF Tells, SentWithFiles, Open, Exists
    <2> QED
      BY <1>1, <1>5, <2>1, <2>2, <2>3, <2>4, <2>5, <2>6 DEF Still, Recorded
  <1>9. CompletedIsOver(j)'
    <2> SUFFICES ASSUME imports'[j].status = COMPLETED, "overlapped" \notin cut[j]
                 PROVE  /\ Still(j)'
                        /\ \A k \in 1..Len(imports'[j].files) : imports'[j].files[k].result # "none"
                        /\ \E k \in 1..Len(imports'[j].files) : imports'[j].files[k].result = SUCCESS
      BY <1>1 DEF CompletedIsOver
    <2>1. Open(j)
      BY <1>5, <1>7 DEF Tells, CompletedIsOver
    <2>2. status = COMPLETED /\ ~ AllFailed(R.results)
      BY <1>4, <1>5, <2>1, StatusesDiffer
    <2>3. Len(imports'[j].files) = Len(R.results) /\ R.results # <<>>
      <3>1. imports[j].files \in Seq(ListedFile)
        BY <1>3, TypesOf DEF ImportDocument
      <3> QED
        BY <1>1, <1>5, <1>8, <2>1, <3>1
    <2>4. \E k \in 1..Len(R.results) : R.results[k] = SUCCESS
      BY <1>1, <2>2, <2>3 DEF AllFailed, ToSet
    <2>5. \A k \in 1..Len(R.results) : R.results[k] # "none"
      BY <1>1 DEF SUCCESS, FAILURE
    <2> QED
      BY <1>8, <2>1, <2>3, <2>4, <2>5
  <1>10. AppliedIsSuccess(j)'
    <2> SUFFICES ASSUME cut[j] = {}
                 PROVE  /\ imports'[j].status = FAILED => Still(j)' /\ j \notin applied
                        /\ ~ Open(j)'
      BY <1>1 DEF AppliedIsSuccess
    <2>1. ~ Open(j)'
      BY <1>5, StatusesDiffer DEF Open
    <2>2. ASSUME imports'[j].status = FAILED PROVE Still(j)' /\ j \notin applied
      <3>1. Open(j)
        BY <1>5, <1>7, <2>2 DEF Tells, AppliedIsSuccess
      <3>2. AllFailed(R.results)
        BY <1>4, <1>5, <2>2, <3>1
      <3>3. ~ Succeeded(R)
        BY <1>1, <3>2 DEF AllFailed, Succeeded
      <3> QED
        BY <1>7, <1>8, <3>1, <3>3 DEF Tells, AppliedIsSuccess
    <2> QED
      BY <2>1, <2>2
  <1> QED
    BY <1>6, <1>9, <1>10, EndTells

(* An execution that throws or dies cuts the import.                       *)
LEMMA CutTells ==
  ASSUME Typed, Typed', \A i \in Imports : Tells(i), NEW e \in Executions,
         (TransientError(e) /\ UNCHANGED <<callback, applied>>) \/ Dies(e), run[e].pc # "idle"
  PROVE  \A i \in Imports : Tells(i)'
  <1>1. run[e].message.import \in Imports
    BY TypesOf
  <1>2. PICK j : j = run[e].message.import
    OBVIOUS
  <1>3. e \in RunsOf(j) /\ j \in Imports
    BY <1>1, <1>2 DEF RunsOf
  <1>4. /\ Become(e, Idle) /\ UNCHANGED <<callback, applied, queue>>
        /\ \E how \in {"failed", "died"} : Cut(j, how)
        /\ UpdateStatus(j, FAILED) \/ UNCHANGED imports
    BY <1>2 DEF TransientError, Dies
  <1>5. cut[j] \subseteq cut'[j] /\ cut'[j] # {} /\ \A i \in Imports \ {j} : cut'[i] = cut[i]
    BY <1>3, <1>4, TypesOf DEF Cut
  <1>6. /\ \A i \in Imports \ {j} : imports'[i] = imports[i]
        /\ imports'[j].files = imports[j].files
        /\ \/ imports'[j].status = imports[j].status
           \/ Open(j) /\ imports'[j].status = FAILED
    BY <1>3, <1>4, StatusMoves
  <1>7. Ends(e, j)
    BY <1>2, <1>4, <1>5, <1>6 DEF Ends
  <1>8. CompletedIsOver(j)'
    <2>1. ~ Still(j)
      BY <1>3 DEF Still
    <2> QED
      BY <1>3, <1>5, <1>6, <2>1, StatusesDiffer DEF Tells, CompletedIsOver
  <1>9. AppliedIsSuccess(j)'
    BY <1>5 DEF AppliedIsSuccess
  <1> QED
    BY <1>7, <1>8, <1>9, EndTells

LEMMA CallFailsTells ==
  ASSUME Typed, Typed', \A i \in Imports : Tells(i), NEW e \in Executions, CallFails(e)
  PROVE  \A i \in Imports : Tells(i)'
  <1> DEFINE R == run[e]
  <1>1. UNCHANGED <<callback, applied>>
    BY DEF CallFails
  <1>2. CASE R.pc \in {"read", "start", "record", "finish"} /\ TransientError(e)
    BY <1>1, <1>2, CutTells
  <1>3. ASSUME R.pc \in {"fetch", "resolve", "find", "create", "delete"},
               NEW x \in {[R EXCEPT !.pc = "record", !.result = FAILURE],
                          [R EXCEPT !.pc = "record"]},
               Become(e, x), UNCHANGED <<imports, queue, cut>>,
               R.pc = "delete" => x = [R EXCEPT !.pc = "record"]
        PROVE  \A i \in Imports : Tells(i)'
    <2>1. R \in RunRecord
      BY <1>3, TypesOf
    <2>2. /\ x \in RunRecord /\ x.message = R.message /\ x.live = R.live /\ x.files = R.files
          /\ x.results = R.results /\ x.pc = "record"
          /\ R.pc = "delete" => x.result = R.result
      BY <1>3, <2>1 DEF RunRecord, FileResult
    <2> QED
      BY <1>1, <1>3, <2>2, InnerTells
  <1> QED
    BY <1>2, <1>3 DEF CallFails

LEMMA TimeoutTells ==
  ASSUME Typed, Typed', \A i \in Imports : Tells(i), NEW e \in Executions, Timeout(e)
  PROVE  \A i \in Imports : Tells(i)'
  <1>1. /\ run[e] \in RunRecord /\ run[e].pc # "idle" /\ run[e].message.import \in Imports
        /\ UNCHANGED <<callback, queue, applied>>
    BY TypesOf DEF Timeout
  <1>2. PICK j : j = run[e].message.import
    OBVIOUS
  <1>3. e \in RunsOf(j) /\ j \in Imports
    BY <1>1, <1>2 DEF RunsOf
  <1>4. PICK x : Become(e, x) /\ x = [run[e] EXCEPT !.live = FALSE]
    BY DEF Timeout
  <1>5. /\ x \in RunRecord /\ ~ x.live /\ x.pc # "idle" /\ x.message.import = j
        /\ Become(e, x)
    BY <1>1, <1>2, <1>4 DEF RunRecord
  <1>6. "failed" \in cut'[j] /\ cut[j] \subseteq cut'[j] /\ \A i \in Imports \ {j} : cut'[i] = cut[i]
    BY <1>2, <1>3, TypesOf DEF Timeout, Cut
  <1>7. /\ \A i \in Imports \ {j} : imports'[i] = imports[i]
        /\ imports'[j].files = imports[j].files
        /\ Open(j) => imports'[j].status = FAILED
        /\ ~ Open(j) => imports'[j] = imports[j]
    BY <1>2, <1>3, StatusMoves DEF Timeout
  <1>8. RunsOf(j)' = RunsOf(j) /\ run'[e] = x /\ \A d \in Executions \ {e} : run'[d] = run[d]
    <2>1. /\ \A d \in Executions \ {e} : d \in RunsOf(j)' <=> d \in RunsOf(j)
          /\ e \in RunsOf(j)' /\ run'[e] = x /\ \A d \in Executions \ {e} : run'[d] = run[d]
      BY <1>3, <1>5, RunsMove
    <2>2. RunsOf(j) \subseteq Executions /\ RunsOf(j)' \subseteq Executions
      BY DEF RunsOf
    <2> QED
      BY <1>3, <2>1, <2>2
  <1>9. ~ Still(j) /\ Tells(j) /\ ~ Open(j)'
    BY <1>3, <1>7, StatusesDiffer DEF Still, Open
  <1>10. \A i \in Imports \ {j} : Tells(i)'
    <2>1. Concerns(j)
      BY <1>1, <1>6, <1>7 DEF Concerns
    <2> QED
      BY <1>1, <1>2, <1>3, <1>5, <2>1, OthersTell
  <1>11. SentWithFiles(j)'
    <2>1. imports'[j].status # "none"
      BY <1>7, <1>9, StatusesDiffer DEF Tells, SentWithFiles
    <2>2. Exists(j)' => imports'[j].files # <<>>
      BY <1>7, <1>9, TransitionsNamed DEF Tells, SentWithFiles, Exists, Open
    <2>3. callback'[j] # "send"
      BY <1>1, <1>3, <1>9 DEF Tells, SentWithFiles
    <2> QED
      BY <2>1, <2>2, <2>3 DEF SentWithFiles
  <1>12. OneWorks(j)'
    <2>1. ASSUME "overlapped" \notin cut'[j], NEW c \in RunsOf(j), NEW d \in RunsOf(j),
                 run'[c].live, run'[d].live
          PROVE  c = d
      <3>1. run[c].live /\ run[d].live
        BY <1>5, <1>8, <2>1 DEF RunsOf
      <3> QED
        BY <1>6, <1>9, <2>1, <3>1 DEF Tells, OneWorks
    <2> QED
      BY <1>8, <1>9, <2>1 DEF OneWorks
  <1>13. CompletedIsOver(j)' /\ AppliedIsSuccess(j)'
    BY <1>6, <1>7, <1>9, StatusesDiffer DEF Tells, CompletedIsOver, AppliedIsSuccess
  <1> QED
    BY <1>10, <1>11, <1>12, <1>13 DEF Tells

(* A message is received while nobody, or somebody, waits for another.     *)
LEMMA StartTells ==
  ASSUME Typed, Typed', \A i \in Imports : Tells(i), NEW e \in Executions, NEW m \in queue,
         Start(e, m), UNCHANGED <<imports, callback, applied>>,
         \/ UNCHANGED cut /\ \A x \in At(m) : ~ run[x].live
         \/ Cut(m.import, "overlapped")
  PROVE  \A i \in Imports : Tells(i)'
  <1>1. PICK j : j = m.import
    OBVIOUS
  <1>2. PICK received : received = [m EXCEPT !.receives = @ + 1]
    OBVIOUS
  <1>3. m \in Message /\ j \in Imports /\ received.import = j
    BY <1>1, <1>2, TypesOf DEF Message
  <1>4. PICK x : /\ Become(e, x)
                 /\ x = [pc |-> "read", message |-> received, live |-> TRUE,
                         files |-> <<>>, results |-> <<>>, result |-> "none",
                         version |-> 0, todo |-> {}, site |-> NoSite, map |-> {}]
    BY <1>2 DEF Start
  <1>5. run[e].pc = "idle" /\ queue' = (queue \ {m}) \cup {received}
    BY <1>2 DEF Start
  <1>6. x.pc = "read" /\ x.message.import = j /\ x.live
    BY <1>3, <1>4
  <1>7. x \in RunRecord
    <2>1. run'[e] = x /\ run'[e] \in {Idle} \cup RunRecord
      BY <1>4, RunsMove DEF Typed, Inv, Types
    <2> QED
      BY <1>6, <2>1, IdleHolds
  <1>8. /\ e \notin RunsOf(j) /\ RunsOf(j)' = RunsOf(j) \cup {e}
        /\ run'[e] = x /\ \A d \in RunsOf(j) : run'[d] = run[d]
    <2>1. e \notin RunsOf(j)
      BY <1>5 DEF RunsOf
    <2>2. /\ \A d \in Executions \ {e} : d \in RunsOf(j)' <=> d \in RunsOf(j)
          /\ e \in RunsOf(j)' /\ run'[e] = x /\ \A d \in Executions \ {e} : run'[d] = run[d]
      BY <1>3, <1>4, <1>6, RunsMove
    <2>3. RunsOf(j) \subseteq Executions /\ RunsOf(j)' \subseteq Executions
      BY DEF RunsOf
    <2> QED
      BY <2>1, <2>2, <2>3
  <1>9. ~ Still(j) /\ Tells(j)
    BY <1>1, <1>3 DEF Still
  <1>10. /\ \A i \in Imports \ {j} : cut'[i] = cut[i]
         /\ \/ cut'[j] = cut[j] /\ \A d \in RunsOf(j) : ~ run[d].live
            \/ "overlapped" \in cut'[j]
    BY <1>1, <1>3, TypesOf DEF Cut, At, RunsOf
  <1>11. \A i \in Imports \ {j} : Tells(i)'
    <2>1. Concerns(j)
      BY <1>1, <1>3, <1>5, <1>10 DEF Concerns
    <2> QED
      BY <1>3, <1>4, <1>5, <1>6, <1>7, <2>1, OthersTell
  <1>12. Open(j)' <=> Open(j)
    BY DEF Open
  <1>13. SentWithFiles(j)'
    BY <1>1, <1>9 DEF Tells, SentWithFiles, Exists
  <1>14. OneWorks(j)'
    <2>1. Open(j)' => \A d \in RunsOf(j)' : run'[d].live
      BY <1>6, <1>8, <1>9, <1>12 DEF Tells, OneWorks
    <2>2. ASSUME "overlapped" \notin cut'[j], NEW c \in RunsOf(j)', NEW d \in RunsOf(j)',
                 run'[c].live, run'[d].live
          PROVE  c = d
      BY <1>8, <1>10, <2>2
    <2>3. ASSUME "overlapped" \notin cut'[j], Open(j)', NEW d \in RunsOf(j)', run'[d].pc # "read"
          PROVE  Recorded(j, run[d])'
      BY <1>6, <1>8, <1>9, <1>10, <1>12, <2>3 DEF Tells, OneWorks
    <2> QED
      BY <2>1, <2>2, <2>3 DEF OneWorks
  <1>15. CompletedIsOver(j)'
    BY <1>9, <1>10 DEF Tells, CompletedIsOver
  <1>16. AppliedIsSuccess(j)'
    <2> SUFFICES ASSUME cut'[j] = {} PROVE AppliedIsSuccess(j)'
      BY DEF AppliedIsSuccess
    <2>1. cut[j] = {} /\ \A d \in RunsOf(j) : ~ run[d].live
      BY <1>10
    <2>2. imports[j].status # FAILED
      BY <1>9, <2>1 DEF Tells, AppliedIsSuccess
    <2>3. ASSUME Open(j), j \in applied PROVE FALSE
      BY <1>9, <2>1, <2>3 DEF Tells, AppliedIsSuccess, OneWorks
    <2> QED
      BY <1>12, <2>2, <2>3 DEF AppliedIsSuccess
  <1> QED
    BY <1>11, <1>13, <1>14, <1>15, <1>16 DEF Tells

-----------------------------------------------------------------------------
(* Requests and expiry move no execution.                                  *)

LEMMA RequestTells ==
  ASSUME Typed, Typed', \A i \in Imports : Tells(i), NEW j \in Imports,
         \/ InitiateImport(j) \/ UploadCompleted(j) \/ Send(j) \/ SendFails(j) \/ Expire(j)
  PROVE  \A i \in Imports : Tells(i)'
  <1>1. /\ UNCHANGED <<run, applied, cut>>
        /\ imports[j] \in ImportDocument /\ Tells(j)
        /\ imports \in [Imports -> ImportDocument] /\ callback \in [Imports -> {"idle", "send"}]
    BY TypesOf DEF InitiateImport, UploadCompleted, Send, SendFails, Expire
  <1>2. RunsOf(j)' = RunsOf(j)
    BY <1>1 DEF RunsOf
  <1>3. SUFFICES Concerns(j) /\ Tells(j)'
    BY <1>1, OthersTell
  <1>4. CASE InitiateImport(j)
    <2>1. /\ imports[j].status = "none" /\ imports' = [imports EXCEPT ![j] = NoImport(PREPROCESSING)]
          /\ UNCHANGED <<callback, queue>>
      BY <1>4 DEF InitiateImport
    <2>2. /\ imports'[j].status = PREPROCESSING
          /\ \A i \in Imports \ {j} : imports'[i] = imports[i]
      BY <1>1, <2>1 DEF NoImport
    <2>3. Still(j) /\ j \notin applied /\ Still(j)'
      BY <1>1, <1>2, <2>1 DEF Tells, SentWithFiles, Still
    <2>4. RunsOf(j)' = {} /\ callback'[j] = "idle"
      BY <2>3 DEF Still
    <2>5. Concerns(j)
      BY <1>1, <2>1, <2>2 DEF Concerns
    <2>6. SentWithFiles(j)' /\ OneWorks(j)'
      BY <1>1, <2>2, <2>3, <2>4, StatusesDiffer DEF SentWithFiles, OneWorks
    <2>7. CompletedIsOver(j)' /\ AppliedIsSuccess(j)'
      BY <1>1, <2>2, <2>3, StatusesDiffer DEF CompletedIsOver, AppliedIsSuccess
    <2> QED
      BY <2>5, <2>6, <2>7 DEF Tells
  <1>5. CASE UploadCompleted(j)
    <2>1. imports[j] = NoImport(PREPROCESSING) /\ UNCHANGED queue
      BY <1>5 DEF UploadCompleted
    <2>2. /\ imports[j].status = PREPROCESSING /\ imports[j].files = <<>> /\ Exists(j) /\ Open(j)
      BY <2>1, TransitionsNamed DEF NoImport, Exists, Open
    <2>3. Still(j) /\ RunsOf(j) = {}
      BY <1>1, <2>2 DEF Tells, SentWithFiles, Still
    <2>4. cut[j] = {} => j \notin applied
      BY <1>1, <2>2, <2>3 DEF Tells, AppliedIsSuccess
    <2>5. CASE UpdateStatus(j, FAILED) /\ UNCHANGED callback
      <3>1. imports'[j].status = FAILED /\ \A i \in Imports \ {j} : imports'[i] = imports[i]
        BY <2>2, <2>5, StatusMoves
      <3>2. Still(j)'
        BY <1>2, <2>1, <2>3, <2>5 DEF Still
      <3>3. callback'[j] = "idle" /\ RunsOf(j)' = {}
        BY <3>2 DEF Still
      <3>4. Concerns(j)
        BY <1>1, <2>1, <2>5, <3>1 DEF Concerns
      <3>5. SentWithFiles(j)' /\ OneWorks(j)'
        BY <1>1, <3>1, <3>2, <3>3, StatusesDiffer DEF SentWithFiles, OneWorks
      <3>6. CompletedIsOver(j)' /\ AppliedIsSuccess(j)'
        BY <1>1, <2>4, <3>1, <3>2, StatusesDiffer DEF CompletedIsOver, AppliedIsSuccess, Open
      <3> QED
        BY <3>4, <3>5, <3>6 DEF Tells
    <2>6. ASSUME NEW complete \in {Upload[j], <<>>}, complete # <<>>,
                 imports' = [imports EXCEPT ![j].files =
                               [k \in 1..Len(complete) |-> UploadedFile(complete[k])]],
                 callback' = [callback EXCEPT ![j] = "send"]
          PROVE  Concerns(j) /\ Tells(j)'
      <3>1. PICK files : files = [k \in 1..Len(complete) |-> UploadedFile(complete[k])]
        OBVIOUS
      <3>2. files # <<>>
        <4>1. complete \in Seq(Files)
          BY <2>6, UploadAssumption
        <4> QED
          BY <2>6, <3>1, <4>1
      <3>3. /\ imports'[j] = [imports[j] EXCEPT !.files = files]
            /\ \A i \in Imports \ {j} : imports'[i] = imports[i] /\ callback'[i] = callback[i]
            /\ callback'[j] = "send"
        BY <1>1, <2>6, <3>1
      <3>4. imports'[j].status = PREPROCESSING /\ imports'[j].files = files
        BY <2>2, <3>3, <1>1 DEF ImportDocument
      <3>5. \A m \in queue' : m.import # j
        BY <2>1, <2>3 DEF Still
      <3>6. Concerns(j)
        BY <1>1, <2>1, <3>3 DEF Concerns
      <3>7. SentWithFiles(j)' /\ OneWorks(j)'
        BY <1>1, <1>2, <2>3, <3>2, <3>4, <3>5, StatusesDiffer DEF SentWithFiles, OneWorks
      <3>8. CompletedIsOver(j)' /\ AppliedIsSuccess(j)'
        BY <1>1, <2>4, <3>4, StatusesDiffer DEF CompletedIsOver, AppliedIsSuccess
      <3> QED
        BY <3>6, <3>7, <3>8 DEF Tells
    <2> QED
      BY <1>5, <2>5, <2>6 DEF UploadCompleted
  <1>6. CASE Send(j) \/ SendFails(j)
    <2>1. /\ callback[j] = "send" /\ callback' = [callback EXCEPT ![j] = "idle"]
          /\ UNCHANGED imports
          /\ \/ queue' = queue \cup {[import |-> j, receives |-> 0]}
             \/ UNCHANGED queue
      BY <1>6 DEF Send, SendFails
    <2>2. /\ callback'[j] = "idle" /\ \A i \in Imports \ {j} : callback'[i] = callback[i]
          /\ \A m : m.import # j => (m \in queue' <=> m \in queue)
      BY <1>1, <2>1
    <2>3. ~ Still(j) /\ RunsOf(j) = {}
      BY <1>1, <2>1 DEF Still, Tells, SentWithFiles
    <2>4. Concerns(j)
      BY <1>1, <2>1, <2>2 DEF Concerns
    <2>5. SentWithFiles(j)' /\ OneWorks(j)'
      BY <1>1, <1>2, <2>1, <2>2, <2>3 DEF Tells, SentWithFiles, OneWorks, Exists
    <2>6. CompletedIsOver(j)' /\ AppliedIsSuccess(j)'
      BY <1>1, <2>1, <2>3 DEF Tells, CompletedIsOver, AppliedIsSuccess, Open
    <2> QED
      BY <2>4, <2>5, <2>6 DEF Tells
  <1>7. CASE Expire(j)
    <2>1. /\ Exists(j) /\ imports' = [imports EXCEPT ![j] = NoImport("expired")]
          /\ UNCHANGED <<callback, queue>>
      BY <1>7 DEF Expire
    <2>2. /\ imports'[j].status = "expired"
          /\ \A i \in Imports \ {j} : imports'[i] = imports[i]
      BY <1>1, <2>1 DEF NoImport
    <2>3. ~ Exists(j)' /\ ~ Open(j)'
      BY <2>2, TransitionsNamed, StatusesDiffer DEF Exists, Open
    <2>4. Concerns(j)
      BY <1>1, <2>1, <2>2 DEF Concerns
    <2>5. SentWithFiles(j)' /\ OneWorks(j)'
      BY <1>1, <1>2, <2>1, <2>2, <2>3, StatusesDiffer DEF Tells, SentWithFiles, OneWorks
    <2>6. CompletedIsOver(j)' /\ AppliedIsSuccess(j)'
      BY <2>2, <2>3, StatusesDiffer DEF CompletedIsOver, AppliedIsSuccess
    <2> QED
      BY <2>4, <2>5, <2>6 DEF Tells
  <1> QED
    BY <1>4, <1>5, <1>6, <1>7

LEMMA TellsNext ==
  Typed /\ (\A i \in Imports : Tells(i)) /\ [Next]_vars /\ Typed' => (\A i \in Imports : Tells(i))'
  <1> SUFFICES ASSUME Typed, Typed', \A i \in Imports : Tells(i), [Next]_vars
               PROVE  \A i \in Imports : Tells(i)'
    OBVIOUS
  <1>1. CASE UNCHANGED vars
    <2>1. ASSUME NEW i \in Imports PROVE Tells(i)'
      <3>1. Elsewhere(i)
        BY <1>1 DEF vars, Elsewhere, RunsOf
      <3> QED
        BY <3>1, TellsElsewhere
    <2> QED
      BY <2>1
  <1>2. ASSUME NEW i \in Imports,
               InitiateImport(i) \/ UploadCompleted(i) \/ Send(i) \/ SendFails(i) \/ Expire(i)
        PROVE  \A k \in Imports : Tells(k)'
    BY <1>2, RequestTells
  <1>3. ASSUME NEW e \in Executions, Receive(e) \/ ReceiveAgain(e)
        PROVE  \A i \in Imports : Tells(i)'
    BY <1>3, StartTells DEF Receive, ReceiveAgain
  <1>4. ASSUME NEW e \in Executions,
               \/ FetchFile(e) \/ ResolveRegistration(e) \/ FindSite(e) \/ CreateSite(e)
               \/ DeleteFile(e) \/ ReplaceSites(e) \/ ReadImport(e) \/ StartProcessing(e)
        PROVE  \A i \in Imports : Tells(i)'
    BY <1>4, FileTells, ReplaceTells, ReadTells, StartProcessingTells
  <1>5. ASSUME NEW e \in Executions,
               RecordResult(e) \/ Finish(e) \/ CallFails(e) \/ Timeout(e)
        PROVE  \A i \in Imports : Tells(i)'
    BY <1>5, RecordTells, FinishTells, CallFailsTells, TimeoutTells
  <1>6. ASSUME NEW e \in Executions, Dies(e) PROVE \A i \in Imports : Tells(i)'
    BY <1>6, CutTells DEF Dies
  <1> QED
    BY <1>1, <1>2, <1>3, <1>4, <1>5, <1>6 DEF Next

LEMMA TellsHolds == Spec => [](Typed /\ \A i \in Imports : Tells(i))
  <1>1. ASSUME Init PROVE \A i \in Imports : Tells(i)
    <2> SUFFICES ASSUME NEW i \in Imports PROVE Tells(i)
      OBVIOUS
    <2>1. /\ imports[i].status = "none" /\ cut[i] = {} /\ i \notin applied
          /\ RunsOf(i) = {} /\ Still(i)
      BY <1>1, IdleHolds DEF Init, NoImport, RunsOf, Still
    <2>2. callback[i] = "idle"
      BY <1>1 DEF Init
    <2> QED
      BY <2>1, <2>2, StatusesDiffer
         DEF Tells, SentWithFiles, OneWorks, CompletedIsOver, AppliedIsSuccess, Open
  <1> QED
    BY <1>1, TypedHolds, TellsNext, PTL DEF Spec

(* A completed import is complete, unless two executions overlapped on it, *)
(* and a failed one replaced no sites, as long as none was cut short.      *)
THEOREM StatusesTellWhatWasApplied == Spec => []StatusTellsWhatWasApplied
  <1>1. ASSUME Typed, \A i \in Imports : Tells(i) PROVE StatusTellsWhatWasApplied
    <2>1. ASSUME NEW i \in Imports, imports[i].status = COMPLETED, "overlapped" \notin cut[i]
          PROVE  LET results == {imports[i].files[k].result : k \in DOMAIN imports[i].files}
                 IN  "none" \notin results /\ SUCCESS \in results
      <3>1. imports[i].files \in Seq(ListedFile)
        BY <1>1, TypesOf DEF ImportDocument
      <3>2. DOMAIN imports[i].files = 1..Len(imports[i].files)
        BY <3>1
      <3> QED
        BY <1>1, <2>1, <3>2 DEF Tells, CompletedIsOver
    <2>2. FailedAppliesNothing
      BY <1>1 DEF FailedAppliesNothing, Tells, AppliedIsSuccess
    <2>3. TypeOK
      BY <1>1, TypedIsTypeOK
    <2> QED
      BY <2>1, <2>2, <2>3 DEF StatusTellsWhatWasApplied, CompletedReportsEveryFile
  <1> QED
    BY <1>1, TellsHolds, PTL

=============================================================================
