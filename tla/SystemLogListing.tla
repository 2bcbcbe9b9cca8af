-------------------------- MODULE SystemLogListing --------------------------
(***************************************************************************)
(* The system log: entries recorded by the handlers of every instance, and *)
(* the search that pages through them in both directions                   *)
(* (repositories/system-logs, routes/v1/system-logs/get-search.js).        *)
(* Entries are recorded while an administrator turns pages; none is ever   *)
(* changed or removed.  An entry whose insertion fails is lost.            *)
(***************************************************************************)
EXTENDS ListingPages

CONSTANTS
  LogIds,       \* ids of entries, in the order of their ObjectIds
  LogEntries,   \* what may be recorded: [user, subCategory, action, document]
  LogQueries,   \* [user, subCategory]; either may be Unfiltered, not both
  SearchLimit,  \* limit of the search
  FileOf,       \* document -> the file its summary log names, or NoFile
  Disturbances  \* "skew": an instance draws up ids below those stored already

ASSUME SystemLogAssumption ==
  /\ LogIds \subseteq Nat \ {NoCursor}
  /\ SearchLimit \in Nat \ {0}
  /\ Disturbances \subseteq {"skew"}

VARIABLES
  logs,       \* logs[i]: the entry stored under id i, or NoLog
  logReader   \* what an administrator looks at

Unfiltered  == "any"
NoLog       == [user |-> "none"]
NoFile      == "no file"
NoActor     == "no id"   \* user of an entry whose actor carries no id
NotReading  == [direction |-> "none"]

Recorded == {i \in LogIds : logs[i] # NoLog}

EntryMatches(e, q) ==
  /\ q.user = Unfiltered \/ e.user = q.user
  /\ q.subCategory = Unfiltered \/ e.subCategory = q.subCategory

MatchingLogs(q) == {i \in Recorded : EntryMatches(logs[i], q)}

(* Variant for mutation runs: the newest entries either way, which going   *)
(* back are not those next to the cursor.                                  *)
FindNewest(q, cursor, direction) ==
  LET isPrev    == direction = "prev"
      hasCursor == cursor # NoCursor
      beyond    == {i \in MatchingLogs(q) :
                      hasCursor => IF isPrev THEN i > cursor ELSE i < cursor}
  IN  BuildPage(Limited(Descending(beyond), SearchLimit + 1), SearchLimit, FALSE, hasCursor)

(* find: forward reads the newest below the cursor, backward the oldest    *)
(* above it.                                                               *)
FindLogs(q, cursor, direction) ==
  LET isPrev    == direction = "prev"
      hasCursor == cursor # NoCursor
      beyond    == {i \in MatchingLogs(q) :
                      hasCursor => IF isPrev THEN i > cursor ELSE i < cursor}
      rows      == IF isPrev THEN Ascending(beyond) ELSE Descending(beyond)
  IN  BuildPage(Limited(rows, SearchLimit + 1), SearchLimit, isPrev, hasCursor)

(* findSummaryLogSubmitActors: newest first.                               *)
SubmitActors(documents) ==
  LET asked == {i \in Recorded : /\ logs[i].document \in documents
                                 /\ logs[i].subCategory = "summary-log"
                                 /\ logs[i].action = "submit"}
      rows  == Descending(asked)
  IN  [k \in DOMAIN rows |-> [document |-> logs[rows[k]].document,
                              actor    |-> logs[rows[k]].user]]

(* The submitter of each file: the first actor with an id that is seen for *)
(* a document of that file.                                                *)
BuildSystemLogSubmitters(submitActors) ==
  LET Attribute(submitter, audit) ==
        LET file == FileOf[audit.document]
        IN  IF audit.actor = NoActor \/ file = NoFile \/ file \in DOMAIN submitter
            THEN submitter
            ELSE submitter @@ (file :> audit.actor)
  IN  FoldLeft(Attribute, [f \in {} |-> NoActor], submitActors)

-----------------------------------------------------------------------------
Drawable(i) ==
  /\ logs[i] = NoLog
  /\ "skew" \in Disturbances \/ \A j \in Recorded : i > j

(* insert.  A failure is logged and the caller carries on without entry.   *)
RecordLog(i, entry) ==
  /\ Drawable(i)
  /\ logs' = [logs EXCEPT ![i] = entry]
  /\ UNCHANGED logReader

(* insertMany is not ordered: each entry of a batch is stored or fails.    *)
RecordLogs(batch, entry) ==
  /\ \A i \in batch : Drawable(i)
  /\ \E stored \in SUBSET batch :
       /\ stored # {}
       /\ logs' = [i \in LogIds |-> IF i \in stored THEN entry ELSE logs[i]]
  /\ UNCHANGED logReader

Turn(q, cursor, direction) ==
  /\ logReader' = FindLogs(q, cursor, direction)
                    @@ [query |-> q, direction |-> direction, from |-> cursor]
  /\ UNCHANGED logs

SearchLogs(q) == Turn(q, NoCursor, "next")

NextLogPage ==
  /\ logReader # NotReading
  /\ logReader.nextCursor # NoCursor
  /\ Turn(logReader.query, logReader.nextCursor, "next")

PrevLogPage ==
  /\ logReader # NotReading
  /\ logReader.prevCursor # NoCursor
  /\ Turn(logReader.query, logReader.prevCursor, "prev")

LogInit ==
  /\ logs = [i \in LogIds |-> NoLog]
  /\ logReader = NotReading

LogNext ==
  \/ \E i \in LogIds, entry \in LogEntries : RecordLog(i, entry)
  \/ \E i, j \in LogIds, entry \in LogEntries : i < j /\ RecordLogs({i, j}, entry)
  \/ \E q \in LogQueries : SearchLogs(q)
  \/ NextLogPage
  \/ PrevLogPage

-----------------------------------------------------------------------------
Between(q, low, high) == {i \in MatchingLogs(q) : low < i /\ i < high}

(* Turning a page either way leaves out nothing: no matching entry lies    *)
(* between the page left and the page shown, not even one recorded below   *)
(* others while the first was being looked at.                             *)
PagesAdjoin ==
  [][ /\ NextLogPage => Between(logReader.query, Head(logReader'.page), Last(logReader.page))
                          \subseteq ToSet(logReader'.page)
      /\ PrevLogPage => Between(logReader.query, Head(logReader.page), Last(logReader'.page))
                          \subseteq ToSet(logReader'.page)
    ]_<<logs, logReader>>

(* A page offers a next page exactly when older entries are stored, and a  *)
(* previous one exactly when newer ones are, though only one of the two is *)
(* looked up and the other inferred from where the page came from.         *)
FlagsTellWhatRemains ==
  [][ (logReader' # logReader /\ logReader'.page # <<>>) =>
        LET matching == MatchingLogs(logReader'.query)
        IN  /\ logReader'.hasNext <=> \E i \in matching : i < Last(logReader'.page)
            /\ logReader'.hasPrev <=> \E i \in matching : i > Head(logReader'.page)
    ]_<<logs, logReader>>

(* The pages of a reader tell the log: what lies beside them, and whether. *)
PagesTellTheLog == PagesAdjoin /\ FlagsTellWhatRemains

(* A file is attributed to the actor of the newest submission recorded for *)
(* any of its documents by somebody with an id, and to nobody when there   *)
(* is none.                                                                *)
SubmitterIsLatestAudited ==
  LET submitters == BuildSystemLogSubmitters(SubmitActors(DOMAIN FileOf))
      Audits(f)  == {i \in Recorded : /\ logs[i].document \in DOMAIN FileOf
                                      /\ FileOf[logs[i].document] = f
                                      /\ logs[i].subCategory = "summary-log"
                                      /\ logs[i].action = "submit"
                                      /\ logs[i].user # NoActor}
  IN  \A f \in {FileOf[d] : d \in DOMAIN FileOf} \ {NoFile} :
        IF Audits(f) = {} THEN f \notin DOMAIN submitters
                          ELSE submitters[f] = logs[Max(Audits(f))].user
=============================================================================
