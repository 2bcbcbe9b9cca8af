------------------------------ MODULE MCReads -------------------------------
(***************************************************************************)
(* The listings, and the reading of workbooks, on a small instance.  They  *)
(* share no state, so that each behaviour is that of one of them.          *)
(***************************************************************************)
EXTENDS ListingContracts, SummaryLogParser

VARIABLE
  part      \* what is read: a listing, or a workbook

listings == <<prns, prnWalk, prnReply, logs, logReader, items, changes, offsetWalk>>

allVars == <<listings, vars, part>>

Query(by, statuses, from, to) == [by |-> by, statuses |-> statuses, from |-> from, to |-> to]

MCPrnQueries ==
  {Query("external", {"awaiting_acceptance", "cancelled"}, NoDate, NoDate),
   Query("external", {"cancelled"}, 2, 2),
   Query("external", {"awaiting_acceptance"}, NoDate, 1),
   Query("admin", DOMAIN StatusesAfter, NoDate, NoDate)}

Entry(user, subCategory, action, document) ==
  [user |-> user, subCategory |-> subCategory, action |-> action, document |-> document]

MCLogEntries ==
  {Entry("alice", "summary-log", "submit", "d1"),
   Entry("bob", "summary-log", "submit", "d1"),
   Entry("alice", "summary-log", "upload", "d2"),
   Entry(NoActor, "summary-log", "submit", "d2")}

MCLogQueries ==
  {[user |-> "alice", subCategory |-> Unfiltered],
   [user |-> Unfiltered, subCategory |-> "summary-log"]}

MCFileOf == "d1" :> "f1" @@ "d2" :> "f2"

MCSearches == {{1, 2, 3}, {2, 3}}

\* Rows of sections side by side, of sections with metadata and placeholders
\* in them, and of tables that are repeated or refused.
MCTemplates ==
  {{<<"A", "id", "skip column", "w">>, <<"A", "id", "", "B", "id">>,
    <<"null", "v", "Example", "v">>, <<"null", "Row ID", "null", "v", "v">>,
    <<"", "", "", "", "v">>, <<"null">>},
   {<<"A", "id", "w">>, <<"null", "null", "P">>, <<"M", "v", "v">>, <<"null", "M">>,
    <<"B", "bad", "null", "null", "v", "v">>, <<"null">>},
   {<<"A", "w", "id">>, <<"null", "P", "v">>, <<"null", "bad", "v">>, <<"", "P", "">>,
    <<"M", "A">>, <<"v", "C", "w", "", "v">>}}

MCPlaceholders == "w" :> {"P"}

-----------------------------------------------------------------------------
Init ==
  /\ part \in {"prns", "logs", "offset", "workbook"}
  /\ PrnInit
  /\ LogInit
  /\ OffsetInit
  /\ ParserInit
  /\ part # "offset" => items = [x \in ItemIds |-> Absent]
  /\ part # "workbook" => template = CHOOSE rows \in Templates : TRUE

Next ==
  /\ UNCHANGED part
  /\ \/ /\ part = "prns" /\ PrnNext
        /\ UNCHANGED <<logs, logReader, items, changes, offsetWalk, vars>>
     \/ /\ part = "logs" /\ LogNext
        /\ UNCHANGED <<prns, prnWalk, prnReply, items, changes, offsetWalk, vars>>
     \/ /\ part = "offset" /\ OffsetNext
        /\ UNCHANGED <<prns, prnWalk, prnReply, logs, logReader, vars>>
     \/ part = "workbook" /\ ParserNext /\ UNCHANGED listings

Spec == Init /\ [][Next]_allVars

-----------------------------------------------------------------------------
(* Every variable stays in its range.                                      *)
TypeOK ==
  /\ prns \in [PrnIds -> Seq([status : DOMAIN StatusesAfter, at : Dates])]
  /\ prnWalk # NoWalk => prnWalk.staying \subseteq PrnIds /\ prnWalk.query \in PrnQueries
  /\ logs \in [LogIds -> LogEntries \cup {NoLog}]
  /\ logReader # NotReading => ToSet(logReader.page) \subseteq Recorded
  /\ items \in [ItemIds -> Keys \cup {Absent}]
  /\ changes \in 0 .. MaxChanges
  /\ reading \in {"sheet", "between", "parsed", "malformed", "refused"}
  /\ metadataContext \in MetaNames \cup {None}
  /\ emptyRows \in 0 .. MaxEmptyRows

(* Every listing shows what is there: a PRN that stays in the result of    *)
(* one walk once, a site or an organisation as often as walks by offset    *)
(* allow, and a file under whoever submitted it last.                      *)
ListingsShowWhatIsThere ==
  /\ TypeOK
  /\ StayingPrnsListedOnce
  /\ QuietWalkListsUnshared
  /\ AdditionsSkipNoSite
  /\ SubmitterIsLatestAudited

(* What one pass over the cells of a workbook returns is what is laid out  *)
(* in it: every section, every row of a section, every metadata value.     *)
WorkbookReadAsLaidOut ==
  /\ SectionsReadAsLaidOut
  /\ NoSectionLost
  /\ MetadataFollowsMarker

(* Every page of the three listings is the one the contract tests of its   *)
(* repository ask for, whatever was written since the page before.         *)
HonoursContract ==
  [][ /\ \A asked \in Limits :
           /\ \A q \in PrnQueries : part = "prns" /\ OpenPrnListing(q, asked) =>
                PrnPageHonours(q, NoCursor, EffectiveLimit(q.by, asked), prnReply')
           /\ part = "prns" /\ prnWalk # NoWalk /\ ReadPrnPage(asked) =>
                PrnPageHonours(prnWalk.query, prnWalk.cursor,
                               EffectiveLimit(prnWalk.query.by, asked), prnReply')
      /\ logReader' # logReader => LogPageHonours(logReader')
      /\ \A documents \in SUBSET DOMAIN FileOf :
           /\ AskedSubmissionsOnly(documents, SubmitActors(documents))
           /\ MostRecentSubmitFirst(SubmitActors(documents))
      /\ FindOrganisations => OffsetPageHonours(offsetWalk.page, offsetWalk')
    ]_allVars
=============================================================================
