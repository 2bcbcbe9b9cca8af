-------------------------- MODULE ListingContracts --------------------------
(***************************************************************************)
(* What the contract tests of three repositories ask of a page             *)
(* (find-by-status.contract.js of the PRNs, port.contract.js of the system *)
(* logs, find-page.contract.js of the organisations), each page against    *)
(* what is stored when it is answered.                                     *)
(***************************************************************************)
EXTENDS PrnListing, SystemLogListing, OffsetListing

IsDescending(s) == \A i, j \in DOMAIN s : i < j => s[i] > s[j]

Upto(n, S) == Cardinality(S) <= n

-----------------------------------------------------------------------------
(* findByStatus: PRNs whose current status is one of those asked for, ...  *)
StatusFiltered(h, q) == Last(h).status \in q.statuses

(* ... changed to it within the range, both ends included, ...             *)
DateFiltered(h, q) ==
  /\ q.from # NoDate => Last(h).at >= q.from
  /\ q.to   # NoDate => Last(h).at <= q.to

(* ... so that a range which covers an earlier status of the PRN, and not  *)
(* the current one, does not list it, ...                                  *)
DatedByCurrentStatus(q, reply) ==
  \A i \in PrnIds : \A k \in DOMAIN prns[i] :
    /\ DateFiltered(SubSeq(prns[i], 1, k), q)
    /\ ~DateFiltered(prns[i], q)
    => i \notin ToSet(reply.items)

(* ... ascending, after the cursor, no more than the limit ...             *)
PrnsAscend(cursor, limit, reply) ==
  /\ \A i, j \in DOMAIN reply.items : i < j => reply.items[i] < reply.items[j]
  /\ \A i \in ToSet(reply.items) : i > cursor
  /\ Len(reply.items) <= limit

(* ... and more are announced, with the last one as cursor, exactly when   *)
(* some are left, which all come after it.                                 *)
MorePrnsAnnounced(wanted, reply) ==
  LET left == wanted \ ToSet(reply.items)
  IN  /\ reply.hasMore <=> left # {}
      /\ reply.nextCursor = IF left = {} THEN NoCursor ELSE Last(reply.items)
      /\ \A i \in left : i > reply.nextCursor

PrnPageHonours(q, cursor, limit, reply) ==
  LET wanted == {i \in PrnIds \ ExcludedPrns :
                   /\ i > cursor /\ prns[i] # <<>>
                   /\ StatusFiltered(prns[i], q) /\ DateFiltered(prns[i], q)}
  IN  /\ ToSet(reply.items) \subseteq wanted
      /\ DatedByCurrentStatus(q, reply)
      /\ PrnsAscend(cursor, limit, reply)
      /\ MorePrnsAnnounced(wanted, reply)

-----------------------------------------------------------------------------
(* find: entries of the user and the sub-category asked for, and of no     *)
(* other, ...                                                              *)
LogsFiltered(reader) ==
  LET q == reader.query
  IN  \A i \in ToSet(reader.page) :
        /\ logs[i] # NoLog
        /\ q.user # Unfiltered => logs[i].user = q.user
        /\ q.subCategory # Unfiltered => logs[i].subCategory = q.subCategory

(* ... newest first, ...                                                   *)
NewestFirst(reader) == IsDescending(reader.page)

(* ... forward the limit, a next page while more exist, a previous one     *)
(* only after a cursor, ...                                                *)
ForwardPage(reader) ==
  LET older == {i \in MatchingLogs(reader.query) :
                  reader.from # NoCursor => i < reader.from}
  IN  /\ Len(reader.page) = Min({SearchLimit, Cardinality(older)})
      /\ reader.hasNext <=> Cardinality(older) > SearchLimit
      /\ reader.hasPrev <=> reader.from # NoCursor
      /\ reader.hasNext => reader.nextCursor = Last(reader.page)

(* ... backward those immediately newer than the cursor ...                *)
NearestNewer(reader) ==
  LET newer == {i \in MatchingLogs(reader.query) : i > reader.from}
  IN  \A i \in ToSet(reader.page) : Upto(SearchLimit - 1, {j \in newer : j < i})

(* ... with a next page unless nothing is newer, and a previous one if     *)
(* newer entries are left.                                                 *)
BackwardFlags(reader) ==
  LET newer == {i \in MatchingLogs(reader.query) : i > reader.from}
  IN  /\ reader.hasNext <=> newer # {}
      /\ reader.hasPrev <=> Cardinality(newer) > SearchLimit
      /\ reader.page = <<>> <=> newer = {}

LogPageHonours(reader) ==
  /\ LogsFiltered(reader)
  /\ NewestFirst(reader)
  /\ reader.direction = "next" => ForwardPage(reader)
  /\ reader.direction = "prev" => NearestNewer(reader) /\ BackwardFlags(reader)

(* findSummaryLogSubmitActors: submissions of the documents asked for ...  *)
AskedSubmissionsOnly(documents, actors) ==
  /\ \A k \in DOMAIN actors : actors[k].document \in documents
  /\ Len(actors) = Cardinality({i \in LogIds :
       /\ logs[i] # NoLog /\ logs[i].document \in documents
       /\ logs[i].subCategory = "summary-log" /\ logs[i].action = "submit"})

(* ... the most recent of each first.                                      *)
MostRecentSubmitFirst(actors) ==
  \A k \in DOMAIN actors :
    (\A j \in 1 .. k - 1 : actors[j].document # actors[k].document) =>
      LET submits == {i \in LogIds : /\ logs[i] # NoLog
                                     /\ logs[i].document = actors[k].document
                                     /\ logs[i].subCategory = "summary-log"
                                     /\ logs[i].action = "submit"}
      IN  actors[k].actor = logs[Max(submits)].user

-----------------------------------------------------------------------------
(* findPage: a page of names in ascending order, at most the page size,    *)
(* full unless it is the last, empty beyond the end ...                    *)
PageOfNames(walk) ==
  LET s == walk.rows
      n == Cardinality(Found(walk.search)) - (walk.page - 1) * walk.pageSize
  IN  /\ Len(s) = IF n <= 0 THEN 0 ELSE Min({walk.pageSize, n})
      /\ IsInjective(s)
      /\ \A i, j \in DOMAIN s : i < j => items[s[i]] <= items[s[j]]

(* ... of organisations whose name matches the search.                     *)
SearchApplied(walk) == \A x \in ToSet(walk.rows) : items[x] \in walk.search

OffsetPageHonours(page, walk) ==
  /\ PageOfNames([walk EXCEPT !.page = page])
  /\ SearchApplied(walk)
=============================================================================
