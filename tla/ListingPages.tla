---------------------------- MODULE ListingPages ----------------------------
(***************************************************************************)
(* The two ways this service cuts a listing into pages: by a cursor, the   *)
(* id of a row already shown (repositories/system-logs/pagination.js, the  *)
(* PRN listing), and by an offset, the number of the page (organisations,  *)
(* overseas sites).  An id is a natural number in the order of MongoDB's   *)
(* ObjectIds.                                                              *)
(***************************************************************************)
EXTENDS Integers, SequencesExt, FiniteSetsExt

NoCursor == 0
Unasked  == 0   \* a limit the request leaves out

Ascending(S)  == SetToSortSeq(S, <)
Descending(S) == SetToSortSeq(S, >)

Limited(rows, n) == SubSeq(rows, 1, Min({n, Len(rows)}))

(* Rows arrive over-fetched by one, which tells whether more follow.  A    *)
(* backward query reads away from the cursor, so its page is turned round. *)
BuildPage(rows, limit, isPrev, hasCursor) ==
  LET hasExtra == Len(rows) > limit
      trimmed  == Limited(rows, limit)
      page     == IF isPrev THEN Reverse(trimmed) ELSE trimmed
      hasNext  == IF isPrev THEN page # <<>> ELSE hasExtra
      hasPrev  == IF isPrev THEN hasExtra ELSE hasCursor
  IN  [page       |-> page,
       hasNext    |-> hasNext,
       hasPrev    |-> hasPrev,
       nextCursor |-> IF hasNext /\ page # <<>> THEN Last(page) ELSE NoCursor,
       prevCursor |-> IF hasPrev /\ page # <<>> THEN Head(page) ELSE NoCursor]

-----------------------------------------------------------------------------
(* Pages by number: skip((page - 1) * pageSize).limit(pageSize).           *)
PageOf(rows, page, pageSize) ==
  SubSeq(rows, (page - 1) * pageSize + 1, Min({page * pageSize, Len(rows)}))

TotalPages(total, pageSize) == (total + pageSize - 1) \div pageSize

(* Every order a query may answer in that sorts by a key and by nothing    *)
(* else: rows of one key come in any order, and in another one next time.  *)
OrdersByKey(S, key) ==
  {s \in [1..Cardinality(S) -> S] :
     /\ IsInjective(s)
     /\ \A i, j \in DOMAIN s : i < j => key[s[i]] <= key[s[j]]}
=============================================================================
