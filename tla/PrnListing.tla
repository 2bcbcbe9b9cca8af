----------------------------- MODULE PrnListing -----------------------------
(***************************************************************************)
(* The listings of PRNs by status: the external one, which a packaging     *)
(* producer's service walks page by page (routes/list.js), and the one of  *)
(* administrators (routes/admin-list.js), both over findByStatus of the    *)
(* repository (mongodb.js, inmemory.plugin.js).  PRNs are raised and       *)
(* change status between two pages of a walk.                              *)
(***************************************************************************)
EXTENDS ListingPages

CONSTANTS
  PrnIds,        \* ids of PRNs, in the order of their ObjectIds
  ExcludedPrns,  \* those of excluded (test) organisations
  Dates,         \* instants of status changes
  PrnQueries,    \* [by, statuses, from, to]; from and to may be NoDate
  Limits         \* limits a request may ask for

ASSUME PrnListingAssumption ==
  /\ PrnIds \subseteq Nat \ {NoCursor}
  /\ ExcludedPrns \subseteq PrnIds
  /\ Dates \subseteq Nat \ {0}

VARIABLES
  prns,      \* prns[i]: the status history of PRN i, <<>> before it is raised
  prnWalk,   \* the walk of one client
  prnReply   \* the page it was last answered

NoDate == 0

DefaultLimit == [external |-> 1, admin |-> 2]
MaxLimit     == [external |-> 2, admin |-> 3]

(* The external route clamps the limit, the administrators' refuses one    *)
(* over its maximum.                                                       *)
EffectiveLimit(by, asked) ==
  IF asked = Unasked THEN DefaultLimit[by] ELSE Min({asked, MaxLimit[by]})

LimitAccepted(by, asked) == by = "admin" => asked <= MaxLimit.admin

(* From a status to those a PRN may be in next; "raised" stands for a PRN  *)
(* that is not issued yet.                                                 *)
StatusesAfter ==
  [raised                |-> {"awaiting_acceptance"},
   awaiting_acceptance   |-> {"accepted", "awaiting_cancellation"},
   awaiting_cancellation |-> {"cancelled"},
   accepted              |-> {},
   cancelled             |-> {}]

(* Variant for mutation runs: the end of the range is left out.            *)
MatchesDateBefore(at, q) ==
  /\ q.from = NoDate \/ at >= q.from
  /\ q.to   = NoDate \/ at < q.to

MatchesDateRange(at, q) ==
  /\ q.from = NoDate \/ at >= q.from
  /\ q.to   = NoDate \/ at <= q.to

(* currentStatus and currentStatusAt are those of the last history entry.  *)
Matches(h, i, q) ==
  /\ h # <<>>
  /\ Last(h).status \in q.statuses
  /\ MatchesDateRange(Last(h).at, q)
  /\ i \notin ExcludedPrns

Matching(q) == {i \in PrnIds : Matches(prns[i], i, q)}

(* Variant for mutation runs: the cursor is the last PRN over-fetched, so  *)
(* that the page after it starts one PRN too late.                         *)
FindPastExtra(q, cursor, limit) ==
  LET rows    == Limited(Ascending({i \in Matching(q) : i > cursor}), limit + 1)
      hasMore == Len(rows) > limit
  IN  [items      |-> Limited(rows, limit),
       hasMore    |-> hasMore,
       nextCursor |-> IF hasMore THEN Last(rows) ELSE NoCursor]

FindByStatus(q, cursor, limit) ==
  LET rows    == Limited(Ascending({i \in Matching(q) : i > cursor}), limit + 1)
      hasMore == Len(rows) > limit
      items   == Limited(rows, limit)
  IN  [items      |-> items,
       hasMore    |-> hasMore,
       nextCursor |-> IF hasMore THEN Last(items) ELSE NoCursor]

-----------------------------------------------------------------------------
(* What the walk was asked, and what it listed; staying: the PRNs that     *)
(* matched at every moment since its first page.                           *)
NoWalk  == [phase |-> "idle"]
NoReply == [items |-> <<>>]

WalkTo(q, listed, staying, reply) ==
  prnWalk' = [phase   |-> IF reply.hasMore THEN "walking" ELSE "done",
              query   |-> q,
              cursor  |-> reply.nextCursor,
              listed  |-> listed \o reply.items,
              staying |-> staying]

OpenPrnListing(q, asked) ==
  LET reply == FindByStatus(q, NoCursor, EffectiveLimit(q.by, asked))
  IN  /\ prnWalk = NoWalk
      /\ LimitAccepted(q.by, asked)
      /\ prnReply' = reply
      /\ WalkTo(q, <<>>, Matching(q), reply)
      /\ UNCHANGED prns

ReadPrnPage(asked) ==
  LET q     == prnWalk.query
      reply == FindByStatus(q, prnWalk.cursor, EffectiveLimit(q.by, asked))
  IN  /\ prnWalk.phase = "walking"
      /\ LimitAccepted(q.by, asked)
      /\ prnReply' = reply
      /\ WalkTo(q, prnWalk.listed, prnWalk.staying, reply)
      /\ UNCHANGED prns

StillStaying ==
  prnWalk' = IF prnWalk.phase = "walking"
             THEN [prnWalk EXCEPT !.staying =
                     {i \in @ : Matches(prns'[i], i, prnWalk.query)}]
             ELSE prnWalk

(* The id of a PRN is drawn up by the instance that raises it, from its    *)
(* own clock: PRNs may appear below one that is there already.             *)
RaisePrn(i, at) ==
  /\ prns[i] = <<>>
  /\ prns' = [prns EXCEPT ![i] = <<[status |-> "raised", at |-> at]>>]
  /\ StillStaying
  /\ UNCHANGED prnReply

ChangePrnStatus(i, status, at) ==
  /\ prns[i] # <<>>
  /\ status \in StatusesAfter[Last(prns[i]).status]
  /\ at >= Last(prns[i]).at
  /\ prns' = [prns EXCEPT ![i] = Append(@, [status |-> status, at |-> at])]
  /\ StillStaying
  /\ UNCHANGED prnReply

PrnInit ==
  /\ prns = [i \in PrnIds |-> <<>>]
  /\ prnWalk = NoWalk
  /\ prnReply = NoReply

PrnNext ==
  \/ \E asked \in Limits :
       \/ \E q \in PrnQueries : OpenPrnListing(q, asked)
       \/ ReadPrnPage(asked)
  \/ \E i \in PrnIds, at \in Dates :
       \/ RaisePrn(i, at)
       \/ \E status \in DOMAIN StatusesAfter : ChangePrnStatus(i, status, at)

-----------------------------------------------------------------------------
(* A PRN that matches throughout a walk is listed by it once and only      *)
(* once, whatever is raised, issued or cancelled between two of its pages  *)
(* and whatever limits they are read with; no PRN is ever listed twice.    *)
StayingPrnsListedOnce ==
  prnWalk # NoWalk =>
    /\ IsInjective(prnWalk.listed)
    /\ prnWalk.phase = "done" => prnWalk.staying \subseteq ToSet(prnWalk.listed)
=============================================================================
