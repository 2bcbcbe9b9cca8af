--------------------------- MODULE OffsetListing ----------------------------
(***************************************************************************)
(* The two listings administrators turn by page number.  Organisations     *)
(* (routes/v1/organisations/get.js, findPage) are counted and fetched by   *)
(* two queries; the overseas sites mapped by registrations                 *)
(* (overseas-sites/routes/admin-list.js, findPageForOverseasSitesAdminList)*)
(* by one aggregation.  Both sort by a key that several items may share    *)
(* and by nothing else.                                                    *)
(***************************************************************************)
EXTENDS ListingPages

CONSTANTS
  ItemIds,    \* organisations, or mappings of a registration to a site
  Keys,       \* names of organisations, or overseas site numbers
  Searches,   \* each search, as the set of keys it matches
  PageSizes,  \* page sizes a client may ask for
  MaxChanges  \* bound: changes to the items

ASSUME OffsetListingAssumption ==
  /\ Keys \subseteq Nat \ {0}
  /\ Searches \subseteq SUBSET Keys
  /\ PageSizes \subseteq Nat \ {0}

VARIABLES
  items,       \* items[x]: the key of x, or Absent
  changes,     \* how many changes were made to them
  offsetWalk   \* the walk of one administrator, and the reply it was last given

Absent    == 0
NoReading == [phase |-> "idle"]

Found(search) == {x \in ItemIds : items[x] # Absent /\ items[x] \in search}

-----------------------------------------------------------------------------
(* A walk begins at page one.  kind: which listing; changed: what was done *)
(* to the items meanwhile; throughout: the items found at every moment.    *)
OpenWalk(kind, search, pageSize) ==
  /\ offsetWalk = NoReading
  /\ offsetWalk' = [phase |-> "asking", kind |-> kind, search |-> search,
                    pageSize |-> pageSize, page |-> 1, total |-> 0,
                    rows |-> <<>>, listed |-> <<>>, changed |-> "nothing",
                    throughout |-> Found(search)]
  /\ UNCHANGED <<items, changes>>

(* Page after page until the last one the reply names.                     *)
Shown(total, rows) ==
  LET more == offsetWalk.page < TotalPages(total, offsetWalk.pageSize)
  IN  offsetWalk' = [offsetWalk EXCEPT
        !.phase  = IF more THEN "asking" ELSE "done",
        !.page   = IF more THEN @ + 1 ELSE @,
        !.total  = total,
        !.rows   = rows,
        !.listed = @ \o rows]

(* findPage: countDocuments first, ...                                     *)
CountOrganisations ==
  /\ offsetWalk.phase = "asking" /\ offsetWalk.kind = "organisations"
  /\ offsetWalk' = [offsetWalk EXCEPT !.phase = "counted",
                                      !.total = Cardinality(Found(offsetWalk.search))]
  /\ UNCHANGED <<items, changes>>

(* ... and the page then, in whatever order equal names come.              *)
FindOrganisations ==
  /\ offsetWalk.phase = "counted"
  /\ \E ordered \in OrdersByKey(Found(offsetWalk.search), items) :
       Shown(offsetWalk.total, PageOf(ordered, offsetWalk.page, offsetWalk.pageSize))
  /\ UNCHANGED <<items, changes>>

(* The page of sites and their number come from one $facet.                *)
FindOverseasSites ==
  /\ offsetWalk.phase = "asking" /\ offsetWalk.kind = "sites"
  /\ \E ordered \in OrdersByKey(Found(offsetWalk.search), items) :
       Shown(Len(ordered), PageOf(ordered, offsetWalk.page, offsetWalk.pageSize))
  /\ UNCHANGED <<items, changes>>

(* An organisation is registered or renamed, a site is mapped or no longer *)
(* so, between two pages or between a count and its page.                  *)
Change(x, key, kind) ==
  /\ changes < MaxChanges
  /\ items' = [items EXCEPT ![x] = key]
  /\ changes' = changes + 1
  /\ offsetWalk' = IF offsetWalk = NoReading THEN NoReading
                   ELSE [offsetWalk EXCEPT
                     !.changed    = IF @ = "anything" THEN @ ELSE kind,
                     !.throughout = {y \in @ : items'[y] # Absent /\ items'[y] \in offsetWalk.search}]

AddItem(x, key) == items[x] = Absent /\ Change(x, key, "added")

MoveItem(x, key) ==
  items[x] # Absent /\ items[x] # key /\ Change(x, key, "anything")

OffsetInit ==
  /\ items \in [ItemIds -> Keys \cup {Absent}]
  /\ changes = 0
  /\ offsetWalk = NoReading

OffsetNext ==
  \/ \E kind \in {"organisations", "sites"}, search \in Searches,
       pageSize \in PageSizes : OpenWalk(kind, search, pageSize)
  \/ CountOrganisations
  \/ FindOrganisations
  \/ FindOverseasSites
  \/ \E x \in ItemIds, key \in Keys : AddItem(x, key)
  \/ \E x \in ItemIds, key \in Keys \cup {Absent} : MoveItem(x, key)

-----------------------------------------------------------------------------
Finished == offsetWalk # NoReading /\ offsetWalk.phase = "done"

TimesListed(x) == Cardinality({k \in DOMAIN offsetWalk.listed : offsetWalk.listed[k] = x})

SharesKey(x) == \E y \in ItemIds \ {x} : items[y] = items[x]

(* A walk during which nothing changes lists an item whose key it shares   *)
(* with no other exactly once, and as many rows as there are items.        *)
QuietWalkListsUnshared ==
  Finished /\ offsetWalk.changed = "nothing" =>
    /\ Len(offsetWalk.listed) = Cardinality(Found(offsetWalk.search))
    /\ \A x \in Found(offsetWalk.search) : ~SharesKey(x) => TimesListed(x) = 1

(* Mappings that are added during a walk of the sites may make it list a   *)
(* site twice, but never skip one: rows only ever move to pages not read   *)
(* yet, and the number of pages is that of the rows it was counted with.   *)
AdditionsSkipNoSite ==
  Finished /\ offsetWalk.kind = "sites" /\ offsetWalk.changed # "anything" =>
    \A x \in offsetWalk.throughout : ~SharesKey(x) => TimesListed(x) >= 1
=============================================================================
