-------------------------------- MODULE Paging --------------------------------
(***************************************************************************)
(* The collections followers and following of a local actor                *)
(* (aphttp/collections_handlers.go, store/collections.go), read by another *)
(* server page by page while follows come, are answered and go.  The two   *)
(* collections differ in a column only; the rows here are those of either. *)
(*                                                                         *)
(* A row is its id.  Ids grow, but are given before the commit: rows may   *)
(* appear out of turn.  A follow that is made again after it was deleted   *)
(* has a new one.  A page is two statements: the rows are counted, then    *)
(* listed.  With authorized fetch the request must be signed (Wire).       *)
(***************************************************************************)
EXTENDS Signature, FiniteSets, FiniteSetsExt

CONSTANTS
  Ids,            \* bound: the ids of rows, 1 .. n
  MaxLimit,       \* the longest page, 200
  DefaultLimit,   \* the page for a limit that is missing or not positive, 50
  Accepted,       \* the rows that are accepted at first, the newest last
  Changes         \* bound: changes of the table

ASSUME PagingAssumption ==
  /\ Ids \subseteq Nat \ {0} /\ Ids # {} /\ IsFiniteSet(Ids) /\ Accepted \subseteq Ids
  /\ {MaxLimit, DefaultLimit, Changes} \subseteq Nat /\ DefaultLimit \in 1 .. MaxLimit

VARIABLES
  rows,      \* rows[i]: "none", "pending", "accepted" or "deleted"
  changes,   \* changes so far
  walk,      \* the reading: at, limit, max, since, total
  got,       \* got[i]: how often row i was listed (history)
  steady     \* rows that have been accepted since the reading began (history)

pagingVars == <<rows, changes, walk, got, steady>>

\* The largest id and one more: max_id=MaxInt64.
Sentinel == Max(Ids) + 1

PagingInit ==
  /\ rows = [i \in Ids |-> IF i \in Accepted THEN "accepted" ELSE "none"]
  /\ changes = 0
  /\ got = [i \in Ids |-> 0]
  /\ steady = Accepted

InCollection(i) == rows[i] = "accepted"

\* A follow is inserted, is accepted, is asked for again, which makes an accepted one
\* pending, or is deleted.
Change(i) ==
  /\ changes < Changes /\ changes' = changes + 1
  /\ \E s \in {"pending", "accepted", "deleted"} :
       /\ rows[i] # "deleted" /\ s # rows[i] /\ (rows[i] = "none" => s # "deleted")
       /\ rows' = [rows EXCEPT ![i] = s]
       /\ steady' = IF s = "accepted" THEN steady ELSE steady \ {i}
  /\ UNCHANGED <<walk, got>>

\* collectionPageParams: the limit of the query.
collectionPageParams(limit) == IF limit > 0 THEN limit ELSE DefaultLimit

\* The limit as FollowersPage and FollowingPage take it.
Clamp(limit) == IF limit > MaxLimit THEN MaxLimit ELSE limit

\* The root of the collection: the count, and firstCollectionPageURL, which has the
\* sentinel as a cursor and no since_id.
GetRoot ==
  /\ walk.at = "root"
  /\ walk' = [walk EXCEPT !.at = "count", !.limit = collectionPageParams(@), !.max = Sentinel,
                          !.since = 0, !.total = Cardinality({i \in Ids : InCollection(i)})]
  /\ UNCHANGED <<rows, changes, got, steady>>

\* GetFollowersCollection and GetFollowingCollection, asked for a page: COUNT.
CountPage ==
  /\ walk.at = "count"
  /\ walk' = [walk EXCEPT !.at = "list", !.limit = collectionPageParams(@),
                          !.total = Cardinality({i \in Ids : InCollection(i)})]
  /\ UNCHANGED <<rows, changes, got, steady>>

\* The rows between the cursors, the newest first, no more than the limit.
Between(limit) ==
  LET all == {i \in Ids : InCollection(i) /\ i < walk.max /\ i > walk.since} IN
  {i \in all : Cardinality({j \in all : j > i}) < limit}

\* Bug variant: the page is full when it has as many rows as the client asked for.
ListPageUnclamped ==
  LET page == Between(Clamp(walk.limit)) IN
  /\ walk.at = "list"
  /\ got' = [i \in Ids |-> IF i \in page THEN got[i] + 1 ELSE got[i]]
  /\ walk' = IF Cardinality(page) = walk.limit THEN [walk EXCEPT !.at = "count", !.max = Min(page)]
             ELSE [walk EXCEPT !.at = "end"]
  /\ UNCHANGED <<rows, changes, steady>>

\* The list of FollowersPage and FollowingPage; a full page has a next one, which keeps
\* the rest of the query (orderedCollectionPageDoc).
ListPage ==
  LET page == Between(Clamp(walk.limit)) IN
  /\ walk.at = "list"
  /\ got' = [i \in Ids |-> IF i \in page THEN got[i] + 1 ELSE got[i]]
  /\ walk' = IF Cardinality(page) = Clamp(walk.limit) THEN [walk EXCEPT !.at = "count", !.max = Min(page)]
             ELSE [walk EXCEPT !.at = "end"]
  /\ UNCHANGED <<rows, changes, steady>>

================================================================================
