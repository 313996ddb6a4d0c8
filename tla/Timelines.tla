------------------------------- MODULE Timelines -------------------------------
(***************************************************************************)
(* Lists, filters and the reads of many statuses (mastodonapi: timelines,  *)
(* lists_handlers, filter_handlers, filter_apply; store: mastodon_lists,   *)
(* mastodon_filters, activity).  A read is two or three statements: what   *)
(* is asked for (the members of a list, the bookmarks, the likes), the     *)
(* rows, the filters of the reader; other requests come in between.        *)
(*                                                                         *)
(* A list and a filter are named for the request that made them.  Which    *)
(* statuses have the phrase of a filter is part of the request.  Left out: *)
(* titles and the limit of a page; the rows of a page are read in one step *)
(* even by the handlers that read them one by one.                         *)
(***************************************************************************)
EXTENDS Statuses

VARIABLES
  lists,     \* mastodon_lists: the owner, or Nothing
  members,   \* mastodon_list_members: list and account
  filters,   \* mastodon_filters: owner, hides, contexts, expires, over; or Nothing
  read       \* read[r]: what r showed, whether without its filters, and as history what
             \* was answered, deleted, liked, on its list and filtered when it began

timelineVars == <<lists, members, filters, read>>

Reads   == {"home", "public", "account", "list timeline", "conversations", "bookmarks", "favourites"}
Readers == {r \in plan.reqs : Req[r].op \in Reads}

TimelineInit ==
  /\ lists = [l \in OfOp("list") |-> Nothing]
  /\ members = {}
  /\ filters = [f \in OfOp("filter") |-> Nothing]
  /\ read = [r \in Readers |->
       [answered |-> {}, deleted |-> {}, liked |-> {}, members |-> {}, filters |-> filters,
        unfiltered |-> FALSE, shown |-> {}]]

(***************************************************************************)
(* Lists                                                                   *)
(***************************************************************************)
OwnsList(user, l) == l \in DOMAIN lists /\ lists[l] = user

postLists(r) ==
  /\ At(r, "list", "begin")
  /\ lists' = [lists EXCEPT ![r] = held[r].user]
  /\ Done(r, 200, 500)
  /\ UNCHANGED <<statusVars, members, filters, read>>

putListByID(r) ==
  /\ At(r, "rename list", "begin")
  /\ Reply(r, IF OwnsList(held[r].user, Req[r].of) THEN 200 ELSE 404)
  /\ UNCHANGED <<faults, statusVars, timelineVars>>

\* deleteListByID: the members go with the list (ON DELETE CASCADE).
deleteListByID(r) ==
  /\ At(r, "delete list", "begin")
  /\ IF OwnsList(held[r].user, Req[r].of)
     THEN /\ lists' = [lists EXCEPT ![Req[r].of] = Nothing]
          /\ members' = {m \in members : m[1] # Req[r].of}
          /\ Done(r, 204, 404)
     ELSE Reply(r, 404) /\ UNCHANGED <<lists, members, faults>>
  /\ UNCHANGED <<statusVars, filters, read>>

\* Bug variant: the account is added to whichever list.
GetMastodonListOfAnybody(r) ==
  /\ Req[r].op \in {"add", "remove"} /\ At(r, Req[r].op, "begin")
  /\ IF Req[r].of \in DOMAIN lists /\ lists[Req[r].of] # Nothing THEN Goto(r, "member", held[r]) ELSE Reply(r, 404)
  /\ UNCHANGED <<faults, statusVars, timelineVars>>

\* GetMastodonList, the first statement of AddMastodonListMember and of
\* RemoveMastodonListMember.
GetMastodonList(r) ==
  /\ Req[r].op \in {"add", "remove"} /\ At(r, Req[r].op, "begin")
  /\ IF OwnsList(held[r].user, Req[r].of) THEN Goto(r, "member", held[r]) ELSE Reply(r, 404)
  /\ UNCHANGED <<faults, statusVars, timelineVars>>

\* The second, of AddMastodonListMember: the INSERT fails when the list is gone, and any
\* error of it is ignored; the answer lists the members, if the list is there.
AddMastodonListMember(r) ==
  LET here == lists[Req[r].of] # Nothing IN
  /\ At(r, "add", "member")
  /\ \/ members' = (IF here THEN members \cup {<<Req[r].of, Req[r].account>>} ELSE members) /\ UNCHANGED faults
     \/ Fault /\ UNCHANGED members
  /\ Reply(r, IF here THEN 200 ELSE 404)
  /\ UNCHANGED <<statusVars, lists, filters, read>>

\* The second, of RemoveMastodonListMember: any error of it is a 404.
RemoveMastodonListMember(r) ==
  /\ At(r, "remove", "member")
  /\ \/ members' = members \ {<<Req[r].of, Req[r].account>>} /\ Done(r, 204, 404)
     \/ UNCHANGED members /\ Reply(r, 404) /\ Fault
  /\ UNCHANGED <<statusVars, lists, filters, read>>

(***************************************************************************)
(* Filters                                                                 *)
(***************************************************************************)
\* contextsFromBody and the default of InsertMastodonFilter and UpdateMastodonFilter.
Contexts(r) == IF Req[r].contexts = {} THEN {"home", "public", "thread"} ELSE Req[r].contexts

Filter(r) ==
  [owner |-> held[r].user, hides |-> Req[r].hides, contexts |-> Contexts(r), expires |-> Req[r].expires,
   over |-> FALSE]

OwnsFilter(user, f) == f \in DOMAIN filters /\ filters[f] # Nothing /\ filters[f].owner = user

\* postFilters; a filter needs a phrase.
postFilters(r) ==
  /\ At(r, "filter", "begin")
  /\ IF Req[r].phrase THEN filters' = [filters EXCEPT ![r] = Filter(r)] /\ Done(r, 200, 500)
     ELSE Reply(r, 400) /\ UNCHANGED <<filters, faults>>
  /\ UNCHANGED <<statusVars, lists, members, read>>

\* putFilterByID replaces all: an expiry that is not given again is gone.
putFilterByID(r) ==
  /\ At(r, "put filter", "begin")
  /\ IF Req[r].phrase /\ OwnsFilter(held[r].user, Req[r].of)
     THEN filters' = [filters EXCEPT ![Req[r].of] = Filter(r)] /\ Done(r, 200, 404)
     ELSE Reply(r, 404) /\ UNCHANGED <<filters, faults>>
  /\ UNCHANGED <<statusVars, lists, members, read>>

deleteFilterByID(r) ==
  /\ At(r, "delete filter", "begin")
  /\ IF OwnsFilter(held[r].user, Req[r].of)
     THEN filters' = [filters EXCEPT ![Req[r].of] = Nothing] /\ Done(r, 204, 404)
     ELSE Reply(r, 404) /\ UNCHANGED <<filters, faults>>
  /\ UNCHANGED <<statusVars, lists, members, read>>

\* The time of a filter is over.
FilterExpires(f) ==
  /\ filters[f] # Nothing /\ filters[f].expires /\ ~filters[f].over
  /\ filters' = [filters EXCEPT ![f].over = TRUE]
  /\ UNCHANGED <<apiVars, statusVars, lists, members, read>>

\* ListMastodonFiltersForActor and statusHiddenByFilters: what the filters of a user that
\* are not over hide in a context.
Hidden(user, context) ==
  UNION {filters[f].hides : f \in {x \in DOMAIN filters :
           OwnsFilter(user, x) /\ ~filters[x].over /\ context \in filters[x].contexts}}

(***************************************************************************)
(* Reads                                                                   *)
(***************************************************************************)
Liked(user) == {s \in Statuses : user \in Users /\ edges[<<"Like", user, s>>] # Nothing}

\* What a read asks for first: ListMastodonListMemberActorIDs, ListBookmarkedStatusActivityIDs,
\* ListRecentLikeActivitiesForActor, which has the likes that were undone.
Asked(r, user) ==
  CASE Req[r].op = "list timeline" -> {m[2] : m \in {x \in members : x[1] = Req[r].of}}
    [] Req[r].op = "bookmarks"     -> {b[2] : b \in {x \in bookmarks : x[1] = user}}
    [] Req[r].op = "favourites"    -> {activities[q].of : q \in {x \in plan.reqs :
                                         activities[x] # Nothing /\ activities[x].kind = "Like" /\ activities[x].actor = user}}
    [] OTHER                       -> {}

\* History: how things are when the read r begins.
Before(r, user) ==
  [answered |-> {q \in plan.reqs : pc[q] = "answered"}, deleted |-> deleted, liked |-> Liked(user),
   members |-> Asked(r, user), filters |-> filters, unfiltered |-> FALSE, shown |-> {}]

\* The public timeline and that of an account are for anybody.  The owner of a list is
\* looked at before its members are read.
BeginRead(r, user) ==
  /\ Req[r].op \in Reads
  /\ IF Req[r].op # "list timeline"
     THEN Goto(r, "rows", [user |-> user, asked |-> Asked(r, user)]) /\ read' = [read EXCEPT ![r] = Before(r, user)]
     ELSE IF OwnsList(user, Req[r].of)
     THEN Goto(r, "ask", held[r]) /\ read' = [read EXCEPT ![r] = Before(r, user)]
     ELSE Reply(r, 404) /\ UNCHANGED read
  /\ UNCHANGED <<faults, statusVars, lists, members, filters>>

ReadFirst(r) ==
  \/ Req[r].op \in {"public", "account"} /\ pc[r] = "new" /\ BeginRead(r, Nothing)
  \/ Req[r].op \notin {"public", "account"} /\ pc[r] = "begin" /\ BeginRead(r, held[r].user)

ListMastodonListMemberActorIDs(r) ==
  /\ pc[r] = "ask"
  /\ Goto(r, "rows", [user |-> held[r].user, asked |-> Asked(r, held[r].user)])
  /\ UNCHANGED <<faults, statusVars, timelineVars>>

Local(s)  == activities[s].actor \in Users
ForAll(s) == Req[s].visibility \in {"public", "unlisted"}

\* The conditions of the SELECTs: ListRecentCreateActivitiesForActor, ListRecentPublic-
\* CreateActivities, ListRecentCreatesForMemberActors, ListRecentDirectCreatesInvolvingActor.
Wanted(r, s) ==
  LET author == activities[s].actor
      user   == held[r].user
  IN
  CASE Req[r].op = "home"          -> author = user
    [] Req[r].op = "account"       -> author = Req[r].account
    [] Req[r].op = "public"        -> Local(s) /\ ForAll(s)
    [] Req[r].op = "list timeline" -> author \in held[r].asked /\ Local(s) /\ ForAll(s)
    [] Req[r].op = "conversations" -> Local(s) /\ Req[s].visibility = "direct" /\ (author = user \/ user \in Req[s].direct)
    [] OTHER                       -> s \in held[r].asked

ReadRows(r) ==
  /\ pc[r] = "rows"
  /\ Goto(r, "filter", [held[r] EXCEPT !.asked = {s \in Statuses \ deleted : IsNote(s) /\ Wanted(r, s)}])
  /\ UNCHANGED <<faults, statusVars, timelineVars>>

\* filterActivityRowsForViewer, which lets all pass if it cannot read the filters, and
\* mastodonStatusPresentation of the rows as they were read.
filterActivityRowsForViewer(r) ==
  LET hidden == IF Req[r].op \in {"home", "list timeline"} THEN Hidden(held[r].user, "home") ELSE {} IN
  /\ pc[r] = "filter"
  /\ \E h \in {hidden, {}} :
       /\ IF h = hidden THEN UNCHANGED faults ELSE Fault
       /\ read' = [read EXCEPT ![r].shown = held[r].asked \ h, ![r].unfiltered = (h # hidden)]
  /\ Reply(r, 200)
  /\ UNCHANGED <<statusVars, lists, members, filters>>

\* A statement fails.
TimelineFail(r) ==
  /\ Req[r].op \in Reads \cup {"list", "rename list", "delete list", "add", "remove", "filter", "put filter", "delete filter"}
  /\ pc[r] \in {"begin", "ask", "rows"}
  /\ Fault
  /\ Reply(r, IF pc[r] = "rows" \/ Req[r].op \in (Reads \ {"list timeline"}) \cup {"list"} THEN 500 ELSE 404)
  /\ UNCHANGED <<statusVars, timelineVars>>

TimelineStep(r) ==
  \/ postLists(r) \/ putListByID(r) \/ deleteListByID(r)
  \/ GetMastodonList(r) \/ AddMastodonListMember(r) \/ RemoveMastodonListMember(r)
  \/ postFilters(r) \/ putFilterByID(r) \/ deleteFilterByID(r)
  \/ ReadFirst(r) \/ ListMastodonListMemberActorIDs(r) \/ ReadRows(r) \/ filterActivityRowsForViewer(r) \/ TimelineFail(r)
================================================================================
