--------------------------------- MODULE Client ---------------------------------
(***************************************************************************)
(* The client API as a whole: the requests of OAuth, Media, Statuses and   *)
(* Timelines on one set of tables, their handlers interleaved, and a crash *)
(* of the process that runs them.                                          *)
(***************************************************************************)
EXTENDS Timelines

vars == <<apiVars, oauthVars, mediaVars, statusVars, timelineVars>>

Init == ApiInit /\ OAuthInit /\ MediaInit /\ StatusInit /\ TimelineInit

Step(r) ==
  \/ OAuthStep(r) /\ UNCHANGED <<mediaVars, statusVars, timelineVars>>
  \/ bearer(r) /\ UNCHANGED <<statusVars, timelineVars>>
  \/ MediaStep(r) /\ UNCHANGED <<statusVars, timelineVars>>
  \/ StatusStep(r) /\ UNCHANGED timelineVars
  \/ TimelineStep(r) /\ UNCHANGED <<oauthVars, mediaVars>>

\* The process dies with all handlers, transactions and goroutines it has; what is
\* committed and the files stay.
Crash ==
  /\ Fault
  /\ \E r \in plan.reqs : pc[r] \notin {"new", "answered"} \/ r \in working
  /\ pc' = [r \in plan.reqs |-> IF pc[r] = "new" THEN "new" ELSE "answered"]
  /\ held' = [r \in plan.reqs |-> Nothing]
  /\ locked' = [c \in Codes |-> Nothing]
  /\ working' = {}
  /\ UNCHANGED <<plan, answer, apps, codes, expired, tokens, grants, tmp, blobs, media, statusVars, timelineVars>>

Next ==
  \/ \E r \in plan.reqs : Step(r)
  \/ \E c \in codes : Expire(c) /\ UNCHANGED <<mediaVars, statusVars, timelineVars>>
  \/ \E f \in DOMAIN filters : FilterExpires(f) /\ UNCHANGED <<oauthVars, mediaVars>>
  \/ \E u \in working : Process(u) /\ UNCHANGED <<statusVars, timelineVars>>
  \/ Crash

\* Requests that are begun go on, and so do the goroutines of uploads.
Fairness ==
  /\ WF_vars(\E r \in Begun : Step(r))
  /\ WF_vars(\E u \in working : Process(u) /\ UNCHANGED <<statusVars, timelineVars>>)

Spec == Init /\ [][Next]_vars
FairSpec == Spec /\ Fairness
---------------------------------------------------------------------------------
(***************************************************************************)
(* Properties                                                              *)
(***************************************************************************)
\* The types of all variables; who has a code locked is in the middle of its exchange.
TypeOK ==
  /\ pc \in [plan.reqs -> {"new", "begin", "consume", "check", "commit", "rename", "insert",
                           "publish", "remove", "member", "ask", "rows", "filter", "answered"}]
  /\ answer \in [plan.reqs -> {Nothing} \cup 200 .. 599]
  /\ \A r \in plan.reqs : pc[r] \in {"new", "answered"} => held[r] = Nothing
  /\ codes \subseteq grants /\ grants \subseteq Codes /\ expired \subseteq grants
  /\ locked \in [Codes -> plan.reqs \cup {Nothing}]
  /\ \A c \in Codes : locked[c] # Nothing => pc[locked[c]] \in {"check", "commit"} /\ held[locked[c]] = c
  /\ tmp \cup blobs \cup working \subseteq Uploads
  /\ deleted \subseteq Statuses
  /\ edges \in [EdgeKeys -> plan.reqs \cup {Nothing}]
  /\ bookmarks \subseteq Users \X Statuses
  /\ followers \in [Users -> SUBSET Named]
  /\ raced \subseteq EdgeKeys
  /\ \A m \in members : lists[m[1]] # Nothing
  /\ faults \in Nat

\* An authorization code gives one token at most, however many exchanges are under way
\* and wherever they are refused, fail or die; and it is gone only when there is one.
CodeSpentOnce ==
  \A c \in grants :
    LET made == {t \in tokens : t.grant = c} IN
    /\ Cardinality(made) <= 1
    /\ c \in codes <=> made = {}

\* A token is had by the client its user granted the code to, at the address and with
\* the verifier of the grant.
RightlyHad(t) ==
  \/ t \in Issued
  \/ /\ t.grant \in grants /\ t.user = Req[t.grant].user
     /\ \E e \in OfOp("exchange") :
          /\ Req[e].token = t.token
          /\ Req[e].client = Req[t.grant].client /\ Req[e].redirect = Req[t.grant].redirect
          /\ pkceVerify(Req[e].verifier, t.grant)

\* What has been published, of some kind.
Published(kinds) == {r \in Begun : activities[r] # Nothing /\ activities[r].kind \in kinds}
Recorded         == {u \in Begun \cap Uploads : media[u] # Nothing}

\* What is done under a token is done as the user who granted it, from the exchange of
\* the code to the activity that goes out; and nobody deletes a status or undoes a like
\* that is not his.
ActsForItsUser ==
  LET As(r, user) == \E t \in tokens : t.token = Req[r].token /\ t.user = user /\ RightlyHad(t) IN
  /\ \A u \in Recorded : As(u, media[u].owner)
  /\ \A r \in Published({"Create", "Delete", "Like", "Announce", "Undo"}) : As(r, activities[r].actor)
  /\ \A r \in Published({"Delete", "Undo"}) : activities[activities[r].of].actor = activities[r].actor

\* An attachment of a status is a whole file, an upload of the author's, and processed;
\* every row has its file.
AttachmentsReady ==
  /\ Recorded \subseteq blobs \ tmp
  /\ \A r \in Published({"Create"}) : \A u \in activities[r].media :
       Owns(activities[r].actor, u) /\ media[u].state = "complete"

\* Who has ceased to follow u, if only for a time.
Left(u) == {Req[q].actor : q \in {x \in OfOp("unfollow") \cap Begun : Req[x].of = u}}

\* No status is deleted in silence: its author's Delete was published, and goes to all
\* the inboxes its Create went to, those of a direct status excepted and those of actors
\* who ceased to follow: the followers are read by each publication, so these keep the
\* status.  A Delete that was published leaves the status only while its handler is under
\* way, or after a fault.
DeleteTold ==
  /\ \A s \in deleted : \E d \in Published({"Delete"}) : activities[d].of = s
  /\ \A d \in Published({"Delete"}) :
       LET told == activities[d].of IN
       /\ \/ Req[told].visibility = "direct"
          \/ activities[told].to \subseteq activities[d].to \cup Left(activities[d].actor)
       /\ told \in deleted \/ pc[d] = "remove" \/ faults > 0

\* The tables say what was published: the like or boost of a row was published and not
\* undone, and one that was published and not undone has the row, unless a second was
\* published before the first was seen.
LikesAgree ==
  LET Undone(r) == \E u \in Published({"Undo"}) : activities[u].of = r
      Pair(r)   == <<activities[r].kind, activities[r].actor, activities[r].of>> IN
  /\ \A k \in EdgeKeys : edges[k] # Nothing =>
       edges[k] \in Published({"Like", "Announce"}) /\ Pair(edges[k]) = k /\ ~Undone(edges[k])
  /\ \A r \in Published({"Like", "Announce"}) : Pair(r) \in raced \/ Undone(r) \/ edges[Pair(r)] = r

\* The filter f hid its statuses from the home timeline of the reader of r all the while:
\* it was there when r began, is not over, and whatever changed it was answered before.
HidAllTheWhile(r, f) ==
  /\ read[r].filters[f] # Nothing /\ filters[f] = read[r].filters[f]
  /\ Bearer(Req[r].token) = {filters[f].owner} /\ "home" \in filters[f].contexts /\ ~filters[f].over
  /\ \A q \in Begun : Req[q].op \in {"put filter", "delete filter"} /\ Req[q].of = f => q \in read[r].answered

\* A read shows nothing that was deleted before it began.  The timeline of a list shows
\* only accounts that its owner put there, and that were in the table when it began or
\* were put there since: not one whose row was gone by then, taken out or with its list,
\* although the owner is looked at in one statement and the members in another.  And what
\* a filter of the reader hid all the while is not shown, unless the filters could not be
\* read.
ReadsHonest ==
  \A r \in Readers :
    LET shown == read[r].shown IN
    /\ shown \cap read[r].deleted = {}
    /\ Req[r].op = "list timeline" => \A s \in shown :
         LET x == activities[s].actor
             adds == {q \in OfOp("add") \cap Begun : /\ Req[q].of = Req[r].of /\ Req[q].account = x
                                                    /\ Bearer(Req[q].token) = Bearer(Req[r].token)}
         IN adds # {} /\ (x \in read[r].members \/ ~(adds \subseteq read[r].answered))
    /\ Req[r].op \in {"home", "list timeline"} /\ ~read[r].unfiltered =>
         \A f \in DOMAIN filters : HidAllTheWhile(r, f) => shown \cap filters[f].hides = {}
    /\ Req[r].op = "conversations" => \A s \in shown :
         \/ Bearer(Req[r].token) = {activities[s].actor}
         \/ Bearer(Req[r].token) \subseteq Req[s].direct

\* The favourites show a status as favourited only if the user "has a like on" it
\* (ActorHasLikedObject, store/social_counts.go:56) when they are asked for.
FavouritesAgree == \A r \in OfOp("favourites") : read[r].shown \subseteq read[r].liked

\* A status that is addressed to the followers is delivered to them, to those at least who
\* follow all the time: fan-out uses the individual actors in place of the collection
\* (aphttp/postoutbox.go:538).
FollowersReceive ==
  \A r \in Published({"Create"}) :
    "followers" \in activities[r].audience =>
      LET u == activities[r].actor IN Followers[u] \ Left(u) \subseteq activities[r].to

\* An upload that was recorded can be attached in the end, unless a statement failed or
\* the process died: nobody takes the processing up again.
PendingMediaCompletes ==
  []<>(faults > 0 \/ \A u \in Recorded : media[u].state = "complete")

\* Every request ends, those included that wait for the transaction of another: again
\* and again no handler is under way.
RequestsEnd == []<>(\A r \in Begun : pc[r] = "answered")
=================================================================================
