-------------------------------- MODULE Statuses --------------------------------
(***************************************************************************)
(* Statuses of the client API (mastodonapi.go, v1_handlers.go,             *)
(* status_social_handlers.go) and what becomes of them: each is published  *)
(* as an activity (PublishLocalActivityBytes in aphttp), which is one      *)
(* transaction: the activity, its side effect and a delivery for each      *)
(* inbox.  Everything a handler reads before is read in other statements.  *)
(*                                                                         *)
(* An activity and its row are named for the request that published it;    *)
(* a status is its Create.  Deliveries are those that were enqueued: their *)
(* way to the inboxes is SqlQueue's and DeliveryBackoff's.  Left out: the  *)
(* text, content warnings and lists of statuses.                           *)
(***************************************************************************)
EXTENDS Media

CONSTANTS
  Users,       \* local users
  Followers,   \* Followers[u]: the remote actors whose follow of u is accepted at the start
  By,          \* By[s]: the author of the remote status s that was received
  MaxMedia     \* AP_MEDIA_MAX_ATTACHMENTS

Received == DOMAIN By

\* Who may be named, and the rows of an activity and of an upload.
Named == UNION ({Users, {By[x] : x \in Received}}
                \cup {Followers[u] : u \in Users}
                \cup {{Req[r].actor} : r \in {x \in Requests : Req[x].op = "follow"}}
                \cup {Req[r].direct : r \in {x \in Requests : Req[x].op = "post"}})

ActivityRows == [kind : {"Create", "Delete", "Like", "Announce", "Undo"}, actor : Named,
                 of : Requests \cup Received \cup {Nothing}, to : SUBSET Named, media : SUBSET Requests,
                 audience : SUBSET (Named \cup {"public", "followers"})]

MediaRows == [owner : Users, described : BOOLEAN, state : {"pending", "complete"}]

ASSUME StatusAssumption ==
  /\ Nothing \notin Users \cup Received \cup ActivityRows \cup MediaRows
  /\ \A x \in Received : x \notin Requests /\ By[x] \notin Users
  /\ Followers \in [Users -> SUBSET Named]
  /\ \A t \in Issued : t.user \in Users \cup {Nothing}
  /\ \A r \in Requests :
       /\ Req[r].op = "authorize" => Req[r].user \in Users
       /\ Req[r].op \in {"follow", "unfollow"} => Req[r].of \in Users
       /\ Req[r].op = "post" => /\ Req[r].media \subseteq Requests
                                /\ Req[r].of \in Requests \cup Received \cup {Nothing}

VARIABLES
  activities,  \* activities[r]: kind, actor, of (a request), to, audience and media; or Nothing
  deleted,     \* statuses with deleted_at
  edges,       \* federated_likes, federated_announces: edges[k] is an activity, or Nothing
  bookmarks,   \* mastodon_status_bookmarks
  followers,   \* follows: the remote actors whose follow of a user is accepted
  raced        \* pairs a favourite or a boost was not checked for in turn (history)

statusVars == <<activities, deleted, edges, bookmarks, followers, raced>>

Statuses == OfOp("post") \cup Received
EdgeKeys == {"Like", "Announce"} \X Users \X Statuses

StatusInit ==
  /\ activities = [r \in plan.reqs \cup Received |->
       IF r \in Received
       THEN [kind |-> "Create", actor |-> By[r], of |-> Nothing, audience |-> {}, to |-> {}, media |-> {}]
       ELSE Nothing]
  /\ deleted = {}
  /\ edges = [k \in EdgeKeys |-> Nothing]
  /\ bookmarks = {}
  /\ followers = Followers
  /\ raced = {}

(***************************************************************************)
(* Who follows                                                             *)
(***************************************************************************)
\* A remote Follow of a local user is accepted when it is handled, and gone when its Undo
\* is (inboxproc, module Follows); neither is a request of a client.
HandleFollow(r) ==
  LET u == Req[r].of IN
  /\ Req[r].op \in {"follow", "unfollow"} /\ pc[r] = "new"
  /\ followers' = [followers EXCEPT ![u] = IF Req[r].op = "follow" THEN @ \cup {Req[r].actor}
                                                                ELSE @ \ {Req[r].actor}]
  /\ Reply(r, 202)
  /\ UNCHANGED <<faults, oauthVars, mediaVars, activities, deleted, edges, bookmarks, raced>>

(***************************************************************************)
(* PublishLocalActivityBytes                                               *)
(***************************************************************************)
\* The audience is a set of "public", "followers" and actors.  A public activity names
\* the accepted followers too: those of the moment, read by every publication anew (here
\* with the last thing a handler reads before it).
appendFollowerCCForPublicPosts(user, audience) ==
  IF "public" \in audience THEN audience \cup followers[user] ELSE audience

\* The inboxes of the actors named that are not local; neither Public nor the
\* collection of followers has one.
resolveDeliveryInboxes(audience) == audience \ ({"public", "followers"} \cup Users)

Activity(kind, user, of, audience, m) ==
  [kind |-> kind, actor |-> user, of |-> of, audience |-> audience, media |-> m,
   to |-> resolveDeliveryInboxes(appendFollowerCCForPublicPosts(user, audience))]

\* Bug variant: the row goes whichever activity made it.
EffectsByPair(r, a) ==
  CASE a.kind \in {"Like", "Announce"} -> [edges EXCEPT ![<<a.kind, a.actor, a.of>>] = r]
    [] a.kind = "Undo" -> [k \in EdgeKeys |->
                             IF k[2] = a.actor /\ k[3] = activities[a.of].of THEN Nothing ELSE edges[k]]
    [] OTHER -> edges

\* recordOutboxFollowEffects: a like or a boost is upserted, an Undo deletes the row of
\* its activity and actor.
recordOutboxFollowEffects(r, a) ==
  CASE a.kind \in {"Like", "Announce"} -> [edges EXCEPT ![<<a.kind, a.actor, a.of>>] = r]
    [] a.kind = "Undo" -> [k \in EdgeKeys |->
                             IF edges[k] = a.of /\ k[2] = a.actor THEN Nothing ELSE edges[k]]
    [] OTHER -> edges

\* persistOutboxAndEnqueue for the SQL queue, all or nothing.
persistOutboxAndEnqueue(r, a) ==
  /\ activities' = [activities EXCEPT ![r] = a]
  /\ edges' = recordOutboxFollowEffects(r, a)

(***************************************************************************)
(* POST /api/v1/statuses                                                   *)
(***************************************************************************)
Exists(s) == s \in DOMAIN activities /\ activities[s] # Nothing
IsNote(s) == Exists(s) /\ activities[s].kind = "Create"

\* What the four visibilities are addressed to.
Addressing(r) ==
  CASE Req[r].visibility \in {"public", "unlisted"} -> {"public", "followers"}
    [] Req[r].visibility = "private" -> {"followers"}
    [] OTHER -> Req[r].direct

\* Bug variant: an upload that is still processing is attached.
BadMediaUnlessOwned(r) == \E u \in Req[r].media : ~Owns(held[r].user, u)

\* The uploads must be the user's and complete.
BadMedia(r) ==
  \E u \in Req[r].media : ~Owns(held[r].user, u) \/ media[u].state # "complete"

\* postStatuses up to the publication, in the order of its checks; the status replied
\* to or quoted may have been deleted.
postStatuses(r) ==
  /\ At(r, "post", "begin")
  /\ \/ ~Req[r].text /\ Req[r].media = {} /\ Reply(r, 400)
     \/ /\ Req[r].text \/ Req[r].media # {}
        /\ IF Cardinality(Req[r].media) > MaxMedia THEN Reply(r, 422)
           ELSE IF Req[r].visibility \notin {"public", "unlisted", "private", "direct"} THEN Reply(r, 400)
           ELSE IF Req[r].visibility = "direct" /\ (Req[r].direct = {} \/ Nothing \in Req[r].direct) THEN Reply(r, 422)
           ELSE IF BadMedia(r) THEN Reply(r, 422)
           ELSE IF Req[r].of # Nothing /\ ~IsNote(Req[r].of) THEN Reply(r, 404)
           ELSE Goto(r, "publish", [user |-> held[r].user,
                  act |-> Activity("Create", held[r].user, Req[r].of, Addressing(r), Req[r].media)])
  /\ UNCHANGED <<faults, oauthVars, mediaVars, statusVars>>

(***************************************************************************)
(* DELETE /api/v1/statuses/:id                                             *)
(***************************************************************************)
\* Bug variant: the row is marked first.
deleteStatusFirst(r) ==
  /\ At(r, "delete", "begin")
  /\ IF ~Exists(Req[r].of) \/ activities[Req[r].of].actor # held[r].user \/ Req[r].of \in deleted \/ ~IsNote(Req[r].of)
     THEN Reply(r, 404) /\ UNCHANGED deleted
     ELSE /\ deleted' = deleted \cup {Req[r].of}
          /\ Goto(r, "publish", [user |-> held[r].user,
               act |-> Activity("Delete", held[r].user, Req[r].of, {"public"}, {})])
  /\ UNCHANGED <<faults, oauthVars, mediaVars, activities, edges, bookmarks, followers, raced>>

\* deleteStatus up to the publication, which is addressed to everybody.
deleteStatus(r) ==
  /\ At(r, "delete", "begin")
  /\ IF ~Exists(Req[r].of) THEN Reply(r, 404)
     ELSE IF activities[Req[r].of].actor # held[r].user THEN Reply(r, 403)
     ELSE IF Req[r].of \in deleted \/ ~IsNote(Req[r].of) THEN Reply(r, 404)
     ELSE Goto(r, "publish", [user |-> held[r].user,
            act |-> Activity("Delete", held[r].user, Req[r].of, {"public"}, {})])
  /\ UNCHANGED <<faults, oauthVars, mediaVars, statusVars>>

\* SoftDeleteActivityForActor, the last statement of deleteStatus.
SoftDeleteActivityForActor(r) ==
  /\ At(r, "delete", "remove")
  /\ deleted' = deleted \cup {Req[r].of}
  /\ Done(r, 200, 500)
  /\ UNCHANGED <<oauthVars, mediaVars, activities, edges, bookmarks, followers, raced>>

(***************************************************************************)
(* Favourites, boosts and bookmarks                                        *)
(***************************************************************************)
KindOf(r) == IF Req[r].op \in {"favourite", "unfavourite"} THEN "Like" ELSE "Announce"
KeyOf(r, user) == <<KindOf(r), user, Req[r].of>>

\* A request of the pair has found no row and has not published yet.
Publishing(r) ==
  \E q \in plan.reqs : /\ q # r /\ Req[q].op = Req[r].op /\ pc[q] = "publish"
                       /\ KeyOf(q, held[q].user) = KeyOf(r, held[r].user)

\* writeStatusPresentation: a deleted status is not shown.  The row is the one that was
\* read first.
Present(r) == IF Req[r].of \in deleted THEN 404 ELSE 200

\* A like is for the author, a boost for everybody and the author.
EdgeAudience(r) ==
  {activities[Req[r].of].actor} \cup (IF Req[r].op = "favourite" THEN {} ELSE {"public", "followers"})

PublishEdge(r) ==
  Goto(r, "publish", [user |-> held[r].user,
         act |-> Activity(KindOf(r), held[r].user, Req[r].of, EdgeAudience(r), {}), code |-> Present(r)])

\* postStatusFavourite and postStatusReblog up to the publication; an error of the
\* SELECT counts as no row.
Social(r) ==
  LET key == KeyOf(r, held[r].user) IN
  /\ Req[r].op \in {"favourite", "reblog"} /\ At(r, Req[r].op, "begin")
  /\ \/ ~IsNote(Req[r].of) /\ Reply(r, 404) /\ UNCHANGED <<faults, raced>>
     \/ IsNote(Req[r].of) /\ edges[key] # Nothing /\ Reply(r, Present(r)) /\ UNCHANGED <<faults, raced>>
     \/ /\ IsNote(Req[r].of) /\ edges[key] = Nothing
        /\ PublishEdge(r)
        /\ raced' = IF Publishing(r) THEN raced \cup {key} ELSE raced
        /\ UNCHANGED faults
     \/ /\ IsNote(Req[r].of) /\ edges[key] # Nothing
        /\ PublishEdge(r)
        /\ raced' = raced \cup {key}
        /\ Fault
  /\ UNCHANGED <<oauthVars, mediaVars, activities, deleted, edges, bookmarks, followers>>

\* postStatusUnfavourite and postStatusUnreblog: the Undo of the row's activity, which
\* is addressed to nobody.
UndoSocial(r) ==
  LET row == edges[KeyOf(r, held[r].user)] IN
  /\ Req[r].op \in {"unfavourite", "unreblog"} /\ At(r, Req[r].op, "begin")
  /\ IF ~IsNote(Req[r].of) \/ row = Nothing THEN Reply(r, 404)
     ELSE Goto(r, "publish", [user |-> held[r].user,
            act |-> Activity("Undo", held[r].user, row, {}, {}), code |-> Present(r)])
  /\ UNCHANGED <<faults, oauthVars, mediaVars, statusVars>>

\* UpsertStatusBookmark and DeleteStatusBookmark, in postStatusBookmarkToggle.
Bookmark(r) ==
  /\ Req[r].op \in {"bookmark", "unbookmark"} /\ At(r, Req[r].op, "begin")
  /\ IF ~IsNote(Req[r].of) THEN Reply(r, 404) /\ UNCHANGED <<bookmarks, faults>>
     ELSE /\ bookmarks' = IF Req[r].op = "bookmark" THEN bookmarks \cup {<<held[r].user, Req[r].of>>}
                                               ELSE bookmarks \ {<<held[r].user, Req[r].of>>}
          /\ Done(r, Present(r), 500)
  /\ UNCHANGED <<oauthVars, mediaVars, activities, deleted, edges, followers, raced>>

(***************************************************************************)
(* The publication, and reading                                            *)
(***************************************************************************)
\* PublishLocalActivityBytes in every handler; the answer to its commit may be lost.
PublishLocalActivityBytes(r) ==
  /\ pc[r] = "publish"
  /\ persistOutboxAndEnqueue(r, held[r].act)
  /\ \/ Req[r].op = "delete" /\ Goto(r, "remove", held[r]) /\ UNCHANGED faults
     \/ Req[r].op = "post" /\ Done(r, 200, 500)
     \/ Req[r].op \notin {"delete", "post"} /\ Reply(r, held[r].code) /\ UNCHANGED faults
     \/ Reply(r, 400) /\ Fault
  /\ UNCHANGED <<oauthVars, mediaVars, deleted, bookmarks, followers, raced>>

\* getStatus and mastodonStatusPresentation.
getStatus(r) ==
  /\ At(r, "show", "begin")
  /\ Reply(r, IF IsNote(Req[r].of) /\ Req[r].of \notin deleted THEN 200 ELSE 404)
  /\ UNCHANGED <<faults, oauthVars, mediaVars, statusVars>>

\* A statement fails, or an inbox cannot be resolved: nothing is published.
StatusFail(r) ==
  /\ Req[r].op \in {"post", "delete", "favourite", "unfavourite", "reblog", "unreblog",
               "bookmark", "unbookmark", "show"}
  /\ pc[r] \in {"begin", "publish", "remove"}
  /\ Fault
  /\ Reply(r, CASE pc[r] = "begin" -> 404 [] pc[r] = "publish" -> 400 [] OTHER -> 500)
  /\ UNCHANGED <<oauthVars, mediaVars, statusVars>>

StatusStep(r) ==
  \/ postStatuses(r) \/ deleteStatus(r) \/ SoftDeleteActivityForActor(r)
  \/ Social(r) \/ UndoSocial(r) \/ Bookmark(r)
  \/ PublishLocalActivityBytes(r) \/ getStatus(r) \/ StatusFail(r) \/ HandleFollow(r)
=================================================================================
