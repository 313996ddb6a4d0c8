-------------------------------- MODULE Follows --------------------------------
(***************************************************************************)
(* The follow relationship: POSTs to the inboxes (aphttp.SharedInbox),     *)
(* activities local users publish (aphttp.PostOutbox, the follow and       *)
(* unfollow calls of mastodonapi), the worker's handlers for Follow,       *)
(* Accept, Reject and Undo (internal/inboxproc) and the follows table      *)
(* (store/follows.go), over the job queue that JobQueue specifies.         *)
(*                                                                         *)
(* A handler is not a transaction: every statement it issues commits by    *)
(* itself, so other goroutines run between any two of its steps, and when  *)
(* a step fails the whole job is run again from the top.                   *)
(*                                                                         *)
(* Left out: signatures and JSON errors (a request that fails them changes *)
(* nothing), EnsureRemoteActor (an actor is its actors row), the likes,    *)
(* boosts and blocks an Undo may hit instead of a follow, a Follow whose   *)
(* object is no actor of this instance, and the mastodonapi lookups that   *)
(* precede a publish, except the one an unfollow acts on.                  *)
(***************************************************************************)
EXTENDS Integers, FiniteSets

CONSTANTS
  Locals, Remotes,        \* actors of this instance, and of others
  Workers,                \* worker goroutines
  FollowIds,              \* the Follow activities that may be sent
  Undos,                  \* the Undo activities
  Answers,                \* the Accept and Reject activities
  By,                     \* By[a]: the actor of activity a
  Of,                     \* Of[f]: the actor followed; otherwise the Follow undone or answered
  Id,                     \* Id[a]: its id, under which inboxes know it
  Verdict,                \* Verdict[a]: "accepted" (Accept) or "rejected" (Reject)
  AcceptOf,               \* AcceptOf[f]: the Accept this instance makes for f
  NoAct,                  \* no activity
  FollowAutoAccept,       \* cfg.FollowAutoAccept
  MaxAttempts,            \* cfg.DeliveryMaxAttempts
  Bounds                  \* bound: what may be sent in one behaviour, and how many faults occur then

Actors     == Locals \cup Remotes
Activities == FollowIds \cup Undos \cup Answers
Jobs       == {"process", "deliver"} \X Activities
Verdicts   == {"accepted", "rejected"}

\* The follow an activity is about, and the pair of actors of a follow.
About(a) == IF a \in FollowIds THEN a ELSE Of[a]
Pair(f)  == <<By[f], Of[f]>>
Pairs    == {Pair(f) : f \in FollowIds}

\* The Follows the worker may answer: their followee is an actor of this instance.
Inbound == {f \in FollowIds : Of[f] \in Locals}

ASSUME FollowsAssumption ==
  /\ Locals \cap Remotes = {}
  /\ FollowIds \cap Undos = {} /\ FollowIds \cap Answers = {} /\ Undos \cap Answers = {}
  /\ NoAct \notin Activities
  /\ By \in [Activities -> Actors]
  /\ Of \in [Activities -> Actors \cup FollowIds]
  /\ \A f \in FollowIds : Of[f] \in Actors
  /\ \A a \in Undos \cup Answers : Of[a] \in FollowIds
  /\ Verdict \in [Answers -> Verdicts]
  /\ AcceptOf \in [Inbound -> Answers]
  /\ \A f \in Inbound : LET a == AcceptOf[f] IN
       By[a] = Of[f] /\ Of[a] = f /\ Verdict[a] = "accepted"
  /\ FollowAutoAccept \in BOOLEAN
  /\ MaxAttempts \in Nat \ {0}
  /\ Bounds \subseteq [sends : SUBSET Activities, faults : Nat]

VARIABLES
  state, owner, capped, tries,   \* the queue (JobQueue)
  stored,      \* activities in the activities table
  row,         \* row[p]: state and follow_activity_id of the follows row of pair p
  about,       \* about[p]: the Follow that the row of pair p was last written for (history)
  pc,          \* pc[w]: where goroutine w is in its handler
  res,         \* res[w]: how the handler of w ended
  wants,       \* unfollow requests that have looked their follow up
  delivered,   \* activities of this instance that reached an inbox
  removed,     \* Follows whose row an Undo has deleted (history)
  faults       \* statements and requests that failed, workers that vanished

queueVars == <<state, owner, capped, tries>>
vars == <<queueVars, stored, row, about, pc, res, wants, delivered, removed, faults>>

Q == INSTANCE JobQueue

NoRow == [state |-> "none", act |-> NoAct]

Init ==
  /\ Q!Init
  /\ stored = {}
  /\ row = [p \in Pairs |-> NoRow]
  /\ about = [p \in Pairs |-> NoAct]
  /\ pc = [w \in Workers |-> "idle"]
  /\ res = [w \in Workers |-> "ok"]
  /\ wants = {}
  /\ delivered = {}
  /\ removed = {}
  /\ faults = 0

\* Activities A and n faults stay within the bounds.
Within(A, n) == \E b \in Bounds : stored \cup wants \cup A \subseteq b.sends /\ n <= b.faults

Fault == faults' = faults + 1 /\ Within({}, faults')

(***************************************************************************)
(* The statements of store/follows.go.  follow_activity_id is unique.      *)
(***************************************************************************)
UpsertFollow(f, s) ==
  /\ row' = [row EXCEPT ![Pair(f)] = [state |-> s, act |-> f]]
  /\ about' = [about EXCEPT ![Pair(f)] = f]

SetFollowState(f, follower, s) ==
  /\ row' = [p \in Pairs |-> IF row[p].act = f /\ p[1] = follower
                              THEN [row[p] EXCEPT !.state = s] ELSE row[p]]
  /\ UNCHANGED about

DeleteFollow(f, follower) ==
  LET hit == {p \in Pairs : row[p].act = f /\ p[1] = follower} IN
  /\ row' = [p \in Pairs |-> IF p \in hit THEN NoRow ELSE row[p]]
  /\ removed' = IF hit = {} THEN removed ELSE removed \cup {f}
  /\ UNCHANGED about

(***************************************************************************)
(* SharedInbox: the activity and its process job are inserted by one       *)
(* transaction, unless its id is known; the answer is 202 then too.  The   *)
(* Accepts that this program makes for its own kind of Follow share an id  *)
(* (buildAcceptFollow), so a known id need not be a repetition.            *)
(***************************************************************************)
Known(a) == \E b \in stored : Id[b] = Id[a]

SharedInbox(a) ==
  \/ Known(a) /\ UNCHANGED <<stored, queueVars>>
  \/ /\ ~Known(a)
     /\ stored' = stored \cup {a}
     /\ Q!Submit({<<"process", a>>}, {})

\* A remote server POSTs; it answers a Follow of ours once it has received it.
Receive(a) ==
  /\ By[a] \in Remotes
  /\ a \in FollowIds => Of[a] \in Locals
  /\ a \in Answers /\ By[a] = Of[Of[a]] /\ By[Of[a]] \in Locals => Of[a] \in delivered
  /\ Within({a}, faults)
  /\ SharedInbox(a)
  /\ UNCHANGED <<row, about, pc, res, wants, delivered, removed, faults>>

(***************************************************************************)
(* persistOutboxAndEnqueue: the activity, its effect on follows and the    *)
(* jobs are one transaction.  The follow of a local actor is left to the   *)
(* worker; an Accept or Reject has no effect on follows here.              *)
(***************************************************************************)
FollowEffects(f) ==
  /\ IF Of[f] \in Locals THEN UNCHANGED <<row, about>> ELSE UpsertFollow(f, "pending_remote")
  /\ UNCHANGED removed

\* Bug variant: no process job for a follow of a local actor.
PostOutboxDeliversOnly(a) ==
  /\ By[a] \in Locals
  /\ a \notin stored
  /\ stored' = stored \cup {a}
  /\ Q!Submit({<<"deliver", a>>}, {<<"deliver", a>>})
  /\ \/ a \in FollowIds /\ FollowEffects(a)
     \/ a \in Undos /\ DeleteFollow(Of[a], By[a])
     \/ a \in Answers /\ UNCHANGED <<row, about, removed>>

PostOutbox(a) ==
  LET deliver == {<<"deliver", a>>}
      process == IF a \in Inbound THEN {<<"process", a>>} ELSE {} IN
  /\ By[a] \in Locals
  /\ a \notin stored
  /\ stored' = stored \cup {a}
  /\ Q!Submit(deliver \cup process, deliver)
  /\ \/ a \in FollowIds /\ FollowEffects(a)
     \/ a \in Undos /\ DeleteFollow(Of[a], By[a])
     \/ a \in Answers /\ UNCHANGED <<row, about, removed>>

\* Follows by postAccountFollow, answers and Undos by POST /@user/outbox.
Publish(a) ==
  /\ a \notin {AcceptOf[f] : f \in Inbound}
  /\ a \in Undos => Of[a] \in stored
  /\ Within({a}, faults)
  /\ PostOutbox(a)
  /\ UNCHANGED <<pc, res, wants, delivered, faults>>

\* postAccountUnfollow: LookupActiveFollowForUndo, then later the publish.
UnfollowLookup(u) ==
  /\ By[u] \in Locals
  /\ u \notin wants \cup stored
  /\ Within({u}, faults)
  /\ row[Pair(Of[u])].act = Of[u]
  /\ row[Pair(Of[u])].state \in {"accepted", "pending", "pending_remote"}
  /\ wants' = wants \cup {u}
  /\ UNCHANGED <<queueVars, stored, row, about, pc, res, delivered, removed, faults>>

UnfollowPublish(u) ==
  /\ u \in wants
  /\ PostOutbox(u)
  /\ wants' = wants \ {u}
  /\ UNCHANGED <<pc, res, delivered, faults>>

(***************************************************************************)
(* A worker and its lease.                                                 *)
(***************************************************************************)
Goto(w, l) == pc' = [pc EXCEPT ![w] = l]

End(w, how) == Goto(w, "settle") /\ res' = [res EXCEPT ![w] = how]

At(w, l, j) == pc[w] = l /\ w \in owner[j]

Claim(w, j) ==
  /\ pc[w] = "idle"
  /\ Q!Claim(w, j)
  /\ Goto(w, IF j[1] = "deliver" THEN "post" ELSE "begin")
  /\ UNCHANGED <<stored, row, about, res, wants, delivered, removed, faults>>

Settle(w, j) ==
  /\ At(w, "settle", j)
  /\ \/ res[w] = "ok" /\ Q!Complete(w, j)
     \/ res[w] = "error" /\ (Q!Retry(w, j) \/ Q!GiveUp(w, j))
  /\ Goto(w, "idle")
  /\ res' = [res EXCEPT ![w] = "ok"]
  /\ UNCHANGED <<stored, row, about, wants, delivered, removed, faults>>

\* A crash, or a settlement that fails: nobody takes the job again.
Vanish(w) ==
  /\ pc[w] # "idle"
  /\ Fault
  /\ Q!Vanish({w})
  /\ Goto(w, "idle")
  /\ res' = [res EXCEPT ![w] = "ok"]
  /\ UNCHANGED <<stored, row, about, wants, delivered, removed>>

\* A statement or a request of the handler fails.
Fail(w) ==
  /\ pc[w] \in {"post", "begin", "resolve", "enqueue", "setState", "update"}
  /\ Fault
  /\ End(w, "error")
  /\ UNCHANGED <<queueVars, stored, row, about, wants, delivered, removed>>

(***************************************************************************)
(* DeliverActivity.  A delivery to a local actor arrives at this           *)
(* instance's own inbox.                                                   *)
(***************************************************************************)
Recipient(a) == IF a \in Answers THEN By[Of[a]] ELSE Of[About(a)]

Arrive(a) ==
  /\ delivered' = delivered \cup {a}
  /\ \/ Recipient(a) \in Locals /\ SharedInbox(a)
     \/ Recipient(a) \in Remotes /\ UNCHANGED <<stored, queueVars>>

Deliver(w, a) ==
  /\ At(w, "post", <<"deliver", a>>)
  /\ Arrive(a)
  /\ \/ End(w, "ok") /\ UNCHANGED faults
     \/ End(w, "error") /\ Fault
  /\ UNCHANGED <<row, about, wants, removed>>

(***************************************************************************)
(* handleFollow: upsert, resolve the follower's inbox, enqueue the Accept  *)
(* under a key made of the Follow's id, mark the row accepted.             *)
(***************************************************************************)
HandleFollow(w, f) ==
  /\ f \in FollowIds
  /\ At(w, "begin", <<"process", f>>)
  /\ UpsertFollow(f, "pending")
  /\ IF FollowAutoAccept THEN Goto(w, "resolve") /\ UNCHANGED res ELSE End(w, "ok")
  /\ UNCHANGED <<queueVars, stored, wants, delivered, removed, faults>>

ResolveInbox(w, f) ==
  /\ At(w, "resolve", <<"process", f>>)
  /\ Goto(w, "enqueue")
  /\ UNCHANGED <<queueVars, stored, row, about, res, wants, delivered, removed, faults>>

\* The unique index on idempotency_key makes a second Enqueue an error.
EnqueueAccept(w, f) ==
  LET j == <<"deliver", AcceptOf[f]>> IN
  /\ At(w, "enqueue", <<"process", f>>)
  /\ \/ state[j] = "none" /\ Q!Submit({j}, {j}) /\ Goto(w, "setState") /\ UNCHANGED res
     \/ state[j] # "none" /\ End(w, "error") /\ UNCHANGED queueVars
  /\ UNCHANGED <<stored, row, about, wants, delivered, removed, faults>>

\* Bug variant: the UPDATE is keyed by the Accept instead of the Follow.
SetAcceptedByAccept(w, f) ==
  /\ At(w, "setState", <<"process", f>>)
  /\ SetFollowState(AcceptOf[f], By[f], "accepted")
  /\ End(w, "ok")
  /\ UNCHANGED <<queueVars, stored, wants, delivered, removed, faults>>

SetAccepted(w, f) ==
  /\ At(w, "setState", <<"process", f>>)
  /\ SetFollowState(f, By[f], "accepted")
  /\ End(w, "ok")
  /\ UNCHANGED <<queueVars, stored, wants, delivered, removed, faults>>

(***************************************************************************)
(* handleAccept and handleReject: a SELECT by follow_activity_id, a check  *)
(* of the sender, and an UPDATE.                                           *)
(***************************************************************************)
\* Bug variant: the sender is not compared with the followee.
HandleAnswerAnySender(w, a) ==
  /\ a \in Answers
  /\ At(w, "begin", <<"process", a>>)
  /\ Goto(w, "update") /\ UNCHANGED res
  /\ UNCHANGED <<queueVars, stored, row, about, wants, delivered, removed, faults>>

HandleAnswer(w, a) ==
  LET rows == {p \in Pairs : row[p].act = Of[a]} IN
  /\ a \in Answers
  /\ At(w, "begin", <<"process", a>>)
  /\ \/ rows = {} /\ End(w, "ok")
     \/ \E p \in rows : p[2] # By[a] /\ End(w, "error")
     \/ \E p \in rows : p[2] = By[a] /\ Goto(w, "update") /\ UNCHANGED res
  /\ UNCHANGED <<queueVars, stored, row, about, wants, delivered, removed, faults>>

\* Bug variant: the answer is upserted.
UpdateAnsweredUpserts(w, a) ==
  /\ At(w, "update", <<"process", a>>)
  /\ UpsertFollow(Of[a], Verdict[a])
  /\ End(w, "ok")
  /\ UNCHANGED <<queueVars, stored, wants, delivered, removed, faults>>

UpdateAnswered(w, a) ==
  /\ At(w, "update", <<"process", a>>)
  /\ SetFollowState(Of[a], By[Of[a]], Verdict[a])
  /\ End(w, "ok")
  /\ UNCHANGED <<queueVars, stored, wants, delivered, removed, faults>>

\* Bug variant: the Undo of anybody.
HandleUndoAnySender(w, u) ==
  /\ u \in Undos
  /\ At(w, "begin", <<"process", u>>)
  /\ DeleteFollow(Of[u], By[Of[u]])
  /\ End(w, "ok")
  /\ UNCHANGED <<queueVars, stored, wants, delivered, faults>>

\* handleUndo, with a bare IRI or an embedded Follow.
HandleUndo(w, u) ==
  /\ u \in Undos
  /\ At(w, "begin", <<"process", u>>)
  /\ DeleteFollow(Of[u], By[u])
  /\ End(w, "ok")
  /\ UNCHANGED <<queueVars, stored, wants, delivered, faults>>

Handle(w, a) ==
  \/ HandleFollow(w, a) \/ ResolveInbox(w, a) \/ EnqueueAccept(w, a) \/ SetAccepted(w, a)
  \/ HandleAnswer(w, a) \/ UpdateAnswered(w, a)
  \/ HandleUndo(w, a)
  \/ Deliver(w, a)

Next ==
  \/ \E a \in Activities : Receive(a) \/ Publish(a)
  \/ \E u \in Undos : UnfollowLookup(u) \/ UnfollowPublish(u)
  \/ \E w \in Workers :
       \/ \E j \in Jobs : Claim(w, j) \/ Settle(w, j)
       \/ \E a \in Activities : Handle(w, a)
       \/ Fail(w) \/ Vanish(w)

\* The workers go on: a handler that is begun ends, and no Follow or Accept waits for
\* ever (Dequeue takes the row that is due longest; fairness to other jobs is not used).
Fairness ==
  /\ \A f \in Inbound : \A j \in {<<"process", f>>, <<"deliver", AcceptOf[f]>>} :
       SF_vars(\E w \in Workers : Claim(w, j))
  /\ \A w \in Workers :
       WF_vars((\E a \in Activities : Handle(w, a)) \/ (\E j \in Jobs : Settle(w, j)))

Spec == Init /\ [][Next]_vars
FairSpec == Spec /\ Fairness
-------------------------------------------------------------------------------
(***************************************************************************)
(* Properties                                                              *)
(***************************************************************************)
States == {"none", "pending", "pending_remote", "accepted", "rejected"}

\* The types of all variables; a row belongs to the pair of its Follow.
TypeOK ==
  /\ state \in [Jobs -> {"none", "waiting", "taken", "done", "dead"}]
  /\ owner \in [Jobs -> SUBSET Workers]
  /\ capped \subseteq Jobs
  /\ tries \in [Jobs -> Nat]
  /\ stored \subseteq Activities
  /\ row \in [Pairs -> [state : States, act : FollowIds \cup {NoAct}]]
  /\ \A p \in Pairs : IF row[p].act = NoAct THEN row[p] = NoRow
                       ELSE row[p].state # "none" /\ Pair(row[p].act) = p
  /\ about \in [Pairs -> FollowIds \cup {NoAct}]
  /\ pc \in [Workers -> {"idle", "post", "begin", "resolve", "enqueue", "setState", "update", "settle"}]
  /\ res \in [Workers -> {"ok", "error"}]
  /\ wants \subseteq Undos
  /\ delivered \subseteq Activities
  /\ removed \subseteq FollowIds
  /\ faults \in Nat

AnswerBy(f, verdict) ==
  \E a \in Answers \cap stored : Of[a] = f /\ By[a] = Of[f] /\ Verdict[a] = verdict

\* Nobody but the followee settles a follow, and only the Follow the row is about:
\* an accepted row has an Accept of that very Follow by its followee, received or
\* queued by this instance, and a rejected one a Reject.  An answer to a Follow that
\* was undone or sent again meanwhile settles nothing (handleAccept, handleReject).
AnsweredByFollowee ==
  \A p \in Pairs : LET f == row[p].act IN
    /\ row[p].state = "accepted" =>
         \/ AnswerBy(f, "accepted")
         \/ f \in Inbound /\ FollowAutoAccept /\ state[<<"deliver", AcceptOf[f]>>] # "none"
    /\ row[p].state = "rejected" => AnswerBy(f, "rejected")

\* A follow disappears only because its follower undid that very Follow; an Undo
\* by another actor, or of an earlier Follow, leaves the row alone.
OnlyFollowerUndoes ==
  [][\A p \in Pairs : row[p].act # NoAct /\ row'[p].act = NoAct =>
       \E u \in Undos \cap stored' : By[u] = p[1] /\ Of[u] = row[p].act]_vars

RowOf(f) == row[Pair(f)].act = f

\* An unfollow by a local user is final: whatever answer the remote sent before it
\* heard of the Undo, and however late the worker gets to it, the follow stays gone.
OutboundUndoFinal == \A f \in removed \ Inbound : ~RowOf(f)

Quiet ==
  /\ \A w \in Workers : pc[w] = "idle"
  /\ \A j \in Jobs : state[j] \in {"none", "done"}

\* The follower has undone that very Follow, or its followee has rejected it.
Withdraws(a, f) ==
  /\ Of[a] = f
  /\ \/ a \in Undos /\ By[a] = By[f]
     \/ a \in Answers /\ By[a] = Of[f] /\ Verdict[a] = "rejected"

Withdrawn(f) == \E a \in stored : Withdraws(a, f)

\* The follower has the Accept: at its own server, or in this instance's inbox.
Told(f) == AcceptOf[f] \in delivered

\* Both sides agree in the end: once all jobs are done, whoever was told Accept is
\* recorded as a follower, with any number of Follows in flight for the pair, unless
\* the Follow that the row was last written for (the one whose Undo handleUndo honours,
\* undo.go:36) was withdrawn.  An Undo by another actor, or of a Follow that a later
\* upsert of the pair had replaced, is no excuse.  A fault may break the agreement
\* (PendingEndsWithAccept).
QuietAgreement ==
  faults = 0 /\ Quiet => \A f \in Inbound :
    Told(f) => row[Pair(f)].state = "accepted" \/ Withdrawn(about[Pair(f)])

\* A worker was lost with the job, which nobody takes again.
Stranded(j) == state[j] = "taken" /\ owner[j] = {}

\* Every Follow of a local actor is answered, whatever statement or request fails: its
\* follower is told Accept, unless a worker was lost with one of the two jobs or the
\* Accept was tried as often as it may be.  The row says so too, or the Follow it is
\* about was withdrawn; only a fault may leave it pending (PendingEndsWithAccept).
FollowAnswered ==
  \A f \in Inbound : f \in stored ~>
    \/ /\ Told(f)
       /\ \/ row[Pair(f)].state = "accepted"
          \/ row[Pair(f)].state = "pending" /\ faults > 0
          \/ Withdrawn(about[Pair(f)])
    \/ Stranded(<<"process", f>>)
    \/ Stranded(<<"deliver", AcceptOf[f]>>) \/ state[<<"deliver", AcceptOf[f]>>] = "dead"

\* follows.go says of the state pending "inbound Follow stored; Accept not yet sent
\* (or manual)": a row does not stay pending once its Accept is with the follower,
\* unless the job of the Follow was stranded for good.
PendingEndsWithAccept ==
  \A f \in Inbound :
    RowOf(f) /\ row[Pair(f)].state = "pending" /\ AcceptOf[f] \in delivered
      ~> \/ ~RowOf(f) \/ row[Pair(f)].state # "pending"
         \/ Stranded(<<"process", f>>)

\* follows.go says of the Undo that it "removes the edge created by that Follow
\* activity": the edge does not come back.
UndoFinal == \A f \in removed : ~RowOf(f)
===============================================================================
