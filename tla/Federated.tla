------------------------------- MODULE Federated -------------------------------
(***************************************************************************)
(* What the worker makes of the activities of remote actors that are not   *)
(* about follows (internal/inboxproc): Create, Update and Delete write the *)
(* objects table, Like, Announce and Block the federated_* tables, Undo    *)
(* deletes from these.  The jobs are those of JobQueue: two workers, no    *)
(* order among jobs, and a job that failed is run again from the top,      *)
(* though its statement may have been committed.                           *)
(*                                                                         *)
(* A row's raw_json is the activity it came from, the document of a remote *)
(* object the activity that last changed it there.  Left out: follows, the *)
(* rows of local users (client API, module Statuses), malformed documents, *)
(* and the comparison of an activity's actor with the actor of its row,    *)
(* which SharedInbox made equal.                                           *)
(***************************************************************************)
EXTENDS Integers, Sequences, FiniteSets

CONSTANTS
  Actors,        \* remote actors
  Objects,       \* objects they own
  Workers,       \* worker goroutines
  Activities,    \* the activities that may be sent
  Kind, By, Of,  \* type, actor, and object (for a Block an actor, for an Undo an activity)
  Embedded,      \* those that carry their object whole; the others name its id
  Credit,        \* Credit[a]: attributedTo of the object a carries, or Nobody
  Audience,      \* Audience[a]: whom to, cc, bto, bcc and audience name
  Author,        \* Author[o]: the actor who made o
  Nobody, NoAct,
  Bounds         \* bound: what may be sent in one behaviour, and how many faults occur then

ObjectKinds == {"Create", "Update", "Delete"}
EdgeKinds   == {"Like", "Announce", "Block"}
OnObjects   == {a \in Activities : Kind[a] \in ObjectKinds}
OnEdges     == {a \in Activities : Kind[a] \in EdgeKinds}
Undos       == {a \in Activities : Kind[a] = "Undo"}

\* A like, boost or block has its actor and target as key: one row for both.
Key(a) == <<Kind[a], By[a], Of[a]>>
Keys   == {Key(a) : a \in OnEdges}

ASSUME FederatedAssumption ==
  /\ Activities = OnObjects \cup OnEdges \cup Undos
  /\ By \in [Activities -> Actors]
  /\ \A a \in OnObjects : Of[a] \in Objects
  /\ \A u \in Undos : Of[u] \in OnEdges
  /\ Embedded \subseteq Activities
  /\ Author \in [Objects -> Actors]
  /\ Credit \in [OnObjects -> Actors \cup {Nobody}]
  /\ Audience \in [Activities -> SUBSET {"public", "local", "remote"}]
  /\ Nobody \notin Actors
  /\ NoAct \notin Activities
  /\ Objects \cap Keys = {}
  /\ Bounds \subseteq [sends : SUBSET Activities, faults : Nat]

VARIABLES
  state, owner, capped, tries,  \* the queue (JobQueue)
  stored,     \* activities in the activities table
  actor_id,   \* objects: the owner of a row; Nobody: no row
  raw_json,   \* objects: the document of a row
  live,       \* objects: deleted_at IS NULL
  edge,       \* federated_*: the activity id of a row; NoAct: no row
  pc,         \* where a goroutine is in its handler
  doc,        \* the document its handler holds
  res,        \* how its handler ended
  issued,     \* what the remote servers have sent, in this order
  raced,      \* subjects of activities received out of turn (history)
  faults      \* statements and requests that failed, workers that vanished

queueVars  == <<state, owner, capped, tries>>
objectVars == <<actor_id, raw_json, live>>
vars == <<queueVars, stored, objectVars, edge, pc, doc, res, issued, raced, faults>>

Q == INSTANCE JobQueue WITH Jobs <- Activities, MaxAttempts <- 1

Init ==
  /\ Q!Init
  /\ stored = {}
  /\ actor_id = [o \in Objects |-> Nobody]
  /\ raw_json = [o \in Objects |-> NoAct]
  /\ live = [o \in Objects |-> FALSE]
  /\ edge = [k \in Keys |-> NoAct]
  /\ pc = [w \in Workers |-> "idle"]
  /\ doc = [w \in Workers |-> NoAct]
  /\ res = [w \in Workers |-> "ok"]
  /\ issued = <<>>
  /\ raced = {}
  /\ faults = 0

Sent == {issued[i] : i \in DOMAIN issued}

Within(A, n) == \E b \in Bounds : Sent \cup A \subseteq b.sends /\ n <= b.faults

Fault == faults' = faults + 1 /\ Within({}, faults')

\* What an activity is about: an object, or the key of an edge.
Subject(a) == CASE a \in OnObjects -> Of[a] [] a \in Undos -> Key(Of[a]) [] OTHER -> Key(a)

\* Sent by the actor whose object or edge it is about.
Legit(a) ==
  /\ a \in OnObjects => By[a] = Author[Of[a]]
  /\ a \in Undos => By[a] = By[Of[a]]

(***************************************************************************)
(* The remote servers.  An activity is sent once, is on its way for any    *)
(* time, and may arrive again and again.  The author of an object makes it *)
(* first and says nothing of it when it is gone; a stranger says anything. *)
(***************************************************************************)
Exists(o)  == \E a \in Sent : Kind[a] = "Create" /\ Of[a] = o /\ Legit(a)
Gone(o)    == \E a \in Sent : Kind[a] = "Delete" /\ Of[a] = o /\ Legit(a)

Send(a) ==
  /\ a \notin Sent
  /\ Within({a}, faults)
  /\ Legit(a) /\ Kind[a] \in {"Update", "Delete"} => Exists(Of[a])
  /\ Legit(a) /\ a \in OnObjects => ~Gone(Of[a])
  /\ a \in Undos => Of[a] \in Sent
  /\ issued' = Append(issued, a)
  /\ UNCHANGED <<queueVars, stored, objectVars, edge, pc, doc, res, raced, faults>>

\* What a GET of o returns at its author's server: what the author wrote there last, or
\* nothing, before the object is made and when it is gone.
Served(o) ==
  LET writes == {i \in DOMAIN issued : Kind[issued[i]] \in {"Create", "Update"}
                                         /\ Of[issued[i]] = o /\ Legit(issued[i])}
  IN {issued[i] : i \in {k \in writes : ~Gone(o) /\ \A j \in writes : j <= k}}

\* Everything sent before a on the same subject has been handled.
InTurn(a) ==
  \A i, j \in DOMAIN issued :
    i < j /\ issued[j] = a /\ Subject(issued[i]) = Subject(a) /\ Legit(issued[i])
      => state[issued[i]] = "done"

\* SharedInbox: one transaction inserts the activity and its job; a repetition is no-op.
Receive(a) ==
  /\ a \in Sent \ stored
  /\ stored' = stored \cup {a}
  /\ Q!Submit({a}, {})
  /\ raced' = IF InTurn(a) \/ ~Legit(a) THEN raced ELSE raced \cup {Subject(a)}
  /\ UNCHANGED <<objectVars, edge, pc, doc, res, issued, faults>>

(***************************************************************************)
(* A worker and its lease; a job always fails or is done, never dead.      *)
(***************************************************************************)
Goto(w, l) == pc' = [pc EXCEPT ![w] = l]

End(w, how) == Goto(w, "settle") /\ res' = [res EXCEPT ![w] = how]

\* A statement is committed; its answer may be lost, and then the job fails all the same.
Committed(w) == (End(w, "ok") /\ UNCHANGED faults) \/ (End(w, "error") /\ Fault)

At(w, l, a) == pc[w] = l /\ w \in owner[a]

Claim(w, a) ==
  /\ pc[w] = "idle"
  /\ Q!Claim(w, a)
  /\ Goto(w, "begin")
  /\ UNCHANGED <<stored, objectVars, edge, doc, res, issued, raced, faults>>

Settle(w, a) ==
  /\ At(w, "settle", a)
  /\ IF res[w] = "ok" THEN Q!Complete(w, a) ELSE Q!Retry(w, a)
  /\ Goto(w, "idle")
  /\ doc' = [doc EXCEPT ![w] = NoAct]
  /\ res' = [res EXCEPT ![w] = "ok"]
  /\ UNCHANGED <<stored, objectVars, edge, issued, raced, faults>>

\* A statement or a request of the handler fails.
Fail(w) ==
  /\ pc[w] \in {"begin", "write"}
  /\ Fault
  /\ End(w, "error")
  /\ UNCHANGED <<queueVars, stored, objectVars, edge, doc, issued, raced>>

\* The worker is killed: nobody takes the job again.
Vanish(w) ==
  /\ pc[w] # "idle"
  /\ Fault
  /\ Q!Vanish({w})
  /\ Goto(w, "idle")
  /\ doc' = [doc EXCEPT ![w] = NoAct]
  /\ res' = [res EXCEPT ![w] = "ok"]
  /\ UNCHANGED <<stored, objectVars, edge, issued, raced>>

(***************************************************************************)
(* The statements of store/federated_objects.go and                        *)
(* federated_interactions.go.                                              *)
(***************************************************************************)
UpsertFederatedObject(o, a, d) ==
  /\ actor_id' = [actor_id EXCEPT ![o] = By[a]]
  /\ raw_json' = [raw_json EXCEPT ![o] = d]
  /\ live' = [live EXCEPT ![o] = TRUE]

SoftDeleteFederatedObject(o) ==
  /\ live' = [live EXCEPT ![o] = FALSE]
  /\ UNCHANGED <<actor_id, raw_json>>

ObjectOwnerActorID(o) == IF live[o] THEN actor_id[o] ELSE Nobody

UpsertEdge(a) == edge' = [edge EXCEPT ![Key(a)] = a]

DeleteEdge(a, actor) ==
  edge' = [k \in Keys |-> IF edge[k] = a /\ k[2] = actor THEN NoAct ELSE edge[k]]

(***************************************************************************)
(* The handlers.                                                           *)
(***************************************************************************)
activityShouldApplySideEffects(a) ==
  Audience[a] = {} \/ Audience[a] \cap {"public", "local"} # {}

ObjectAttributedToMatches(d, actor) == Credit[d] \in {actor, Nobody}

\* What a Create is about: the object it carries, or one that is fetched.
Documents(a) == IF a \in Embedded THEN {a} ELSE Served(Of[a])

\* Bug variant: the author of the object is not looked at.
HandleCreateUnattributed(w, a) ==
  /\ Kind[a] = "Create"
  /\ At(w, "begin", a)
  /\ \E d \in Documents(a) : doc' = [doc EXCEPT ![w] = d]
  /\ Goto(w, "write") /\ UNCHANGED res
  /\ UNCHANGED <<queueVars, stored, objectVars, edge, issued, raced, faults>>

\* handleCreate: an object named only is fetched from its server, if it can be.
HandleCreate(w, a) ==
  /\ Kind[a] = "Create"
  /\ At(w, "begin", a)
  /\ \/ Documents(a) = {} /\ End(w, "error") /\ UNCHANGED doc
     \/ \E d \in Documents(a) :
          IF ~activityShouldApplySideEffects(a) THEN End(w, "ok") /\ UNCHANGED doc
          ELSE IF ~ObjectAttributedToMatches(d, By[a]) THEN End(w, "error") /\ UNCHANGED doc
          ELSE Goto(w, "write") /\ doc' = [doc EXCEPT ![w] = d] /\ UNCHANGED res
  /\ UNCHANGED <<queueVars, stored, objectVars, edge, issued, raced, faults>>

\* Bug variant: the Update of an object that is not there waits for its Create.
HandleUpdateStrict(w, a) ==
  /\ Kind[a] = "Update"
  /\ At(w, "begin", a)
  /\ IF ObjectOwnerActorID(Of[a]) = By[a]
     THEN Goto(w, "write") /\ doc' = [doc EXCEPT ![w] = a] /\ UNCHANGED res
     ELSE End(w, "error") /\ UNCHANGED doc
  /\ UNCHANGED <<queueVars, stored, objectVars, edge, issued, raced, faults>>

\* handleUpdate up to the SELECT of the owner; an object named only is not looked at.
HandleUpdate(w, a) ==
  /\ Kind[a] = "Update"
  /\ At(w, "begin", a)
  /\ IF a \notin Embedded \/ ~activityShouldApplySideEffects(a) THEN End(w, "ok") /\ UNCHANGED doc
     ELSE IF ObjectAttributedToMatches(a, By[a]) /\ ObjectOwnerActorID(Of[a]) \in {By[a], Nobody}
          THEN Goto(w, "write") /\ doc' = [doc EXCEPT ![w] = a] /\ UNCHANGED res
          ELSE End(w, "error") /\ UNCHANGED doc
  /\ UNCHANGED <<queueVars, stored, objectVars, edge, issued, raced, faults>>

\* handleDelete up to the SELECT of the owner.
HandleDelete(w, a) ==
  /\ Kind[a] = "Delete"
  /\ At(w, "begin", a)
  /\ IF ~activityShouldApplySideEffects(a) \/ ObjectOwnerActorID(Of[a]) = Nobody THEN End(w, "ok")
     ELSE IF ObjectOwnerActorID(Of[a]) = By[a] THEN Goto(w, "write") /\ UNCHANGED res
     ELSE End(w, "error")
  /\ UNCHANGED <<queueVars, stored, objectVars, edge, doc, issued, raced, faults>>

\* The write that ends a Create, an Update or a Delete.
WriteObject(w, a) ==
  /\ At(w, "write", a)
  /\ IF Kind[a] = "Delete" THEN SoftDeleteFederatedObject(Of[a])
                           ELSE UpsertFederatedObject(Of[a], a, doc[w])
  /\ Committed(w)
  /\ UNCHANGED <<queueVars, stored, edge, doc, issued, raced>>

\* Bug variant: a like that exists is left as it is.
HandleEdgeOnce(w, a) ==
  /\ a \in OnEdges
  /\ At(w, "begin", a)
  /\ IF edge[Key(a)] = NoAct THEN UpsertEdge(a) ELSE UNCHANGED edge
  /\ Committed(w)
  /\ UNCHANGED <<queueVars, stored, objectVars, doc, issued, raced>>

\* handleLike, handleAnnounce, handleBlock.
HandleEdge(w, a) ==
  /\ a \in OnEdges
  /\ At(w, "begin", a)
  /\ IF activityShouldApplySideEffects(a) THEN UpsertEdge(a) ELSE UNCHANGED edge
  /\ Committed(w)
  /\ UNCHANGED <<queueVars, stored, objectVars, doc, issued, raced>>

\* Bug variant: the Undo of anybody.
HandleUndoAnySender(w, u) ==
  /\ u \in Undos
  /\ At(w, "begin", u)
  /\ DeleteEdge(Of[u], By[Of[u]])
  /\ Committed(w)
  /\ UNCHANGED <<queueVars, stored, objectVars, doc, issued, raced>>

\* handleUndo: the table is that of the embedded type, or for a bare id the first of
\* all that has the row; an activity has an edge in one table only.  No audience filter.
HandleUndo(w, u) ==
  /\ u \in Undos
  /\ At(w, "begin", u)
  /\ DeleteEdge(Of[u], By[u])
  /\ Committed(w)
  /\ UNCHANGED <<queueVars, stored, objectVars, doc, issued, raced>>

ProcessInboxActivity(w, a) ==
  \/ HandleCreate(w, a) \/ HandleUpdate(w, a) \/ HandleDelete(w, a) \/ WriteObject(w, a)
  \/ HandleEdge(w, a) \/ HandleUndo(w, a)

Next ==
  \/ \E a \in Activities : Send(a) \/ Receive(a)
  \/ \E w \in Workers :
       \/ \E a \in Activities : Claim(w, a) \/ Settle(w, a) \/ ProcessInboxActivity(w, a)
       \/ Fail(w) \/ Vanish(w)

\* A Create or an Update that writes its object in the name of its actor, who need not be
\* the author: the document that it carries or fetches names this actor, or nobody.
Claims(a) ==
  /\ activityShouldApplySideEffects(a)
  /\ \/ /\ Kind[a] \in {"Create", "Update"} /\ a \in Embedded
        /\ ObjectAttributedToMatches(a, By[a])
     \/ /\ Kind[a] = "Create" /\ a \notin Embedded
        /\ \E d \in Sent : /\ Kind[d] \in {"Create", "Update"} /\ Of[d] = Of[a] /\ Legit(d)
                           /\ ObjectAttributedToMatches(d, By[a])

Claimants(o) == {By[a] : a \in {b \in stored : Claims(b) /\ Of[b] = o}}

\* Somebody else than its author claims o: handleCreate does not look at the owner.
Contested(o) == \E x \in Claimants(o) : x # Author[o]

\* The jobs that nothing but a fault makes fail, on objects that nobody contests: a fetch
\* may find nothing, and an Update or a Delete the owner that another Create has written.
Doable(a) ==
  /\ Legit(a)
  /\ Kind[a] = "Create" => a \in Embedded
  /\ Kind[a] \in {"Create", "Update"} => ObjectAttributedToMatches(a, By[a])
  /\ a \in OnObjects => ~Contested(Of[a])

\* While a worker is free such a job is claimed in the end (Dequeue takes the oldest row
\* that is due, so the others cannot keep it waiting), and a handler that is begun goes on.
Fairness ==
  /\ WF_vars(\E w \in Workers, a \in stored : Doable(a) /\ Claim(w, a))
  /\ \A w \in Workers : WF_vars(\E a \in stored : ProcessInboxActivity(w, a) \/ Settle(w, a))

Spec == Init /\ [][Next]_vars
FairSpec == Spec /\ Fairness
-------------------------------------------------------------------------------
(***************************************************************************)
(* Properties                                                              *)
(***************************************************************************)
\* The types of all variables; a row has an owner and a document, or is not there.
TypeOK ==
  /\ state \in [Activities -> {"none", "waiting", "taken", "done"}]
  /\ capped = {} /\ tries = [a \in Activities |-> 0]
  /\ owner \in [Activities -> SUBSET Workers]
  /\ stored \subseteq Activities
  /\ actor_id \in [Objects -> Actors \cup {Nobody}]
  /\ raw_json \in [Objects -> OnObjects \cup {NoAct}]
  /\ live \in [Objects -> BOOLEAN]
  /\ \A o \in Objects : /\ actor_id[o] = Nobody <=> raw_json[o] = NoAct
                        /\ live[o] => actor_id[o] # Nobody
  /\ edge \in [Keys -> OnEdges \cup {NoAct}]
  /\ pc \in [Workers -> {"idle", "begin", "write", "settle"}]
  /\ doc \in [Workers -> OnObjects \cup {NoAct}]
  /\ res \in [Workers -> {"ok", "error"}]
  /\ issued \in Seq(Activities)
  /\ raced \subseteq Objects \cup Keys
  /\ faults \in Nat

\* What is kept of an object is the word of one who may give it: the owner claimed it, the
\* document is about this object, names nobody else as its author, and was sent by the
\* owner or served by the author; it is gone only when one who claimed it sent a Delete.
\* So an object that its author alone claims is the author's in every part, whoever else
\* sent activities about it and between whatever statements.
KeptAsClaimed ==
  \A o \in Objects : actor_id[o] # Nobody =>
    /\ actor_id[o] \in Claimants(o)
    /\ Of[raw_json[o]] = o /\ ObjectAttributedToMatches(raw_json[o], actor_id[o])
    /\ By[raw_json[o]] \in {actor_id[o], Author[o]}
    /\ ~live[o] => \E d \in stored : Kind[d] = "Delete" /\ Of[d] = o /\ By[d] \in Claimants(o)

\* A like, boost or block goes only when its actor undoes that very activity: an Undo
\* of an earlier Like, or by somebody else, finds no row.  Another Like of the pair
\* replaces it, and what is addressed to others only leaves no row.
OnlyActorUndoes ==
  [][\A k \in Keys : edge[k] # NoAct /\ edge'[k] # edge[k] =>
       \/ \E u \in Undos \cap stored : Of[u] = edge[k] /\ By[u] = k[2] /\ edge'[k] = NoAct
       \/ edge'[k] \in stored /\ Key(edge'[k]) = k /\ activityShouldApplySideEffects(edge'[k])]_vars

\* Activities on subject s that mean something to this instance, in the order sent.
Meant(a) ==
  /\ Legit(a)
  /\ a \in Undos \/ activityShouldApplySideEffects(a)
  /\ Kind[a] = "Update" => a \in Embedded
Turns(s) == {i \in DOMAIN issued : issued[i] \in stored /\ Subject(issued[i]) = s /\ Meant(issued[i])}

LastOf(I) == CHOOSE i \in I : \A j \in I : j <= i

\* The last word on an object: there with that document (or a later one, fetched), or gone.
ObjectReflects(o) ==
  Turns(o) # {} =>
    LET n == LastOf(Turns(o)) IN
    /\ live[o] <=> Kind[issued[n]] # "Delete"
    /\ live[o] => \E m \in DOMAIN issued : m >= n /\ issued[m] = raw_json[o]

\* The last Like of a pair stands unless it was undone.
EdgeReflects(k) ==
  LET likes == {i \in Turns(k) : issued[i] \in OnEdges}
      last  == issued[LastOf(likes)] IN
  likes # {} => edge[k] = IF \E i \in Turns(k) : Kind[issued[i]] = "Undo" /\ Of[issued[i]] = last
                          THEN NoAct ELSE last

Settled(s) == \A a \in stored : Subject(a) = s /\ Legit(a) => state[a] = "done"

\* Handlers may be retried at will: when the activities on one subject arrive in turn and
\* all jobs are done, the tables say what was said last, whatever failed, was committed
\* without an answer, or was sent by others in between, as long as nobody else claims the
\* object.  Out of turn it does not hold: a Create after the Delete brings the row back.
LastWordStands ==
  /\ \A o \in Objects \ raced : Settled(o) /\ ~Contested(o) => ObjectReflects(o)
  /\ \A k \in Keys \ raced : Settled(k) => EdgeReflects(k)

\* A job taken by a worker that was killed: nobody takes it again.
Stranded(a) == state[a] = "taken" /\ owner[a] = {}

\* Each activity of the actor concerned is handled in the end, in whatever order they come
\* and whatever fails on the way, unless its worker is killed: nobody waits for an activity
\* that does not come, or for a stranger's job that fails for ever.  Not so once somebody
\* else claims the object: the author's Update finds another owner on every try.
HandledInTheEnd ==
  \A s \in Objects \cup Keys :
    (\E a \in stored : Subject(a) = s)
      ~> \A a \in stored : Subject(a) = s /\ Doable(a) => state[a] = "done" \/ Stranded(a)
===============================================================================
