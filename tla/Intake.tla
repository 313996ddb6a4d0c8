-------------------------------- MODULE Intake --------------------------------
(***************************************************************************)
(* How apd takes an activity over (aphttp): SharedInbox for those that     *)
(* remote servers POST, PostOutbox and PublishLocalActivityBytes for those *)
(* of local users.  A request looks up the followers and the inboxes of    *)
(* the audience, inserts the activity unless its id is stored already, and *)
(* queues its jobs: one delivery per inbox, and one process_inbox_activity *)
(* when a local actor has to handle it.                                    *)
(*                                                                         *)
(* With the SQL queue (SqlBacked) the jobs are rows inserted by the        *)
(* transaction of the activity.  With another backend they are pushed one  *)
(* by one after the activity is committed.  Jobs stay in `queued`: what    *)
(* workers make of them is the matter of SqlQueue and RedisQueue.          *)
(***************************************************************************)
EXTENDS Integers, FiniteSets

CONSTANTS
  Requests,     \* HTTP requests; each may be sent again and again
  Activities,   \* activity ids
  ActOf,        \* ActOf[r] is the id in the body of request r
  Inbound,      \* the activities that arrive at the inbox
  LocalFollows, \* outbox Follows of a local actor (enqueueInboxProcess)
  Public,       \* outbox activities addressed to as:Public
  Recipients,   \* actors
  Fickle,       \* bound: those whose follows are accepted and undone
  To,           \* To[a]: the actors a is addressed to
  Inboxes, InboxOf,
  LocalInbox,   \* this server's shared inbox
  Process,      \* the target of a process_inbox_activity job
  Backends,     \* the job queues apd may be configured with
  MaxFaults     \* bound: requests refused, statements that fail, crashes

Targets == Inboxes \cup {Process}
Jobs    == Activities \X Targets

ASSUME IntakeAssumption ==
  /\ ActOf \in [Requests -> Activities]
  /\ Inbound \subseteq Activities
  /\ LocalFollows \subseteq Activities \ Inbound
  /\ Public \subseteq Activities \ Inbound
  /\ Fickle \subseteq Recipients
  /\ To \in [Activities -> SUBSET Recipients]
  /\ InboxOf \in [Recipients -> Inboxes]
  /\ Process \notin Inboxes
  /\ Backends \subseteq {"sql", "redis"}
  /\ MaxFaults \in Nat

VARIABLES
  stored,     \* rows of activities, committed
  body,       \* body[a]: the recipients named in the stored raw_json
  queued,     \* queued[j]: how many times job j was put on the queue
  backend,    \* the job queue of this instance
  followers,  \* the accepted followers of the local actor
  pc,         \* where the handler of a request is
  rcpts,      \* the recipients in the body the handler holds
  todo,       \* the jobs the handler has not inserted or pushed yet
  accepted,   \* activities whose sender was answered 202 (history)
  faults

tables == <<stored, body, queued>>
handler == <<pc, rcpts, todo>>
vars == <<tables, backend, followers, handler, accepted, faults>>

SqlBacked == backend = "sql"

\* The jobs of activity a when its body names recipients R.
JobsOf(a, R) ==
  {a} \X (IF a \in Inbound THEN {Process}
          ELSE ({InboxOf[x] : x \in R} \ {LocalInbox})
                 \cup {t \in {Process} : a \in LocalFollows})

Init ==
  /\ stored = {}
  /\ body = [a \in Activities |-> {}]
  /\ queued = [j \in Jobs |-> 0]
  /\ backend \in Backends
  /\ followers = {}
  /\ pc = [r \in Requests |-> "idle"]
  /\ rcpts = [r \in Requests |-> {}]
  /\ todo = [r \in Requests |-> {}]
  /\ accepted = {}
  /\ faults = 0

Goto(r, label) == pc' = [pc EXCEPT ![r] = label]

----------------------------------------------------------------------------
(* The handler. *)

\* appendFollowerCCForPublicPosts: the followers of this moment go into cc.
Arrive(r) ==
  /\ pc[r] = "idle"
  /\ Goto(r, IF ActOf[r] \in Inbound THEN "insert" ELSE "resolve")
  /\ rcpts' = [rcpts EXCEPT ![r] =
       To[ActOf[r]] \cup {x \in followers : ActOf[r] \in Public}]
  /\ UNCHANGED <<tables, backend, followers, todo, accepted, faults>>

\* resolveDeliveryInboxes: all the inboxes are found; see Fail for the rest.
Resolve(r) ==
  /\ pc[r] = "resolve"
  /\ Goto(r, "insert")
  /\ UNCHANGED <<tables, backend, followers, rcpts, todo, accepted, faults>>

\* An INSERT of the id in an open transaction makes another one wait for it.
Waits(r) == \E q \in Requests \ {r} : pc[q] = "tx" /\ ActOf[q] = ActOf[r]

\* Bug variant: an upsert, ON CONFLICT (activity_id) DO UPDATE.
NeverDuplicate(a) == FALSE

Duplicate(a) == a \in stored

Store(r) ==
  /\ stored' = stored \cup {ActOf[r]}
  /\ body' = [body EXCEPT ![ActOf[r]] = rcpts[r]]

\* Bug variants: the activity is always inserted outside the transaction; the
\* request that finds the id in another one's transaction answers 202.
InsertAtOnce(r) ==
  /\ pc[r] = "insert"
  /\ ~Waits(r)
  /\ IF Duplicate(ActOf[r])
       THEN Goto(r, "answer") /\ UNCHANGED <<todo, stored, body>>
       ELSE /\ todo' = [todo EXCEPT ![r] = JobsOf(ActOf[r], rcpts[r])]
            /\ Goto(r, IF SqlBacked THEN "tx" ELSE "push")
            /\ Store(r)
  /\ UNCHANGED <<queued, backend, followers, rcpts, accepted, faults>>

InsertNoWait(r) ==
  /\ pc[r] = "insert"
  /\ IF Duplicate(ActOf[r]) \/ Waits(r)
       THEN Goto(r, "answer") /\ UNCHANGED todo
       ELSE /\ todo' = [todo EXCEPT ![r] = JobsOf(ActOf[r], rcpts[r])]
            /\ Goto(r, "tx")
  /\ UNCHANGED <<tables, backend, followers, rcpts, accepted, faults>>

\* InsertInboundActivity: ON CONFLICT (activity_id) DO NOTHING.  Only the
\* inbox without the SQL queue runs it outside a transaction.
Insert(r) ==
  /\ pc[r] = "insert"
  /\ ~Waits(r)
  /\ IF Duplicate(ActOf[r])
       THEN Goto(r, "answer") /\ UNCHANGED <<todo, stored, body>>
       ELSE /\ todo' = [todo EXCEPT ![r] = JobsOf(ActOf[r], rcpts[r])]
            /\ IF ActOf[r] \in Inbound /\ ~SqlBacked
                 THEN Goto(r, "push") /\ Store(r)
                 ELSE Goto(r, "tx") /\ UNCHANGED <<stored, body>>
  /\ UNCHANGED <<queued, backend, followers, rcpts, accepted, faults>>

\* Deliveries in the order of the audience, the inbox job last.
NextJob(r, j) == j \in todo[r] /\ (j[2] = Process => todo[r] = {j})

Drop(R) ==
  /\ pc' = [r \in Requests |-> IF r \in R THEN "idle" ELSE pc[r]]
  /\ rcpts' = [r \in Requests |-> IF r \in R THEN {} ELSE rcpts[r]]
  /\ todo' = [r \in Requests |-> IF r \in R THEN {} ELSE todo[r]]

\* Bug variant: Enqueue, on a connection of its own, in place of EnqueueTx.
StageOutside(r, j) ==
  /\ SqlBacked
  /\ pc[r] = "tx"
  /\ NextJob(r, j)
  /\ IF queued[j] = 0
       THEN /\ queued' = [queued EXCEPT ![j] = 1]
            /\ todo' = [todo EXCEPT ![r] = @ \ {j}]
            /\ UNCHANGED <<pc, rcpts>>
       ELSE Drop({r}) /\ UNCHANGED queued
  /\ UNCHANGED <<stored, body, backend, followers, accepted, faults>>

\* EnqueueTx; the idempotency key names activity and inbox and is unique.
Stage(r, j) ==
  /\ SqlBacked
  /\ pc[r] = "tx"
  /\ NextJob(r, j)
  /\ IF queued[j] = 0
       THEN todo' = [todo EXCEPT ![r] = @ \ {j}] /\ UNCHANGED <<pc, rcpts>>
       ELSE Drop({r})
  /\ UNCHANGED <<tables, backend, followers, accepted, faults>>

\* Bug variant: the transaction is committed before its jobs are in it.
CommittedEarly(r) ==
  /\ pc[r] = "tx"
  /\ Store(r)
  /\ queued' = [j \in Jobs |->
       IF SqlBacked /\ j \in JobsOf(ActOf[r], rcpts[r]) \ todo[r] THEN queued[j] + 1
       ELSE queued[j]]

\* What tx.Commit makes visible.
Committed(r) ==
  /\ pc[r] = "tx"
  /\ SqlBacked => todo[r] = {}
  /\ Store(r)
  /\ queued' = [j \in Jobs |->
       IF SqlBacked /\ j \in JobsOf(ActOf[r], rcpts[r]) THEN queued[j] + 1 ELSE queued[j]]

Commit(r) ==
  /\ Committed(r)
  /\ Goto(r, IF todo[r] = {} THEN "answer" ELSE "push")
  /\ UNCHANGED <<backend, followers, rcpts, todo, accepted, faults>>

\* Enqueue of a backend that takes no part in the transaction.
Push(r, j) ==
  /\ pc[r] = "push"
  /\ NextJob(r, j)
  /\ queued' = [queued EXCEPT ![j] = @ + 1]
  /\ todo' = [todo EXCEPT ![r] = @ \ {j}]
  /\ Goto(r, IF todo[r] = {j} THEN "answer" ELSE "push")
  /\ UNCHANGED <<stored, body, backend, followers, rcpts, accepted, faults>>

Answer(r) ==
  /\ pc[r] = "answer"
  /\ accepted' = accepted \cup {ActOf[r]}
  /\ Drop({r})
  /\ UNCHANGED <<tables, backend, followers, faults>>

----------------------------------------------------------------------------
(* What goes wrong. *)

Fault == faults < MaxFaults /\ faults' = faults + 1

\* A 4xx or 5xx answer, and a rollback: the signature does not verify, an
\* inbox of the audience cannot be fetched, a statement fails, or the client
\* goes away and takes r.Context() along.
Fail(r) ==
  /\ Fault
  /\ pc[r] # "idle"
  /\ Drop({r})
  /\ UNCHANGED <<tables, backend, followers, accepted>>

\* The commit is done but its answer does not arrive: a 500 all the same.
CommitUnseen(r) ==
  /\ Fault
  /\ Committed(r)
  /\ Drop({r})
  /\ UNCHANGED <<backend, followers, accepted>>

\* The same for the push of a job, which the Redis client repeats by itself: it sends
\* the RPUSH again, and the handler knows nothing of it, until it has no retries left.
\* (Three by default; here as many as there are faults.)
PushUnseen(r, j) ==
  /\ Fault
  /\ pc[r] = "push"
  /\ NextJob(r, j)
  /\ queued' = [queued EXCEPT ![j] = @ + 1]
  /\ UNCHANGED handler \/ Drop({r})
  /\ UNCHANGED <<stored, body, backend, followers, accepted>>

\* The death of apd: no request is answered, open transactions are undone.
Crash ==
  /\ Fault
  /\ \E r \in Requests : pc[r] # "idle"
  /\ Drop(Requests)
  /\ UNCHANGED <<tables, backend, followers, accepted>>

\* A follow of the local actor is accepted, or undone, by a worker.
FollowersChange(x) ==
  /\ followers' = IF x \in followers THEN followers \ {x} ELSE followers \cup {x}
  /\ UNCHANGED <<tables, backend, handler, accepted, faults>>

----------------------------------------------------------------------------
Step(r) ==
  \/ Resolve(r) \/ Insert(r) \/ Commit(r) \/ Answer(r)
  \/ \E j \in Jobs : Stage(r, j) \/ Push(r, j)

Next ==
  \/ \E r \in Requests : Arrive(r) \/ Step(r) \/ Fail(r) \/ CommitUnseen(r)
  \/ \E r \in Requests, j \in Jobs : PushUnseen(r, j)
  \/ Crash
  \/ \E x \in Fickle : FollowersChange(x)

Spec == Init /\ [][Next]_vars

\* A handler goes on; a sender repeats a request until it is answered 202.
Fairness == \A r \in Requests :
  /\ WF_vars(Step(r))
  /\ WF_vars(Arrive(r) /\ ActOf[r] \notin accepted)

FairSpec == Spec /\ Fairness
----------------------------------------------------------------------------
(***************************************************************************)
(* Properties                                                              *)
(***************************************************************************)
OnQueue == {j \in Jobs : queued[j] > 0}

\* The types of all variables.
TypeOK ==
  /\ stored \subseteq Activities
  /\ body \in [Activities -> SUBSET Recipients]
  /\ queued \in [Jobs -> Nat]
  /\ backend \in Backends
  /\ followers \subseteq Recipients
  /\ pc \in [Requests -> {"idle", "resolve", "insert", "tx", "push", "answer"}]
  /\ rcpts \in [Requests -> SUBSET Recipients]
  /\ todo \in [Requests -> SUBSET Jobs]
  /\ accepted \subseteq Activities
  /\ faults \in Nat

\* PostOutbox says that it stores the activity and "enqueues deliver_activity for
\* each resolved recipient inbox": whoever is answered 202 can rely on it.
\* Without the SQL queue a request repeated after a failed push is answered 202 too.
AcceptedMeansQueued ==
  \A a \in accepted : a \in stored /\ JobsOf(a, body[a]) \subseteq OnQueue

\* With the SQL queue a 202 is a promise: whichever of several requests with
\* this id was answered, and whatever failed in the others.
PromiseKept == SqlBacked => AcceptedMeansQueued

\* With the SQL queue the rows of queue_jobs are at any time what the stored
\* bodies ask for: also when requests with the same id saw different followers.
JobsMatchBody ==
  SqlBacked => OnQueue = UNION {JobsOf(a, body[a]) : a \in stored}

\* With any backend no job is on the queue without its activity, or for an inbox
\* that the stored body does not name.
JobsFromBody ==
  \A j \in OnQueue : j[1] \in stored /\ j \in JobsOf(j[1], body[j[1]])

\* No job is put on the queue twice: not by two requests with the same id, nor by one
\* that is sent again after an unseen commit or push.  Without the SQL queue a job is
\* doubled by the client alone, once for each reply of Redis that was lost.
QueuedOnce == \A j \in Jobs : queued[j] <= IF SqlBacked THEN 1 ELSE 1 + faults

\* With the SQL queue an activity whose sender keeps trying is taken over in the
\* end, with all its jobs: no lost answer leaves it stored without them.
EveryActivityQueued ==
  \A r \in Requests : LET a == ActOf[r] IN
    SqlBacked ~> a \in stored /\ JobsOf(a, body[a]) \subseteq OnQueue

IfSql(S) == IF SqlBacked THEN S ELSE {}

Abs == INSTANCE Acceptance WITH stored <- IfSql(stored), jobs <- IfSql(OnQueue)

\* With the SQL queue requests, transactions, faults and repetitions add up to
\* single steps that take an activity over with all its jobs.
TakenOverAtOnce == Abs!Spec
==============================================================================
