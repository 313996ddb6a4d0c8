# A verification development for activitypub-core

TLA+ modules that model the parts of this repository where order, concurrency
and failure decide whether it is correct, TLC configurations that check them on
small instances, and TLAPS proofs for all instances. Paths are relative to
`src/`.

## 1. The system

`apd` (cmd/apd) serves HTTP: the ActivityPub endpoints of `aphttp` and the
Mastodon client API of `mastodonapi`. `apw` (cmd/apw) runs worker goroutines.
Both use one Postgres database (`store`, `db/migrations`) and meet in the job
queue (`queue`), a table of that database or a Redis list.

    remote server --POST--> SharedInbox --tx--> activities + queue_jobs
    local client --> mastodonapi --> PostOutbox/PublishLocalActivityBytes
                                   --tx--> activities, follows/likes, queue_jobs
    apw: Dequeue -> ProcessLease -> DeliverActivity (POST to a remote inbox)
                                 -> ProcessInboxActivity (handlers of inboxproc)
         then Ack / Nack / NackSchedule

Nothing but the database is shared between the processes. A worker's Dequeue is
a transaction; SharedInbox and PostOutbox write in one transaction when the
queue is the SQL one. The handlers of `inboxproc` are not transactions: each
statement commits by itself, and when a handler fails the whole job runs again.

### Inventory

| Component | State | Operations | What is hard | What makes it correct |
|---|---|---|---|---|
| SQL job queue (`queue/sqlqueue`) | rows of `queue_jobs` | Enqueue(Tx), Dequeue, Ack, Nack, NackSchedule | concurrent claims; a lease lost between two statements | one holder per row; settled rows stay settled; tries bounded |
| Worker (`cmd/apw`, `internal/worker`) | goroutines, the signal context | workerLoop, ProcessLease, DeliverActivity, HandleDeliveryJobFailure, nextDeliveryRunAfter | crash and SIGTERM between steps; lost answers; retries | every row is settled, or stranded by a fault; dead letters are justified; delays grow within bounds |
| Follow relationship (`inboxproc/follow.go`, `undo.go`, `store/follows.go`) | rows of `follows` | Follow, Accept, Reject, Undo, in and out | retries of a handler half done; answers, Undos and re-Follows in any order | only the followee settles, only the follower undoes, both sides agree in the end |
| Inbox (`aphttp/handlers.go`) | rows of `activities` | SharedInbox | duplicates; without the SQL queue insert and push are separate | stored if and only if a job was queued |
| Outbox (`aphttp/postoutbox.go`, `publish_local.go`) | `activities`, `follows`, likes, boosts | PostOutbox, PublishLocalActivityBytes | fan-out; recipients read before the transaction | all recipients or none; the tables say what was published |
| Federated objects (`inboxproc/create_update_delete.go`) | rows of `objects` | Create, Update, Delete | reordering, check then act | an object says what the one who claimed it sent of it, and in turn what was sent last |
| Likes, boosts, blocks (`inboxproc/social.go`, `status_social_handlers.go`) | `federated_*` | Like, Announce, Block, Undo; favourite, reblog, bookmark | re-likes, retries, double clicks | an Undo removes what it names, and only for its actor |
| Redis queue (`queue/redisqueue`) | a list | Enqueue, Dequeue | jobs leave the list before they run; the client resends | each push runs once at most |
| Inbox address resolution, key fetch (`internal/fetch`) | none | bounded walk over remote documents | cycles, redirects, documents that change | ends within its bound |
| Fetch policy (`internal/fetch/policy.go`) | none | CheckURL, PreDialCheck, dialContext | a name that resolves differently later, redirects | every address is checked before it is dialled; no refused one is reached but through an unspecified one |
| HTTP signatures (`internal/httpsig`) | none | sign, parse, verify | clock skew, retries, a key that changes, a changed body | accepts what was signed; refuses only for cause |
| OAuth (`mastodonapi/oauth.go`, `store/oauth.go`) | applications, codes, tokens | register, authorize, exchange, client credentials | concurrent exchanges of one code; failures inside the transaction | a code gives one token, to whom it was granted |
| Media (`media_handlers.go`) | `mastodon_media`, blobs | upload, processing goroutine | failure between file and row; crash of the goroutine | what is attached is whole and processed |
| Statuses (`mastodonapi.go`, `v1_handlers.go`) | `activities` | post, delete, show | checks and publication are separate; two commits in deleteStatus | a deletion is announced to whom the status went, as far as they still follow |
| Timelines, lists, filters, conversations | `mastodon_lists`, `mastodon_filters`, bookmarks | reads of several statements, small writes | changes between the statements of a read | nothing deleted or hidden before is shown, and nobody whom the list did not have |
| Federation documents (`aphttp`) | read-only | collections and pages, actor, outbox | a collection read page by page while it changes | a page walk misses nobody who stayed |
| Routing, config, migrations | none or start-up | - | - | - |

PROJECT.json lists every component with its files and status, and the hazards
at their lines.

## 2. Modules

| Module | Models |
|---|---|
| `JobQueue` | the abstract promise of `queue.Backend` |
| `SqlQueue` | `queue_jobs`, Dequeue as a transaction, workers, processes, faults; implements `JobQueue` |
| `SqlQueueProofs` | its theorems |
| `DeliveryBackoff`, `DeliveryBackoffProofs` | the retry delays of one delivery, one step per loop iteration |
| `Acceptance` | what a sender may rely on: an activity taken over with all its jobs, at once |
| `Intake` | SharedInbox and the outbox pipeline with either queue; with the SQL one it implements `Acceptance` |
| `RedisQueue` | the Redis list under the same worker loop; implements `JobQueue` |
| `IntakeProofs`, `RedisQueueProofs` | their theorems |
| `Follows` | the follow relationship over an `INSTANCE` of `JobQueue` |
| `FollowsProofs` | its theorems |
| `Federated` | the other inbox handlers (Create, Update, Delete, Like, Announce, Block, Undo) over an `INSTANCE` of `JobQueue` |
| `FederatedProofs` | its theorems |
| `Api` | requests to the client API, their handlers, faults |
| `OAuth`, `Media`, `Statuses`, `Timelines` | the operations of the client API, each `EXTENDS` the one before; `Statuses` has `PublishLocalActivityBytes` |
| `Client` | the four together, with crashes of the process |
| `ClientProofs` | its theorems |
| `Signature` | signing and verifying of POST and GET (pure operators) |
| `Fetch` | the policy, name resolution and dialling, the search for an inbox |
| `Paging` | the followers collection and its pages while follows change |
| `Wire` | two servers: a search, a signed delivery with its verification, a signed reading; uses the three |
| `WireProofs` | its theorems |
| `MC*` | instances for TLC |

Operators with names such as `FailureOneTryMore` stand right before the
definition they are a variant of: each is that definition with a plausible bug,
and shows that a property would notice. No specification uses them.

### SqlQueue

The variables `status, req, attempts, runAfter` are the columns of a row,
`req` standing for job type and idempotency key. `pc, job, seen, outcome` are a
goroutine's place in `workerLoop`, the id and `Attempts` of its lease and what
the handler returned; `up` says whether a process's signal context is not done.
`now` is the database clock. `runs`, `arrived`, `refused` and `diverted` are history: what
ran, what the remote saw, and which POST it answered with a 301, 302 or 303. The
client follows such an answer with a GET (`NewHTTPClientForPolicy` sets no
`CheckRedirect`), and a 200 there settles the row as done although no inbox took the
activity: hence `DoneMeansAnswered`, which admits no other way.

| Action | Code |
|---|---|
| Enqueue | `SQL.Enqueue`, `SQL.EnqueueTx`, with the unique index |
| DequeueSelect, DequeueCommit, DequeueError | `SQL.Dequeue`: SELECT FOR UPDATE SKIP LOCKED; UPDATE and COMMIT; their errors |
| ProcessLease | `ProcessLease`, with `DeliverActivity` reduced to its outcome and to whether the POST arrived |
| Settle, SettleError | the tail of `workerLoop`, `HandleDeliveryJobFailure`, `Ack`, `Nack`, `NackSchedule` |
| Terminate, Exit, Crash, Start | SIGTERM, the return of `workerLoop`, the death and the start of `apw` |
| Tick | time |

A statement is atomic because Postgres makes it so; Dequeue is two steps, the
row lock being `RowLocked`. A SIGTERM cancels the context the statements use, so
from then on `Settle` is impossible and `SettleError` the only way out: that is
what the code does. `ORDER BY run_after, id` is `Before`. A handler of an inbox
job may fail; `Follows` models what it does.

### Follows

`row` is the `follows` table by pair: the state and the Follow the row is about. `stored` is
the `activities` table, `Id[a]` the id under which an inbox knows `a`: an activity whose id
is stored counts as known (`Known`). The queue is `JobQueue`, which `SqlQueue` implements.
Jobs are `<<"process", a>>` and `<<"deliver", a>>`. `pc` is a goroutine's place within a
handler: one step per statement that other goroutines can see (`HandleFollow` upsert,
`ResolveInbox`, `EnqueueAccept`, `SetAccepted`; `HandleAnswer` SELECT, `UpdateAnswered`
UPDATE). `Fail` is the error return of any of them; `Settle` then retries the job, as
`JobQueue.Retry` allows. A delivery to a local actor arrives in this instance's own inbox;
`delivered` is what reached an inbox there or elsewhere. `about` is history: the Follow that
the row of a pair was last written for, whether or not the row is there still. It makes
exact what withdraws a row (`Withdraws`): the follower's Undo of that very Follow
(`undo.go:36`) or the followee's Reject of it; an Undo by another actor or of another Follow
of the pair does not. `UnfollowLookup` and `UnfollowPublish` are the two halves of
`postAccountUnfollow`.

### Intake

`stored` and `body` are the rows of `activities` (the recipients named in
`raw_json`), `queued` counts how often a job `<<activity, target>>` was put on
the queue, `pc, rcpts, todo` are a request's handler, the recipients in the body
it holds and the jobs it has still to insert or push. `backend` is the queue `apd`
was configured with; `accepted` is history.

| Action | Code |
|---|---|
| Arrive | the entry of `SharedInbox`, `PostOutbox`, `PublishLocalActivityBytes`; `appendFollowerCCForPublicPosts` reads the followers |
| Resolve | `resolveDeliveryInboxes` |
| Insert | `InsertInboundActivity`; `Waits` is Postgres holding the second INSERT of an id until the first transaction ends |
| Stage, Commit | `EnqueueTx` and the commit (SQL queue) |
| Commit, Push | the commit and the pushes after it (other backends) |
| Answer | the 202 |
| Fail, CommitUnseen, PushUnseen, Crash | error answers with their rollback, answers of the database or of Redis that are lost, the death of `apd` |

All causes of an error answer are one action: whatever the reason, the handler
ends, its transaction is undone, and the sender may repeat the request.
`FollowersChange` stands for the follow handlers of `apw`. go-redis sends a command again
when the reply is lost (`MaxRetries`), so after `PushUnseen` the handler is where it was, with
the job on the list, or ends with an error.

### RedisQueue

`list` is the Redis list from head to tail; the rest is as in `SqlQueue`. Ack and
Nack change nothing, so `Settle` covers both, and a failed job stays "taken" by
nobody in `JobQueue`'s terms. The workers' database is left out: it decides only
whether a handler succeeds. An entry of the list is `<<job, n>>`, pushed by the nth command
that the client sent for one `Enqueue`; `Resend` is the retry of go-redis after a lost
reply. Each entry is run as a job of its own, and is one to `JobQueue`.

### Federated

`actor_id, raw_json, live` are columns of `objects` (`live` is `deleted_at IS
NULL`), `edge` the three `federated_*` tables by their unique key. A document is
named for the activity that carried it. `issued` is the order in which the remote
servers sent; `Receive` takes any of it at any time, so deliveries are delayed,
lost (never received) and reordered, and the queue hands jobs to any worker in
any order and again after an error. A handler is one step up to the SELECT of
the owner or the fetch of the object, and one for the write (`WriteObject`); the
writes of edges are one statement. A Create that only names its object fetches
`Served(o)`: what the author wrote there last, or nothing before the object is
made and after its Delete. `Committed` lets a statement take effect and
the job fail all the same. `SharedInbox` has compared the sender
with the activity's actor before there is a job. Anybody may send a Create in his own
name: `handleCreate` compares the document's attributedTo with the sender and looks at
neither the stored owner nor the host of the id, and the upsert overwrites both. `Claims`
says which activities write an object in their sender's name so, `Contested` whether
somebody other than the author has; the properties say which of them depend on it.

### Client

A behaviour is one set of requests of `MCBounds`. `pc[r]` is the place of a request's
handler, one step per statement; `held[r]` what it has read. `answer` is its status code.
The tables are `apps, codes, tokens`, `media` with the files `tmp, blobs`, `activities`
(published by local users, named for the request), `deleted`, `edges`, `bookmarks`, `lists,
members, filters`. `locked` is the row lock on a code that `ConsumeAuthorizationCode` takes:
the exchange is the only handler with a transaction of several statements apart from the
publication, which is one step because everything that it reads was read before. `working`
are goroutines of asynchronous uploads. Every statement may fail (`OAuthFail`, `MediaFail`,
`StatusFail`, `TimelineFail`), an answer may be lost after its commit (`Done`), and `Crash`
ends all handlers and goroutines. `followers` come and go (`HandleFollow`), and every
publication reads them anew. A read is three steps: what is asked for, the rows, the
filters; that of a list looks at the owner in one more, before the members
(`ListMastodonListMemberActorIDs`). `read[r]` is history: what was deleted and liked, the
members and the filters when it began, which requests were answered by then, and what it
showed.

### Wire

`search` is the state of `inboxURLFromReference` and `fetched` counts requests;
each document answers anew at each request with one of what `Documents` allows,
and a name resolves anew at each dial (`Resolvable`). `job, net, found` are
the delivery, requests under way, and requests of which the receiver has looked
the key up; key lookup and verification are two steps, between which time passes
and the key may be replaced. The clocks differ by `plan.offset`. The delivery may
be redirected (307 and 308 repeat the POST, others make it a GET), changed on the
way, or answered too late. A signature is the key with the text that was signed.
`KeysRead` is what reading the actor's key may give: `DeliverActivity` drops an error of
the SELECT and signs with the key file, `localActorPublicKeyPEM` shows the key file's
public key after one. An activity may be of another actor than its key
(`signingActorMatchesKeyID`). `Reached` is where a connection goes: an unspecified address
(0.0.0.0, ::) is in none of the classes `checkIP` refuses, and leads to the local host.
`walk` is a reader of the collection, which follows `next` links while `Change`
inserts, accepts and deletes follows.

### DeliveryBackoff

`prior` is the number of failures recorded, `d` and `i` the loop variables of
`nextDeliveryRunAfter`, `last` the delay scheduled before.

## 3. Runs

| Run | Question | Result |
|---|---|---|
| `sql` | two processes, crashes, SIGTERMs, statement errors: safety, refinement of `JobQueue`; every row is settled, or stranded by a fault | holds |
| `backoff` | delays for all small configurations | holds |
| `intake` | both queues: no job twice but after a lost reply of Redis; SQL queue: a 202 is kept, jobs match the stored bodies, what a sender repeats is taken over in the end, `Acceptance` is implemented | holds |
| `intake_pushed_loses` | other queue: PostOutbox "enqueues deliver_activity for each resolved recipient inbox" | violated |
| `redis` | each push run at most once, nothing lost without a fault, every job of the list is taken, refinement of `JobQueue` | holds |
| `redis_order` | "a simple list-based queue" | violated: a stack |
| `follows` | Follows inbound, outbound and between local actors, re-sent, undone, answered and forged, with faults: who may settle and undo one, that an unfollow is final; without a fault both sides agree, and every Follow is answered whatever fails | holds |
| `federated` | activities about an object or an edge, in any order, retried, with a stranger's among them: an object is the word of one who claimed it, what arrived in turn about an uncontested one leaves the last word, only its actor undoes an edge, jobs that can succeed do | holds |
| `client` | requests to the client API, interleaved, failing, crashing: codes, tokens, attachments, deletions while followers come and leave, likes, reads; uploads complete and requests end | holds |
| `private_fanout` | "fan-out uses individual actor IRIs merged into cc" | violated: not of a private status |
| `favourites_undone` | "reports whether actorID has a like", and what the favourites show | violated |
| `wire` | search, delivery, verification and paging between two servers | holds |

The four violations:

- **A 202 without jobs.** Without the SQL queue the commit comes before the pushes.
  If a push fails, or the client or `apd` goes away between, the repeated request
  finds the id stored and is answered 202; the missing jobs are never queued.
- **Newest first.** RPUSH appends at the tail and BRPOP takes from the tail.
- **A private status reaches nobody.** Its only recipient is the followers
  collection. `resolveDeliveryInboxes` skips a collection because its members have
  been merged into cc, and `appendFollowerCCForPublicPosts` merges them only into an
  activity that names Public.
- **An undone favourite is still one.** `getFavourites` lists the published Likes
  and marks each as favourited; an Undo deletes the row of `federated_likes`, which
  the other handlers read, and not the Like.

Further configurations hold counterexamples to sentences of the code that are
narrower than these; each names its one property:

- `sql_shutdown_strands.cfg` (`MCSqlQueue`): `HandleDeliveryJobFailure` "applies
  backoff, permanent 4xx handling, or max-attempt dead-letter", but `main` passes
  the signal context to the POST and the statements alike: after a SIGTERM during
  the POST `NackSchedule` fails too, and the row stays `processing`, which no code
  picks up again.
- `follows_accept_retried.cfg` (`MCFollows`): "pending" is "Accept not yet sent". When
  the UPDATE after the Accept fails, every retry puts the row back to pending and
  then hits the unique key of the Accept already queued.
- `follows_undo_resurrected.cfg` (`MCFollows`): an Undo "removes the edge". A Follow
  job that failed after its upsert is retried after the Undo and inserts it again.

`follows_types.cfg`, `federated_types.cfg` and `client_types.cfg` check the type
invariants of these modules on the instances of their runs.

### Bounds

`MaxJobs` 2 rows, two workers, `MaxAttempts` 2: enough for two workers on one row, for a
retry between two claims and for a dead letter after a retry. `MaxFaults` is 2 in `SqlQueue`
and `Intake` (`faults` in the bounds of `Follows`), so that a fault may hit the restarted
process, the repetition of a request or the retry of a job, and in `RedisQueue` a lost reply
to both a push and a pop; `Sends` is 2 and `MaxStops` 1. `Fickle` are the actors whose
follow comes and goes. `Intake` has two requests with one id, whose audiences differ when
the followers change in between, and recipients with an inbox of their own and without one.
`MaxTrouble` bounds how often an inbox job fails (the code has no bound), so that the
liveness of the others is about something. `SlackTime` bounds the clock when no row waits
for it. In `Follows` the activities are the bound: two Follows of the same pair, an Undo of
the first, an answer of each kind and one by a stranger are the least that lets stale ones
meet fresh ones; two Accepts with one id answer Follows of two local users. All of them at
once are too many states, so the run `follows` explores one after the other the sets of
`MCBounds`, each with a number of faults. `QuietAgreement` speaks of behaviours without a
fault; `FollowAnswered` of all. `DeliveryBackoff` uses 12 attempts and a doubling limit of 4
in place of 25 and 20: below, at and above the limit all occur. `Federated` does the same
with seventeen sets: a Create, two Updates and a Delete of one author; with a stranger's
Create, Update or Delete, a stranger's Create that names the object only, or one in the
stranger's own name; with objects named by id or addressed to others; Like, Undo, Like, Undo
of one pair; a boost and a block. Three to four activities are the least in which one is
overtaken, one retried and a stranger's comes between. Four activities go with no fault,
three with one. `Client` has 37 sets of at most five requests, each set made for a meeting:
two exchanges of one code with a third by another verifier, two deletions of one status, two
favourites with two undoings, an upload with a post that attaches it, a list with a member
who goes while it is read. Two faults let a repetition fail too. In `Wire` five documents
are enough for every cycle up to the limit of the search to be met or cut, names have up to
two addresses, time goes to a minute beyond the skew that is allowed, clocks are up to two
minutes apart, a delivery has two tries, and pages are of three, two and the default number
of rows while rows come and go. `CHECK_DEADLOCK FALSE` is set where the instance runs out of
activities, or of attempts, and really stops.

### Fairness

Workers poll for ever, so every step of a worker that stays possible is taken
(weak fairness), the clock goes on and the supervisor restarts `apw`. Nothing is
assumed of faults, SIGTERMs, clients and remote servers, except in that a remote
answers only what it received. In `Follows` a waiting job is claimed in the end
although other jobs come and go (strong fairness on claims): `Dequeue` takes the
row that is due longest, and `EveryJobEnds` of `sql` shows that this starves no row
(where nothing is stranded it says that every row is settled, and
`StuckOnlyByFault` that only a fault strands one). In
`Intake` senders repeat a request until it is answered 202, as this program's own
deliveries do; a handler that can go on does. In `Federated` a job that can
succeed is claimed in the end while a worker is free, for the reason given for
`Follows`, and a begun handler goes on; remote servers owe nothing. In `Client` a
handler that is begun goes on, and so does the goroutine of an upload (Go's
scheduler); clients owe nothing. `Wire` has safety properties only.

## 4. Proofs

Every safety property that a run checks, invariant or action property, is a theorem,
and so are the two refinements of `JobQueue` and the one of `Acceptance`. Of the liveness
properties, whose fairness is out of the prover's reach, the part that is safety is
proved: see the end of this section. A theorem
holds for all values of the constants that satisfy the assumption of the module, where
a run has one small instance. No invariant of interest is inductive by itself; what
follows says what each proof adds to it. TLC checked every strengthening on the
instance of the run before it was proved.

**`SqlQueueProofs`**: `TypeOK`, `LeaseExclusive`, `TriesBounded`, `DeadLetterJustified`,
`DoneMeansAnswered`, `FinalStays`, `StuckForever`, `RefusedNotRetried`, `StuckOnlyByFault`,
and that `Spec` implements `JobQueue`. That two workers never hold one row needs that a
locked row is pending and has one locker, and that a held row is processing. That tries are
bounded needs that `runs` exceeds `attempts` by at most one, and only while a handler's
result is not recorded or the row is stranded: so a pending row has `runs = attempts <
MaxAttempts`. A refused row is never pending: it is failed, held with the outcome
"permanent", or stranded. The conjunction of these, `IInv`, is inductive; each theorem
follows from it. `StuckOnlyByFault` needs, besides, that as long as no fault and no stop is
counted every process is up and every processing row has a holder (`Steady`). The refinement
maps `absent, pending, processing, done, failed` to the abstract states and the holder of a
lease to `owner`; each concrete action is shown to be an abstract one or a stutter.

**`DeliveryBackoffProofs`**: `DelayInRange` and `DelayIsCappedExponential` for every
configuration of integers. The second says that the loop of `nextDeliveryRunAfter`,
which doubles until it meets the cap, computes a power of two cut off at the maximum.
Powers are the recursive function `TwoTo`. Facts about it (it is defined, grows, and
unfolds) are proved by least counterexample, from the well-foundedness of the naturals,
since induction itself is out of reach; the invariant `Doubled` says that the loop has
doubled `i` times so far, or has met the cap on the way.

**`IntakeProofs`**: `TypeOK`, `JobsFromBody`, `QueuedOnce` for either backend (with the SQL
one no job twice, with the other at most once more for each lost reply); and with
the SQL queue `PromiseKept`, `JobsMatchBody` and that `Intake` implements `Acceptance`;
and `GivenUpByFault`, an action property.
The invariant says that an open transaction has its activity to itself and that
nothing of it is stored, and that whoever pushes does so for the stored body,
alone, and only jobs not queued yet. From these a commit is the abstract step.

**`RedisQueueProofs`**: `TypeOK`, `RunOncePerPush`, `LostOnlyByFault`, and that `Spec`
implements `JobQueue`, whose jobs are the entries of the list. An entry is in one place of
the list, or in one pair of hands, or in neither, and was not run before it was taken.
`Fate` says what became of the entries: an acknowledged one is in no place and in no hands,
and what was pushed is listed, held or run as long as no fault and no stop is counted.
`OnePerReply` says that the client sends a command again only after a lost reply. The
abstract `owner` is the worker that has the entry in hand.

**`FollowsProofs`**: `TypeOK`, `AnsweredByFollowee`, `OutboundUndoFinal`,
`OnlyFollowerUndoes`, `QuietAgreement`, `AnsweredAtRest`. `IInv` says where a handler can be
and what it has checked when it is there (`Places`: an answer about to be written is by the
followee of the Follow it names; whoever is about to write "accepted" has queued the
Accept), that jobs and rows come from stored activities (`Sources`), and who holds what
(`Leases`). `QuietAgreement` needs four more parts, for behaviours without a fault: the
handler of a Follow runs once (`Once`), an Accept on its way was queued by it
(`AcceptsQueued`), a pending row has a handler about to accept it (`PendingMoves`), and a
Follow whose Accept is queued has had its row (`Upserted`). `LastWritten` makes the excuse
exact: a row is about the Follow it was last written for, and only the Undo of that Follow
by its follower takes it away. `AnsweredAtRest` is for behaviours with faults too; `Thread`
says that the thread from a Follow to its follower has no gap: what is stored has its job, a
job of a Follow that came to its end has queued the Accept, and a delivery that came to its
end was delivered.

**`FederatedProofs`**: `TypeOK`, `KeptAsClaimed`, `OnlyActorUndoes`, `LastWordStands`,
`FailsByFault`. What a row says of its owner and its document is not inductive: between the
check of a handler and its write other handlers run. `IInv` adds that a worker has one job
at most, and only one that was received (`Leases`), and that a handler about to write runs
an activity of one who claims the object and holds a document that this one may have kept
(`Writes`), whatever the others do. `UncontestedIsTheAuthors` draws the conclusion for an
object that nobody but its author claims. For the last word, `Told` adds that on a subject
that did not race, and is not contested, everything sent before a received activity is done
(`Queued`), so that the one job which is not done is the last; that a handler about to write
has an activity that counts and a document at least as new (`Freshness`); and that the row
shows the last activity as soon as its handler has ended well (`ObjectsTold`, `EdgesTold`).
Between the statement and that moment nothing is claimed, which is what lets a job fail
after its commit and run again. An edge is the harder half: while an Undo is not done its
row may be there or gone. `FailsByFault` follows from `IInv`: the row that `handleUpdate` or
`handleDelete` finds of an uncontested object is the author's, so the comparison of owners
refuses strangers only.

`Follows` and `Federated` are written over the steps of `JobQueue`, with retries and lost
workers. Each entry of a Redis list is such a job of its own, so a doubled push is outside
of them, and what they show is shown for the SQL queue.

**`ClientProofs`**: `TypeOK`, `CodeSpentOnce`, `ActsForItsUser`, `AttachmentsReady`,
`DeleteTold`, `LikesAgree`, `ReadsHonest`, `WaitsForARunner`, `PendingIsAttended`. The
invariant has twelve layers, one for each part
of the state, listed at the head of the module: where a handler can be; the codes, the
exchanges that hold them and the tokens; for whom a handler acts; files and media; what is
about to be published; deletions; likes; lists; reads; answers. A layer is preserved given
those before it, so the proof looks only at the actions that touch its variables. The
heart of `CodeSpentOnce` is that an exchange past its UPDATE holds the row lock and has the
code still unspent in the committed table; of `AttachmentsReady`, that media is never
unmade and is checked before it is attached; of `ReadsHonest`, that what was deleted when
a read began is deleted when it takes its rows, that whom a list's members are read to be were
put there by its owner before, and that a filter which is unchanged when the rows are sifted
was there all the while; of `DeleteTold`, that whoever followed when the Create was published
follows now or is among those who left.

**`WireProofs`**: `SearchBounded`, `DialsChecked`, `AcceptedAsSigned`, `RefusedForCause`,
`PagesComplete`. The three conversations share only the plan and the clock, so the
invariant has a part for each. `Seeking` says that the steps made are the documents seen,
that each of these was fetched once, and that an inbox which is found has passed the
policy. `Delivering` follows the text from the signer to the verifier: a request on its
way is an attempt that was made, signed with a key of before or the key file's, and what
differs from the text that was signed is accounted for by a redirect or a garbling that
happened (`Carries`); the key that is found is that key, a later one, or the key file's
(`Fitting`). So a refusal has one of these, an activity of another actor or a delay as its
cause.
`Reading` says that every row at or above the reader's cursor which stayed was shown once
and nothing below it yet, with the least and the greatest of a set of rows established by
well-foundedness and by counting.

### Assumptions on the constants

- `QueueAssumption`, `RedisAssumption`, `BackoffAssumption`, `IntakeAssumption`: bounds are
  naturals, attempts are at least one (`DeliveryMaxAttempts`), ids of nobody and nothing are
  not ids.
- `FollowsAssumption`: an actor is local or remote; an Undo and an answer name a Follow; the
  Accept made for a Follow names that Follow (its object, and the key of its delivery).
  Nothing is assumed of `Id`: the theorems hold when activities share an id.
- `FederatedAssumption`: every activity is about an object, an edge, or the edge it undoes.
  Nothing is assumed of who sends what in whose name.
- `ApiAssumption`, `OAuthAssumption`: requests name operations; every minting request makes
  a token of its own (`randomTokenURL`), different from those issued before.
- `StatusAssumption`: what is received from elsewhere has an id and an author of elsewhere
  (ids contain the domain); rows are not the value that stands for no row; users are
  followed by actors elsewhere.
- `FetchAssumption`: a fetched document names URLs that parse, or none; a name resolves to
  addresses; an unspecified address is in no refused class. `PagingAssumption`: row ids are
  positive and finitely many, limits are as in the code. `SignatureAssumption`,
  `WireAssumption`: the skew is a natural; a conversation starts at its beginning.

TLC evaluates them on the instances of the runs, so none is empty.

### Liveness: what is proved, and what is only model-checked

That something happens in the end rests on two things: that no state is a trap, and that
the scheduler goes on. The second is fairness and stays with TLC. The first is safety, and
is proved for every value of the constants:

| liveness, checked by TLC | safety it rests on, a theorem |
|---|---|
| `EveryJobEnds` | `TriesBounded`, `StuckOnlyByFault`, `FinalStays`: a delivery has finitely many tries, a row is stranded by a fault only, and what has ended stays ended |
| `EveryJobTaken` | `LostOnlyByFault`: what was pushed is listed, held or run |
| `FollowAnswered` | `AnsweredAtRest` (`AnsweredWhenQuiet`): when nothing is left to do, the Accept was delivered and the row agrees |
| `EveryActivityQueued` | `GivenUpByFault` (`NoMutualRefusal`): no request makes another one with the same id fail |
| `HandledInTheEnd` | `FailsByFault` (`NoOrderFails`): no order of arrival, and no stranger, makes the job of an actor's own activity fail, on an object that nobody else claims |
| `RequestsEnd` | `WaitsForARunner` (`NobodyWaitsForTheDead`): who waits for a row lock waits for a transaction under way |
| `PendingMediaCompletes` | `PendingIsAttended` (`PendingAttended`): a pending row has its goroutine |

The theorems' own predicates (`AnsweredAtRest` and so on) are defined in the proof modules;
TLC checked them on the instances of the runs `follows`, `intake`, `federated` and `client`
before they were proved. What the pure recursive parts compute for every input is not claimed.

## 5. Limits, and what is not modelled

- `Follows`: `buildAcceptFollow` (`follow.go:77`) makes the Accept's id of the followee
  and the path of the Follow's IRI. The Follows of this program are named
  `root/#/activities/...` (`newIRI`), whose path is empty, so all the Accepts one
  followee sends for them have the same id, and an inbox of this program takes every
  Accept but the first for a repetition (`InsertInboundActivity`). Between instances of
  this program a second follower's row then stays `pending_remote`: `follows` contains
  that case (`g1, g3, b1, b3`) and its safety properties hold in it; `FollowAnswered`
  speaks of the Follows this instance answers, not of those it sends.
- `Federated`: `handleCreate` compares the sender with the object's attributedTo, and an
  object without one is taken at its sender's word; the stored owner and the host of the id
  are not looked at, and the upsert overwrites the row. So a Create by another actor in that
  actor's own name takes the row over, and the author's Update and Delete then fail on every
  try. `KeptAsClaimed` holds of that too; `LastWordStands` and `HandledInTheEnd` are about
  objects that nobody but the author claims. What
  arrives out of turn may leave an older word (`raced`): a Create handled after the
  Delete makes the object live again. No line of the repository promises otherwise,
  and the activities carry no order the code could use.
- `Client`: the followers that a publication merges are read with the last statement before
  it. A follower who left between a Create and its Delete keeps the status: the code has no
  record of whom a status went to. Two favourites at one moment publish two Likes, of which
  the table keeps one (`raced`). The rows of a page
  and of a set of attachments are read in one step. Tokens and codes are named for
  the requests that make them: guessing is out of scope. Scopes are kept and never
  checked, revocation answers 200 and does nothing, as in the code. Titles, page
  limits and the text of statuses are left out, what a filter hides is given.
  `getStatus` and the statuses of an account pay no attention to visibility, and the
  Undo of a favourite names no recipient: this is so in the code and nothing there
  says otherwise, so no property speaks of it.
- `SqlQueue` takes 2xx for an answer, as the code does, and a redirect to a GET with it.
  An inbox job that fails for ever is not in the run, whose clock is bounded.
- `Wire`: a key file is configured, as a key that `VerifyRequest` could not match with the
  actor row's. An attempt that fails before it is sent is one without an answer. Both servers
  run this code: where a 307 or 308 leads to one of other code, its 2xx settles the job
  whatever it checks. The address that is dialled is the one reached, but for an unspecified
  one; one message format; the POST is dialled as the fetches are; connections
  that are kept open and IPv4 addresses mapped to IPv6 are left out. The outbox and
  the following collection have the same pages as the followers collection.
- Malformed JSON (rejected without effect), rendering, routing, metrics, migrations,
  the reading of the configuration, cryptography, the S3 store and the older media
  upload are not modelled. PROJECT.json gives the reason for every component.

## 6. Plan

1. Joining `Follows` and `Client`: followers who come and go while a status is published,
   and the theorem that the recipients of a publication are followers at one instant.
2. Joining `Client` and `SqlQueue`: the delivery of what a client publishes.
3. The theorem that `Acceptance` composes with `JobQueue`: that what `Intake` takes over is
   what the queue is given.
