------------------------------- MODULE SqlQueue -------------------------------
(***************************************************************************)
(* The Postgres job queue (queue/sqlqueue) and its consumers, the worker   *)
(* goroutines of one or more apw processes (cmd/apw, internal/worker).     *)
(*                                                                         *)
(* A row of queue_jobs goes pending -> processing -> done / failed, or     *)
(* back to pending with a later run_after.  Claiming a row, running its    *)
(* handler and settling it are three separate steps of a worker; a crash,  *)
(* a SIGTERM or a database error may fall between any two of them, and no  *)
(* code ever looks at rows left in "processing".                           *)
(*                                                                         *)
(* Time is a counter of ticks; run_after is compared with it as SQL        *)
(* compares it with now().  No caller in src/ sets Job.RunAfter, so a new  *)
(* row is due at once.                                                     *)
(***************************************************************************)
EXTENDS Integers, FiniteSets

CONSTANTS
  Procs,          \* the apw processes
  Workers,        \* their worker goroutines
  ProcOf,         \* ProcOf[w] is the process goroutine w runs in
  Requests,       \* enqueue requests; a request stands for its idempotency key
  KindOf,         \* KindOf[r] is the job type
  NoReq,          \* the request of a row not inserted yet
  Unkeyed,        \* requests made with an empty idempotency key
  MaxAttempts,    \* cfg.DeliveryMaxAttempts
  Delay,          \* Delay[n]: ticks before the retry that follows n failures
  MaxJobs,        \* bound: rows ever inserted
  MaxFaults,      \* bound: crashes, and statements and commits that fail
  MaxStops,       \* bound: SIGTERMs
  MaxTrouble,     \* bound: failures of a process_inbox_activity job
  SlackTime       \* bound: how far time runs when no pending row waits for it

Kinds == {"deliver", "inbox", "noop"}
Ids   == 1..MaxJobs

ASSUME QueueAssumption ==
  /\ ProcOf \in [Workers -> Procs]
  /\ KindOf \in [Requests -> Kinds]
  /\ Unkeyed \subseteq Requests
  /\ NoReq \notin Requests
  /\ MaxAttempts \in Nat \ {0}
  /\ Delay \in [0..MaxAttempts -> Nat]
  /\ MaxJobs \in Nat
  /\ MaxFaults \in Nat
  /\ MaxStops \in Nat
  /\ MaxTrouble \in Nat
  /\ SlackTime \in Nat

VARIABLES
  \* the table queue_jobs, by row id
  status, req, attempts, runAfter,
  nextId,         \* the BIGSERIAL sequence
  now,            \* the database clock
  \* the goroutines of workerLoop
  pc, job, seen, outcome,
  up,             \* up[p]: the signal context of process p is not done
  faults,         \* faults so far (bounded by MaxFaults)
  stops,          \* SIGTERMs so far (bounded by MaxStops)
  \* what the outside has seen of a row's job (history)
  runs,           \* times a handler ran to its end on the row
  arrived,        \* rows whose POST the remote took (the 2xx may have been lost)
  diverted,       \* rows whose POST was redirected, and the GET it became got a 2xx
  refused         \* rows the remote answered with a permanent 4xx

rowVars  == <<status, req, attempts, runAfter, nextId>>
workVars == <<pc, job, seen, outcome>>
histVars == <<runs, arrived, diverted, refused>>
vars == <<rowVars, now, workVars, up, faults, stops, histVars>>

Kind(id) == KindOf[req[id]]

Init ==
  /\ status = [id \in Ids |-> "absent"]
  /\ req = [id \in Ids |-> NoReq]
  /\ attempts = [id \in Ids |-> 0]
  /\ runAfter = [id \in Ids |-> 0]
  /\ nextId = 1
  /\ now = 0
  /\ pc = [w \in Workers |-> "poll"]
  /\ job = [w \in Workers |-> 0]
  /\ seen = [w \in Workers |-> 0]
  /\ outcome = [w \in Workers |-> "none"]
  /\ up = [p \in Procs |-> TRUE]
  /\ faults = 0
  /\ stops = 0
  /\ runs = [id \in Ids |-> 0]
  /\ arrived = {}
  /\ diverted = {}
  /\ refused = {}

(***************************************************************************)
(* Statements of sqlqueue.go, each one autocommitted UPDATE with           *)
(* "WHERE id = $1 AND status = 'processing'": another row is left alone.   *)
(***************************************************************************)
Finish(id, final) ==
  /\ status' = [status EXCEPT ![id] = IF @ = "processing" THEN final ELSE @]
  /\ UNCHANGED <<req, attempts, runAfter, nextId>>

Ack(id) == Finish(id, "done")

Requeue(id, at) ==
  /\ status' = [status EXCEPT ![id] = IF @ = "processing" THEN "pending" ELSE @]
  /\ attempts' = [attempts EXCEPT ![id] = IF status[id] = "processing" THEN @ + 1 ELSE @]
  /\ runAfter' = [runAfter EXCEPT ![id] = IF status[id] = "processing" THEN at ELSE @]
  /\ UNCHANGED <<req, nextId>>

Nack(id, requeue) == IF requeue THEN Requeue(id, now) ELSE Finish(id, "failed")

NackSchedule(id, permanent, at) ==
  IF permanent THEN Finish(id, "failed") ELSE Requeue(id, at)

(***************************************************************************)
(* Producers: apd handlers and inboxproc.  The partial unique index on     *)
(* idempotency_key spans finished rows too: a second INSERT with the key   *)
(* of any row, whatever its status, is an error and inserts nothing.       *)
(***************************************************************************)
Enqueue(r) ==
  /\ nextId <= MaxJobs
  /\ r \notin Unkeyed => \A id \in Ids : req[id] # r
  /\ status' = [status EXCEPT ![nextId] = "pending"]
  /\ req' = [req EXCEPT ![nextId] = r]
  /\ runAfter' = [runAfter EXCEPT ![nextId] = now]
  /\ nextId' = nextId + 1
  /\ UNCHANGED <<attempts, now, workVars, up, faults, stops, histVars>>

(***************************************************************************)
(* Dequeue: one transaction.  SELECT ... FOR UPDATE SKIP LOCKED takes the  *)
(* row lock of the first due row that nobody has locked; the row turns     *)
(* "processing" when the transaction commits.                              *)
(***************************************************************************)
\* Bug variant: the SELECT without FOR UPDATE.
RowLockedNever(id) == FALSE

RowLocked(id) == \E w \in Workers : pc[w] = "locked" /\ job[w] = id

\* Bug variant: the SELECT skips rows that failed once.
DueFirstTryOnly == {id \in Ids : status[id] = "pending" /\ attempts[id] = 0 /\ runAfter[id] <= now}

Due == {id \in Ids : status[id] = "pending" /\ runAfter[id] <= now}

Before(a, b) == runAfter[a] < runAfter[b] \/ (runAfter[a] = runAfter[b] /\ a <= b)

DequeueSelect(w) ==
  /\ pc[w] = "poll"
  /\ up[ProcOf[w]]
  /\ \E id \in {i \in Due : ~RowLocked(i)} :
       /\ \A other \in {i \in Due : ~RowLocked(i)} : Before(id, other)
       /\ job' = [job EXCEPT ![w] = id]
  /\ pc' = [pc EXCEPT ![w] = "locked"]
  /\ UNCHANGED <<rowVars, now, seen, outcome, up, faults, stops, histVars>>

DequeueCommit(w) ==
  /\ pc[w] = "locked"
  /\ up[ProcOf[w]]
  /\ status' = [status EXCEPT ![job[w]] = "processing"]
  /\ seen' = [seen EXCEPT ![w] = attempts[job[w]]]
  /\ pc' = [pc EXCEPT ![w] = "leased"]
  /\ UNCHANGED <<req, attempts, runAfter, nextId, now, job, outcome, up, faults, stops, histVars>>

\* A fault the model may still spend: a statement or commit that returns an error.
Fault == faults < MaxFaults /\ faults' = faults + 1

\* The worker goes back to the top of its loop without a lease.
Drop(w) ==
  /\ pc' = [pc EXCEPT ![w] = "poll"]
  /\ job' = [job EXCEPT ![w] = 0]
  /\ seen' = [seen EXCEPT ![w] = 0]
  /\ outcome' = [outcome EXCEPT ![w] = "none"]

\* The UPDATE or the COMMIT returns an error (at once when the context is done).
\* The deferred Rollback releases the row, unless the server had committed.
DequeueError(w) ==
  /\ pc[w] = "locked"
  /\ Fault \/ (~up[ProcOf[w]] /\ UNCHANGED faults)
  /\ \/ UNCHANGED status
     \/ status' = [status EXCEPT ![job[w]] = "processing"]
  /\ Drop(w)
  /\ UNCHANGED <<req, attempts, runAfter, nextId, now, up, stops, histVars>>

(***************************************************************************)
(* ProcessLease: the handler runs to its end.  A delivery ends with a 2xx, *)
(* a permanent 4xx, or another error; the remote may have taken the POST   *)
(* although the error is all the worker saw.  The HTTP client has no       *)
(* CheckRedirect: after a 301, 302 or 303 it asks the new address with a   *)
(* GET, and a 2xx to that is a success although nobody took the POST.      *)
(***************************************************************************)
Deliver(w, id) ==
  \/ /\ outcome' = [outcome EXCEPT ![w] = "ok"]
     /\ \/ arrived' = arrived \cup {id} /\ UNCHANGED diverted
        \/ diverted' = diverted \cup {id} /\ UNCHANGED arrived
     /\ UNCHANGED refused
  \/ /\ outcome' = [outcome EXCEPT ![w] = "permanent"]
     /\ refused' = refused \cup {id}
     /\ UNCHANGED <<arrived, diverted>>
  \/ /\ outcome' = [outcome EXCEPT ![w] = "error"]
     /\ arrived' \in {arrived, arrived \cup {id}}
     /\ UNCHANGED <<diverted, refused>>

ProcessLease(w) ==
  LET id == job[w] IN
  /\ pc[w] = "leased"
  /\ \/ Kind(id) = "deliver" /\ Deliver(w, id)
     \/ /\ Kind(id) \in {"noop", "inbox"}
        /\ outcome' = [outcome EXCEPT ![w] = "ok"]
        /\ UNCHANGED <<arrived, diverted, refused>>
     \/ /\ Kind(id) = "inbox" /\ attempts[id] < MaxTrouble
        /\ outcome' = [outcome EXCEPT ![w] = "error"]
        /\ UNCHANGED <<arrived, diverted, refused>>
  /\ runs' = [runs EXCEPT ![id] = @ + 1]
  /\ pc' = [pc EXCEPT ![w] = "ran"]
  /\ UNCHANGED <<rowVars, now, job, seen, up, faults, stops>>

(***************************************************************************)
(* workerLoop settles the lease.  HandleDeliveryJobFailure decides on the  *)
(* attempts the lease carried, not on the row's.                           *)
(***************************************************************************)
\* Bug variants: one try too many, one too few, a 4xx treated as any other error.
FailureOneTryMore(w) ==
  IF outcome[w] = "permanent" \/ seen[w] + 1 > MaxAttempts
  THEN NackSchedule(job[w], TRUE, now)
  ELSE NackSchedule(job[w], FALSE, now + Delay[seen[w]])

FailureOneTryLess(w) ==
  IF outcome[w] = "permanent" \/ seen[w] + 2 >= MaxAttempts
  THEN NackSchedule(job[w], TRUE, now)
  ELSE NackSchedule(job[w], FALSE, now + Delay[seen[w]])

FailureIgnores4xx(w) ==
  IF seen[w] + 1 >= MaxAttempts
  THEN NackSchedule(job[w], TRUE, now)
  ELSE NackSchedule(job[w], FALSE, now + Delay[seen[w]])

HandleDeliveryJobFailure(w) ==
  IF outcome[w] = "permanent" \/ seen[w] + 1 >= MaxAttempts
  THEN NackSchedule(job[w], TRUE, now)
  ELSE NackSchedule(job[w], FALSE, now + Delay[seen[w]])

\* Bug variants: a refusal is acknowledged; a failed inbox job is only logged.
SettleAcksRefusal(w) ==
  /\ pc[w] = "ran"
  /\ up[ProcOf[w]]
  /\ \/ outcome[w] # "error" /\ Ack(job[w])
     \/ outcome[w] = "error" /\ Kind(job[w]) = "deliver" /\ HandleDeliveryJobFailure(w)
     \/ outcome[w] = "error" /\ Kind(job[w]) # "deliver" /\ Nack(job[w], TRUE)
  /\ Drop(w)
  /\ UNCHANGED <<now, up, faults, stops, histVars>>

SettleForgetsInbox(w) ==
  /\ pc[w] = "ran"
  /\ up[ProcOf[w]]
  /\ \/ outcome[w] = "ok" /\ Ack(job[w])
     \/ outcome[w] # "ok" /\ Kind(job[w]) = "deliver" /\ HandleDeliveryJobFailure(w)
     \/ outcome[w] # "ok" /\ Kind(job[w]) # "deliver" /\ UNCHANGED rowVars
  /\ Drop(w)
  /\ UNCHANGED <<now, up, faults, stops, histVars>>

Settle(w) ==
  /\ pc[w] = "ran"
  /\ up[ProcOf[w]]
  /\ \/ outcome[w] = "ok" /\ Ack(job[w])
     \/ outcome[w] # "ok" /\ Kind(job[w]) = "deliver" /\ HandleDeliveryJobFailure(w)
     \/ outcome[w] # "ok" /\ Kind(job[w]) # "deliver" /\ Nack(job[w], TRUE)
  /\ Drop(w)
  /\ UNCHANGED <<now, up, faults, stops, histVars>>

\* Ack, Nack or NackSchedule returns an error (always, once the context is done);
\* the worker logs it at most and goes on: the row stays "processing".
SettleError(w) ==
  /\ pc[w] = "ran"
  /\ Fault \/ (~up[ProcOf[w]] /\ UNCHANGED faults)
  /\ Drop(w)
  /\ UNCHANGED <<rowVars, now, up, stops, histVars>>

(***************************************************************************)
(* Processes.  SIGTERM ends the context: workers stop at the top of their  *)
(* loop, after the lease in hand.  A crash ends them where they stand and  *)
(* Postgres rolls their open transactions back.                            *)
(***************************************************************************)
Terminate(p) ==
  /\ up[p]
  /\ stops < MaxStops
  /\ stops' = stops + 1
  /\ up' = [up EXCEPT ![p] = FALSE]
  /\ UNCHANGED <<rowVars, now, workVars, faults, histVars>>

Exit(w) ==
  /\ pc[w] = "poll"
  /\ ~up[ProcOf[w]]
  /\ pc' = [pc EXCEPT ![w] = "exited"]
  /\ UNCHANGED <<rowVars, now, job, seen, outcome, up, faults, stops, histVars>>

Crash(p) ==
  /\ \E w \in Workers : ProcOf[w] = p /\ pc[w] # "exited"
  /\ Fault
  /\ up' = [up EXCEPT ![p] = FALSE]
  /\ pc' = [w \in Workers |-> IF ProcOf[w] = p THEN "exited" ELSE pc[w]]
  /\ job' = [w \in Workers |-> IF ProcOf[w] = p THEN 0 ELSE job[w]]
  /\ seen' = [w \in Workers |-> IF ProcOf[w] = p THEN 0 ELSE seen[w]]
  /\ outcome' = [w \in Workers |-> IF ProcOf[w] = p THEN "none" ELSE outcome[w]]
  /\ UNCHANGED <<rowVars, now, stops, histVars>>

Start(p) ==
  /\ ~up[p]
  /\ \A w \in Workers : ProcOf[w] = p => pc[w] = "exited"
  /\ up' = [up EXCEPT ![p] = TRUE]
  /\ pc' = [w \in Workers |-> IF ProcOf[w] = p THEN "poll" ELSE pc[w]]
  /\ UNCHANGED <<rowVars, now, job, seen, outcome, faults, stops, histVars>>

Waiting == \E id \in Ids : status[id] = "pending" /\ runAfter[id] > now

Tick ==
  /\ now < SlackTime \/ Waiting
  /\ now' = now + 1
  /\ UNCHANGED <<rowVars, workVars, up, faults, stops, histVars>>

WorkerStep(w) ==
  \/ DequeueSelect(w) \/ DequeueCommit(w) \/ DequeueError(w)
  \/ ProcessLease(w) \/ Settle(w) \/ SettleError(w) \/ Exit(w)

Next ==
  \/ \E r \in Requests : Enqueue(r)
  \/ \E w \in Workers : WorkerStep(w)
  \/ \E p \in Procs : Terminate(p) \/ Crash(p) \/ Start(p)
  \/ Tick

\* Goroutines are scheduled, time passes and the supervisor restarts apw.
Fairness ==
  /\ \A w \in Workers :
       /\ WF_vars(DequeueSelect(w)) /\ WF_vars(DequeueCommit(w))
       /\ WF_vars(ProcessLease(w)) /\ WF_vars(Settle(w)) /\ WF_vars(Exit(w))
       /\ WF_vars(DequeueError(w) /\ ~up[ProcOf[w]])
       /\ WF_vars(SettleError(w) /\ ~up[ProcOf[w]])
  /\ \A p \in Procs : WF_vars(Start(p))
  /\ WF_vars(Tick)

Spec == Init /\ [][Next]_vars
FairSpec == Spec /\ Fairness

-------------------------------------------------------------------------------
(***************************************************************************)
(* Properties                                                              *)
(***************************************************************************)
Status    == {"absent", "pending", "processing", "done", "failed"}
Held(w)   == pc[w] \in {"leased", "ran"}
Leased(id) == \E w \in Workers : Held(w) /\ job[w] = id
Stuck(id) == status[id] = "processing" /\ ~Leased(id)

\* The types of all variables.
TypeOK ==
  /\ status \in [Ids -> Status]
  /\ req \in [Ids -> Requests \cup {NoReq}]
  /\ attempts \in [Ids -> Nat]
  /\ runAfter \in [Ids -> Nat]
  /\ nextId \in 1..(MaxJobs + 1)
  /\ now \in Nat
  /\ pc \in [Workers -> {"poll", "locked", "leased", "ran", "exited"}]
  /\ job \in [Workers -> Ids \cup {0}]
  /\ seen \in [Workers -> Nat]
  /\ outcome \in [Workers -> {"none", "ok", "permanent", "error"}]
  /\ up \in [Procs -> BOOLEAN]
  /\ faults \in Nat
  /\ stops \in Nat
  /\ runs \in [Ids -> Nat]
  /\ arrived \subseteq Ids
  /\ diverted \subseteq Ids
  /\ refused \subseteq Ids

\* However Dequeue transactions, settlements and crashes interleave, no two
\* goroutines, of one process or of several, ever work on the same row, and the
\* row a goroutine works on is still "processing" with the attempts its lease
\* carries (FOR UPDATE SKIP LOCKED, and the status guards of Ack and Nack).
LeaseExclusive ==
  /\ \A v, w \in Workers : Held(v) /\ Held(w) /\ job[v] = job[w] => v = w
  /\ \A w \in Workers : Held(w) => /\ status[job[w]] = "processing"
                                   /\ seen[w] = attempts[job[w]]

\* A delivery is POSTed at most DeliveryMaxAttempts times, whatever fails between
\* the POST and the statement that counts it (config.go: "tries per
\* deliver_activity job before dead-letter").
TriesBounded ==
  \A id \in Ids : status[id] # "absent" /\ Kind(id) = "deliver" => runs[id] <= MaxAttempts

\* The dead letter is never premature: a row is "failed" only when it is a
\* delivery and the remote refused it for good or all its tries were made; a
\* process_inbox_activity job is retried without end and never given up.
DeadLetterJustified ==
  \A id \in Ids : status[id] = "failed" =>
    Kind(id) = "deliver" /\ (id \in refused \/ runs[id] = MaxAttempts)

\* A delivery is recorded as "done" only when a 2xx answered its POST, or the GET
\* that a redirect made of it: never when the remote refused it for good, and never
\* because its tries ran out, whatever settlements were lost on the way.  (Deliveries
\* that were only redirected are done without an inbox that took them.)
DoneMeansAnswered ==
  \A id \in Ids : status[id] = "done" /\ Kind(id) = "deliver" =>
    id \in arrived \cup diverted /\ id \notin refused

\* Rows are stranded in "processing" by faults and shutdowns only: a worker that
\* runs on settles every lease it takes.
StuckOnlyByFault == faults = 0 /\ stops = 0 => \A id \in Ids : ~Stuck(id)

StuckStays ==
  \A id \in Ids : Stuck(id) => status'[id] = "processing" /\ runs'[id] = runs[id]

\* A row without a lease in "processing" is out of the program's sight: locked_at
\* is never read, and no later step of any worker takes, runs or settles it.
StuckForever == [][StuckStays]_vars

\* Settled rows stay settled: a late Ack, Nack or claim never reopens them.
FinalStays ==
  [][\A id \in Ids : status[id] \in {"done", "failed"} => status'[id] = status[id]]_vars

\* Once the remote has refused a delivery for good (410, 404, ...) it is never
\* POSTed again, even when recording the refusal fails.
RefusedNotRetried ==
  [][\A id \in Ids : id \in refused => runs'[id] = runs[id]]_vars

\* Every row that is inserted is settled in the end, or stranded by a fault or a
\* shutdown; apw is restarted after both.
EveryJobEnds ==
  \A id \in Ids : status[id] = "pending" ~> (status[id] \in {"done", "failed"} \/ Stuck(id))

\* delivery_fail.go says of HandleDeliveryJobFailure that it "applies backoff,
\* permanent 4xx handling, or max-attempt dead-letter when the SQL queue supports
\* it": the row of a delivery that failed goes back to pending or to failed.
FailedDeliverySettles ==
  \A w \in Workers, id \in Ids :
    pc[w] = "ran" /\ job[w] = id /\ outcome[w] # "ok" /\ Kind(id) = "deliver"
      ~> status[id] \in {"pending", "failed"}

(***************************************************************************)
(* The abstract queue this one implements.                                 *)
(***************************************************************************)
AbstractState(id) ==
  CASE status[id] = "absent"     -> "none"
    [] status[id] = "pending"    -> "waiting"
    [] status[id] = "processing" -> "taken"
    [] status[id] = "done"       -> "done"
    [] OTHER                     -> "dead"

AbsState  == [id \in Ids |-> AbstractState(id)]
AbsOwner  == [id \in Ids |-> {w \in Workers : Held(w) /\ job[w] = id}]
AbsCapped == {id \in Ids : status[id] # "absent" /\ Kind(id) = "deliver"}
AbsTries  == [id \in Ids |-> IF id \in AbsCapped THEN attempts[id] ELSE 0]

Abs == INSTANCE JobQueue WITH
  Jobs <- Ids, state <- AbsState, owner <- AbsOwner, capped <- AbsCapped, tries <- AbsTries

\* The table, its transactions and the worker loops implement the abstract queue.
Implements == Abs!Spec
===============================================================================
