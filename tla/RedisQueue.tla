------------------------------ MODULE RedisQueue ------------------------------
(***************************************************************************)
(* The Redis job queue (queue/redisqueue) under the same workerLoop as     *)
(* SqlQueue.  Jobs are members of one Redis list; Dequeue removes one, and *)
(* that is the last the queue knows of it: Ack does nothing, and Nack only *)
(* says that it cannot requeue, which workerLoop and                       *)
(* HandleDeliveryJobFailure ignore.  RunAfter and IdempotencyKey are not   *)
(* looked at.                                                              *)
(*                                                                         *)
(* The client (go-redis) sends a command again when the connection breaks  *)
(* before the reply: a RPUSH that was executed is then executed twice, and *)
(* the member that an unanswered BRPOP took is nobody's.  Members of the   *)
(* list are therefore numbered: <<r, n>> is what the n-th RPUSH of call r  *)
(* left there, and all the <<r, n>> carry one job.                         *)
(***************************************************************************)
EXTENDS Integers, Sequences

CONSTANTS
  Procs,      \* the apw processes
  Workers,    \* their worker goroutines
  ProcOf,     \* ProcOf[w] is the process goroutine w runs in
  Requests,   \* calls of Enqueue, each with a job of its own
  Sends,      \* commands the client sends for one call (MaxRetries + 1)
  MaxFaults,  \* bound: crashes and lost replies of Redis
  MaxStops    \* bound: SIGTERMs

Entries == Requests \X (1..Sends)

ASSUME RedisAssumption ==
  /\ ProcOf \in [Workers -> Procs]
  /\ Sends \in Nat \ {0}
  /\ MaxFaults \in Nat
  /\ MaxStops \in Nat

VARIABLES
  list,       \* the list activitypub_core:queue, from head to tail
  pc, job,    \* the goroutines of workerLoop; job[w] is a set, empty or of one
  up,         \* up[p]: the signal context of process p is not done
  pushed,     \* the members that were pushed (history)
  runs,       \* runs[e]: times a handler ran to its end on the member (history)
  done,       \* the members whose handler succeeded, once acknowledged (history)
  faults, stops

work == <<pc, job>>
hist == <<pushed, runs, done>>
vars == <<list, work, up, hist, faults, stops>>

Init ==
  /\ list = <<>>
  /\ pc = [w \in Workers |-> "poll"]
  /\ job = [w \in Workers |-> {}]
  /\ up = [p \in Procs |-> TRUE]
  /\ pushed = {}
  /\ runs = [e \in Entries |-> 0]
  /\ done = {}
  /\ faults = 0
  /\ stops = 0

Running(w) == up[ProcOf[w]]
Goto(w, label) == pc' = [pc EXCEPT ![w] = label]
Fault == faults < MaxFaults /\ faults' = faults + 1

Push(e) ==
  /\ list' = Append(list, e)
  /\ pushed' = pushed \cup {e}
  /\ UNCHANGED <<work, up, runs, done, stops>>

\* RPUSH.
Enqueue(r) ==
  /\ \A n \in 1..Sends : <<r, n>> \notin pushed
  /\ Push(<<r, 1>>)
  /\ UNCHANGED faults

\* The reply was lost, and the client sends the RPUSH of call r again.  (What the
\* producer gets in the end makes no difference here: see Intake.)
Resend(r) ==
  /\ Fault
  /\ \E n \in 2..Sends :
       /\ <<r, n - 1>> \in pushed /\ <<r, n>> \notin pushed
       /\ Push(<<r, n>>)

\* BRPOP takes the member at the tail.
Popped == list[Len(list)]

\* Bug variant: LRANGE, which reads and does not remove.
RestKept == list

Rest == SubSeq(list, 1, Len(list) - 1)

\* Bug variants: a reply of two parts is taken for an empty one; the last member is
\* left in the list.
DequeueNil(w) ==
  /\ pc[w] = "poll" /\ Running(w)
  /\ list # <<>>
  /\ list' = Rest
  /\ UNCHANGED <<work, up, hist, faults, stops>>

DequeueButLast(w) ==
  /\ pc[w] = "poll" /\ Running(w)
  /\ Len(list) > 1
  /\ job' = [job EXCEPT ![w] = {Popped}]
  /\ list' = Rest
  /\ Goto(w, "leased")
  /\ UNCHANGED <<up, hist, faults, stops>>

Dequeue(w) ==
  /\ pc[w] = "poll" /\ Running(w)
  /\ list # <<>>
  /\ job' = [job EXCEPT ![w] = {Popped}]
  /\ list' = Rest
  /\ Goto(w, "leased")
  /\ UNCHANGED <<up, hist, faults, stops>>

\* Redis has removed the member when the connection breaks, or when the SIGTERM
\* ends the wait: nobody has the job.  Whether the client asks again or Dequeue
\* returns the error, the worker is back at its BRPOP.
DequeueUnseen(w) ==
  /\ pc[w] = "poll"
  /\ list # <<>>
  /\ IF Running(w) THEN Fault ELSE UNCHANGED faults
  /\ list' = Rest
  /\ UNCHANGED <<work, up, hist, stops>>

\* ProcessLease returns nil or an error.
ProcessLease(w) ==
  /\ pc[w] = "leased"
  /\ runs' = [e \in Entries |-> IF e \in job[w] THEN runs[e] + 1 ELSE runs[e]]
  /\ \E outcome \in {"ok", "error"} : Goto(w, outcome)
  /\ UNCHANGED <<list, job, up, pushed, done, faults, stops>>

\* Ack is a no-op, and so in effect is Nack: a failed job is gone.
Settle(w) ==
  /\ pc[w] \in {"ok", "error"}
  /\ done' = IF pc[w] = "ok" THEN done \cup job[w] ELSE done
  /\ job' = [job EXCEPT ![w] = {}]
  /\ Goto(w, "poll")
  /\ UNCHANGED <<list, up, pushed, runs, faults, stops>>

Terminate(p) ==
  /\ up[p] /\ stops < MaxStops
  /\ stops' = stops + 1
  /\ up' = [up EXCEPT ![p] = FALSE]
  /\ UNCHANGED <<list, work, hist, faults>>

Exit(w) ==
  /\ pc[w] = "poll" /\ ~Running(w)
  /\ Goto(w, "exited")
  /\ UNCHANGED <<list, job, up, hist, faults, stops>>

Crash(p) ==
  /\ Fault
  /\ \E w \in Workers : ProcOf[w] = p /\ pc[w] # "exited"
  /\ up' = [up EXCEPT ![p] = FALSE]
  /\ pc' = [w \in Workers |-> IF ProcOf[w] = p THEN "exited" ELSE pc[w]]
  /\ job' = [w \in Workers |-> IF ProcOf[w] = p THEN {} ELSE job[w]]
  /\ UNCHANGED <<list, hist, stops>>

Start(p) ==
  /\ \A w \in Workers : ProcOf[w] = p => pc[w] = "exited"
  /\ ~up[p]
  /\ up' = [up EXCEPT ![p] = TRUE]
  /\ pc' = [w \in Workers |-> IF ProcOf[w] = p THEN "poll" ELSE pc[w]]
  /\ UNCHANGED <<list, job, hist, faults, stops>>

WorkerStep(w) == Dequeue(w) \/ ProcessLease(w) \/ Settle(w) \/ Exit(w)

Next ==
  \/ \E r \in Requests : Enqueue(r) \/ Resend(r)
  \/ \E w \in Workers : WorkerStep(w) \/ DequeueUnseen(w)
  \/ \E p \in Procs : Terminate(p) \/ Crash(p) \/ Start(p)

\* Goroutines are scheduled and the supervisor restarts apw.
Fairness ==
  /\ \A w \in Workers : WF_vars(WorkerStep(w))
  /\ \A p \in Procs : WF_vars(Start(p))

Spec == Init /\ [][Next]_vars
FairSpec == Spec /\ Fairness

-------------------------------------------------------------------------------
(***************************************************************************)
(* Properties                                                              *)
(***************************************************************************)
Listed  == {list[i] : i \in DOMAIN list}
Held    == UNION {job[w] : w \in Workers}

\* The types of all variables.
TypeOK ==
  /\ list \in Seq(Entries)
  /\ pc \in [Workers -> {"poll", "leased", "ok", "error", "exited"}]
  /\ job \in [Workers -> SUBSET Entries]
  /\ up \in [Procs -> BOOLEAN]
  /\ pushed \subseteq Entries
  /\ runs \in [Entries -> Nat]
  /\ done \subseteq pushed
  /\ faults \in Nat /\ stops \in Nat

\* At most once a push: BRPOP removes a member before it is run, and nothing puts
\* it back, so that no handler runs twice on one.  The job of a call of Enqueue is run
\* at most once, and once more for each reply of Redis that was lost.
RunOncePerPush ==
  \A e \in Entries : runs[e] <= 1 /\ (runs[e] = 1 => e[2] <= 1 + faults)

\* A job that vanishes without being run does so by a crash, a lost reply or a
\* shutdown; a worker that goes on runs what it takes.
LostOnlyByFault ==
  faults = 0 /\ stops = 0 =>
    \A e \in pushed : e \in Listed \/ e \in Held \/ runs[e] = 1

\* The list is drained: no job waits in it for ever once producers pause.
EveryJobTaken == \A e \in Entries : e \in Listed ~> e \notin Listed

\* redisqueue.go calls itself "a simple list-based queue": what was pushed first
\* is taken first.
FirstInFirstOut ==
  [][\A i, j \in DOMAIN list : i < j /\ list[j] \notin Listed' => list[i] \notin Listed']_vars

AbsState == [e \in Entries |->
  CASE e \notin pushed -> "none"
    [] e \in Listed    -> "waiting"
    [] e \in done      -> "done"
    [] OTHER           -> "taken"]

Abs == INSTANCE JobQueue WITH
  Jobs <- Entries, MaxAttempts <- 1, state <- AbsState,
  owner <- [e \in Entries |-> {w \in Workers : e \in job[w]}],
  capped <- {}, tries <- [e \in Entries |-> 0]

\* The members of the list are jobs of the abstract queue, and the workers take only
\* the steps of it that lose jobs: a failed one stays taken, by nobody.  One call of
\* Enqueue may submit several of them.
Implements == Abs!Spec
===============================================================================
