---------------------------- MODULE SqlQueueProofs ----------------------------
(***************************************************************************)
(* Machine-checked proofs about SqlQueue, for any number of processes,     *)
(* goroutines, rows, requests, faults and shutdowns.                       *)
(***************************************************************************)
EXTENDS SqlQueue, TLAPS

Busy(w) == pc[w] \in {"locked", "leased", "ran"}

\* A goroutine inside Dequeue has a pending row, one with a lease a processing
\* row whose attempts the lease copied; no row has two goroutines.
WorkerInv ==
  /\ \A w \in Workers : Busy(w) =>
       /\ job[w] \in Ids
       /\ status[job[w]] = IF pc[w] = "locked" THEN "pending" ELSE "processing"
       /\ Held(w) => seen[w] = attempts[job[w]]
  /\ \A v, w \in Workers : Busy(v) /\ Busy(w) /\ job[v] = job[w] => v = w

\* What a row's status says of its counters and of the outside.
RowInv ==
  \A id \in Ids :
    /\ id >= nextId => status[id] = "absent"
    /\ status[id] = "absent" => req[id] = NoReq /\ runs[id] = 0 /\ attempts[id] = 0 /\ id \notin refused
    /\ status[id] # "absent" => req[id] \in Requests
    /\ status[id] = "pending" => runs[id] = attempts[id] /\ id \notin refused
    /\ status[id] = "processing" => runs[id] \in {attempts[id], attempts[id] + 1}
    /\ status[id] = "failed" => Kind(id) = "deliver" /\ (id \in refused \/ runs[id] = MaxAttempts)
    /\ (status[id] # "absent" /\ Kind(id) = "deliver") =>
         /\ attempts[id] < MaxAttempts
         /\ runs[id] <= MaxAttempts
         /\ status[id] = "done" => id \in arrived \cup diverted /\ id \notin refused

\* What a lease in hand says of its row.
LeaseInv ==
  \A w \in Workers :
    /\ pc[w] = "leased" => runs[job[w]] = attempts[job[w]] /\ job[w] \notin refused
    /\ pc[w] = "ran" =>
         /\ runs[job[w]] = attempts[job[w]] + 1
         /\ outcome[w] \in {"ok", "permanent", "error"}
         /\ outcome[w] = "permanent" <=> job[w] \in refused
         /\ outcome[w] = "permanent" => Kind(job[w]) = "deliver"
         /\ outcome[w] = "ok" /\ Kind(job[w]) = "deliver" => job[w] \in arrived \cup diverted

IInv == TypeOK /\ WorkerInv /\ RowInv /\ LeaseInv

\* What going back to the top of the loop makes of the worker variables.
Dropped(w) ==
  /\ pc' \in [Workers -> {"poll", "locked", "leased", "ran", "exited"}]
  /\ job' \in [Workers -> Ids \cup {0}]
  /\ seen' \in [Workers -> Nat]
  /\ outcome' \in [Workers -> {"none", "ok", "permanent", "error"}]
  /\ pc'[w] = "poll"
  /\ \A v \in Workers : v # w =>
       /\ pc'[v] = pc[v] /\ job'[v] = job[v]
       /\ seen'[v] = seen[v] /\ outcome'[v] = outcome[v]

LEMMA DropFacts ==
  ASSUME TypeOK, NEW w \in Workers, Drop(w)
  PROVE  Dropped(w)
BY DEF TypeOK, Drop, Dropped

\* The workers still busy after one went back to its loop: they were busy, on
\* other rows, and their variables are as they were.
LEMMA BusyAfterDrop ==
  ASSUME WorkerInv, NEW w \in Workers, Busy(w), Dropped(w), NEW v \in Workers, Busy(v)'
  PROVE  /\ v # w /\ Busy(v) /\ job[v] \in Ids /\ job[v] # job[w]
         /\ pc'[v] = pc[v] /\ job'[v] = job[v] /\ seen'[v] = seen[v] /\ outcome'[v] = outcome[v]
BY DEF WorkerInv, Dropped, Busy

LEMMA EnqueueStep ==
  ASSUME IInv, NEW r \in Requests, Enqueue(r)
  PROVE  IInv'
<1> USE DEF IInv, Status, Busy, Held, Kind, rowVars, workVars, histVars
<1>1. TypeOK'
  <2>1. nextId \in Ids /\ nextId + 1 \in 1..(MaxJobs + 1)
    BY QueueAssumption DEF Ids, TypeOK, Enqueue
  <2>2. QED
    BY <2>1 DEF TypeOK, Enqueue
<1>2. WorkerInv'
  BY QueueAssumption DEF Ids, TypeOK, WorkerInv, RowInv, Enqueue
<1>3. RowInv'
  BY QueueAssumption DEF Ids, TypeOK, RowInv, Enqueue
<1>4. LeaseInv'
  BY QueueAssumption DEF Ids, TypeOK, WorkerInv, RowInv, LeaseInv, Enqueue
<1>5. QED
  BY <1>1, <1>2, <1>3, <1>4

LEMMA DequeueSelectStep ==
  ASSUME IInv, NEW w \in Workers, DequeueSelect(w)
  PROVE  IInv'
<1> USE DEF IInv, Status, Busy, Held, Kind, rowVars, workVars, histVars
<1>1. TypeOK'
  BY DEF TypeOK, DequeueSelect, Due
<1>2. WorkerInv'
  BY DEF TypeOK, WorkerInv, DequeueSelect, Due, RowLocked
<1>3. RowInv'
  BY DEF RowInv, DequeueSelect
<1>4. LeaseInv'
  BY DEF TypeOK, LeaseInv, DequeueSelect
<1>5. QED
  BY <1>1, <1>2, <1>3, <1>4

LEMMA DequeueCommitStep ==
  ASSUME IInv, NEW w \in Workers, DequeueCommit(w)
  PROVE  IInv'
<1> USE DEF IInv, Status, Busy, Held, Kind, rowVars, workVars, histVars
<1>1. job[w] \in Ids /\ status[job[w]] = "pending"
  BY DEF DequeueCommit, WorkerInv
<1>2. TypeOK'
  BY <1>1 DEF TypeOK, DequeueCommit
<1>3. WorkerInv'
  <2>1. \A v \in Workers : v # w /\ Busy(v) => job[v] # job[w]
    BY DEF DequeueCommit, WorkerInv
  <2>2. \A v \in Workers : v # w => pc'[v] = pc[v] /\ job'[v] = job[v] /\ seen'[v] = seen[v]
    BY DEF TypeOK, DequeueCommit
  <2>3. /\ pc'[w] = "leased" /\ job'[w] = job[w] /\ seen'[w] = attempts[job[w]]
        /\ status'[job[w]] = "processing" /\ attempts' = attempts
        /\ \A id \in Ids : id # job[w] => status'[id] = status[id]
    BY <1>1 DEF TypeOK, DequeueCommit
  <2>4. QED
    BY <1>1, <2>1, <2>2, <2>3 DEF WorkerInv
<1>4. RowInv'
  BY <1>1 DEF TypeOK, RowInv, DequeueCommit
<1>5. LeaseInv'
  BY <1>1 DEF TypeOK, RowInv, WorkerInv, LeaseInv, DequeueCommit
<1>6. QED
  BY <1>2, <1>3, <1>4, <1>5

LEMMA DequeueErrorStep ==
  ASSUME IInv, NEW w \in Workers, DequeueError(w)
  PROVE  IInv'
<1> USE DEF IInv, Status, Busy, Held, Kind, rowVars, workVars, histVars
<1>1. job[w] \in Ids /\ status[job[w]] = "pending" /\ pc[w] = "locked"
  BY DEF DequeueError, WorkerInv
<1>2. /\ Drop(w) /\ faults' \in Nat
      /\ UNCHANGED <<req, attempts, runAfter, nextId, now, up, stops, histVars>>
  BY DEF TypeOK, DequeueError, Fault
<1>3. Dropped(w) /\ \A v \in Workers : v # w /\ Busy(v) => job[v] # job[w]
  BY <1>1, <1>2, DropFacts DEF WorkerInv
<1>4. /\ status' \in [Ids -> Status]
      /\ status'[job[w]] \in {"pending", "processing"}
      /\ \A id \in Ids : id # job[w] => status'[id] = status[id]
  BY <1>1 DEF TypeOK, DequeueError
<1>5. TypeOK'
  BY <1>2, <1>3, <1>4 DEF Dropped, TypeOK
<1>6. WorkerInv'
  <2>1. \A v \in Workers : Busy(v)' =>
          /\ v # w /\ Busy(v) /\ job[v] \in Ids /\ job[v] # job[w]
          /\ pc'[v] = pc[v] /\ job'[v] = job[v] /\ seen'[v] = seen[v] /\ outcome'[v] = outcome[v]
    BY <1>1, <1>3, BusyAfterDrop
  <2>2. QED
    BY <1>2, <1>4, <2>1 DEF WorkerInv
<1>7. RowInv'
  BY <1>1, <1>2, <1>4 DEF TypeOK, RowInv
<1>8. LeaseInv'
  <2>1. \A v \in Workers : Busy(v)' =>
          /\ v # w /\ Busy(v) /\ job[v] \in Ids /\ job[v] # job[w]
          /\ pc'[v] = pc[v] /\ job'[v] = job[v] /\ seen'[v] = seen[v] /\ outcome'[v] = outcome[v]
    BY <1>1, <1>3, BusyAfterDrop
  <2>2. QED
    BY <1>2, <2>1 DEF LeaseInv
<1>9. QED
  BY <1>5, <1>6, <1>7, <1>8

LEMMA ProcessLeaseStep ==
  ASSUME IInv, NEW w \in Workers, ProcessLease(w)
  PROVE  IInv'
<1> USE DEF IInv, Status, Busy, Held, Kind, rowVars, workVars, histVars
<1>1. /\ pc[w] = "leased" /\ job[w] \in Ids /\ status[job[w]] = "processing"
      /\ runs[job[w]] = attempts[job[w]] /\ job[w] \notin refused
      /\ req[job[w]] \in Requests /\ seen[w] = attempts[job[w]]
  BY DEF ProcessLease, WorkerInv, LeaseInv, RowInv
<1>2. \A v \in Workers : v # w /\ Busy(v) => job[v] # job[w]
  BY <1>1 DEF WorkerInv
<1>3. /\ UNCHANGED <<rowVars, now, job, seen, up, faults, stops>>
      /\ pc' = [pc EXCEPT ![w] = "ran"]
      /\ runs' = [runs EXCEPT ![job[w]] = @ + 1]
  BY DEF ProcessLease
<1>4. /\ outcome' \in [Workers -> {"none", "ok", "permanent", "error"}]
      /\ \A v \in Workers : v # w => outcome'[v] = outcome[v]
      /\ outcome'[w] \in {"ok", "permanent", "error"}
  BY DEF ProcessLease, Deliver, TypeOK
<1>5. /\ refused' \subseteq Ids /\ arrived' \subseteq Ids /\ diverted' \subseteq Ids
      /\ \A id \in Ids : id # job[w] =>
           /\ id \in refused' <=> id \in refused
           /\ id \in arrived' <=> id \in arrived
           /\ id \in diverted' <=> id \in diverted
      /\ arrived \subseteq arrived' /\ diverted \subseteq diverted'
  BY <1>1 DEF ProcessLease, Deliver, TypeOK
<1>6. /\ outcome'[w] = "permanent" <=> job[w] \in refused'
      /\ outcome'[w] = "permanent" => Kind(job[w]) = "deliver"
      /\ outcome'[w] = "ok" /\ Kind(job[w]) = "deliver" => job[w] \in arrived' \cup diverted'
  <2>1. CASE Kind(job[w]) = "deliver" /\ Deliver(w, job[w])
    BY <1>1, <2>1 DEF Deliver, TypeOK
  <2>2. CASE Kind(job[w]) \in {"noop", "inbox"} /\ outcome' = [outcome EXCEPT ![w] = "ok"]
             /\ UNCHANGED <<arrived, diverted, refused>>
    BY <1>1, <2>2 DEF TypeOK
  <2>3. CASE Kind(job[w]) = "inbox" /\ outcome' = [outcome EXCEPT ![w] = "error"]
             /\ UNCHANGED <<arrived, diverted, refused>>
    BY <1>1, <2>3 DEF TypeOK
  <2>4. QED
    BY <2>1, <2>2, <2>3 DEF ProcessLease
<1>7. /\ pc' \in [Workers -> {"poll", "locked", "leased", "ran", "exited"}]
      /\ pc'[w] = "ran"
      /\ \A v \in Workers : v # w => pc'[v] = pc[v]
      /\ runs' \in [Ids -> Nat]
      /\ runs'[job[w]] = attempts[job[w]] + 1
      /\ \A id \in Ids : id # job[w] => runs'[id] = runs[id]
  BY <1>1, <1>3 DEF TypeOK
<1>8. TypeOK'
  BY <1>3, <1>4, <1>5, <1>7 DEF TypeOK
<1>9. WorkerInv'
  BY <1>1, <1>3, <1>7 DEF WorkerInv
<1>10. RowInv'
  <2>1. ASSUME NEW id \in Ids, id # job[w]
        PROVE  /\ runs'[id] = runs[id] /\ id \in refused' <=> id \in refused
               /\ id \in arrived' <=> id \in arrived
               /\ id \in diverted' <=> id \in diverted
    BY <1>5, <1>7, <2>1
  <2>2. /\ status'[job[w]] = "processing" /\ runs'[job[w]] = attempts'[job[w]] + 1
        /\ ~(job[w] >= nextId)
        /\ Kind(job[w]) = "deliver" => runs'[job[w]] <= MaxAttempts
    BY <1>1, <1>3, <1>7, QueueAssumption DEF RowInv, TypeOK
  <2>3. QED
    BY <1>1, <1>3, <2>1, <2>2 DEF RowInv
<1>11. LeaseInv'
  <2>1. ASSUME NEW v \in Workers, v # w, Held(v)'
        PROVE  /\ Held(v) /\ job[v] \in Ids /\ job[v] # job[w]
               /\ pc'[v] = pc[v] /\ job'[v] = job[v] /\ outcome'[v] = outcome[v]
    BY <1>2, <1>3, <1>4, <1>7, <2>1 DEF WorkerInv
  <2>2. QED
    BY <1>1, <1>3, <1>4, <1>5, <1>6, <1>7, <2>1 DEF LeaseInv
<1>12. QED
  BY <1>8, <1>9, <1>10, <1>11

\* The three ways a settlement leaves the row of the lease.
Settled(w) ==
  \/ /\ outcome[w] = "ok"
     /\ status' = [status EXCEPT ![job[w]] = "done"]
     /\ UNCHANGED <<attempts, runAfter>>
  \/ /\ Kind(job[w]) = "deliver"
     /\ outcome[w] = "permanent" \/ attempts[job[w]] + 1 >= MaxAttempts
     /\ outcome[w] # "ok"
     /\ status' = [status EXCEPT ![job[w]] = "failed"]
     /\ UNCHANGED <<attempts, runAfter>>
  \/ /\ outcome[w] = "error"
     /\ Kind(job[w]) = "deliver" => attempts[job[w]] + 1 < MaxAttempts
     /\ status' = [status EXCEPT ![job[w]] = "pending"]
     /\ attempts' = [attempts EXCEPT ![job[w]] = @ + 1]
     /\ \E at \in Nat : runAfter' = [runAfter EXCEPT ![job[w]] = at]

LEMMA SettleFacts ==
  ASSUME IInv, NEW w \in Workers, Settle(w)
  PROVE  /\ Drop(w) /\ UNCHANGED <<req, nextId, now, up, faults, stops, histVars>>
         /\ job[w] \in Ids /\ pc[w] = "ran" /\ status[job[w]] = "processing"
         /\ Settled(w)
<1> USE DEF IInv, Status, Busy, Held, Kind, rowVars, workVars, histVars
<1>1. /\ pc[w] = "ran" /\ job[w] \in Ids /\ status[job[w]] = "processing"
      /\ seen[w] = attempts[job[w]] /\ attempts[job[w]] \in Nat /\ now \in Nat
      /\ outcome[w] \in {"ok", "permanent", "error"}
      /\ outcome[w] = "permanent" => Kind(job[w]) = "deliver"
      /\ req[job[w]] \in Requests
  BY DEF Settle, WorkerInv, LeaseInv, RowInv, TypeOK
<1>2. Drop(w) /\ UNCHANGED <<req, nextId, now, up, faults, stops, histVars>>
  <2>1. Drop(w) /\ UNCHANGED <<now, up, faults, stops, histVars>>
    BY DEF Settle
  <2>2. CASE outcome[w] = "ok"
    BY <2>1, <2>2 DEF Settle, Ack, Finish
  <2>3. CASE outcome[w] # "ok" /\ Kind(job[w]) = "deliver"
    <3>1. HandleDeliveryJobFailure(w)
      BY <2>3 DEF Settle
    <3>2. QED
      BY <2>1, <3>1 DEF HandleDeliveryJobFailure, NackSchedule, Finish, Requeue
  <2>4. CASE outcome[w] # "ok" /\ Kind(job[w]) # "deliver"
    BY <2>1, <2>4 DEF Settle, Nack, Requeue
  <2>5. QED
    BY <2>2, <2>3, <2>4
<1>3. CASE outcome[w] = "ok"
  BY <1>1, <1>2, <1>3 DEF Settle, Settled, Ack, Finish, TypeOK
<1>4. CASE outcome[w] # "ok" /\ Kind(job[w]) = "deliver"
  <2>1. HandleDeliveryJobFailure(w)
    BY <1>4 DEF Settle
  <2>2. CASE outcome[w] = "permanent" \/ seen[w] + 1 >= MaxAttempts
    <3>1. Finish(job[w], "failed")
      BY <2>1, <2>2 DEF HandleDeliveryJobFailure, NackSchedule
    <3>2. QED
      BY <1>1, <1>2, <1>4, <2>2, <3>1 DEF Finish, Settled, TypeOK
  <2>3. CASE ~(outcome[w] = "permanent" \/ seen[w] + 1 >= MaxAttempts)
    <3>1. Requeue(job[w], now + Delay[seen[w]])
      BY <2>1, <2>3 DEF HandleDeliveryJobFailure, NackSchedule
    <3>2. now + Delay[seen[w]] \in Nat
      BY <1>1, <2>3, QueueAssumption
    <3>3. /\ status' = [status EXCEPT ![job[w]] = "pending"]
          /\ attempts' = [attempts EXCEPT ![job[w]] = @ + 1]
          /\ runAfter' = [runAfter EXCEPT ![job[w]] = now + Delay[seen[w]]]
      BY <1>1, <3>1 DEF Requeue, TypeOK
    <3>4. outcome[w] = "error" /\ attempts[job[w]] + 1 < MaxAttempts
      BY <1>1, <1>4, <2>3, QueueAssumption
    <3>5. QED
      BY <1>1, <1>2, <3>2, <3>3, <3>4 DEF Settled
  <2>4. QED
    BY <2>2, <2>3
<1>5. CASE outcome[w] # "ok" /\ Kind(job[w]) # "deliver"
  <2>1. Requeue(job[w], now)
    BY <1>5 DEF Settle, Nack
  <2>2. /\ status' = [status EXCEPT ![job[w]] = "pending"]
        /\ attempts' = [attempts EXCEPT ![job[w]] = @ + 1]
        /\ runAfter' = [runAfter EXCEPT ![job[w]] = now]
    BY <1>1, <2>1 DEF Requeue, TypeOK
  <2>3. outcome[w] = "error"
    BY <1>1, <1>5
  <2>4. QED
    BY <1>1, <1>2, <1>5, <2>2, <2>3 DEF Settled
<1>6. QED
  BY <1>3, <1>4, <1>5

LEMMA SettleStep ==
  ASSUME IInv, NEW w \in Workers, Settle(w)
  PROVE  IInv'
<1> USE DEF IInv, Status, Busy, Held, Kind, rowVars, workVars, histVars
<1>1. /\ Drop(w) /\ UNCHANGED <<req, nextId, now, up, faults, stops, histVars>>
      /\ job[w] \in Ids /\ pc[w] = "ran" /\ status[job[w]] = "processing"
      /\ Settled(w) /\ Dropped(w)
  BY SettleFacts, DropFacts
<1>2. /\ status' \in [Ids -> Status] /\ attempts' \in [Ids -> Nat] /\ runAfter' \in [Ids -> Nat]
      /\ \A id \in Ids : id # job[w] => status'[id] = status[id] /\ attempts'[id] = attempts[id]
  BY <1>1 DEF Settled, TypeOK
<1>3. TypeOK'
  BY <1>1, <1>2 DEF Dropped, TypeOK
<1>4. WorkerInv'
  <2>1. \A v \in Workers : Busy(v)' =>
          /\ v # w /\ Busy(v) /\ job[v] \in Ids /\ job[v] # job[w]
          /\ pc'[v] = pc[v] /\ job'[v] = job[v] /\ seen'[v] = seen[v] /\ outcome'[v] = outcome[v]
    BY <1>1, BusyAfterDrop
  <2>2. QED
    BY <1>2, <2>1 DEF WorkerInv
<1>5. RowInv'
  <2>1. /\ runs[job[w]] = attempts[job[w]] + 1 /\ attempts[job[w]] \in Nat
        /\ outcome[w] \in {"ok", "permanent", "error"}
        /\ outcome[w] = "permanent" <=> job[w] \in refused
        /\ outcome[w] = "ok" /\ Kind(job[w]) = "deliver" => job[w] \in arrived \cup diverted
        /\ req[job[w]] \in Requests /\ ~(job[w] >= nextId)
        /\ Kind(job[w]) = "deliver" => attempts[job[w]] < MaxAttempts /\ runs[job[w]] <= MaxAttempts
    BY <1>1 DEF LeaseInv, RowInv, TypeOK
  <2>2. \/ /\ status'[job[w]] = "done" /\ outcome[w] = "ok"
           /\ attempts'[job[w]] = attempts[job[w]]
        \/ /\ status'[job[w]] = "failed" /\ Kind(job[w]) = "deliver"
           /\ outcome[w] = "permanent" \/ attempts[job[w]] + 1 >= MaxAttempts
           /\ attempts'[job[w]] = attempts[job[w]]
        \/ /\ status'[job[w]] = "pending" /\ outcome[w] = "error"
           /\ Kind(job[w]) = "deliver" => attempts[job[w]] + 1 < MaxAttempts
           /\ attempts'[job[w]] = attempts[job[w]] + 1
    BY <1>1 DEF Settled, TypeOK
  <2>3. status'[job[w]] = "failed" => job[w] \in refused \/ runs[job[w]] = MaxAttempts
    BY <2>1, <2>2, QueueAssumption
  <2>4. QED
    BY <1>1, <1>2, <2>1, <2>2, <2>3 DEF RowInv
<1>6. LeaseInv'
  <2>1. \A v \in Workers : Busy(v)' =>
          /\ v # w /\ Busy(v) /\ job[v] \in Ids /\ job[v] # job[w]
          /\ pc'[v] = pc[v] /\ job'[v] = job[v] /\ seen'[v] = seen[v] /\ outcome'[v] = outcome[v]
    BY <1>1, BusyAfterDrop
  <2>2. QED
    BY <1>1, <1>2, <2>1 DEF LeaseInv
<1>7. QED
  BY <1>3, <1>4, <1>5, <1>6

LEMMA SettleErrorStep ==
  ASSUME IInv, NEW w \in Workers, SettleError(w)
  PROVE  IInv'
<1> USE DEF IInv, Status, Busy, Held, Kind, rowVars, workVars, histVars
<1>1. Drop(w) /\ faults' \in Nat /\ UNCHANGED <<rowVars, now, up, stops, histVars>>
  BY DEF TypeOK, SettleError, Fault
<1>2. Dropped(w) /\ Busy(w)
  BY <1>1, DropFacts DEF SettleError
<1>3. TypeOK'
  BY <1>1, <1>2 DEF Dropped, TypeOK
<1>4. WorkerInv'
  <2>1. \A v \in Workers : Busy(v)' =>
          /\ v # w /\ Busy(v) /\ job[v] \in Ids /\ job[v] # job[w]
          /\ pc'[v] = pc[v] /\ job'[v] = job[v] /\ seen'[v] = seen[v] /\ outcome'[v] = outcome[v]
    BY <1>2, BusyAfterDrop
  <2>2. QED
    BY <1>1, <2>1 DEF WorkerInv
<1>5. RowInv'
  BY <1>1 DEF TypeOK, RowInv
<1>6. LeaseInv'
  <2>1. \A v \in Workers : Busy(v)' =>
          /\ v # w /\ Busy(v) /\ job[v] \in Ids /\ job[v] # job[w]
          /\ pc'[v] = pc[v] /\ job'[v] = job[v] /\ seen'[v] = seen[v] /\ outcome'[v] = outcome[v]
    BY <1>2, BusyAfterDrop
  <2>2. QED
    BY <1>1, <2>1 DEF LeaseInv
<1>7. QED
  BY <1>3, <1>4, <1>5, <1>6

LEMMA TerminateStep ==
  ASSUME IInv, NEW p \in Procs, Terminate(p)
  PROVE  IInv'
<1> USE DEF IInv, Status, Busy, Held, Kind, rowVars, workVars, histVars
<1>1. TypeOK'
  BY DEF TypeOK, Terminate
<1>2. WorkerInv'
  BY DEF TypeOK, WorkerInv, Terminate
<1>3. RowInv'
  BY DEF RowInv, Terminate
<1>4. LeaseInv'
  BY DEF TypeOK, LeaseInv, Terminate
<1>5. QED
  BY <1>1, <1>2, <1>3, <1>4

LEMMA ExitStep ==
  ASSUME IInv, NEW w \in Workers, Exit(w)
  PROVE  IInv'
<1> USE DEF IInv, Status, Busy, Held, Kind, rowVars, workVars, histVars
<1>1. TypeOK'
  BY DEF TypeOK, Exit
<1>2. WorkerInv'
  BY DEF TypeOK, WorkerInv, Exit
<1>3. RowInv'
  BY DEF RowInv, Exit
<1>4. LeaseInv'
  BY DEF TypeOK, LeaseInv, Exit
<1>5. QED
  BY <1>1, <1>2, <1>3, <1>4

LEMMA CrashStep ==
  ASSUME IInv, NEW p \in Procs, Crash(p)
  PROVE  IInv'
<1> USE DEF IInv, Status, Busy, Held, Kind, rowVars, workVars, histVars
<1>1. TypeOK'
  BY DEF TypeOK, Crash, Fault
<1>2. WorkerInv'
  BY DEF TypeOK, WorkerInv, Crash
<1>3. RowInv'
  BY DEF RowInv, Crash
<1>4. LeaseInv'
  BY DEF TypeOK, LeaseInv, Crash
<1>5. QED
  BY <1>1, <1>2, <1>3, <1>4

LEMMA StartStep ==
  ASSUME IInv, NEW p \in Procs, Start(p)
  PROVE  IInv'
<1> USE DEF IInv, Status, Busy, Held, Kind, rowVars, workVars, histVars
<1>1. TypeOK'
  BY DEF TypeOK, Start
<1>2. WorkerInv'
  BY DEF TypeOK, WorkerInv, Start
<1>3. RowInv'
  BY DEF RowInv, Start
<1>4. LeaseInv'
  BY DEF TypeOK, LeaseInv, Start
<1>5. QED
  BY <1>1, <1>2, <1>3, <1>4

LEMMA InitInv == Init => IInv
BY QueueAssumption DEF Init, IInv, TypeOK, WorkerInv, RowInv, LeaseInv, Ids, Status, Busy, Held, Kind

LEMMA NextInv == IInv /\ [Next]_vars => IInv'
<1> SUFFICES ASSUME IInv, [Next]_vars PROVE IInv'
  OBVIOUS
<1>1. ASSUME NEW r \in Requests, Enqueue(r) PROVE IInv'
  BY <1>1, EnqueueStep
<1>2. ASSUME NEW w \in Workers, WorkerStep(w) PROVE IInv'
  BY <1>2, DequeueSelectStep, DequeueCommitStep, DequeueErrorStep, ProcessLeaseStep,
     SettleStep, SettleErrorStep, ExitStep DEF WorkerStep
<1>3. ASSUME NEW p \in Procs, Terminate(p) \/ Crash(p) \/ Start(p) PROVE IInv'
  BY <1>3, TerminateStep, CrashStep, StartStep
<1>4. CASE Tick
  BY <1>4 DEF Tick, IInv, TypeOK, WorkerInv, RowInv, LeaseInv, Busy, Held, Kind,
     rowVars, workVars, histVars
<1>5. CASE UNCHANGED vars
  BY <1>5 DEF vars, IInv, TypeOK, WorkerInv, RowInv, LeaseInv, Busy, Held, Kind,
     rowVars, workVars, histVars
<1>6. QED
  BY <1>1, <1>2, <1>3, <1>4, <1>5 DEF Next

\* The inductive invariant holds in every reachable state of every instance.
THEOREM Inductive == Spec => []IInv
<1>1. QED
  BY InitInv, NextInv, PTL DEF Spec

-------------------------------------------------------------------------------
\* Every variable keeps its type (SqlQueue!TypeOK).
THEOREM TypeCorrect == Spec => []TypeOK
<1>1. IInv => TypeOK
  BY DEF IInv
<1>2. QED
  BY <1>1, Inductive, PTL

\* No two goroutines ever hold a lease of the same row, and a lease always matches
\* its row: Dequeue's row lock and the status guards suffice, for any number of
\* apw processes, crashes and shutdowns.
THEOREM LeasesExclusive == Spec => []LeaseExclusive
<1>1. IInv => LeaseExclusive
  BY DEF IInv, WorkerInv, LeaseExclusive, Busy, Held
<1>2. QED
  BY <1>1, Inductive, PTL

\* No delivery is POSTed more than DeliveryMaxAttempts times.
THEOREM DeliveryTriesBounded == Spec => []TriesBounded
<1>1. IInv => TriesBounded
  BY QueueAssumption DEF IInv, TypeOK, RowInv, TriesBounded, Status, Kind
<1>2. QED
  BY <1>1, Inductive, PTL

\* A row is failed only after a permanent refusal or all its tries.
THEOREM NoEarlyDeadLetter == Spec => []DeadLetterJustified
<1>1. IInv => DeadLetterJustified
  BY DEF IInv, RowInv, DeadLetterJustified
<1>2. QED
  BY <1>1, Inductive, PTL

\* A delivery marked done was answered with a 2xx and never refused for good.
THEOREM DoneIsAnswered == Spec => []DoneMeansAnswered
<1>1. IInv => DoneMeansAnswered
  BY DEF IInv, RowInv, DoneMeansAnswered
<1>2. QED
  BY <1>1, Inductive, PTL

-------------------------------------------------------------------------------
\* Where a step starts that is about rows: the facts each action offers on them.
LEMMA RowStep ==
  ASSUME IInv, Next
  PROVE  \/ \E r \in Requests : Enqueue(r)
         \/ \E w \in Workers : DequeueCommit(w) \/ DequeueError(w) \/ ProcessLease(w) \/ Settle(w)
         \/ UNCHANGED <<status, runs>>
BY DEF Next, WorkerStep, DequeueSelect, SettleError, Terminate, Exit, Crash, Start, Tick,
   rowVars, histVars

\* No step disturbs a settled row, and a stuck or a refused one is never run again.
Kept(id) ==
  /\ status[id] \in {"done", "failed"} => status'[id] = status[id]
  /\ Stuck(id) => status'[id] = "processing" /\ runs'[id] = runs[id]
  /\ id \in refused => runs'[id] = runs[id]

LEMMA RowStays ==
  ASSUME IInv, [Next]_vars, NEW id \in Ids
  PROVE  Kept(id)
<1> USE DEF IInv, Busy, Held, Leased, Stuck, Kept
<1>1. CASE \E r \in Requests : Enqueue(r)
  <2>1. /\ nextId \in Ids /\ status[nextId] = "absent" /\ runs' = runs
        /\ status' = [status EXCEPT ![nextId] = "pending"]
    BY <1>1, QueueAssumption DEF Enqueue, TypeOK, RowInv, Ids, histVars
  <2>2. QED
    BY <2>1 DEF TypeOK
<1>2. ASSUME NEW w \in Workers, DequeueCommit(w) \/ DequeueError(w)
      PROVE  Kept(id)
  <2>1. status[job[w]] = "pending" /\ job[w] \in Ids /\ runs' = runs
    BY <1>2 DEF DequeueCommit, DequeueError, WorkerInv, histVars
  <2>2. id # job[w] => status'[id] = status[id]
    BY <1>2, <2>1 DEF DequeueCommit, DequeueError, TypeOK
  <2>3. QED
    BY <2>1, <2>2
<1>3. ASSUME NEW w \in Workers, ProcessLease(w)
      PROVE  Kept(id)
  <2>1. status' = status /\ runs' = [runs EXCEPT ![job[w]] = @ + 1]
    BY <1>3 DEF ProcessLease, rowVars
  <2>2. Leased(job[w]) /\ job[w] \in Ids /\ job[w] \notin refused
    BY <1>3 DEF ProcessLease, WorkerInv, LeaseInv
  <2>3. QED
    BY <2>1, <2>2 DEF TypeOK
<1>4. ASSUME NEW w \in Workers, Settle(w)
      PROVE  Kept(id)
  <2>1. /\ runs' = runs /\ job[w] \in Ids /\ status[job[w]] = "processing" /\ pc[w] = "ran"
        /\ Settled(w)
    BY <1>4, SettleFacts DEF histVars
  <2>2. id # job[w] => status'[id] = status[id]
    BY <2>1 DEF Settled, TypeOK
  <2>3. QED
    BY <2>1, <2>2
<1>5. CASE UNCHANGED <<status, runs>>
  BY <1>5
<1>6. QED
  BY <1>1, <1>2, <1>3, <1>4, <1>5, RowStep DEF vars, rowVars, histVars

\* Settled rows are never reopened.
THEOREM FinalRowsStay == Spec => FinalStays
<1>1. IInv /\ [Next]_vars => [\A id \in Ids :
        status[id] \in {"done", "failed"} => status'[id] = status[id]]_vars
  BY RowStays DEF Kept
<1>2. QED
  BY <1>1, Inductive, PTL DEF Spec, FinalStays

\* A row stranded in "processing" stays there: nothing in the program recovers it.
THEOREM StuckRowsStay == Spec => StuckForever
<1>1. IInv /\ [Next]_vars => [StuckStays]_vars
  BY RowStays DEF Kept, StuckStays
<1>2. QED
  BY <1>1, Inductive, PTL DEF Spec, StuckForever

\* A delivery the remote refused for good is never POSTed again.
THEOREM RefusedNeverRetried == Spec => RefusedNotRetried
<1>1. IInv /\ [Next]_vars => [\A id \in Ids : id \in refused => runs'[id] = runs[id]]_vars
  BY RowStays DEF Kept
<1>2. QED
  BY <1>1, Inductive, PTL DEF Spec, RefusedNotRetried

\* While nothing has failed and nobody was told to stop, every process is up and every
\* row that is being processed has a lease.
Steady ==
  faults = 0 /\ stops = 0 =>
    /\ \A p \in Procs : up[p]
    /\ \A id \in Ids : status[id] = "processing" => \E w \in Workers : Held(w) /\ job[w] = id

\* Steps that take no lease away and put no row in processing keep Steady.
LEMMA SteadyKept ==
  ASSUME Steady, UNCHANGED <<up, faults, stops>>,
         \A id \in Ids : status'[id] = "processing" => status[id] = "processing",
         \A w \in Workers : Held(w) => Held(w)' /\ job'[w] = job[w]
  PROVE  Steady'
  BY DEF Steady

\* A step that spends a fault or a shutdown leaves nothing to show.
LEMMA SpentSteady ==
  ASSUME TypeOK, \/ faults' = faults + 1
                 \/ stops' = stops + 1
                 \/ (faults # 0 \/ stops # 0) /\ UNCHANGED <<faults, stops>>
  PROVE  faults' \in Nat /\ stops' \in Nat => Steady'
  BY DEF TypeOK, Steady

LEMMA NextSteady == IInv /\ IInv' /\ Steady /\ [Next]_vars => Steady'
<1> SUFFICES ASSUME IInv, IInv', Steady, [Next]_vars PROVE Steady'
  OBVIOUS
<1> USE QueueAssumption DEF rowVars, workVars, histVars
<1>0. /\ TypeOK /\ faults' \in Nat /\ stops' \in Nat
      /\ \A w \in Workers : ProcOf[w] \in Procs
  BY DEF IInv, TypeOK
<1>1. ASSUME NEW r \in Requests, Enqueue(r) PROVE Steady'
  <2>1. /\ status' = [status EXCEPT ![nextId] = "pending"]
        /\ UNCHANGED <<pc, job, up, faults, stops>>
    BY <1>1 DEF Enqueue
  <2>2. \A id \in Ids : status'[id] = "processing" => status[id] = "processing"
    BY <2>1, <1>0 DEF TypeOK
  <2>3. QED
    BY <2>1, <2>2, SteadyKept DEF Held
<1>2. ASSUME NEW w \in Workers, DequeueSelect(w) \/ ProcessLease(w) PROVE Steady'
  <2>1. /\ UNCHANGED <<status, up, faults, stops>>
        /\ pc' = [pc EXCEPT ![w] = IF pc[w] = "poll" THEN "locked" ELSE "ran"]
        /\ pc[w] \in {"poll", "leased"}
        /\ \A v \in Workers : v # w \/ pc[w] = "leased" => job'[v] = job[v]
    BY <1>2, <1>0 DEF DequeueSelect, ProcessLease, TypeOK
  <2>2. \A v \in Workers : Held(v) => Held(v)' /\ job'[v] = job[v]
    BY <2>1, <1>0 DEF TypeOK, Held
  <2>3. QED
    BY <2>1, <2>2, SteadyKept
<1>3. ASSUME NEW w \in Workers, DequeueCommit(w) PROVE Steady'
  <2>1. /\ pc[w] = "locked" /\ job[w] \in Ids
        /\ status' = [status EXCEPT ![job[w]] = "processing"]
        /\ pc' = [pc EXCEPT ![w] = "leased"]
        /\ UNCHANGED <<job, up, faults, stops>>
    BY <1>3 DEF DequeueCommit, IInv, WorkerInv, Busy
  <2>2. \A v \in Workers : Held(v) => Held(v)'
    BY <2>1, <1>0 DEF TypeOK, Held
  <2>3. Held(w)'
    BY <2>1, <1>0 DEF TypeOK, Held
  <2>4. \A id \in Ids : status'[id] = "processing" => status[id] = "processing" \/ id = job[w]
    BY <2>1, <1>0 DEF TypeOK
  <2>5. QED
    BY <2>1, <2>2, <2>3, <2>4 DEF Steady
<1>4. ASSUME NEW w \in Workers, DequeueError(w) \/ SettleError(w) PROVE Steady'
  <2>1. \/ faults' = faults + 1
        \/ (faults # 0 \/ stops # 0) /\ UNCHANGED <<faults, stops>>
    BY <1>4, <1>0 DEF DequeueError, SettleError, Fault, Steady, TypeOK
  <2>2. QED
    BY <2>1, <1>0, SpentSteady
<1>5. ASSUME NEW w \in Workers, Settle(w) PROVE Steady'
  <2>1. /\ Dropped(w) /\ UNCHANGED <<up, faults, stops>>
        /\ job[w] \in Ids /\ Settled(w) /\ pc[w] = "ran"
    BY <1>5, <1>0, SettleFacts, DropFacts
  <2>2. \A id \in Ids : status'[id] = "processing" => status[id] = "processing" /\ id # job[w]
    BY <2>1, <1>0 DEF Settled, TypeOK
  <2>3. \A v \in Workers : v # w /\ Held(v) => Held(v)' /\ job'[v] = job[v]
    BY <2>1 DEF Dropped, Held
  <2>4. QED
    BY <2>1, <2>2, <2>3 DEF Steady
<1>6. ASSUME NEW w \in Workers, Exit(w) PROVE Steady'
  <2>1. (faults # 0 \/ stops # 0) /\ UNCHANGED <<faults, stops>>
    BY <1>6, <1>0 DEF Exit, Steady
  <2>2. QED
    BY <2>1, <1>0, SpentSteady
<1>7. ASSUME NEW p \in Procs, Terminate(p) \/ Crash(p) \/ Start(p) PROVE Steady'
  <2>1. \/ faults' = faults + 1 \/ stops' = stops + 1
        \/ (faults # 0 \/ stops # 0) /\ UNCHANGED <<faults, stops>>
    BY <1>7, <1>0 DEF Terminate, Crash, Start, Fault, Steady
  <2>2. QED
    BY <2>1, <1>0, SpentSteady
<1>8. CASE Tick \/ UNCHANGED vars
  <2>1. UNCHANGED <<status, pc, job, up, faults, stops>>
    BY <1>8 DEF Tick, vars
  <2>2. QED
    BY <2>1, SteadyKept DEF Held
<1>9. QED
  BY <1>1, <1>2, <1>3, <1>4, <1>5, <1>6, <1>7, <1>8 DEF Next, WorkerStep

\* A row is stranded in processing only by a fault or a shutdown: a worker that goes on
\* settles every lease it takes, whatever the others do.
THEOREM StuckByFault == Spec => []StuckOnlyByFault
<1>1. Init => Steady
  BY DEF Init, Steady, Ids
<1>2. Steady => StuckOnlyByFault
  BY DEF Steady, StuckOnlyByFault, Stuck, Leased
<1>3. QED
  BY <1>1, <1>2, NextSteady, Inductive, PTL DEF Spec

-------------------------------------------------------------------------------
(***************************************************************************)
(* The table and its workers implement the abstract queue: each step maps  *)
(* to a step of JobQueue on the row it concerns, or to a stutter.          *)
(***************************************************************************)
LEMMA AbsTyping ==
  ASSUME IInv
  PROVE  /\ AbsState \in [Ids -> {"none", "waiting", "taken", "done", "dead"}]
         /\ AbsOwner \in [Ids -> SUBSET Workers]
         /\ AbsCapped \subseteq Ids
BY DEF AbsState, AbsOwner, AbsCapped, AbstractState

LEMMA StutterStep ==
  ASSUME UNCHANGED <<status, req, attempts>>,
         \A w \in Workers : Held(w)' <=> Held(w), \A w \in Workers : Held(w) => job'[w] = job[w]
  PROVE  UNCHANGED Abs!vars
<1>1. AbsState' = AbsState
  BY DEF AbsState, AbstractState
<1>2. AbsOwner' = AbsOwner
  BY DEF AbsOwner
<1>3. AbsCapped' = AbsCapped /\ AbsTries' = AbsTries
  BY DEF AbsCapped, AbsTries, Kind
<1>4. QED
  BY <1>1, <1>2, <1>3 DEF Abs!vars

Inserted(r) == IF KindOf[r] = "deliver" THEN {nextId} ELSE {}

LEMMA SubmitStep ==
  ASSUME IInv, NEW r \in Requests, Enqueue(r)
  PROVE  Abs!Submit({nextId}, Inserted(r)) /\ nextId \in Ids
<1>1. /\ nextId \in Ids /\ status[nextId] = "absent" /\ attempts[nextId] = 0
      /\ status' = [status EXCEPT ![nextId] = "pending"]
      /\ req' = [req EXCEPT ![nextId] = r]
      /\ UNCHANGED <<attempts, pc, job>>
  BY QueueAssumption DEF IInv, Enqueue, TypeOK, RowInv, Ids, workVars
<1>2. AbsState[nextId] = "none"
  BY <1>1 DEF AbsState, AbstractState
<1>3. AbsState' = [j \in Ids |-> IF j \in {nextId} THEN "waiting" ELSE AbsState[j]]
  BY <1>1 DEF IInv, TypeOK, AbsState, AbstractState
<1>4. AbsOwner' = AbsOwner
  BY <1>1 DEF AbsOwner, Held
<1>5. AbsCapped' = AbsCapped \cup Inserted(r)
  <2>1. \A id \in Ids : id # nextId => req'[id] = req[id] /\ status'[id] = status[id]
    BY <1>1 DEF IInv, TypeOK
  <2>2. req'[nextId] = r /\ status'[nextId] = "pending"
    BY <1>1 DEF IInv, TypeOK
  <2>3. QED
    BY <1>1, <2>1, <2>2 DEF AbsCapped, Inserted, Kind
<1>6. AbsTries' = AbsTries
  BY <1>1, <1>5 DEF AbsTries, Inserted
<1>7. QED
  BY <1>1, <1>2, <1>3, <1>4, <1>5, <1>6 DEF Abs!Submit

\* Dropping a lease takes the worker out of the owners and leaves the others.
LEMMA OwnerAfterDrop ==
  ASSUME IInv, NEW w \in Workers, Busy(w), Dropped(w)
  PROVE  AbsOwner' = [id \in Ids |-> AbsOwner[id] \ {w}]
BY DEF AbsOwner, Dropped, Held

\* The only owner of a leased row is the worker at it.
LEMMA SoleOwner ==
  ASSUME IInv, NEW w \in Workers, Held(w)
  PROVE  /\ job[w] \in Ids
         /\ \A id \in Ids : AbsOwner[id] \ {w} = IF id = job[w] THEN {} ELSE AbsOwner[id]
         /\ AbsOwner[job[w]] = {w}
<1>1. job[w] \in Ids /\ \A v \in Workers : Held(v) /\ job[v] = job[w] => v = w
  BY DEF IInv, WorkerInv, Busy, Held
<1>2. QED
  BY <1>1 DEF AbsOwner

LEMMA ClaimStep ==
  ASSUME IInv, NEW w \in Workers, DequeueCommit(w)
  PROVE  Abs!Claim(w, job[w]) /\ job[w] \in Ids
<1>1. /\ job[w] \in Ids /\ status[job[w]] = "pending" /\ pc[w] = "locked"
      /\ status' = [status EXCEPT ![job[w]] = "processing"]
      /\ pc' = [pc EXCEPT ![w] = "leased"]
      /\ UNCHANGED <<req, attempts, job>>
  BY DEF IInv, DequeueCommit, WorkerInv, Busy
<1>2. AbsState[job[w]] = "waiting" /\ AbsState' = [AbsState EXCEPT ![job[w]] = "taken"]
  BY <1>1 DEF IInv, TypeOK, AbsState, AbstractState
<1>3. \A v \in Workers : v # w /\ Held(v) => job[v] # job[w]
  BY <1>1 DEF IInv, WorkerInv, Busy, Held
<1>4. \A v \in Workers : Held(v)' <=> v = w \/ Held(v)
  BY <1>1 DEF IInv, TypeOK, Held
<1>5. AbsOwner' = [AbsOwner EXCEPT ![job[w]] = {w}]
  <2>1. ASSUME NEW id \in Ids
        PROVE  {v \in Workers : Held(v)' /\ job[v] = id}
                 = IF id = job[w] THEN {w} ELSE {v \in Workers : Held(v) /\ job[v] = id}
    <3>1. CASE id = job[w]
      BY <1>3, <1>4, <3>1
    <3>2. CASE id # job[w]
      BY <1>4, <3>2
    <3>3. QED
      BY <3>1, <3>2
  <2>2. QED
    BY <1>1, <2>1 DEF AbsOwner
<1>6. AbsCapped' = AbsCapped
  BY <1>1 DEF IInv, TypeOK, AbsCapped, Kind
<1>7. AbsTries' = AbsTries
  BY <1>1, <1>6 DEF AbsTries
<1>8. QED
  BY <1>1, <1>2, <1>5, <1>6, <1>7 DEF Abs!Claim

LEMMA DequeueErrorMaps ==
  ASSUME IInv, NEW w \in Workers, DequeueError(w)
  PROVE  /\ job[w] \in Ids
         /\ Abs!LostClaim(job[w]) \/ UNCHANGED Abs!vars
<1>1. /\ job[w] \in Ids /\ status[job[w]] = "pending" /\ pc[w] = "locked" /\ Drop(w)
      /\ UNCHANGED <<req, attempts>>
  BY DEF IInv, DequeueError, WorkerInv, Busy
<1>2. Dropped(w)
  BY <1>1, DropFacts DEF IInv
<1>3. \A v \in Workers : (Held(v)' <=> Held(v)) /\ (Held(v) => job'[v] = job[v])
  BY <1>1, <1>2 DEF Dropped, Held
<1>4. CASE UNCHANGED status
  BY <1>1, <1>3, <1>4, StutterStep
<1>5. CASE status' = [status EXCEPT ![job[w]] = "processing"]
  <2>1. AbsState[job[w]] = "waiting" /\ AbsState' = [AbsState EXCEPT ![job[w]] = "taken"]
    BY <1>1, <1>5 DEF IInv, TypeOK, AbsState, AbstractState
  <2>2. AbsOwner' = AbsOwner
    BY <1>3 DEF AbsOwner
  <2>3. AbsCapped' = AbsCapped
    BY <1>1, <1>5 DEF IInv, TypeOK, AbsCapped, Kind
  <2>4. AbsTries' = AbsTries
    BY <1>1, <2>3 DEF AbsTries
  <2>5. QED
    BY <1>1, <2>1, <2>2, <2>3, <2>4 DEF Abs!LostClaim
<1>6. QED
  BY <1>1, <1>4, <1>5 DEF DequeueError

LEMMA SettleMaps ==
  ASSUME IInv, NEW w \in Workers, Settle(w)
  PROVE  /\ job[w] \in Ids
         /\ Abs!Complete(w, job[w]) \/ Abs!GiveUp(w, job[w]) \/ Abs!Retry(w, job[w])
<1>1. /\ job[w] \in Ids /\ status[job[w]] = "processing" /\ Held(w) /\ Busy(w)
      /\ Settled(w) /\ Drop(w) /\ req' = req /\ attempts[job[w]] \in Nat
  BY SettleFacts DEF Held, Busy, IInv, TypeOK
<1>2. Dropped(w)
  BY <1>1, DropFacts DEF IInv
<1>3. AbsOwner[job[w]] = {w} /\ AbsOwner' = [AbsOwner EXCEPT ![job[w]] = {}]
  <2>1. AbsOwner' = [id \in Ids |-> AbsOwner[id] \ {w}]
    BY <1>1, <1>2, OwnerAfterDrop
  <2>2. /\ AbsOwner[job[w]] = {w}
        /\ \A id \in Ids : AbsOwner[id] \ {w} = IF id = job[w] THEN {} ELSE AbsOwner[id]
    BY <1>1, SoleOwner
  <2>3. AbsOwner \in [Ids -> SUBSET Workers]
    BY AbsTyping
  <2>4. [AbsOwner EXCEPT ![job[w]] = {}] = [id \in Ids |-> AbsOwner[id] \ {w}]
    BY <2>2, <2>3
  <2>5. QED
    BY <2>1, <2>2, <2>4
<1>4. AbsState[job[w]] = "taken" /\ (job[w] \in AbsCapped <=> Kind(job[w]) = "deliver")
  BY <1>1 DEF AbsState, AbstractState, AbsCapped
<1>5. \A id \in Ids : id # job[w] => status'[id] = status[id]
  BY <1>1 DEF Settled, IInv, TypeOK
<1>6. status'[job[w]] # "absent"
  BY <1>1 DEF Settled, IInv, TypeOK
<1>7. AbsCapped' = AbsCapped
  BY <1>1, <1>5, <1>6 DEF AbsCapped, Kind
<1>8. CASE status'[job[w]] = "done"
  <2>1. AbsState' = [AbsState EXCEPT ![job[w]] = "done"]
    BY <1>1, <1>5, <1>8 DEF AbsState, AbstractState
  <2>2. attempts' = attempts
    BY <1>1, <1>8 DEF Settled, IInv, TypeOK
  <2>3. AbsTries' = AbsTries
    BY <1>7, <2>2 DEF AbsTries
  <2>4. QED
    BY <1>1, <1>3, <1>4, <1>7, <2>1, <2>3 DEF Abs!Complete, Abs!Settle
<1>9. CASE status'[job[w]] = "failed"
  <2>1. AbsState' = [AbsState EXCEPT ![job[w]] = "dead"]
    BY <1>1, <1>5, <1>9 DEF AbsState, AbstractState
  <2>2. attempts' = attempts /\ Kind(job[w]) = "deliver"
    BY <1>1, <1>9 DEF Settled, IInv, TypeOK
  <2>3. AbsTries' = AbsTries
    BY <1>7, <2>2 DEF AbsTries
  <2>4. QED
    BY <1>1, <1>3, <1>4, <1>7, <2>1, <2>2, <2>3 DEF Abs!GiveUp, Abs!Settle
<1>10. CASE status'[job[w]] = "pending"
  <2>1. AbsState' = [AbsState EXCEPT ![job[w]] = "waiting"]
    BY <1>1, <1>5, <1>10 DEF AbsState, AbstractState
  <2>2. /\ attempts' = [attempts EXCEPT ![job[w]] = @ + 1]
        /\ Kind(job[w]) = "deliver" => attempts[job[w]] + 1 < MaxAttempts
    BY <1>1, <1>10 DEF Settled, IInv, TypeOK
  <2>3. Abs!Settle(w, job[w], "waiting")
    BY <1>1, <1>3, <1>4, <1>7, <2>1 DEF Abs!Settle
  <2>4. CASE Kind(job[w]) = "deliver"
    <3>1. AbsTries' = [AbsTries EXCEPT ![job[w]] = @ + 1] /\ AbsTries[job[w]] = attempts[job[w]]
      BY <1>1, <1>4, <1>7, <2>2, <2>4 DEF AbsTries, IInv, TypeOK
    <3>2. QED
      BY <1>1, <1>4, <2>2, <2>3, <2>4, <3>1 DEF Abs!Retry
  <2>5. CASE Kind(job[w]) # "deliver"
    <3>1. AbsTries' = AbsTries
      BY <1>1, <1>4, <1>7, <2>2, <2>5 DEF AbsTries, IInv, TypeOK
    <3>2. QED
      BY <1>1, <1>4, <2>3, <2>5, <3>1 DEF Abs!Retry
  <2>6. QED
    BY <2>4, <2>5
<1>11. status'[job[w]] \in {"done", "failed", "pending"}
  BY <1>1 DEF Settled, IInv, TypeOK
<1>12. QED
  BY <1>1, <1>8, <1>9, <1>10, <1>11

LEMMA SettleErrorMaps ==
  ASSUME IInv, NEW w \in Workers, SettleError(w)
  PROVE  Abs!Vanish({w})
<1>1. Drop(w) /\ Busy(w) /\ UNCHANGED <<status, req, attempts>>
  BY DEF SettleError, Busy, rowVars
<1>2. Dropped(w)
  BY <1>1, DropFacts DEF IInv
<1>3. AbsOwner' = [id \in Ids |-> AbsOwner[id] \ {w}]
  BY <1>1, <1>2, OwnerAfterDrop
<1>4. AbsState' = AbsState /\ AbsCapped' = AbsCapped /\ AbsTries' = AbsTries
  BY <1>1 DEF AbsState, AbstractState, AbsCapped, AbsTries, Kind
<1>5. QED
  BY <1>1, <1>3, <1>4 DEF Abs!Vanish

LEMMA CrashMaps ==
  ASSUME IInv, NEW p \in Procs, Crash(p)
  PROVE  Abs!Vanish({w \in Workers : ProcOf[w] = p})
<1>1. /\ UNCHANGED <<status, req, attempts>>
      /\ pc' = [w \in Workers |-> IF ProcOf[w] = p THEN "exited" ELSE pc[w]]
      /\ job' = [w \in Workers |-> IF ProcOf[w] = p THEN 0 ELSE job[w]]
  BY DEF Crash, rowVars
<1>2. AbsOwner' = [id \in Ids |-> AbsOwner[id] \ {w \in Workers : ProcOf[w] = p}]
  BY <1>1 DEF AbsOwner, Held
<1>3. AbsState' = AbsState /\ AbsCapped' = AbsCapped /\ AbsTries' = AbsTries
  BY <1>1 DEF AbsState, AbstractState, AbsCapped, AbsTries, Kind
<1>4. QED
  BY <1>1, <1>2, <1>3 DEF Abs!Vanish

LEMMA InitMaps == Init => Abs!Init
BY DEF Init, Abs!Init, AbsState, AbstractState, AbsOwner, AbsCapped, AbsTries, Held

LEMMA NextMaps == IInv /\ [Next]_vars => [Abs!Next]_(Abs!vars)
<1> SUFFICES ASSUME IInv, [Next]_vars PROVE Abs!Next \/ UNCHANGED Abs!vars
  OBVIOUS
<1>1. ASSUME NEW r \in Requests, Enqueue(r) PROVE Abs!Next
  <2>1. {nextId} \in SUBSET Ids /\ Inserted(r) \in SUBSET {nextId}
    BY <1>1, SubmitStep DEF Inserted
  <2>2. QED
    BY <1>1, <2>1, SubmitStep DEF Abs!Next
<1>2. ASSUME NEW w \in Workers, DequeueCommit(w) PROVE Abs!Next
  BY <1>2, ClaimStep DEF Abs!Next
<1>3. ASSUME NEW w \in Workers, DequeueError(w) PROVE Abs!Next \/ UNCHANGED Abs!vars
  BY <1>3, DequeueErrorMaps DEF Abs!Next
<1>4. ASSUME NEW w \in Workers, Settle(w) PROVE Abs!Next
  BY <1>4, SettleMaps DEF Abs!Next
<1>5. ASSUME NEW w \in Workers, SettleError(w) PROVE Abs!Next
  BY <1>5, SettleErrorMaps DEF Abs!Next
<1>6. ASSUME NEW p \in Procs, Crash(p) PROVE Abs!Next
  <2>1. {w \in Workers : ProcOf[w] = p} \in SUBSET Workers
    OBVIOUS
  <2>2. QED
    BY <1>6, <2>1, CrashMaps DEF Abs!Next
<1>7. ASSUME NEW w \in Workers, DequeueSelect(w) \/ ProcessLease(w) \/ Exit(w)
      PROVE  UNCHANGED Abs!vars
  <2>1. UNCHANGED <<status, req, attempts>>
    BY <1>7 DEF DequeueSelect, ProcessLease, Exit, rowVars
  <2>2. \A v \in Workers : (Held(v)' <=> Held(v)) /\ (Held(v) => job'[v] = job[v])
    BY <1>7 DEF IInv, TypeOK, DequeueSelect, ProcessLease, Exit, Held
  <2>3. QED
    BY <2>1, <2>2, StutterStep
<1>8. ASSUME NEW p \in Procs, Terminate(p) \/ Start(p) PROVE UNCHANGED Abs!vars
  <2>1. UNCHANGED <<status, req, attempts, job>>
    BY <1>8 DEF Terminate, Start, rowVars, workVars
  <2>2. \A v \in Workers : Held(v)' <=> Held(v)
    BY <1>8 DEF IInv, TypeOK, Terminate, Start, Held, workVars
  <2>3. QED
    BY <2>1, <2>2, StutterStep
<1>9. CASE Tick \/ UNCHANGED vars
  <2>1. UNCHANGED <<status, req, attempts, pc, job>>
    BY <1>9 DEF Tick, vars, rowVars, workVars
  <2>2. QED
    BY <2>1, StutterStep DEF Held
<1>10. QED
  BY <1>1, <1>2, <1>3, <1>4, <1>5, <1>6, <1>7, <1>8, <1>9 DEF Next, WorkerStep

\* The table, its transactions and the worker loops refine the abstract queue: what
\* JobQueue promises, and what it leaves open, holds of every instance.
THEOREM Refinement == Spec => Implements
<1>1. QED
  BY InitMaps, NextMaps, Inductive, PTL DEF Spec, Implements, Abs!Spec
===============================================================================
