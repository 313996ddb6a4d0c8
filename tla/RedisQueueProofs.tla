--------------------------- MODULE RedisQueueProofs ---------------------------
(***************************************************************************)
(* Proofs about RedisQueue, for all processes, workers and requests.       *)
(***************************************************************************)
EXTENDS RedisQueue, TLAPS

\* A job is in one place of the list, or in one pair of hands, or in neither.
OnePlace ==
  /\ \A i, j \in 1..Len(list) : list[i] = list[j] => i = j
  /\ \A i \in 1..Len(list) : list[i] \in pushed
  /\ \A w \in Workers : job[w] \subseteq pushed
  /\ \A w \in Workers : \A i \in 1..Len(list) : list[i] \notin job[w]
  /\ \A v, w \in Workers : v # w => job[v] \cap job[w] = {}

\* Nothing was run before it was taken.
Unrun ==
  /\ \A r \in Entries \ pushed : runs[r] = 0
  /\ \A i \in 1..Len(list) : runs[list[i]] = 0
  /\ \A w \in Workers : pc[w] = "leased" => \A r \in job[w] : runs[r] = 0

\* A call has as many members as replies of it were lost, and one.
OnePerReply == \A r \in pushed : r[2] <= 1 + faults

IInv == TypeOK /\ OnePlace /\ Unrun /\ OnePerReply /\ RunOncePerPush

\* Appending keeps the members and adds the new one at the end.
LEMMA AppendFacts ==
  ASSUME NEW s \in Seq(Entries), NEW r \in Entries
  PROVE  /\ Append(s, r) \in Seq(Entries)
         /\ Len(Append(s, r)) = Len(s) + 1
         /\ \A i \in 1..Len(s) : Append(s, r)[i] = s[i]
         /\ Append(s, r)[Len(s) + 1] = r
  OBVIOUS

\* The list without its tail is the list without its tail.
LEMMA RestFacts ==
  ASSUME list \in Seq(Entries), list # <<>>
  PROVE  /\ Rest \in Seq(Entries)
         /\ Len(list) \in Nat \ {0}
         /\ Len(Rest) = Len(list) - 1
         /\ \A i \in 1..Len(Rest) : Rest[i] = list[i]
         /\ Popped \in Entries
<1>1. Len(list) \in Nat \ {0}
  OBVIOUS
<1>2. Popped \in Entries
  BY <1>1 DEF Popped
<1>3. Rest = [i \in 1..(Len(list) - 1) |-> list[i]]
  BY <1>1 DEF Rest
<1>4. Len(list) - 1 \in Nat /\ \A i \in 1..(Len(list) - 1) : list[i] \in Entries
  BY <1>1
<1>5. Rest \in Seq(Entries) /\ Len(Rest) = Len(list) - 1
  BY <1>3, <1>4
<1>. QED
  BY <1>1, <1>2, <1>3, <1>5

\* Enqueue pushes the first member of a call, Resend one more for a lost reply.
LEMMA PushFacts ==
  ASSUME IInv, NEW q \in Requests, Enqueue(q) \/ Resend(q)
  PROVE  \E r \in Entries : /\ r \notin pushed /\ Push(r)
                            /\ faults' \in {faults, faults + 1}
                            /\ r[2] <= 1 + faults'
<1>1. faults \in Nat /\ \A r \in pushed : r[2] <= 1 + faults
  BY DEF IInv, TypeOK, OnePerReply
<1>2. CASE Enqueue(q)
  <2>1. <<q, 1>> \in Entries /\ <<q, 1>>[2] = 1 /\ 1 \in 1..Sends
    BY RedisAssumption DEF Entries
  <2>. QED
    BY <1>1, <1>2, <2>1 DEF Enqueue
<1>3. CASE Resend(q)
  <2>1. PICK n \in 2..Sends : <<q, n - 1>> \in pushed /\ <<q, n>> \notin pushed /\ Push(<<q, n>>)
    BY <1>3 DEF Resend
  <2>2. n \in Nat /\ n \in 1..Sends
    BY <2>1, RedisAssumption
  <2>3. <<q, n>> \in Entries /\ <<q, n>>[2] = n /\ <<q, n - 1>>[2] = n - 1
    BY <2>2 DEF Entries
  <2>4. n - 1 <= 1 + faults
    BY <1>1, <2>1, <2>3
  <2>5. faults' = faults + 1
    BY <1>3 DEF Resend, Fault
  <2>6. n <= 1 + faults'
    BY <1>1, <2>2, <2>4, <2>5
  <2>. QED
    BY <2>1, <2>3, <2>5, <2>6
<1>. QED
  BY <1>2, <1>3

\* IInv holds at the start.
LEMMA InitIInv == Init => IInv
  BY DEF Init, IInv, TypeOK, OnePlace, Unrun, OnePerReply, RunOncePerPush

\* A fault more makes no member one too many.
LEMMA MoreFaults ==
  ASSUME IInv, UNCHANGED <<pushed, runs>>, faults' \in {faults, faults + 1}
  PROVE  faults' \in Nat /\ OnePerReply' /\ RunOncePerPush'
<1>1. faults \in Nat /\ pushed \subseteq Entries /\ \A r \in Entries : r[2] \in Nat
  BY RedisAssumption DEF IInv, TypeOK, Entries
<1>2. faults' \in Nat /\ faults <= faults'
  BY <1>1
<1>3. OnePerReply'
  BY <1>1, <1>2 DEF IInv, OnePerReply
<1>4. RunOncePerPush'
  BY <1>1, <1>2 DEF IInv, RunOncePerPush
<1>. QED
  BY <1>2, <1>3, <1>4

\* Removing the tail keeps IInv, whoever gets it.
LEMMA PopIInv ==
  ASSUME IInv, NEW w \in Workers, pc[w] = "poll", list # <<>>, list' = Rest,
         UNCHANGED <<up, hist, stops>>, faults' \in {faults, faults + 1},
         \/ pc' = [pc EXCEPT ![w] = "leased"] /\ job' = [job EXCEPT ![w] = {Popped}]
         \/ UNCHANGED <<pc, job>>
  PROVE  IInv'
<1>1. /\ Rest \in Seq(Entries)
      /\ Len(list) \in Nat \ {0} /\ Len(Rest) = Len(list) - 1
      /\ \A i \in 1..Len(Rest) : Rest[i] = list[i]
      /\ Popped \in Entries /\ Popped = list[Len(list)]
  BY RestFacts DEF IInv, TypeOK, Popped
<1>2. /\ Len(list') = Len(list) - 1
      /\ \A i \in 1..Len(list') : i \in 1..Len(list) /\ list'[i] = list[i] /\ list'[i] # Popped
  BY <1>1 DEF IInv, OnePlace
<1>3. UNCHANGED <<pushed, runs, done>>
  BY DEF hist
<1>4. TypeOK'
  <2>1. pc' \in [Workers -> {"poll", "leased", "ok", "error", "exited"}]
    BY DEF IInv, TypeOK
  <2>2. job' \in [Workers -> SUBSET Entries]
    <3>1. job \in [Workers -> SUBSET Entries]
      BY DEF IInv, TypeOK
    <3>2. {Popped} \in SUBSET Entries
      BY <1>1
    <3>. QED
      BY <3>1, <3>2
  <2>3. list' \in Seq(Entries)
    BY <1>1
  <2>4. UNCHANGED <<up, pushed, runs, done, stops>>
    BY <1>3
  <2>5. faults' \in Nat
    BY <1>3, MoreFaults
  <2>. QED
    BY <2>1, <2>2, <2>3, <2>4, <2>5 DEF IInv, TypeOK
<1>5. \A v \in Workers : job'[v] = job[v] \/ (v = w /\ job'[v] = {Popped})
  BY DEF IInv, TypeOK
<1>6. Popped \in pushed /\ runs[Popped] = 0 /\ \A v \in Workers : Popped \notin job[v]
  <2>1. Len(list) \in 1..Len(list)
    BY <1>1
  <2>2. list[Len(list)] \in pushed /\ \A v \in Workers : list[Len(list)] \notin job[v]
    BY <2>1 DEF IInv, OnePlace
  <2>3. runs[list[Len(list)]] = 0
    BY <2>1 DEF IInv, Unrun
  <2>. QED
    BY <2>2, <2>3 DEF Popped
<1>7. OnePlace'
  <2>1. \A i, j \in 1..Len(list') : list'[i] = list'[j] => i = j
    BY <1>2 DEF IInv, OnePlace
  <2>2. \A i \in 1..Len(list') : list'[i] \in pushed'
    BY <1>2, <1>3 DEF IInv, OnePlace
  <2>3. \A v \in Workers : job'[v] \subseteq pushed'
    BY <1>3, <1>5, <1>6 DEF IInv, OnePlace
  <2>4. \A v \in Workers : \A i \in 1..Len(list') : list'[i] \notin job'[v]
    BY <1>2, <1>5 DEF IInv, OnePlace
  <2>5. \A u, v \in Workers : u # v => job'[u] \cap job'[v] = {}
    BY <1>5, <1>6 DEF IInv, OnePlace
  <2>. QED
    BY <2>1, <2>2, <2>3, <2>4, <2>5 DEF OnePlace
<1>8. \A v \in Workers : pc'[v] = "leased" => (pc[v] = "leased" /\ job'[v] = job[v]) \/ job'[v] = {Popped}
  BY DEF IInv, TypeOK
<1>9. Unrun'
  BY <1>2, <1>3, <1>6, <1>8 DEF IInv, Unrun
<1>10. OnePerReply' /\ RunOncePerPush'
  BY <1>3, MoreFaults
<1>. QED
  BY <1>4, <1>7, <1>9, <1>10 DEF IInv

\* Steps that only drop leases, or lead to no new one, keep IInv.
LEMMA LetGoIInv ==
  ASSUME IInv, UNCHANGED <<list, pushed, runs>>, done' \subseteq pushed,
         up' \in [Procs -> BOOLEAN], faults' \in {faults, faults + 1}, stops' \in Nat,
         pc' \in [Workers -> {"poll", "leased", "ok", "error", "exited"}],
         job' \in [Workers -> SUBSET Entries],
         \A v \in Workers : job'[v] \subseteq job[v] /\ (pc'[v] = "leased" => pc[v] = "leased")
  PROVE  IInv'
<1>1. TypeOK'
  BY MoreFaults DEF IInv, TypeOK
<1>2. OnePlace'
  BY DEF IInv, OnePlace
<1>3. Unrun' /\ OnePerReply' /\ RunOncePerPush'
  BY MoreFaults DEF IInv, Unrun
<1>. QED
  BY <1>1, <1>2, <1>3 DEF IInv

\* Every step keeps IInv.
LEMMA NextIInv == IInv /\ [Next]_vars => IInv'
<1>. SUFFICES ASSUME IInv, [Next]_vars PROVE IInv'
  OBVIOUS
<1>1. ASSUME NEW q \in Requests, Enqueue(q) \/ Resend(q) PROVE IInv'
  <2>1. PICK r \in Entries : /\ r \notin pushed /\ Push(r)
                             /\ faults' \in {faults, faults + 1}
                             /\ r[2] <= 1 + faults'
    BY <1>1, PushFacts
  <2>2. /\ list' = Append(list, r) /\ pushed' = pushed \cup {r}
        /\ UNCHANGED <<pc, job, up, runs, done, stops>>
    BY <2>1 DEF Push, work
  <2>3. /\ list' \in Seq(Entries) /\ Len(list) \in Nat /\ Len(list') = Len(list) + 1
        /\ \A i \in 1..Len(list) : list'[i] = list[i]
        /\ list'[Len(list) + 1] = r
    BY <2>2, AppendFacts DEF IInv, TypeOK
  <2>4. \A i \in 1..Len(list') : (i \in 1..Len(list) /\ list'[i] = list[i]) \/ (i = Len(list) + 1 /\ list'[i] = r)
    BY <2>3
  <2>5. TypeOK'
    <3>1. faults' \in Nat
      BY <2>1 DEF IInv, TypeOK
    <3>. QED
      BY <2>2, <2>3, <3>1 DEF IInv, TypeOK
  <2>6. OnePlace'
    BY <2>1, <2>2, <2>4 DEF IInv, OnePlace
  <2>7. Unrun'
    BY <2>1, <2>2, <2>4 DEF IInv, Unrun
  <2>8. \A k \in Entries : k[2] \in Nat /\ (k[2] <= 1 + faults => k[2] <= 1 + faults')
    BY <2>1, RedisAssumption DEF IInv, TypeOK, Entries
  <2>9. OnePerReply' /\ RunOncePerPush'
    BY <2>1, <2>2, <2>8 DEF IInv, TypeOK, OnePerReply, RunOncePerPush
  <2>. QED
    BY <2>5, <2>6, <2>7, <2>9 DEF IInv
<1>2. ASSUME NEW w \in Workers, Dequeue(w) PROVE IInv'
  BY <1>2, PopIInv DEF Dequeue, Goto, IInv, TypeOK
<1>3. ASSUME NEW w \in Workers, DequeueUnseen(w) PROVE IInv'
  <2>1. faults' \in {faults, faults + 1}
    BY <1>3 DEF DequeueUnseen, Fault
  <2>. QED
    BY <1>3, <2>1, PopIInv DEF DequeueUnseen, work
<1>4. ASSUME NEW w \in Workers, ProcessLease(w) PROVE IInv'
  <2>1. /\ pc[w] = "leased"
        /\ UNCHANGED <<list, job, up, pushed, done, faults, stops>>
        /\ runs' = [r \in Entries |-> IF r \in job[w] THEN runs[r] + 1 ELSE runs[r]]
        /\ \E outcome \in {"ok", "error"} : pc' = [pc EXCEPT ![w] = outcome]
    BY <1>4 DEF ProcessLease, Goto
  <2>2. \A r \in Entries : runs'[r] = IF r \in job[w] THEN 1 ELSE runs[r]
    BY <2>1 DEF IInv, TypeOK, Unrun
  <2>3. TypeOK'
    BY <2>1 DEF IInv, TypeOK
  <2>4. OnePlace'
    BY <2>1 DEF IInv, OnePlace
  <2>5. Unrun'
    <3>1. \A r \in Entries \ pushed' : runs'[r] = 0
      BY <2>1, <2>2 DEF IInv, OnePlace, Unrun
    <3>2. \A i \in 1..Len(list') : runs'[list'[i]] = 0
      BY <2>1, <2>2 DEF IInv, TypeOK, OnePlace, Unrun
    <3>3. \A v \in Workers : pc'[v] = "leased" => v # w /\ pc[v] = "leased"
      BY <2>1 DEF IInv, TypeOK
    <3>4. \A v \in Workers : pc'[v] = "leased" => \A r \in job'[v] : runs'[r] = 0
      BY <2>1, <2>2, <3>3 DEF IInv, TypeOK, OnePlace, Unrun
    <3>. QED
      BY <3>1, <3>2, <3>4 DEF Unrun
  <2>6. OnePerReply' /\ RunOncePerPush'
    <3>1. job[w] \subseteq pushed
      BY DEF IInv, OnePlace
    <3>2. OnePerReply'
      BY <2>1 DEF IInv, OnePerReply
    <3>3. RunOncePerPush'
      BY <2>1, <2>2, <3>1 DEF IInv, OnePerReply, RunOncePerPush
    <3>. QED
      BY <3>2, <3>3
  <2>. QED
    BY <2>3, <2>4, <2>5, <2>6 DEF IInv
<1>5. ASSUME NEW w \in Workers, Settle(w) PROVE IInv'
  <2>1. done' \subseteq pushed
    BY <1>5 DEF Settle, IInv, TypeOK, OnePlace
  <2>. QED
    BY <1>5, <2>1, LetGoIInv DEF Settle, Goto, IInv, TypeOK
<1>6. ASSUME NEW w \in Workers, Exit(w) PROVE IInv'
  BY <1>6, LetGoIInv DEF Exit, Goto, IInv, TypeOK, hist
<1>7. ASSUME NEW p \in Procs, Terminate(p) PROVE IInv'
  BY <1>7, LetGoIInv DEF Terminate, IInv, TypeOK, hist, work
<1>8. ASSUME NEW p \in Procs, Crash(p) PROVE IInv'
  BY <1>8, LetGoIInv DEF Crash, Fault, IInv, TypeOK, hist
<1>9. ASSUME NEW p \in Procs, Start(p) PROVE IInv'
  BY <1>9, LetGoIInv DEF Start, IInv, TypeOK, hist
<1>10. ASSUME UNCHANGED vars PROVE IInv'
  BY <1>10, LetGoIInv DEF vars, work, hist, IInv, TypeOK
<1>. QED
  BY <1>1, <1>2, <1>3, <1>4, <1>5, <1>6, <1>7, <1>8, <1>9, <1>10 DEF Next, WorkerStep

\* The inductive invariant holds in every reachable state.
THEOREM Inductive == Spec => []IInv
  BY InitIInv, NextIInv, PTL DEF Spec

\* The types of the list and of the worker loops.
THEOREM TypeCorrect == Spec => []TypeOK
<1>1. IInv => TypeOK
  BY DEF IInv
<1>. QED
  BY <1>1, Inductive, PTL

\* At most once a push: a member that BRPOP removed is in nobody else's hands, and
\* neither Nack nor a restart brings it back; a call pushed no more of them than one
\* and one for each reply that was lost.
THEOREM AtMostOncePerPush == Spec => []RunOncePerPush
<1>1. IInv => RunOncePerPush
  BY DEF IInv
<1>. QED
  BY <1>1, Inductive, PTL

-------------------------------------------------------------------------------
(***************************************************************************)
(* Where a job is from its push to its end.                                *)
(***************************************************************************)
\* A worker has one job while it is in its handler, and none otherwise.
Hands ==
  \A w \in Workers : IF pc[w] \in {"poll", "exited"} THEN job[w] = {}
                     ELSE \E r \in Entries : job[w] = {r}

\* An acknowledged job is in nobody's hands, and off the list.
Ended ==
  \A r \in done : /\ \A i \in 1..Len(list) : list[i] # r
                  /\ \A w \in Workers : r \notin job[w]

\* A handler that has ended did run; while nothing fails or stops, every process is up and
\* what was pushed is listed, held or run.
Unlost ==
  /\ \A w \in Workers : pc[w] \in {"ok", "error"} => \A r \in job[w] : runs[r] = 1
  /\ faults = 0 /\ stops = 0 =>
       /\ \A p \in Procs : up[p]
       /\ \A r \in pushed :
            \/ \E i \in 1..Len(list) : list[i] = r
            \/ \E w \in Workers : r \in job[w]
            \/ runs[r] = 1

Fate == Hands /\ Ended /\ Unlost

\* What a pop takes is the tail: the rest is as before.
LEMMA PopFacts ==
  ASSUME IInv, list # <<>>, list' = Rest
  PROVE  /\ Popped \in Entries
         /\ \A i \in 1..Len(list') : i \in 1..Len(list) /\ list'[i] = list[i] /\ list'[i] # Popped
         /\ \A i \in 1..Len(list) : i \in 1..Len(list') \/ list[i] = Popped
         /\ \E i \in 1..Len(list) : list[i] = Popped
         /\ \A i \in 1..Len(list) : list[i] # Popped => i \in 1..Len(list') /\ list'[i] = list[i]
<1>1. /\ Len(list) \in Nat \ {0} /\ Len(list') = Len(list) - 1
      /\ \A i \in 1..Len(list') : list'[i] = list[i]
      /\ Popped \in Entries /\ Popped = list[Len(list)]
  BY RestFacts DEF IInv, TypeOK, Popped
<1>. QED
  BY <1>1 DEF IInv, OnePlace

\* Fate holds at the start.
LEMMA InitFate == Init => Fate
  BY DEF Init, Fate, Hands, Ended, Unlost

\* Every step keeps Fate.
LEMMA NextFate == IInv /\ Fate /\ [Next]_vars => Fate'
<1>. SUFFICES ASSUME IInv, Fate, [Next]_vars PROVE Fate'
  OBVIOUS
<1>. USE RedisAssumption
<1>1. ASSUME NEW q \in Requests, Enqueue(q) \/ Resend(q) PROVE Fate'
  <2>0. PICK r \in Entries : r \notin pushed /\ Push(r) /\ faults' \in {faults, faults + 1}
    BY <1>1, PushFacts
  <2>1. /\ list' = Append(list, r) /\ r \notin pushed /\ pushed' = pushed \cup {r}
        /\ UNCHANGED <<pc, job, up, runs, done, stops>>
        /\ faults' = 0 => faults = 0
    BY <2>0 DEF Push, work, IInv, TypeOK
  <2>2. /\ Len(list) \in Nat /\ Len(list') = Len(list) + 1
        /\ \A i \in 1..Len(list) : list'[i] = list[i]
        /\ list'[Len(list) + 1] = r
    BY <2>1, AppendFacts DEF IInv, TypeOK
  <2>3. /\ \A i \in 1..Len(list) : i \in 1..Len(list')
        /\ Len(list) + 1 \in 1..Len(list')
        /\ \A i \in 1..Len(list') : (i \in 1..Len(list) /\ list'[i] = list[i]) \/ list'[i] = r
    BY <2>2
  <2>4. Hands'
    BY <2>1 DEF Fate, Hands
  <2>5. Ended'
    BY <2>1, <2>3 DEF Fate, Ended, IInv, TypeOK
  <2>6. Unlost'
    BY <2>1, <2>2, <2>3 DEF Fate, Unlost
  <2>. QED
    BY <2>4, <2>5, <2>6 DEF Fate
<1>2. ASSUME NEW w \in Workers, Dequeue(w) PROVE Fate'
  <2>1. /\ pc[w] = "poll" /\ list # <<>> /\ list' = Rest
        /\ pc' = [pc EXCEPT ![w] = "leased"] /\ job' = [job EXCEPT ![w] = {Popped}]
        /\ UNCHANGED <<up, pushed, runs, done, faults, stops>>
    BY <1>2 DEF Dequeue, Goto, hist
  <2>2. /\ job'[w] = {Popped} /\ job[w] = {} /\ pc'[w] = "leased"
        /\ \A v \in Workers \ {w} : job'[v] = job[v] /\ pc'[v] = pc[v]
    BY <2>1 DEF IInv, TypeOK, Fate, Hands
  <2>3. Hands'
    BY <2>1, <2>2, PopFacts DEF Fate, Hands
  <2>4. Ended'
    BY <2>1, <2>2, PopFacts DEF Fate, Ended
  <2>5. Unlost'
    <3>1. \A v \in Workers : pc'[v] \in {"ok", "error"} => \A r \in job'[v] : runs'[r] = 1
      BY <2>1, <2>2 DEF Fate, Unlost
    <3>2. ASSUME NEW r \in pushed, NEW i \in 1..Len(list), list[i] = r
          PROVE  (\E k \in 1..Len(list') : list'[k] = r) \/ r \in job'[w]
      BY <2>1, <2>2, <3>2, PopFacts
    <3>3. ASSUME NEW r \in pushed, NEW v \in Workers, r \in job[v]
          PROVE  r \in job'[v]
      BY <2>2, <3>3
    <3>4. ASSUME NEW r \in pushed, faults = 0, stops = 0
          PROVE  \/ \E i \in 1..Len(list') : list'[i] = r
                 \/ \E v \in Workers : r \in job'[v]
                 \/ runs[r] = 1
      <4>1. \/ \E i \in 1..Len(list) : list[i] = r
            \/ \E v \in Workers : r \in job[v]
            \/ runs[r] = 1
        BY <3>4 DEF Fate, Unlost
      <4>. QED
        BY <3>2, <3>3, <4>1
    <3>5. faults = 0 /\ stops = 0 => \A p \in Procs : up[p]
      BY DEF Fate, Unlost
    <3>. QED
      <4>1. faults' = 0 /\ stops' = 0 => \A p \in Procs : up'[p]
        BY <2>1, <3>5
      <4>2. ASSUME faults' = 0, stops' = 0, NEW r \in pushed'
            PROVE  \/ \E i \in 1..Len(list') : list'[i] = r
                   \/ \E v \in Workers : r \in job'[v]
                   \/ runs'[r] = 1
        BY <2>1, <3>4, <4>2
      <4>. QED
        BY <3>1, <4>1, <4>2 DEF Unlost
  <2>. QED
    BY <2>3, <2>4, <2>5 DEF Fate
<1>3. ASSUME NEW w \in Workers, DequeueUnseen(w) PROVE Fate'
  <2>1. /\ list # <<>> /\ list' = Rest /\ UNCHANGED <<pc, job, up, pushed, runs, done, stops>>
        /\ (up[ProcOf[w]] /\ faults' = faults + 1) \/ (~up[ProcOf[w]] /\ faults' = faults)
    BY <1>3 DEF DequeueUnseen, Fault, Running, hist, work
  <2>2. faults' # 0 \/ stops' # 0
    BY <2>1 DEF IInv, TypeOK, Fate, Unlost
  <2>3. Hands' /\ Ended' /\ Unlost'
    BY <2>1, <2>2, PopFacts DEF Fate, Hands, Ended, Unlost
  <2>. QED
    BY <2>3 DEF Fate
<1>4. ASSUME NEW w \in Workers, ProcessLease(w) PROVE Fate'
  <2>1. /\ pc[w] = "leased"
        /\ UNCHANGED <<list, job, up, pushed, done, faults, stops>>
        /\ runs' = [r \in Entries |-> IF r \in job[w] THEN runs[r] + 1 ELSE runs[r]]
        /\ \E outcome \in {"ok", "error"} : pc' = [pc EXCEPT ![w] = outcome]
    BY <1>4 DEF ProcessLease, Goto
  <2>2. \A r \in Entries : runs'[r] = IF r \in job[w] THEN 1 ELSE runs[r]
    BY <2>1 DEF IInv, TypeOK, Unrun
  <2>3. pc'[w] \in {"ok", "error"} /\ \A v \in Workers \ {w} : pc'[v] = pc[v]
    BY <2>1 DEF IInv, TypeOK
  <2>4. \A v \in Workers : job[v] \in SUBSET Entries
    BY DEF IInv, TypeOK
  <2>5. Hands' /\ Ended'
    BY <2>1, <2>3 DEF Fate, Hands, Ended
  <2>6. \A v \in Workers : pc'[v] \in {"ok", "error"} => \A r \in job'[v] : runs'[r] = 1
    BY <2>1, <2>2, <2>3, <2>4 DEF Fate, Unlost
  <2>7. Unlost'
    BY <2>1, <2>2, <2>6 DEF Fate, Unlost, IInv, TypeOK
  <2>. QED
    BY <2>5, <2>7 DEF Fate
<1>5. ASSUME NEW w \in Workers, Settle(w) PROVE Fate'
  <2>1. /\ pc[w] \in {"ok", "error"} /\ done' \subseteq done \cup job[w]
        /\ pc' = [pc EXCEPT ![w] = "poll"] /\ job' = [job EXCEPT ![w] = {}]
        /\ UNCHANGED <<list, up, pushed, runs, faults, stops>>
    BY <1>5 DEF Settle, Goto
  <2>2. /\ job'[w] = {} /\ pc'[w] = "poll"
        /\ \A v \in Workers \ {w} : job'[v] = job[v] /\ pc'[v] = pc[v]
    BY <2>1 DEF IInv, TypeOK
  <2>3. Hands'
    BY <2>2 DEF Fate, Hands
  <2>4. Ended'
    BY <2>1, <2>2 DEF Fate, Ended, IInv, OnePlace
  <2>5. Unlost'
    BY <2>1, <2>2 DEF Fate, Unlost
  <2>. QED
    BY <2>3, <2>4, <2>5 DEF Fate
<1>6. ASSUME NEW w \in Workers, Exit(w) PROVE Fate'
  BY <1>6 DEF Exit, Goto, hist, IInv, TypeOK, Fate, Hands, Ended, Unlost
<1>7. ASSUME NEW p \in Procs, Terminate(p) PROVE Fate'
  BY <1>7 DEF Terminate, hist, work, IInv, TypeOK, Fate, Hands, Ended, Unlost
<1>8. ASSUME NEW p \in Procs, Crash(p) PROVE Fate'
  <2>1. /\ pc' = [w \in Workers |-> IF ProcOf[w] = p THEN "exited" ELSE pc[w]]
        /\ job' = [w \in Workers |-> IF ProcOf[w] = p THEN {} ELSE job[w]]
        /\ faults' = faults + 1 /\ UNCHANGED <<list, pushed, runs, done, stops>>
    BY <1>8 DEF Crash, Fault, hist
  <2>2. Hands' /\ Ended'
    BY <2>1 DEF Fate, Hands, Ended
  <2>3. Unlost'
    BY <2>1 DEF Fate, Unlost, IInv, TypeOK
  <2>. QED
    BY <2>2, <2>3 DEF Fate
<1>9. ASSUME NEW p \in Procs, Start(p) PROVE Fate'
  <2>1. /\ up' = [up EXCEPT ![p] = TRUE]
        /\ pc' = [w \in Workers |-> IF ProcOf[w] = p THEN "poll" ELSE pc[w]]
        /\ \A w \in Workers : ProcOf[w] = p => pc[w] = "exited"
        /\ UNCHANGED <<list, job, pushed, runs, done, faults, stops>>
    BY <1>9 DEF Start, hist
  <2>. QED
    BY <2>1 DEF IInv, TypeOK, Fate, Hands, Ended, Unlost
<1>10. ASSUME UNCHANGED vars PROVE Fate'
  BY <1>10 DEF vars, work, hist, Fate, Hands, Ended, Unlost
<1>. QED
  BY <1>1, <1>2, <1>3, <1>4, <1>5, <1>6, <1>7, <1>8, <1>9, <1>10 DEF Next, WorkerStep

\* The fate of every job in every reachable state.
THEOREM FateKnown == Spec => [](IInv /\ Fate)
  BY InitIInv, NextIInv, InitFate, NextFate, PTL DEF Spec

\* A job that is neither waiting nor run is lost by a crash, a lost reply of Redis or a
\* shutdown, never by a worker that goes on.
THEOREM LostByFault == Spec => []LostOnlyByFault
<1>1. IInv /\ Fate => LostOnlyByFault
  BY DEF IInv, TypeOK, Fate, Unlost, LostOnlyByFault, Listed, Held
<1>. QED
  BY <1>1, FateKnown, PTL

-------------------------------------------------------------------------------
(***************************************************************************)
(* The list and its workers implement the abstract queue.                  *)
(***************************************************************************)
AbsOwner == [r \in Entries |-> {w \in Workers : r \in job[w]}]

\* The cases of AbsState exclude each other.
LEMMA Disjoint ==
  ASSUME IInv, Fate
  PROVE  Listed \subseteq pushed /\ done \subseteq pushed /\ Listed \cap done = {}
<1>1. DOMAIN list = 1..Len(list)
  BY DEF IInv, TypeOK
<1>. QED
  BY <1>1 DEF IInv, TypeOK, OnePlace, Fate, Ended, Listed

\* Steps that move no job are stutters.
LEMMA StutterStep ==
  ASSUME UNCHANGED <<list, job, pushed, done>>
  PROVE  UNCHANGED Abs!vars
  BY DEF Abs!vars, AbsState, Listed

\* A push submits a job.
LEMMA SubmitMaps ==
  ASSUME IInv, Fate, NEW r \in Entries, r \notin pushed, Push(r)
  PROVE  Abs!Submit({r}, {})
<1>1. /\ list' = Append(list, r) /\ r \notin pushed /\ pushed' = pushed \cup {r}
      /\ UNCHANGED <<job, done>>
  BY DEF Push, work
<1>2. /\ Len(list) \in Nat /\ Len(list') = Len(list) + 1
      /\ \A i \in 1..Len(list) : list'[i] = list[i]
      /\ list'[Len(list) + 1] = r
      /\ DOMAIN list = 1..Len(list) /\ DOMAIN list' = 1..Len(list')
  BY <1>1, AppendFacts DEF IInv, TypeOK
<1>3. Listed' = Listed \cup {r}
  BY <1>2 DEF Listed
<1>4. AbsState[r] = "none"
  BY <1>1, Disjoint DEF AbsState
<1>5. AbsState' = [j \in Entries |-> IF j \in {r} THEN "waiting" ELSE AbsState[j]]
  <2>1. \A j \in Entries : AbsState'[j] = IF j = r THEN "waiting" ELSE AbsState[j]
    BY <1>1, <1>3, Disjoint DEF AbsState
  <2>. QED
    BY <2>1 DEF AbsState
<1>. QED
  BY <1>1, <1>4, <1>5 DEF Abs!Submit

\* What the abstract state becomes when the tail is popped.
LEMMA PopMaps ==
  ASSUME IInv, Fate, list # <<>>, list' = Rest, UNCHANGED <<pushed, done>>
  PROVE  /\ Popped \in Entries
         /\ AbsState[Popped] = "waiting"
         /\ AbsState' = [AbsState EXCEPT ![Popped] = "taken"]
         /\ \A w \in Workers : Popped \notin job[w]
<1>1. PICK i \in 1..Len(list) : list[i] = Popped
  BY PopFacts
<1>2. DOMAIN list = 1..Len(list) /\ DOMAIN list' = 1..Len(list')
  BY RestFacts DEF IInv, TypeOK
<1>3. Listed' = Listed \ {Popped} /\ Popped \in Listed
  BY <1>1, <1>2, PopFacts DEF Listed
<1>4. Popped \in Entries /\ Popped \in pushed /\ Popped \notin done
  BY <1>1, PopFacts DEF IInv, OnePlace, Fate, Ended
<1>5. AbsState[Popped] = "waiting"
  BY <1>3, <1>4 DEF AbsState
<1>6. \A r \in Entries : AbsState'[r] = IF r = Popped THEN "taken" ELSE AbsState[r]
  BY <1>3, <1>4 DEF AbsState
<1>7. AbsState' = [AbsState EXCEPT ![Popped] = "taken"]
  BY <1>6 DEF AbsState
<1>. QED
  BY <1>1, <1>4, <1>5, <1>7 DEF IInv, OnePlace

\* A pop that is seen is a claim.
LEMMA ClaimMaps ==
  ASSUME IInv, Fate, NEW w \in Workers, Dequeue(w)
  PROVE  Popped \in Entries /\ Abs!Claim(w, Popped)
<1>1. /\ pc[w] = "poll" /\ list # <<>> /\ list' = Rest
      /\ job' = [job EXCEPT ![w] = {Popped}]
      /\ UNCHANGED <<pushed, done>>
  BY DEF Dequeue, hist
<1>2. job[w] = {} /\ job'[w] = {Popped} /\ \A v \in Workers \ {w} : job'[v] = job[v]
  BY <1>1 DEF IInv, TypeOK, Fate, Hands
<1>3. /\ Popped \in Entries /\ AbsState[Popped] = "waiting"
      /\ AbsState' = [AbsState EXCEPT ![Popped] = "taken"]
      /\ \A v \in Workers : Popped \notin job[v]
  BY <1>1, PopMaps
<1>4. \A r \in Entries : AbsOwner'[r] = IF r = Popped THEN {w} ELSE AbsOwner[r]
  BY <1>2, <1>3 DEF AbsOwner
<1>5. AbsOwner' = [AbsOwner EXCEPT ![Popped] = {w}]
  BY <1>4 DEF AbsOwner
<1>. QED
  BY <1>3, <1>5 DEF Abs!Claim, AbsOwner

\* A pop whose reply is lost is a claim nobody knows of.
LEMMA LostMaps ==
  ASSUME IInv, Fate, NEW w \in Workers, DequeueUnseen(w)
  PROVE  Popped \in Entries /\ Abs!LostClaim(Popped)
<1>1. list # <<>> /\ list' = Rest /\ UNCHANGED <<pushed, done, job>>
  BY DEF DequeueUnseen, hist, work
<1>2. /\ Popped \in Entries /\ AbsState[Popped] = "waiting"
      /\ AbsState' = [AbsState EXCEPT ![Popped] = "taken"]
  BY <1>1, PopMaps
<1>. QED
  BY <1>1, <1>2 DEF Abs!LostClaim

\* A handler that succeeded completes its job; after an error the job keeps its state
\* and loses its owner.
LEMMA SettleMaps ==
  ASSUME IInv, Fate, NEW w \in Workers, Settle(w)
  PROVE  (\E r \in Entries : Abs!Complete(w, r)) \/ Abs!Vanish({w})
<1>1. /\ pc[w] \in {"ok", "error"} /\ job' = [job EXCEPT ![w] = {}]
      /\ done' = IF pc[w] = "ok" THEN done \cup job[w] ELSE done
      /\ UNCHANGED <<list, pushed>>
  BY DEF Settle
<1>2. PICK r \in Entries : job[w] = {r}
  BY <1>1 DEF Fate, Hands
<1>3. /\ job'[w] = {} /\ \A v \in Workers \ {w} : job'[v] = job[v] /\ r \notin job[v]
  BY <1>1, <1>2 DEF IInv, TypeOK, OnePlace
<1>4. DOMAIN list = 1..Len(list) /\ r \notin Listed /\ r \in pushed
  <2>1. DOMAIN list = 1..Len(list)
    BY DEF IInv, TypeOK
  <2>. QED
    BY <1>2, <2>1 DEF IInv, OnePlace, Listed
<1>5. r \notin done
  BY <1>2 DEF Fate, Ended
<1>6. AbsState[r] = "taken" /\ AbsOwner[r] = {w}
  BY <1>2, <1>3, <1>4, <1>5 DEF AbsState, AbsOwner
<1>7. \A q \in Entries : AbsOwner'[q] = AbsOwner[q] \ {w}
  BY <1>2, <1>3 DEF AbsOwner
<1>8. CASE pc[w] = "ok"
  <2>1. AbsOwner' = [AbsOwner EXCEPT ![r] = {}]
    <3>1. \A q \in Entries : AbsOwner'[q] = IF q = r THEN {} ELSE AbsOwner[q]
      BY <1>2, <1>3 DEF AbsOwner
    <3>. QED
      BY <3>1 DEF AbsOwner
  <2>2. AbsState' = [AbsState EXCEPT ![r] = "done"]
    <3>1. \A q \in Entries : AbsState'[q] = IF q = r THEN "done" ELSE AbsState[q]
      BY <1>1, <1>2, <1>4, <1>8 DEF AbsState, Listed
    <3>. QED
      BY <3>1 DEF AbsState
  <2>. QED
    BY <1>6, <2>1, <2>2 DEF Abs!Complete, Abs!Settle, AbsOwner
<1>9. CASE pc[w] = "error"
  <2>1. AbsState' = AbsState
    BY <1>1, <1>9 DEF AbsState, Listed
  <2>2. AbsOwner' = [q \in Entries |-> AbsOwner[q] \ {w}]
    BY <1>7 DEF AbsOwner
  <2>. QED
    BY <2>1, <2>2 DEF Abs!Vanish, AbsOwner
<1>. QED
  BY <1>1, <1>8, <1>9

\* A crash takes the workers of a process.
LEMMA CrashMaps ==
  ASSUME NEW p \in Procs, Crash(p)
  PROVE  Abs!Vanish({w \in Workers : ProcOf[w] = p})
<1>1. /\ job' = [w \in Workers |-> IF ProcOf[w] = p THEN {} ELSE job[w]]
      /\ UNCHANGED <<list, pushed, done>>
  BY DEF Crash, hist
<1>2. AbsOwner' = [r \in Entries |-> AbsOwner[r] \ {w \in Workers : ProcOf[w] = p}]
  BY <1>1 DEF AbsOwner
<1>3. AbsState' = AbsState
  BY <1>1 DEF AbsState, Listed
<1>. QED
  BY <1>2, <1>3 DEF Abs!Vanish, AbsOwner

LEMMA InitMaps == Init => Abs!Init
  BY DEF Init, Abs!Init, AbsState, Listed

LEMMA NextMaps == IInv /\ Fate /\ [Next]_vars => [Abs!Next]_(Abs!vars)
<1>. SUFFICES ASSUME IInv, Fate, [Next]_vars PROVE Abs!Next \/ UNCHANGED Abs!vars
  OBVIOUS
<1>1. ASSUME NEW q \in Requests, Enqueue(q) \/ Resend(q) PROVE Abs!Next
  <2>1. PICK r \in Entries : r \notin pushed /\ Push(r)
    BY <1>1, PushFacts
  <2>2. {r} \in SUBSET Entries /\ {} \in SUBSET {r}
    OBVIOUS
  <2>. QED
    BY <2>1, <2>2, SubmitMaps DEF Abs!Next
<1>2. ASSUME NEW w \in Workers, Dequeue(w) PROVE Abs!Next
  <2>1. Popped \in Entries /\ Abs!Claim(w, Popped)
    BY <1>2, ClaimMaps
  <2>2. PICK r \in Entries : r = Popped
    BY <2>1
  <2>3. Abs!Claim(w, r)
    BY <2>1, <2>2 DEF Abs!Claim
  <2>. QED
    BY <2>3 DEF Abs!Next
<1>3. ASSUME NEW w \in Workers, DequeueUnseen(w) PROVE Abs!Next
  BY <1>3, LostMaps DEF Abs!Next
<1>4. ASSUME NEW w \in Workers, Settle(w) PROVE Abs!Next
  <2>1. {w} \in SUBSET Workers
    OBVIOUS
  <2>. QED
    BY <1>4, <2>1, SettleMaps DEF Abs!Next
<1>5. ASSUME NEW p \in Procs, Crash(p) PROVE Abs!Next
  <2>1. {w \in Workers : ProcOf[w] = p} \in SUBSET Workers
    OBVIOUS
  <2>. QED
    BY <1>5, <2>1, CrashMaps DEF Abs!Next
<1>6. ASSUME NEW w \in Workers, ProcessLease(w) \/ Exit(w) PROVE UNCHANGED Abs!vars
  <2>1. UNCHANGED <<list, job, pushed, done>>
    BY <1>6 DEF ProcessLease, Exit, hist
  <2>. QED
    BY <2>1, StutterStep
<1>7. ASSUME NEW p \in Procs, Terminate(p) \/ Start(p) PROVE UNCHANGED Abs!vars
  <2>1. UNCHANGED <<list, job, pushed, done>>
    BY <1>7 DEF Terminate, Start, hist, work
  <2>. QED
    BY <2>1, StutterStep
<1>8. CASE UNCHANGED vars
  <2>1. UNCHANGED <<list, job, pushed, done>>
    BY <1>8 DEF vars, hist, work
  <2>. QED
    BY <2>1, StutterStep
<1>. QED
  BY <1>1, <1>2, <1>3, <1>4, <1>5, <1>6, <1>7, <1>8 DEF Next, WorkerStep

\* Member by member, the Redis list refines the abstract queue as the SQL table does,
\* with two differences that the mapping shows: a call of Enqueue may submit a job
\* more than once, and no step is a Retry or a GiveUp, a failed job only loses its
\* owner.
THEOREM Refinement == Spec => Implements
  BY InitMaps, NextMaps, FateKnown, PTL DEF Spec, Implements, Abs!Spec
===============================================================================
