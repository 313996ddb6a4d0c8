----------------------------- MODULE IntakeProofs -----------------------------
(***************************************************************************)
(* Proofs about Intake, for all requests, activities, audiences and        *)
(* backends.                                                               *)
(***************************************************************************)
EXTENDS Intake, TLAPS

\* An open transaction has its activity to itself, and nothing of it is stored.
TxOK ==
  /\ \A r \in Requests : pc[r] = "tx" =>
       /\ ActOf[r] \notin stored
       /\ todo[r] \subseteq JobsOf(ActOf[r], rcpts[r])
  /\ \A q, r \in Requests :
       pc[q] = "tx" /\ pc[r] = "tx" /\ ActOf[q] = ActOf[r] => q = r

\* Whoever pushes does so for the stored body, alone, and no job twice.
PushOK ==
  /\ \A r \in Requests : pc[r] = "push" =>
       /\ ~SqlBacked
       /\ ActOf[r] \in stored
       /\ todo[r] \subseteq JobsOf(ActOf[r], body[ActOf[r]])
       /\ \A j \in todo[r] : queued[j] <= faults
  /\ \A q, r \in Requests :
       pc[q] = "push" /\ pc[r] = "push" /\ ActOf[q] = ActOf[r] => q = r

AnswerOK ==
  /\ \A r \in Requests : pc[r] = "answer" => ActOf[r] \in stored
  /\ accepted \subseteq stored

SqlOK == SqlBacked =>
  \A a \in stored : \A j \in JobsOf(a, body[a]) : queued[j] > 0

IInv == TypeOK /\ TxOK /\ PushOK /\ AnswerOK /\ JobsFromBody /\ QueuedOnce /\ SqlOK

\* The jobs of an activity are jobs, and name it.
LEMMA JobsOfType ==
  ASSUME NEW a \in Activities, NEW R \in SUBSET Recipients
  PROVE  /\ JobsOf(a, R) \subseteq Jobs
         /\ \A j \in JobsOf(a, R) : j[1] = a
<1>1. \A x \in R : InboxOf[x] \in Targets
  BY IntakeAssumption DEF Targets
<1>2. Process \in Targets
  BY DEF Targets
<1>. QED
  BY <1>1, <1>2 DEF JobsOf, Jobs

\* IInv holds at the start.
LEMMA InitIInv == Init => IInv
<1>. SUFFICES ASSUME Init PROVE IInv
  OBVIOUS
<1>1. TypeOK
  BY IntakeAssumption DEF Init, TypeOK
<1>2. TxOK /\ PushOK
  BY DEF Init, TxOK, PushOK, SqlBacked
<1>3. AnswerOK /\ SqlOK
  BY DEF Init, AnswerOK, SqlOK, SqlBacked
<1>4. JobsFromBody /\ QueuedOnce
  BY DEF Init, JobsFromBody, QueuedOnce, OnQueue, SqlBacked
<1>. QED
  BY <1>1, <1>2, <1>3, <1>4 DEF IInv

\* Faults are counted upwards.
LEMMA MoreFaults ==
  ASSUME IInv, faults' \in {faults, faults + 1}
  PROVE  faults \in Nat /\ faults' \in Nat /\ faults <= faults'
BY DEF IInv, TypeOK

\* A step that ends the handlers of R and touches no table keeps IInv.
LEMMA DropIInv ==
  ASSUME IInv, NEW R, Drop(R), UNCHANGED <<tables, backend, followers>>,
         accepted' \subseteq stored, faults' \in {faults, faults + 1}
  PROVE  IInv'
<1>1. /\ \A r \in Requests : pc'[r] = "idle" \/ (pc'[r] = pc[r] /\ rcpts'[r] = rcpts[r] /\ todo'[r] = todo[r])
      /\ UNCHANGED <<stored, body, queued>>
  BY DEF Drop, tables
<1>2. TypeOK'
  BY IntakeAssumption, MoreFaults DEF Drop, TypeOK, IInv, tables
<1>3. TxOK'
  BY <1>1 DEF TxOK, IInv
<1>4. PushOK'
  BY <1>1, MoreFaults DEF PushOK, SqlBacked, IInv, TypeOK
<1>5. AnswerOK' /\ SqlOK'
  BY <1>1 DEF AnswerOK, SqlOK, SqlBacked, IInv
<1>6. JobsFromBody'
  BY <1>1 DEF JobsFromBody, OnQueue, IInv
<1>7. QueuedOnce'
  BY <1>1, MoreFaults DEF QueuedOnce, SqlBacked, IInv, TypeOK
<1>. QED
  BY <1>2, <1>3, <1>4, <1>5, <1>6, <1>7 DEF IInv

\* Arrive, Resolve and Insert of a duplicate move one handler on and touch no table.
LEMMA MoveIInv ==
  ASSUME IInv, NEW r \in Requests, NEW label, Goto(r, label),
         label \in {"insert", "resolve", "answer"},
         label = "answer" => ActOf[r] \in stored,
         UNCHANGED <<tables, backend, followers, todo, accepted, faults>>,
         rcpts' \in [Requests -> SUBSET Recipients],
         \A q \in Requests \ {r} : rcpts'[q] = rcpts[q]
  PROVE  IInv'
<1>1. /\ \A q \in Requests : q # r => pc'[q] = pc[q] /\ rcpts'[q] = rcpts[q]
      /\ pc'[r] = label
      /\ UNCHANGED <<stored, body, queued>>
  BY DEF Goto, tables, IInv, TypeOK
<1>2. TypeOK'
  BY DEF Goto, TypeOK, IInv, tables
<1>3. TxOK'
  BY <1>1 DEF TxOK, IInv
<1>4. PushOK'
  BY <1>1 DEF PushOK, SqlBacked, IInv
<1>5. AnswerOK' /\ SqlOK'
  BY <1>1 DEF AnswerOK, SqlOK, SqlBacked, IInv
<1>6. JobsFromBody' /\ QueuedOnce'
  BY <1>1 DEF JobsFromBody, QueuedOnce, OnQueue, SqlBacked, IInv
<1>. QED
  BY <1>2, <1>3, <1>4, <1>5, <1>6 DEF IInv

\* The INSERT of a new activity opens its transaction or, in the inbox without the
\* SQL queue, stores it at once.
LEMMA InsertIInv ==
  ASSUME IInv, NEW r \in Requests, Insert(r), ActOf[r] \notin stored
  PROVE  IInv'
<1>. DEFINE J == JobsOf(ActOf[r], rcpts[r])
<1>1. ActOf[r] \in Activities /\ rcpts[r] \in SUBSET Recipients
  BY IntakeAssumption DEF IInv, TypeOK
<1>2. J \subseteq Jobs /\ \A j \in J : j[1] = ActOf[r]
  BY <1>1, JobsOfType
<1>3. /\ pc[r] = "insert" /\ ~Waits(r)
      /\ todo' = [todo EXCEPT ![r] = J]
      /\ UNCHANGED <<queued, rcpts, backend, followers, accepted, faults>>
  BY DEF Insert, Duplicate
<1>4. \A j \in J : queued[j] = 0
  BY <1>2 DEF IInv, TypeOK, JobsFromBody, OnQueue
<1>. HIDE DEF J
<1>5. CASE ActOf[r] \in Inbound /\ ~SqlBacked
  <2>1. /\ pc' = [pc EXCEPT ![r] = "push"]
        /\ stored' = stored \cup {ActOf[r]}
        /\ body' = [body EXCEPT ![ActOf[r]] = rcpts[r]]
    BY <1>5 DEF Insert, Duplicate, Goto, Store
  <2>2. TypeOK'
    BY <1>1, <1>2, <1>3, <2>1 DEF IInv, TypeOK
  <2>3. \A q \in Requests \ {r} : ActOf[q] = ActOf[r] => pc'[q] \notin {"tx", "push"}
    BY <1>3, <2>1 DEF IInv, TypeOK, Waits, PushOK, SqlBacked
  <2>4. \A q \in Requests \ {r} : pc'[q] = pc[q] /\ todo'[q] = todo[q] /\ rcpts'[q] = rcpts[q]
    BY <1>3, <2>1 DEF IInv, TypeOK
  <2>5. /\ pc'[r] = "push" /\ todo'[r] = J /\ body'[ActOf[r]] = rcpts[r]
        /\ \A a \in Activities \ {ActOf[r]} : body'[a] = body[a]
    BY <1>1, <1>3, <2>1 DEF IInv, TypeOK
  <2>6. TxOK'
    BY <2>1, <2>3, <2>4, <2>5 DEF IInv, TxOK
  <2>7. PushOK'
    <3>1. ASSUME NEW q \in Requests, pc'[q] = "push"
          PROVE  /\ ~SqlBacked
                 /\ ActOf[q] \in stored'
                 /\ todo'[q] \subseteq JobsOf(ActOf[q], body'[ActOf[q]])
                 /\ \A j \in todo'[q] : queued'[j] <= faults'
      <4>1. CASE q = r
        BY <4>1, <1>3, <1>4, <1>5, <2>1, <2>5 DEF J, IInv, TypeOK
      <4>2. CASE q # r
        BY <4>2, <3>1, <1>3, <2>1, <2>3, <2>4, <2>5, IntakeAssumption DEF IInv, PushOK, SqlBacked
      <4>. QED
        BY <4>1, <4>2
    <3>2. \A p, q \in Requests : pc'[p] = "push" /\ pc'[q] = "push" /\ ActOf[p] = ActOf[q] => p = q
      BY <2>3, <2>4 DEF IInv, PushOK, SqlBacked
    <3>. QED
      BY <1>3, <3>1, <3>2 DEF PushOK, SqlBacked
  <2>8. AnswerOK'
    BY <1>3, <2>1, <2>4, <2>5 DEF IInv, AnswerOK
  <2>9. JobsFromBody' /\ QueuedOnce' /\ SqlOK'
    BY <1>3, <1>5, <2>1, <2>5 DEF IInv, TypeOK, JobsFromBody, QueuedOnce, SqlOK, SqlBacked, OnQueue
  <2>. QED
    BY <2>2, <2>6, <2>7, <2>8, <2>9 DEF IInv
<1>6. CASE ~(ActOf[r] \in Inbound /\ ~SqlBacked)
  <2>1. pc' = [pc EXCEPT ![r] = "tx"] /\ UNCHANGED <<stored, body>>
    BY <1>6 DEF Insert, Duplicate, Goto
  <2>2. TypeOK'
    BY <1>2, <1>3, <2>1 DEF IInv, TypeOK
  <2>3. \A q \in Requests \ {r} : ActOf[q] = ActOf[r] => pc'[q] # "tx"
    BY <1>3, <2>1 DEF IInv, TypeOK, Waits
  <2>4. \A q \in Requests \ {r} : pc'[q] = pc[q] /\ todo'[q] = todo[q] /\ rcpts'[q] = rcpts[q]
    BY <1>3, <2>1 DEF IInv, TypeOK
  <2>5. pc'[r] = "tx" /\ todo'[r] = J /\ rcpts'[r] = rcpts[r]
    BY <1>3, <2>1 DEF IInv, TypeOK
  <2>6. TxOK'
    BY <2>1, <2>3, <2>4, <2>5 DEF IInv, TxOK, J
  <2>7. PushOK'
    BY <1>3, <2>1, <2>4, <2>5 DEF IInv, PushOK, SqlBacked
  <2>8. AnswerOK' /\ SqlOK'
    BY <1>3, <2>1, <2>4, <2>5 DEF IInv, AnswerOK, SqlOK, SqlBacked
  <2>9. JobsFromBody' /\ QueuedOnce'
    BY <1>3, <2>1 DEF IInv, JobsFromBody, QueuedOnce, OnQueue, SqlBacked
  <2>. QED
    BY <2>2, <2>6, <2>7, <2>8, <2>9 DEF IInv
<1>. QED
  BY <1>5, <1>6

\* Staging inserts a job into the transaction, or ends the handler.
LEMMA StageIInv ==
  ASSUME IInv, NEW r \in Requests, NEW j \in Jobs, Stage(r, j)
  PROVE  IInv'
<1>1. CASE queued[j] # 0
  <2>1. Drop({r}) /\ UNCHANGED <<tables, backend, followers>> /\ accepted' \subseteq stored /\ faults' \in {faults, faults + 1}
    BY <1>1 DEF Stage, IInv, AnswerOK, TypeOK
  <2>. QED
    BY <2>1, DropIInv
<1>2. CASE queued[j] = 0
  <2>1. /\ todo' = [todo EXCEPT ![r] = @ \ {j}] /\ pc[r] = "tx"
        /\ UNCHANGED <<stored, body, queued, backend, followers, pc, rcpts, accepted, faults>>
    BY <1>2 DEF Stage, tables
  <2>2. TypeOK'
    BY <2>1 DEF IInv, TypeOK
  <2>3. \A q \in Requests : todo'[q] \subseteq todo[q]
    BY <2>1 DEF IInv, TypeOK
  <2>4. TxOK'
    BY <2>1, <2>3 DEF IInv, TxOK
  <2>5. PushOK'
    BY <2>1, <2>3 DEF IInv, PushOK, SqlBacked
  <2>6. AnswerOK' /\ SqlOK'
    BY <2>1 DEF IInv, AnswerOK, SqlOK, SqlBacked
  <2>7. JobsFromBody' /\ QueuedOnce'
    BY <2>1 DEF IInv, JobsFromBody, QueuedOnce, OnQueue, SqlBacked
  <2>. QED
    BY <2>2, <2>4, <2>5, <2>6, <2>7 DEF IInv
<1>. QED
  BY <1>1, <1>2

\* A commit keeps IInv, seen or not; r goes on to answer or to push, or ends.
LEMMA CommitIInv ==
  ASSUME IInv, NEW r \in Requests, Committed(r),
         UNCHANGED <<backend, followers, accepted>>, faults' \in {faults, faults + 1},
         pc' \in [Requests -> {"idle", "resolve", "insert", "tx", "push", "answer"}],
         rcpts' \in [Requests -> SUBSET Recipients],
         todo' \in [Requests -> SUBSET Jobs],
         \A q \in Requests \ {r} :
           pc'[q] = pc[q] /\ rcpts'[q] = rcpts[q] /\ todo'[q] = todo[q],
         pc'[r] \in {"idle", "answer", "push"},
         pc'[r] = "push" => todo[r] # {} /\ todo'[r] = todo[r]
  PROVE  IInv'
<1>. DEFINE a == ActOf[r]
            J == JobsOf(a, rcpts[r])
<1>1. a \in Activities /\ rcpts[r] \in SUBSET Recipients
  BY IntakeAssumption DEF IInv, TypeOK
<1>2. J \subseteq Jobs /\ \A j \in J : j[1] = a
  BY <1>1, JobsOfType
<1>3. /\ pc[r] = "tx" /\ (SqlBacked => todo[r] = {})
      /\ a \notin stored /\ todo[r] \subseteq J
  BY DEF Committed, IInv, TxOK
<1>4. /\ stored' = stored \cup {a}
      /\ body' = [body EXCEPT ![a] = rcpts[r]]
      /\ queued' = [j \in Jobs |-> IF SqlBacked /\ j \in J THEN queued[j] + 1 ELSE queued[j]]
  BY DEF Committed, Store
<1>5. \A j \in Jobs : j[1] = a => queued[j] = 0
  BY <1>3 DEF IInv, TypeOK, JobsFromBody, OnQueue
<1>6. body'[a] = rcpts[r] /\ \A b \in Activities \ {a} : body'[b] = body[b]
  BY <1>1, <1>4 DEF IInv, TypeOK
<1>7. /\ ~SqlBacked => queued' = queued
      /\ SqlBacked => \A j \in Jobs : queued'[j] = IF j \in J THEN 1 ELSE queued[j]
  BY <1>2, <1>4, <1>5 DEF IInv, TypeOK
<1>8. body'[a] = rcpts[r] => JobsOf(a, body'[a]) = J
  OBVIOUS
<1>. HIDE DEF J
<1>9. TypeOK'
  <2>1. queued' \in [Jobs -> Nat]
    BY <1>4 DEF IInv, TypeOK
  <2>. QED
    BY <2>1, <1>1, <1>4 DEF IInv, TypeOK
<1>10. \A q \in Requests \ {r} : ActOf[q] = a => pc'[q] \notin {"tx", "push"}
  BY <1>3 DEF IInv, TxOK, PushOK, SqlBacked
<1>11. TxOK'
  BY <1>4, <1>10 DEF IInv, TxOK
<1>12. PushOK'
  <2>1. ASSUME NEW q \in Requests, pc'[q] = "push"
        PROVE  /\ ~SqlBacked
               /\ ActOf[q] \in stored'
               /\ todo'[q] \subseteq JobsOf(ActOf[q], body'[ActOf[q]])
               /\ \A j \in todo'[q] : queued'[j] <= faults'
    <3>1. CASE q = r
      <4>1. ~SqlBacked /\ todo'[q] = todo[r] /\ ActOf[q] = a
        BY <3>1, <2>1, <1>3
      <4>2. \A j \in todo'[q] : queued'[j] <= faults'
        BY <4>1, <1>2, <1>3, <1>5, <1>7, MoreFaults
      <4>. QED
        BY <4>1, <4>2, <1>3, <1>4, <1>6, <1>8
    <3>2. CASE q # r
      <4>1. ActOf[q] # a /\ ActOf[q] \in Activities /\ pc[q] = "push" /\ todo'[q] = todo[q]
        BY <3>2, <2>1, <1>10, IntakeAssumption
      <4>2. ~SqlBacked /\ queued' = queued
        BY <4>1, <1>7 DEF IInv, PushOK, SqlBacked
      <4>3. \A j \in todo'[q] : queued'[j] <= faults'
        BY <4>1, <4>2, MoreFaults DEF IInv, TypeOK, PushOK, SqlBacked
      <4>. QED
        BY <4>1, <4>2, <4>3, <1>4, <1>6 DEF IInv, PushOK, SqlBacked
    <3>. QED
      BY <3>1, <3>2
  <2>2. \A p, q \in Requests : pc'[p] = "push" /\ pc'[q] = "push" /\ ActOf[p] = ActOf[q] => p = q
    BY <1>10 DEF IInv, PushOK, SqlBacked
  <2>. QED
    BY <2>1, <2>2 DEF PushOK, SqlBacked
<1>13. AnswerOK'
  BY <1>4 DEF IInv, AnswerOK
<1>14. JobsFromBody'
  <2>1. ASSUME NEW j \in Jobs, queued'[j] > 0
        PROVE  j[1] \in stored' /\ j \in JobsOf(j[1], body'[j[1]])
    <3>1. CASE SqlBacked /\ j \in J
      BY <3>1, <1>2, <1>4, <1>6, <1>8
    <3>2. CASE ~(SqlBacked /\ j \in J)
      <4>1. queued[j] > 0
        BY <3>2, <2>1, <1>7
      <4>2. j[1] # a /\ j[1] \in Activities
        BY <4>1, <1>5 DEF Jobs
      <4>. QED
        BY <4>1, <4>2, <1>4, <1>6 DEF IInv, JobsFromBody, OnQueue
    <3>. QED
      BY <3>1, <3>2
  <2>. QED
    BY <2>1 DEF JobsFromBody, OnQueue
<1>15. QueuedOnce'
  BY <1>7, MoreFaults DEF IInv, TypeOK, QueuedOnce, SqlBacked
<1>16. SqlOK'
  <2>1. ASSUME SqlBacked, NEW b \in stored', NEW j \in JobsOf(b, body'[b])
        PROVE  queued'[j] > 0
    <3>1. CASE b = a
      BY <3>1, <2>1, <1>2, <1>6, <1>7, <1>8
    <3>2. CASE b # a
      <4>1. b \in stored /\ b \in Activities /\ body'[b] = body[b]
        BY <3>2, <1>4, <1>6 DEF IInv, TypeOK
      <4>2. j \in Jobs /\ queued[j] > 0
        BY <4>1, <2>1, JobsOfType DEF IInv, TypeOK, SqlOK, SqlBacked
      <4>. QED
        BY <4>2, <2>1, <1>7
    <3>. QED
      BY <3>1, <3>2
  <2>. QED
    BY <2>1 DEF SqlOK, SqlBacked
<1>. QED
  BY <1>9, <1>11, <1>12, <1>13, <1>14, <1>15, <1>16 DEF IInv

\* r takes a step from "push" in which job j went onto the queue: it has j behind it, or
\* the client lost the reply and sends j again.
PushMoves(r, j) ==
  /\ pc' \in [Requests -> {"idle", "resolve", "insert", "tx", "push", "answer"}]
  /\ rcpts' \in [Requests -> SUBSET Recipients]
  /\ todo' \in [Requests -> SUBSET Jobs]
  /\ \A q \in Requests \ {r} :
       pc'[q] = pc[q] /\ rcpts'[q] = rcpts[q] /\ todo'[q] = todo[q]
  /\ pc'[r] \in {"idle", "answer", "push"}
  /\ pc'[r] = "push" => \/ todo'[r] = todo[r] \ {j}
                        \/ todo'[r] = todo[r] /\ faults' = faults + 1

\* The push of one more job keeps IInv, seen or not.
LEMMA PushIInv ==
  ASSUME IInv, NEW r \in Requests, NEW j \in Jobs, pc[r] = "push", NextJob(r, j),
         queued' = [queued EXCEPT ![j] = @ + 1],
         UNCHANGED <<stored, body, backend, followers, accepted>>, faults' \in {faults, faults + 1},
         PushMoves(r, j)
  PROVE  IInv'
<1>. USE DEF PushMoves
<1>1. /\ ~SqlBacked /\ ActOf[r] \in stored
      /\ j \in JobsOf(ActOf[r], body[ActOf[r]])
      /\ queued[j] <= faults
  BY DEF NextJob, IInv, PushOK, SqlBacked
<1>2. ActOf[r] \in Activities /\ body[ActOf[r]] \in SUBSET Recipients
  BY IntakeAssumption DEF IInv, TypeOK
<1>3. j[1] = ActOf[r]
  BY <1>1, <1>2, JobsOfType
<1>4. /\ queued'[j] = queued[j] + 1 /\ \A k \in Jobs \ {j} : queued'[k] = queued[k]
      /\ queued[j] \in Nat
  BY <1>1 DEF IInv, TypeOK
<1>5. TypeOK'
  BY MoreFaults DEF IInv, TypeOK
<1>6. TxOK'
  BY DEF IInv, TxOK
<1>7. PushOK'
  <2>1. ASSUME NEW q \in Requests, pc'[q] = "push"
        PROVE  /\ ~SqlBacked
               /\ ActOf[q] \in stored'
               /\ todo'[q] \subseteq JobsOf(ActOf[q], body'[ActOf[q]])
               /\ \A k \in todo'[q] : queued'[k] <= faults'
    <3>1. pc[q] = "push" /\ todo'[q] \subseteq todo[q]
      BY <2>1
    <3>2. j \notin todo'[q] \/ faults' = faults + 1
      <4>1. CASE q = r
        BY <4>1, <2>1
      <4>2. CASE q # r
        <5>1. ActOf[q] # ActOf[r]
          BY <4>2, <3>1 DEF IInv, PushOK, SqlBacked
        <5>2. ActOf[q] \in Activities /\ body[ActOf[q]] \in SUBSET Recipients
          BY IntakeAssumption DEF IInv, TypeOK
        <5>3. \A k \in todo[q] : k[1] = ActOf[q]
          BY <3>1, <5>2, JobsOfType DEF IInv, PushOK, SqlBacked
        <5>. QED
          BY <5>1, <5>3, <3>1, <1>3
      <4>. QED
        BY <4>1, <4>2
    <3>3. \A k \in todo'[q] : queued'[k] <= faults'
      <4>1. \A k \in todo'[q] : k \in Jobs /\ queued[k] \in Nat /\ queued[k] <= faults
        BY <3>1 DEF IInv, PushOK, SqlBacked, TypeOK
      <4>. QED
        BY <4>1, <3>2, <1>4, MoreFaults
    <3>. QED
      BY <3>1, <3>3 DEF IInv, PushOK, SqlBacked
  <2>2. \A p, q \in Requests : pc'[p] = "push" /\ pc'[q] = "push" /\ ActOf[p] = ActOf[q] => p = q
    BY DEF IInv, PushOK, SqlBacked
  <2>. QED
    BY <2>1, <2>2 DEF PushOK, SqlBacked
<1>8. AnswerOK' /\ SqlOK'
  BY <1>1 DEF IInv, AnswerOK, SqlOK, SqlBacked
<1>9. JobsFromBody'
  BY <1>1, <1>3, <1>4 DEF IInv, JobsFromBody, OnQueue
<1>10. QueuedOnce'
  BY <1>1, <1>4, MoreFaults DEF IInv, TypeOK, QueuedOnce, SqlBacked
<1>. QED
  BY <1>5, <1>6, <1>7, <1>8, <1>9, <1>10 DEF IInv

\* Every step keeps IInv.
LEMMA NextIInv == IInv /\ [Next]_vars => IInv'
<1>. SUFFICES ASSUME IInv, [Next]_vars PROVE IInv'
  OBVIOUS
<1>0. Fault => faults' \in {faults, faults + 1}
  BY DEF Fault
<1>1. ASSUME NEW r \in Requests, Arrive(r) PROVE IInv'
  <2>1. PICK label \in {"insert", "resolve"} : Goto(r, label)
    BY <1>1 DEF Arrive
  <2>2. rcpts' \in [Requests -> SUBSET Recipients]
    BY <1>1, IntakeAssumption DEF Arrive, IInv, TypeOK
  <2>. QED
    BY <2>1, <2>2, <1>1, MoveIInv DEF Arrive, IInv, TypeOK
<1>2. ASSUME NEW r \in Requests, Resolve(r) PROVE IInv'
  <2>1. Goto(r, "insert")
    BY <1>2 DEF Resolve
  <2>. QED
    BY <2>1, <1>2, MoveIInv DEF Resolve, IInv, TypeOK
<1>3. ASSUME NEW r \in Requests, Insert(r) PROVE IInv'
  <2>1. CASE ActOf[r] \in stored
    <3>1. Goto(r, "answer") /\ UNCHANGED <<tables, backend, followers, todo, accepted, faults, rcpts>>
      BY <1>3, <2>1 DEF Insert, Duplicate, tables
    <3>. QED
      BY <2>1, <3>1, MoveIInv DEF IInv, TypeOK
  <2>. QED
    BY <2>1, <1>3, InsertIInv
<1>4. ASSUME NEW r \in Requests, NEW j \in Jobs, Stage(r, j) PROVE IInv'
  BY <1>4, StageIInv
<1>5. ASSUME NEW r \in Requests, Commit(r) PROVE IInv'
  <2>1. /\ Committed(r) /\ UNCHANGED <<backend, followers, accepted, rcpts, todo, faults>>
        /\ pc' = [pc EXCEPT ![r] = IF todo[r] = {} THEN "answer" ELSE "push"]
    BY <1>5 DEF Commit, Goto
  <2>. QED
    BY <2>1, CommitIInv DEF IInv, TypeOK
<1>6. ASSUME NEW r \in Requests, CommitUnseen(r) PROVE IInv'
  <2>1. Committed(r) /\ Drop({r}) /\ UNCHANGED <<backend, followers, accepted>> /\ faults' \in {faults, faults + 1}
    BY <1>6, <1>0 DEF CommitUnseen
  <2>. QED
    BY <2>1, CommitIInv DEF IInv, TypeOK, Drop
<1>7. ASSUME NEW r \in Requests, NEW j \in Jobs, Push(r, j) PROVE IInv'
  <2>1. /\ UNCHANGED <<stored, body, backend, followers, accepted>> /\ UNCHANGED <<rcpts, faults>>
        /\ pc[r] = "push" /\ NextJob(r, j)
        /\ queued' = [queued EXCEPT ![j] = @ + 1]
        /\ todo' = [todo EXCEPT ![r] = @ \ {j}]
        /\ pc' = [pc EXCEPT ![r] = IF todo[r] = {j} THEN "answer" ELSE "push"]
    BY <1>7 DEF Push, Goto
  <2>2. /\ pc' \in [Requests -> {"idle", "resolve", "insert", "tx", "push", "answer"}]
        /\ rcpts' \in [Requests -> SUBSET Recipients] /\ todo' \in [Requests -> SUBSET Jobs]
    BY <2>1 DEF IInv, TypeOK
  <2>3. /\ \A q \in Requests \ {r} : pc'[q] = pc[q] /\ rcpts'[q] = rcpts[q] /\ todo'[q] = todo[q]
        /\ pc'[r] \in {"answer", "push"} /\ todo'[r] = todo[r] \ {j}
    BY <2>1 DEF IInv, TypeOK
  <2>4. PushMoves(r, j)
    BY <2>2, <2>3 DEF PushMoves
  <2>. QED
    BY <2>1, <2>4, PushIInv
<1>8. ASSUME NEW r \in Requests, NEW j \in Jobs, PushUnseen(r, j) PROVE IInv'
  <2>1. /\ UNCHANGED <<stored, body, backend, followers, accepted>> /\ faults' = faults + 1
        /\ pc[r] = "push" /\ NextJob(r, j) /\ (UNCHANGED <<pc, rcpts, todo>> \/ Drop({r}))
        /\ queued' = [queued EXCEPT ![j] = @ + 1]
    BY <1>8 DEF PushUnseen, Fault, handler
  <2>2. CASE UNCHANGED <<pc, rcpts, todo>>
    <3>1. PushMoves(r, j)
      BY <2>1, <2>2 DEF PushMoves, IInv, TypeOK
    <3>. QED
      BY <2>1, <3>1, PushIInv
  <2>3. CASE Drop({r})
    <3>1. PushMoves(r, j)
      BY <2>3 DEF PushMoves, Drop, IInv, TypeOK
    <3>. QED
      BY <2>1, <3>1, PushIInv
  <2>. QED
    BY <2>1, <2>2, <2>3
<1>9. ASSUME NEW r \in Requests, Answer(r) PROVE IInv'
  <2>1. ActOf[r] \in stored
    BY <1>9 DEF Answer, IInv, AnswerOK
  <2>. QED
    BY <1>9, <2>1, DropIInv DEF Answer, IInv, AnswerOK, TypeOK
<1>10. ASSUME NEW r \in Requests, Fail(r) PROVE IInv'
  BY <1>10, <1>0, DropIInv DEF Fail, IInv, AnswerOK
<1>11. ASSUME Crash PROVE IInv'
  BY <1>11, <1>0, DropIInv DEF Crash, IInv, AnswerOK
<1>12. ASSUME NEW x \in Fickle, FollowersChange(x) PROVE IInv'
  <2>1. UNCHANGED <<stored, body, queued, backend, pc, rcpts, todo, accepted, faults>>
    BY <1>12 DEF FollowersChange, tables, handler
  <2>2. TypeOK'
    BY <1>12, <2>1, IntakeAssumption DEF FollowersChange, IInv, TypeOK
  <2>. QED
    BY <2>1, <2>2 DEF IInv, TxOK, PushOK, SqlBacked, AnswerOK, JobsFromBody, QueuedOnce, SqlOK, OnQueue
<1>13. ASSUME UNCHANGED vars PROVE IInv'
  BY <1>13 DEF vars, tables, handler, IInv, TypeOK, TxOK, PushOK, SqlBacked, AnswerOK, JobsFromBody,
               QueuedOnce, SqlOK, OnQueue
<1>. QED
  BY <1>1, <1>2, <1>3, <1>4, <1>5, <1>6, <1>7, <1>8, <1>9, <1>10, <1>11, <1>12, <1>13
     DEF Next, Step

\* The inductive invariant holds in every reachable state.
THEOREM Inductive == Spec => []IInv
  BY InitIInv, NextIInv, PTL DEF Spec

\* The types of the tables and of the handlers' variables.
THEOREM TypeCorrect == Spec => []TypeOK
<1>1. IInv => TypeOK
  BY DEF IInv
<1>. QED
  BY <1>1, Inductive, PTL

\* No job without its activity, with any backend: Insert and Commit come before
\* every push, and the body is never overwritten.
THEOREM NoStrayJob == Spec => []JobsFromBody
<1>1. IInv => JobsFromBody
  BY DEF IInv
<1>. QED
  BY <1>1, Inductive, PTL

\* However often a request is repeated, no job is queued twice but by a Redis client that
\* lost a reply: the unique activity id lets one handler through.
THEOREM NoDoubleJob == Spec => []QueuedOnce
<1>1. IInv => QueuedOnce
  BY DEF IInv
<1>. QED
  BY <1>1, Inductive, PTL

\* With the SQL queue a 202 means that the activity and all its jobs are stored.
THEOREM PromiseHolds == Spec => []PromiseKept
<1>1. ASSUME IInv, SqlBacked PROVE AcceptedMeansQueued
  <2>1. ASSUME NEW a \in accepted PROVE a \in stored /\ JobsOf(a, body[a]) \subseteq OnQueue
    <3>1. a \in stored /\ a \in Activities /\ body[a] \in SUBSET Recipients
      BY <1>1, <2>1 DEF IInv, AnswerOK, TypeOK
    <3>2. JobsOf(a, body[a]) \subseteq Jobs
      BY <3>1, JobsOfType
    <3>. QED
      BY <1>1, <3>1, <3>2 DEF IInv, SqlOK, SqlBacked, OnQueue
  <2>. QED
    BY <2>1 DEF AcceptedMeansQueued
<1>2. IInv => PromiseKept
  BY <1>1 DEF PromiseKept
<1>. QED
  BY <1>2, Inductive, PTL

\* With the SQL queue the job table is what the stored bodies ask for.
LEMMA BodyMatch == IInv => JobsMatchBody
<1>. SUFFICES ASSUME IInv, SqlBacked
              PROVE  OnQueue = UNION {JobsOf(a, body[a]) : a \in stored}
  BY DEF JobsMatchBody
<1>1. ASSUME NEW j \in OnQueue PROVE \E a \in stored : j \in JobsOf(a, body[a])
  BY <1>1 DEF IInv, JobsFromBody
<1>2. ASSUME NEW a \in stored, NEW j \in JobsOf(a, body[a]) PROVE j \in OnQueue
  <2>1. a \in Activities /\ body[a] \in SUBSET Recipients
    BY DEF IInv, TypeOK
  <2>2. j \in Jobs
    BY <2>1, <1>2, JobsOfType
  <2>. QED
    BY <2>2, <1>2 DEF IInv, SqlOK, SqlBacked, OnQueue
<1>. QED
  BY <1>1, <1>2

\* JobsMatchBody in every state.
THEOREM TableMatchesBodies == Spec => []JobsMatchBody
  BY BodyMatch, Inductive, PTL

\* A commit takes the activity over with its jobs.
LEMMA CommitAccepts ==
  ASSUME SqlBacked, IInv, NEW r \in Requests, Committed(r), UNCHANGED backend
  PROVE  Abs!Next
<1>. DEFINE a == ActOf[r]
            J == JobsOf(a, rcpts[r])
            T == {t \in Targets : <<a, t>> \in J}
<1>1. a \in Activities /\ rcpts[r] \in SUBSET Recipients
  BY IntakeAssumption DEF IInv, TypeOK
<1>2. J \subseteq Jobs /\ \A j \in J : j[1] = a
  BY <1>1, JobsOfType
<1>3. a \notin stored /\ stored' = stored \cup {a}
  BY DEF Committed, Store, IInv, TxOK
<1>4. queued' = [j \in Jobs |-> IF j \in J THEN queued[j] + 1 ELSE queued[j]]
  BY DEF Committed
<1>. HIDE DEF J
<1>5. J = {a} \X T
  BY <1>1, <1>2 DEF Jobs
<1>6. OnQueue' = OnQueue \cup J
  BY <1>2, <1>4 DEF OnQueue, IInv, TypeOK
<1>7. SqlBacked'
  BY DEF SqlBacked
<1>8. Abs!Accept(a, T)
  BY <1>3, <1>5, <1>6, <1>7 DEF Abs!Accept, IfSql
<1>. QED
  BY <1>1, <1>8 DEF Abs!Next

\* With the SQL queue Intake implements Acceptance: every step takes one activity
\* over with all its jobs, or changes neither.
THEOREM Refinement == Spec => TakenOverAtOnce
<1>1. Init => Abs!Init
  BY DEF Init, Abs!Init, OnQueue, IfSql
<1>2. IInv /\ [Next]_vars => [Abs!Next]_Abs!vars
  <2>. SUFFICES ASSUME IInv, [Next]_vars PROVE [Abs!Next]_Abs!vars
    OBVIOUS
  <2>1. backend' = backend
    BY DEF Next, Step, Resolve, Insert, Commit, Answer, Stage, Push, Arrive, Fail, CommitUnseen,
           PushUnseen, Crash, FollowersChange, vars
  <2>2. CASE ~SqlBacked
    BY <2>1, <2>2 DEF SqlBacked, IfSql, Abs!vars
  <2>3. CASE SqlBacked
    <3>. SUFFICES Abs!Next \/ UNCHANGED <<stored, queued>>
      BY <2>1 DEF Abs!vars, OnQueue, IfSql, SqlBacked
    <3>1. ASSUME NEW r \in Requests, Committed(r) PROVE Abs!Next
      BY <2>1, <2>3, <3>1, CommitAccepts
    <3>2. ASSUME NEW r \in Requests, NEW j \in Jobs, pc[r] = "push" PROVE FALSE
      BY <2>3, <3>2 DEF IInv, PushOK, SqlBacked
    <3>3. ASSUME NEW r \in Requests, Step(r) PROVE Abs!Next \/ UNCHANGED <<stored, queued>>
      BY <2>3, <3>1, <3>2, <3>3 DEF Step, Resolve, Insert, Commit, Answer, Stage, Push, tables
    <3>4. ASSUME NEW r \in Requests, Arrive(r) \/ Fail(r) \/ CommitUnseen(r)
          PROVE  Abs!Next \/ UNCHANGED <<stored, queued>>
      BY <3>1, <3>4 DEF Arrive, Fail, CommitUnseen, tables
    <3>5. ASSUME NEW r \in Requests, NEW j \in Jobs, PushUnseen(r, j) PROVE FALSE
      BY <3>2, <3>5 DEF PushUnseen
    <3>6. ASSUME Crash \/ (\E x \in Fickle : FollowersChange(x)) \/ UNCHANGED vars
          PROVE  UNCHANGED <<stored, queued>>
      BY <3>6 DEF Crash, FollowersChange, vars, tables
    <3>. QED
      BY <3>3, <3>4, <3>5, <3>6 DEF Next
  <2>. QED
    BY <2>2, <2>3
<1>. QED
  BY <1>1, <1>2, Inductive, PTL DEF Spec, TakenOverAtOnce, Abs!Spec

\* A request is given up, its handler left without an answer 202, only because something
\* failed then.
GivenUpByFault ==
  [][\A r \in Requests : pc[r] # "idle" /\ pc'[r] = "idle" =>
       ActOf[r] \in accepted' \/ faults' = faults + 1]_vars

\* The unique key refuses no job of an open transaction: its activity is not stored, so none
\* of its jobs is on the queue.
LEMMA KeyIsFree ==
  ASSUME IInv, NEW r \in Requests, pc[r] = "tx", NEW j \in todo[r]
  PROVE  queued[j] = 0
<1>1. ActOf[r] \in Activities /\ ActOf[r] \notin stored /\ rcpts[r] \in SUBSET Recipients
  BY IntakeAssumption DEF IInv, TypeOK, TxOK
<1>2. j \in Jobs /\ j[1] = ActOf[r]
  BY <1>1, JobsOfType DEF IInv, TxOK
<1>3. j \notin OnQueue
  BY <1>1, <1>2 DEF IInv, JobsFromBody
<1>. QED
  BY <1>2, <1>3 DEF OnQueue, IInv, TypeOK

\* What EveryActivityQueued rests on, without its fairness: of several requests with one
\* activity id none makes another one fail.  Whoever meets the id of another one waits for
\* it, answers 202 for it, or goes on in its place (InsertInboundActivity, EnqueueTx).
THEOREM NoMutualRefusal == Spec => GivenUpByFault
<1>1. IInv /\ [Next]_vars => [\A r \in Requests : pc[r] # "idle" /\ pc'[r] = "idle" =>
                                ActOf[r] \in accepted' \/ faults' = faults + 1]_vars
  <2> SUFFICES ASSUME IInv, Next, NEW r \in Requests, pc[r] # "idle", pc'[r] = "idle", faults' # faults + 1
               PROVE  ActOf[r] \in accepted'
    OBVIOUS
  <2>1. ~Fault
    BY DEF Fault
  <2>2. PICK q \in Requests : Arrive(q) \/ Step(q)
    <3>1. ~(\E x \in Fickle : FollowersChange(x))
      BY DEF FollowersChange, handler
    <3>. QED
      BY <2>1, <3>1 DEF Next, Fail, CommitUnseen, PushUnseen, Crash
  <2>3. q = r
    <3>1. pc' = [pc EXCEPT ![q] = pc'[q]] \/ Drop({q}) \/ pc' = pc
      BY <2>2 DEF Arrive, Step, Resolve, Insert, Commit, Answer, Stage, Push, Goto, IInv, TypeOK
    <3>. QED
      BY <3>1 DEF Drop, IInv, TypeOK
  <2>4. ~Arrive(r)
    BY DEF Arrive
  <2>5. ASSUME NEW j \in Jobs PROVE ~Stage(r, j)
    <3> SUFFICES ASSUME Stage(r, j) PROVE FALSE
      OBVIOUS
    <3>1. queued[j] = 0
      BY KeyIsFree DEF Stage, NextJob
    <3>. QED
      BY <3>1 DEF Stage
  <2>6. ~Resolve(r) /\ ~Insert(r) /\ ~Commit(r) /\ \A j \in Jobs : ~Push(r, j)
    BY DEF Resolve, Insert, Commit, Push, Goto, IInv, TypeOK
  <2>7. Answer(r)
    BY <2>2, <2>3, <2>4, <2>5, <2>6 DEF Step
  <2>. QED
    BY <2>7 DEF Answer
<1>. QED
  BY <1>1, Inductive, PTL DEF Spec, GivenUpByFault
==============================================================================
