----------------------------- MODULE FollowsProofs -----------------------------
(***************************************************************************)
(* Machine-checked proofs about Follows, for any actors, workers and       *)
(* activities, and any number of sends and faults.                         *)
(***************************************************************************)
EXTENDS Follows, TLAPS

\* A worker has one job at most, and none when it is idle; a job in hand is taken and in
\* one pair of hands.
Leases ==
  /\ \A j \in Jobs : owner[j] # {} => state[j] = "taken"
  /\ \A j \in Jobs : \A v, w \in owner[j] : v = w
  /\ \A i, j \in Jobs : \A w \in owner[i] \cap owner[j] : i = j
  /\ \A w \in Workers : pc[w] = "idle" => \A j \in Jobs : w \notin owner[j]
  /\ \A w \in Workers : pc[w] # "settle" => res[w] = "ok"

\* What is in the tables was stored before, and a Follow that is processed is inbound.
Sources ==
  /\ \A a \in Activities : state[<<"process", a>>] # "none" => a \in stored
  /\ \A f \in FollowIds : state[<<"process", f>>] # "none" => f \in Inbound
  /\ \A p \in Pairs : row[p].act # NoAct => row[p].act \in stored
  /\ removed \subseteq stored

\* The handler of job <<"process", a>> is at one of the places ls.
Running(ls, a) == \E w \in owner[<<"process", a>>] : pc[w] \in ls

Accepting == {"resolve", "enqueue", "setState"}
Queued(f) == state[<<"deliver", AcceptOf[f]>>] # "none"

\* What a handler has checked or done before it comes to a place.
Places ==
  /\ \A f \in Activities : Running(Accepting, f) => f \in Inbound /\ FollowAutoAccept
  /\ \A f \in Inbound : Running({"setState"}, f) => Queued(f)
  /\ \A a \in Activities : Running({"update"}, a) => a \in Answers /\ By[a] = Of[Of[a]]

IInv == TypeOK /\ Leases /\ Sources /\ Places /\ AnsweredByFollowee /\ OutboundUndoFinal

\* Without a fault the job of a Follow runs once: its Accept is queued when it has come to
\* the end, and not before.
Once ==
  faults = 0 => \A f \in Inbound :
    /\ state[<<"process", f>>] \in {"none", "waiting"} => ~Queued(f)
    /\ Running({"begin", "resolve", "enqueue"}, f) => ~Queued(f)
    /\ \A w \in owner[<<"process", f>>] : res[w] = "ok"

\* An Accept that is on its way, or was received, is one that handleFollow queued.
AcceptsQueued ==
  \A f \in Inbound :
    /\ Told(f) => Queued(f)
    /\ Queued(f) => FollowAutoAccept

\* A row that is pending belongs to a Follow whose handler is about to accept it; its
\* Follow was the last of its pair to be upserted.
PendingMoves ==
  \A p \in Pairs : LET f == row[p].act IN
    /\ row[p].state = "pending_remote" => f \notin Inbound
    /\ row[p].state = "pending" =>
         f \in Inbound /\ (faults = 0 /\ FollowAutoAccept => Running(Accepting, f))

\* A Follow that is being accepted was upserted.
Upserted ==
  \A f \in Inbound : Queued(f) \/ Running(Accepting, f) => about[Pair(f)] # NoAct

Agreement == Once /\ AcceptsQueued /\ PendingMoves /\ Upserted

\* A row is about the Follow it was last written for, and only the Undo of that Follow by
\* its follower takes it away.
LastWritten ==
  \A p \in Pairs :
    /\ row[p].act # NoAct => about[p] = row[p].act
    /\ row[p].act = NoAct /\ about[p] # NoAct => Withdrawn(about[p])
-------------------------------------------------------------------------------
(***************************************************************************)
(* The parts of the state, and what each statement does to its part.       *)
(***************************************************************************)
Stations == {"idle", "post", "begin", "resolve", "enqueue", "setState", "update", "settle"}

QueueOK ==
  /\ state \in [Jobs -> {"none", "waiting", "taken", "done", "dead"}]
  /\ owner \in [Jobs -> SUBSET Workers]
  /\ capped \subseteq Jobs
  /\ tries \in [Jobs -> Nat]

RowOK ==
  /\ row \in [Pairs -> [state : States, act : FollowIds \cup {NoAct}]]
  /\ \A p \in Pairs : IF row[p].act = NoAct THEN row[p] = NoRow
                       ELSE row[p].state # "none" /\ Pair(row[p].act) = p
  /\ about \in [Pairs -> FollowIds \cup {NoAct}]

WorkerOK == pc \in [Workers -> Stations] /\ res \in [Workers -> {"ok", "error"}]

\* The parts make up TypeOK.
LEMMA Parts ==
  TypeOK <=> /\ QueueOK /\ RowOK /\ WorkerOK
             /\ stored \subseteq Activities /\ wants \subseteq Undos
             /\ delivered \subseteq Activities /\ removed \subseteq FollowIds /\ faults \in Nat
BY DEF TypeOK, QueueOK, RowOK, WorkerOK, Stations

LEMMA PartsAfter ==
  ASSUME QueueOK', RowOK', WorkerOK', stored' \subseteq Activities, wants' \subseteq Undos,
         delivered' \subseteq Activities, removed' \subseteq FollowIds, faults' \in Nat
  PROVE  TypeOK'
BY DEF TypeOK, QueueOK, RowOK, WorkerOK, Stations

\* Every activity has its two jobs, which differ from all others.
LEMMA JobFacts ==
  ASSUME NEW a \in Activities
  PROVE  /\ <<"process", a>> \in Jobs /\ <<"deliver", a>> \in Jobs
         /\ <<"process", a>> # <<"deliver", a>>
         /\ \A b \in Activities :
              /\ <<"process", b>> = <<"process", a>> => b = a
              /\ <<"deliver", b>> = <<"deliver", a>> => b = a
              /\ <<"process", a>> # <<"deliver", b>>
BY DEF Jobs

\* The Accept of a Follow is an Answer of this instance, to that Follow only.
LEMMA AcceptFacts ==
  ASSUME NEW f \in Inbound
  PROVE  /\ f \in FollowIds /\ f \in Activities /\ Of[f] \in Locals
         /\ AcceptOf[f] \in Answers /\ AcceptOf[f] \in Activities
         /\ By[AcceptOf[f]] \in Locals /\ Of[AcceptOf[f]] = f
         /\ \A g \in Inbound : AcceptOf[g] = AcceptOf[f] => g = f
BY FollowsAssumption DEF Inbound, Activities

\* The kinds of activities, and what each is about.
LEMMA KindFacts ==
  /\ NoAct \notin FollowIds /\ NoAct \notin Activities
  /\ \A f \in FollowIds : f \in Activities /\ f \notin Undos /\ f \notin Answers /\ About(f) = f
  /\ \A u \in Undos : u \in Activities /\ u \notin FollowIds /\ u \notin Answers
                       /\ Of[u] \in FollowIds /\ About(u) = Of[u]
  /\ \A a \in Answers : a \in Activities /\ a \notin FollowIds /\ a \notin Undos
                         /\ Of[a] \in FollowIds /\ About(a) = Of[a] /\ Verdict[a] \in Verdicts
  /\ \A f \in FollowIds : Pair(f) \in Pairs /\ Pair(f)[1] = By[f] /\ Pair(f)[2] = Of[f]
BY FollowsAssumption DEF Activities, About, Pair, Pairs

\* Follows of one pair have one followee.
LEMMA PairFacts ==
  ASSUME NEW f \in FollowIds, NEW g \in FollowIds, Pair(f) = Pair(g)
  PROVE  By[f] = By[g] /\ Of[f] = Of[g] /\ (f \in Inbound <=> g \in Inbound)
BY DEF Pair, Inbound

\* Inserting jobs makes them waiting.
LEMMA SubmitFacts ==
  ASSUME QueueOK, NEW J \in SUBSET Jobs, NEW C \in SUBSET J, Q!Submit(J, C)
  PROVE  /\ QueueOK' /\ owner' = owner
         /\ \A j \in J : state[j] = "none" /\ state'[j] = "waiting"
         /\ \A j \in Jobs \ J : state'[j] = state[j]
BY DEF QueueOK, Q!Submit

\* Taking a job.
LEMMA ClaimFacts ==
  ASSUME QueueOK, NEW w \in Workers, NEW j \in Jobs, Q!Claim(w, j)
  PROVE  /\ QueueOK' /\ state[j] = "waiting" /\ state'[j] = "taken" /\ owner'[j] = {w}
         /\ \A i \in Jobs \ {j} : state'[i] = state[i] /\ owner'[i] = owner[i]
BY DEF QueueOK, Q!Claim

\* Settling a job takes it out of the worker's hands.
LEMMA SettleFacts ==
  ASSUME QueueOK, NEW w \in Workers, NEW j \in Jobs,
         Q!Complete(w, j) \/ Q!Retry(w, j) \/ Q!GiveUp(w, j)
  PROVE  /\ QueueOK' /\ state[j] = "taken" /\ owner[j] = {w} /\ owner'[j] = {}
         /\ state'[j] \in {"done", "dead", "waiting"} /\ (Q!Complete(w, j) => state'[j] = "done")
         /\ \A i \in Jobs \ {j} : state'[i] = state[i] /\ owner'[i] = owner[i]
<1>1. PICK s \in {"done", "dead", "waiting"} : Q!Settle(w, j, s) /\ (Q!Complete(w, j) => s = "done")
  BY DEF Q!Complete, Q!Retry, Q!GiveUp, Q!Settle, QueueOK
<1>2. tries' \in [Jobs -> Nat]
  BY DEF Q!Complete, Q!Retry, Q!GiveUp, QueueOK
<1>. QED
  BY <1>1, <1>2 DEF Q!Settle, QueueOK

\* A worker that vanishes lets go of its job.
LEMMA VanishFacts ==
  ASSUME QueueOK, NEW w \in Workers, Q!Vanish({w})
  PROVE  /\ QueueOK' /\ UNCHANGED state
         /\ \A j \in Jobs : owner'[j] = owner[j] \ {w}
BY DEF QueueOK, Q!Vanish

\* The INSERT ... ON CONFLICT of a follow.
LEMMA UpsertFacts ==
  ASSUME RowOK, NEW f \in FollowIds, NEW s \in States \ {"none"}, UpsertFollow(f, s)
  PROVE  /\ RowOK' /\ row'[Pair(f)].act = f /\ row'[Pair(f)].state = s /\ about'[Pair(f)] = f
         /\ \A p \in Pairs : p # Pair(f) => row'[p] = row[p] /\ about'[p] = about[p]
BY KindFacts DEF RowOK, UpsertFollow

\* The UPDATE of a follow's state.
LEMMA SetFacts ==
  ASSUME RowOK, NEW f \in FollowIds, NEW s \in States \ {"none"}, SetFollowState(f, By[f], s)
  PROVE  /\ RowOK'
         /\ \A p \in Pairs : IF row[p].act = f THEN p = Pair(f) /\ row'[p].act = f /\ row'[p].state = s
                              ELSE row'[p] = row[p]
<1>1. \A p \in Pairs : row[p].act = f => p = Pair(f) /\ p[1] = By[f]
  BY KindFacts DEF RowOK
<1>2. \A p \in Pairs : row'[p] = IF row[p].act = f THEN [row[p] EXCEPT !.state = s] ELSE row[p]
  BY <1>1 DEF SetFollowState
<1>3. \A p \in Pairs : row[p].act = f =>
        row'[p].act = f /\ row'[p].state = s /\ row'[p] \in [state : States, act : FollowIds \cup {NoAct}]
  BY <1>2 DEF RowOK
<1>4. row' \in [Pairs -> [state : States, act : FollowIds \cup {NoAct}]]
  BY <1>2, <1>3 DEF RowOK, SetFollowState
<1>5. ASSUME NEW p \in Pairs
      PROVE  IF row'[p].act = NoAct THEN row'[p] = NoRow
             ELSE row'[p].state # "none" /\ Pair(row'[p].act) = p
  <2>1. CASE row[p].act = f
    BY <1>1, <1>3, <2>1, KindFacts
  <2>2. CASE row[p].act # f
    BY <1>2, <2>2 DEF RowOK
  <2>. QED
    BY <2>1, <2>2
<1>. QED
  BY <1>1, <1>2, <1>3, <1>4, <1>5 DEF RowOK, SetFollowState

\* The DELETE of a follow, by the actor who may.
LEMMA DeleteFacts ==
  ASSUME RowOK, NEW f \in FollowIds, NEW b, DeleteFollow(f, b)
  PROVE  /\ RowOK'
         /\ \A p \in Pairs :
              \/ row'[p] = row[p] /\ (row[p].act = f => b # By[f])
              \/ row'[p] = NoRow /\ row[p].act = f /\ b = By[f] /\ p = Pair(f) /\ p[1] = b
         /\ \/ removed' = removed
            \/ removed' = removed \cup {f} /\ row[Pair(f)].act = f /\ row'[Pair(f)] = NoRow
<1>1. \A p \in Pairs : row[p].act = f => p = Pair(f) /\ p[1] = By[f]
  BY KindFacts DEF RowOK
<1>2. \A p \in Pairs : row'[p] = IF row[p].act = f /\ p[1] = b THEN NoRow ELSE row[p]
  BY DEF DeleteFollow
<1>3. NoRow \in [state : States, act : FollowIds \cup {NoAct}] /\ NoRow.act = NoAct
  BY DEF NoRow, States
<1>4. row' \in [Pairs -> [state : States, act : FollowIds \cup {NoAct}]]
  BY <1>3 DEF RowOK, DeleteFollow
<1>5. RowOK'
  BY <1>2, <1>3, <1>4 DEF RowOK, NoRow, DeleteFollow
<1>6. removed' = removed \/ (removed' = removed \cup {f} /\ \E p \in Pairs : row[p].act = f /\ p[1] = b)
  BY DEF DeleteFollow
<1>. QED
  BY <1>1, <1>2, <1>5, <1>6

-------------------------------------------------------------------------------
(***************************************************************************)
(* The steps of workers and requests, without what they do to the tables.  *)
(***************************************************************************)
\* The job of a handler is in its hands alone, and its only one.
LEMMA HandFacts ==
  ASSUME TypeOK, Leases, NEW w \in Workers, NEW j \in Jobs, w \in owner[j]
  PROVE  /\ owner[j] = {w} /\ state[j] = "taken" /\ pc[w] # "idle"
         /\ \A i \in Jobs \ {j} : w \notin owner[i]
BY DEF Leases

\* The handler of job j goes on to another place; other handlers are where they were.
LEMMA MoveFacts ==
  ASSUME TypeOK, Leases, NEW w \in Workers, NEW j \in Jobs, w \in owner[j],
         NEW l \in Stations \ {"idle"}, Goto(w, l), owner' = owner,
         \A i \in Jobs : state[i] = "taken" => state'[i] = "taken",
         \/ UNCHANGED res /\ res[w] = "ok"
         \/ l = "settle" /\ \E how \in {"ok", "error"} : res' = [res EXCEPT ![w] = how]
  PROVE  /\ WorkerOK' /\ Leases' /\ pc'[w] = l
         /\ \A i \in Jobs \ {j} : \A v \in owner[i] : pc'[v] = pc[v] /\ res'[v] = res[v]
<1>1. pc[w] # "idle" /\ \A i \in Jobs \ {j} : w \notin owner[i]
  BY HandFacts
<1>2. WorkerOK' /\ pc'[w] = l /\ \A v \in Workers \ {w} : pc'[v] = pc[v] /\ res'[v] = res[v]
  BY DEF TypeOK, WorkerOK, Stations, Goto
<1>3. l # "settle" => res'[w] = "ok"
  OBVIOUS
<1>4. \A i \in Jobs : \A v \in owner[i] : v \in Workers
  BY DEF TypeOK
<1>5. Leases'
  <2>1. \A i \in Jobs : owner'[i] # {} => state'[i] = "taken"
    BY DEF Leases
  <2>2. /\ \A i \in Jobs : \A u, v \in owner'[i] : u = v
        /\ \A i, h \in Jobs : \A v \in owner'[i] \cap owner'[h] : i = h
    BY DEF Leases
  <2>3. \A v \in Workers : pc'[v] = "idle" => \A i \in Jobs : v \notin owner'[i]
    BY <1>2 DEF Leases
  <2>4. \A v \in Workers : pc'[v] # "settle" => res'[v] = "ok"
    BY <1>2, <1>3 DEF Leases
  <2>. QED
    BY <2>1, <2>2, <2>3, <2>4 DEF Leases
<1>. QED
  BY <1>1, <1>2, <1>4, <1>5

\* Inserting jobs leaves every lease alone.
LEMMA SubmitLeases ==
  ASSUME TypeOK, Leases, NEW J \in SUBSET Jobs, NEW C \in SUBSET J, Q!Submit(J, C),
         UNCHANGED <<pc, res>>
  PROVE  Leases'
<1>1. owner' = owner /\ \A j \in Jobs : state[j] = "taken" => state'[j] = "taken"
  BY SubmitFacts, Parts
<1>. QED
  BY <1>1 DEF Leases

\* An inbox stores the activity and has one job at most to insert.
LEMMA InboxFacts ==
  ASSUME TypeOK, NEW a \in Activities, SharedInbox(a)
  PROVE  /\ QueueOK' /\ owner' = owner
         /\ stored \subseteq stored' /\ stored' \subseteq stored \cup {a}
         /\ \A j \in Jobs : \/ state'[j] = state[j]
                            \/ /\ j = <<"process", a>> /\ a \in stored'
                               /\ state[j] = "none" /\ state'[j] = "waiting"
<1>1. CASE Known(a) /\ UNCHANGED <<stored, queueVars>>
  <2>1. UNCHANGED <<state, owner, capped, tries, stored>>
    BY <1>1 DEF queueVars
  <2>2. QueueOK'
    BY <2>1, Parts DEF QueueOK
  <2>. QED
    BY <2>1, <2>2
<1>2. CASE stored' = stored \cup {a} /\ Q!Submit({<<"process", a>>}, {})
  <2>1. {<<"process", a>>} \in SUBSET Jobs /\ {} \in SUBSET {<<"process", a>>}
    BY JobFacts
  <2>2. Q!Submit({<<"process", a>>}, {})
    BY <1>2
  <2>3. QueueOK
    BY Parts
  <2>. QED
    BY <1>2, <2>1, <2>2, <2>3, SubmitFacts
<1>. QED
  BY <1>1, <1>2 DEF SharedInbox

\* IInv holds at the start.
LEMMA InitIInv == Init => IInv
<1> SUFFICES ASSUME Init PROVE IInv
  OBVIOUS
<1>1. \A p \in Pairs : row[p] = NoRow
  BY DEF Init
<1>2. NoRow \in [state : States, act : FollowIds \cup {NoAct}] /\ NoRow.act = NoAct /\ NoRow.state = "none"
  BY DEF NoRow, States
<1>3. RowOK
  BY <1>1, <1>2 DEF RowOK, Init
<1>4. QueueOK /\ WorkerOK
  BY DEF Init, Q!Init, QueueOK, WorkerOK, Stations
<1>5. TypeOK
  BY <1>3, <1>4, Parts DEF Init
<1>6. \A j \in Jobs : state[j] = "none" /\ owner[j] = {}
  BY DEF Init, Q!Init
<1>7. Leases
  BY <1>6 DEF Leases, Init
<1>8. Sources
  BY <1>1, <1>2, <1>6, JobFacts, KindFacts DEF Sources, Init
<1>9. \A a \in Activities : owner[<<"process", a>>] = {}
  BY <1>6, JobFacts
<1>10. Places
  BY <1>9, AcceptFacts DEF Places, Running
<1>11. AnsweredByFollowee /\ OutboundUndoFinal
  BY <1>1, <1>2 DEF AnsweredByFollowee, OutboundUndoFinal, Init
<1>. QED
  BY <1>5, <1>7, <1>8, <1>10, <1>11 DEF IInv

-------------------------------------------------------------------------------
(***************************************************************************)
(* What keeps each part of the invariant.                                  *)
(***************************************************************************)
\* Jobs do not disappear from the queue, nor activities from the table.
OnlyMore ==
  /\ stored \subseteq stored'
  /\ \A j \in Jobs : state[j] # "none" => state'[j] # "none"

LEMMA SourcesKept ==
  ASSUME Sources, OnlyMore, removed' \subseteq removed \cup stored',
         \A a \in Activities : state'[<<"process", a>>] # "none" =>
           state[<<"process", a>>] # "none" \/ (a \in stored' /\ (a \in FollowIds => a \in Inbound)),
         \A p \in Pairs : row'[p].act \in {row[p].act, NoAct} \/ row'[p].act \in stored'
  PROVE  Sources'
<1>1. \A a \in Activities : state'[<<"process", a>>] # "none" => a \in stored'
  BY DEF Sources, OnlyMore
<1>2. \A f \in FollowIds : state'[<<"process", f>>] # "none" => f \in Inbound
  BY DEF Sources, Activities
<1>3. \A p \in Pairs : row'[p].act # NoAct => row'[p].act \in stored'
  BY DEF Sources, OnlyMore
<1>4. removed' \subseteq stored'
  BY DEF Sources, OnlyMore
<1>. QED
  BY <1>1, <1>2, <1>3, <1>4 DEF Sources

LEMMA PlacesKept ==
  ASSUME Places, OnlyMore,
         \A a \in Activities : \A w \in owner'[<<"process", a>>] :
           \/ w \in owner[<<"process", a>>] /\ pc'[w] = pc[w]
           \/ pc'[w] \in {"begin", "settle"}
           \/ pc'[w] \in {"resolve", "enqueue"} /\ a \in Inbound /\ FollowAutoAccept
           \/ pc'[w] = "setState" /\ a \in Inbound /\ FollowAutoAccept /\ Queued(a)'
           \/ pc'[w] = "update" /\ a \in Answers /\ By[a] = Of[Of[a]]
  PROVE  Places'
<1>1. ASSUME NEW a \in Activities, Running(Accepting, a)'
      PROVE  a \in Inbound /\ FollowAutoAccept
  <2>1. PICK w \in owner'[<<"process", a>>] : pc'[w] \in Accepting
    BY <1>1 DEF Running
  <2>2. w \in owner[<<"process", a>>] /\ pc'[w] = pc[w] => Running(Accepting, a)
    BY <2>1 DEF Running
  <2>. QED
    BY <2>1, <2>2 DEF Places, Accepting
<1>2. ASSUME NEW f \in Inbound, Running({"setState"}, f)'
      PROVE  Queued(f)'
  <2>1. PICK w \in owner'[<<"process", f>>] : pc'[w] = "setState"
    BY <1>2 DEF Running
  <2>2. f \in Activities /\ <<"deliver", AcceptOf[f]>> \in Jobs
    BY AcceptFacts, JobFacts
  <2>3. w \in owner[<<"process", f>>] /\ pc'[w] = pc[w] => Queued(f)
    BY <2>1 DEF Running, Places
  <2>4. Queued(f) => Queued(f)'
    BY <2>2 DEF OnlyMore, Queued
  <2>. QED
    BY <2>1, <2>2, <2>3, <2>4
<1>3. ASSUME NEW a \in Activities, Running({"update"}, a)'
      PROVE  a \in Answers /\ By[a] = Of[Of[a]]
  <2>1. PICK w \in owner'[<<"process", a>>] : pc'[w] = "update"
    BY <1>3 DEF Running
  <2>2. w \in owner[<<"process", a>>] /\ pc'[w] = pc[w] => Running({"update"}, a)
    BY <2>1 DEF Running
  <2>. QED
    BY <2>1, <2>2 DEF Places
<1>. QED
  BY <1>1, <1>2, <1>3 DEF Places

LEMMA AnsweredKept ==
  ASSUME AnsweredByFollowee, OnlyMore,
         \A p \in Pairs : row'[p] = row[p] \/ row'[p].state \notin Verdicts
  PROVE  AnsweredByFollowee'
<1> SUFFICES ASSUME NEW p \in Pairs, row'[p] = row[p], NEW f, f = row[p].act
             PROVE  /\ row[p].state = "accepted" =>
                         \/ AnswerBy(f, "accepted")'
                         \/ f \in Inbound /\ FollowAutoAccept /\ state'[<<"deliver", AcceptOf[f]>>] # "none"
                    /\ row[p].state = "rejected" => AnswerBy(f, "rejected")'
  BY DEF AnsweredByFollowee, AnswerBy, Verdicts
<1>1. \A v : AnswerBy(f, v) => AnswerBy(f, v)'
  BY DEF AnswerBy, OnlyMore
<1>2. f \in Inbound => <<"deliver", AcceptOf[f]>> \in Jobs
  BY AcceptFacts, JobFacts
<1>. QED
  BY <1>1, <1>2 DEF AnsweredByFollowee, OnlyMore

LEMMA UndoneKept ==
  ASSUME OutboundUndoFinal, removed' \subseteq FollowIds,
         \A p \in Pairs : row'[p].act \in {row[p].act, NoAct} \cup Inbound \/ row'[p].act \notin removed',
         \A f \in removed' \ removed : row'[Pair(f)].act = NoAct
  PROVE  OutboundUndoFinal'
<1> SUFFICES ASSUME NEW f \in removed' \ Inbound PROVE row'[Pair(f)].act # f
  BY DEF OutboundUndoFinal, RowOf
<1>1. f \in FollowIds /\ Pair(f) \in Pairs /\ f # NoAct
  BY KindFacts
<1>2. CASE f \in removed
  BY <1>1, <1>2 DEF OutboundUndoFinal, RowOf
<1>3. CASE f \notin removed
  BY <1>1, <1>3
<1>. QED
  BY <1>2, <1>3

-------------------------------------------------------------------------------
(***************************************************************************)
(* Every action keeps the invariant.                                       *)
(***************************************************************************)
\* What arrives at an inbox of this instance: its part of the invariant.
LEMMA ArrivalKeeps ==
  ASSUME IInv, NEW a \in Activities, SharedInbox(a), a \in FollowIds => a \in Inbound,
         UNCHANGED <<row, about, removed>>
  PROVE  /\ QueueOK' /\ owner' = owner /\ stored' \subseteq Activities /\ OnlyMore
         /\ \A j \in Jobs : state[j] = "taken" => state'[j] = "taken"
         /\ Sources' /\ AnsweredByFollowee' /\ OutboundUndoFinal'
<1>1. /\ QueueOK' /\ owner' = owner /\ stored \subseteq stored' /\ stored' \subseteq stored \cup {a}
      /\ \A j \in Jobs : \/ state'[j] = state[j]
                         \/ /\ j = <<"process", a>> /\ a \in stored'
                            /\ state[j] = "none" /\ state'[j] = "waiting"
  BY InboxFacts DEF IInv
<1>2. OnlyMore /\ \A j \in Jobs : state[j] = "taken" => state'[j] = "taken"
  BY <1>1 DEF OnlyMore
<1>3. Sources'
  <2>1. \A b \in Activities : state'[<<"process", b>>] # "none" =>
          state[<<"process", b>>] # "none" \/ (b \in stored' /\ (b \in FollowIds => b \in Inbound))
    BY <1>1, JobFacts
  <2>. QED
    BY <1>2, <2>1, SourcesKept DEF IInv
<1>4. AnsweredByFollowee'
  BY <1>2, AnsweredKept DEF IInv
<1>5. OutboundUndoFinal'
  <2>1. removed' \subseteq FollowIds
    BY DEF IInv, TypeOK
  <2>. QED
    BY <2>1, UndoneKept DEF IInv
<1>. QED
  BY <1>1, <1>2, <1>3, <1>4, <1>5 DEF IInv, TypeOK

LEMMA ReceiveStep ==
  ASSUME IInv, NEW a \in Activities, Receive(a)
  PROVE  IInv'
<1>1. /\ SharedInbox(a) /\ UNCHANGED <<row, about, pc, res, wants, delivered, removed, faults>>
      /\ a \in FollowIds => a \in Inbound
  BY DEF Receive, Inbound
<1>2. /\ QueueOK' /\ owner' = owner /\ stored' \subseteq Activities /\ OnlyMore
      /\ \A j \in Jobs : state[j] = "taken" => state'[j] = "taken"
      /\ Sources' /\ AnsweredByFollowee' /\ OutboundUndoFinal'
  BY <1>1, ArrivalKeeps
<1>3. TypeOK'
  <2>1. RowOK' /\ WorkerOK'
    BY <1>1, Parts DEF IInv, RowOK, WorkerOK
  <2>. QED
    BY <1>1, <1>2, <2>1, PartsAfter DEF IInv, TypeOK
<1>4. Leases'
  BY <1>1, <1>2 DEF IInv, Leases
<1>5. Places'
  BY <1>1, <1>2, PlacesKept DEF IInv
<1>. QED
  BY <1>2, <1>3, <1>4, <1>5 DEF IInv

\* What a publication does to the tables.
LEMMA OutboxFacts ==
  ASSUME IInv, NEW a \in Activities, PostOutbox(a)
  PROVE  /\ QueueOK' /\ owner' = owner /\ stored' = stored \cup {a} /\ a \notin stored /\ OnlyMore
         /\ \A j \in Jobs : \/ state'[j] = state[j]
                            \/ j = <<"deliver", a>> /\ state[j] = "none" /\ state'[j] = "waiting"
                            \/ j = <<"process", a>> /\ a \in Inbound /\ state[j] = "none" /\ state'[j] = "waiting"
         /\ RowOK' /\ removed' \subseteq FollowIds
         /\ \A p \in Pairs :
              \/ row'[p] = row[p]
              \/ a \in FollowIds /\ p = Pair(a) /\ row'[p].act = a
                   /\ row'[p].state = "pending_remote" /\ a \notin Inbound
              \/ a \in Undos /\ p = Pair(Of[a]) /\ row[p].act = Of[a] /\ By[a] = p[1] /\ row'[p] = NoRow
         /\ \/ removed' = removed
            \/ /\ a \in Undos /\ removed' = removed \cup {Of[a]}
               /\ row[Pair(Of[a])].act = Of[a] /\ row'[Pair(Of[a])] = NoRow
<1> DEFINE J == {<<"deliver", a>>} \cup (IF a \in Inbound THEN {<<"process", a>>} ELSE {})
<1>0. RowOK /\ QueueOK /\ removed \subseteq FollowIds
  BY Parts DEF IInv
<1>1. J \in SUBSET Jobs /\ {<<"deliver", a>>} \in SUBSET J
  BY JobFacts
<1>2. a \notin stored /\ stored' = stored \cup {a} /\ Q!Submit(J, {<<"deliver", a>>})
  BY DEF PostOutbox
<1>3. /\ QueueOK' /\ owner' = owner
      /\ \A j \in J : state[j] = "none" /\ state'[j] = "waiting"
      /\ \A j \in Jobs \ J : state'[j] = state[j]
  <2> HIDE DEF J
  <2>. QED
    BY <1>0, <1>1, <1>2, SubmitFacts
<1>4. /\ OnlyMore
      /\ \A j \in Jobs : \/ state'[j] = state[j]
                         \/ j = <<"deliver", a>> /\ state[j] = "none" /\ state'[j] = "waiting"
                         \/ j = <<"process", a>> /\ a \in Inbound /\ state[j] = "none" /\ state'[j] = "waiting"
  BY <1>2, <1>3 DEF OnlyMore
<1>5. CASE a \in FollowIds /\ Of[a] \in Locals /\ UNCHANGED <<row, about, removed>>
  BY <1>0, <1>2, <1>3, <1>4, <1>5 DEF RowOK
<1>6. CASE a \in FollowIds /\ Of[a] \notin Locals /\ UpsertFollow(a, "pending_remote") /\ removed' = removed
  <2>1. "pending_remote" \in States \ {"none"}
    BY DEF States
  <2>2. /\ RowOK' /\ row'[Pair(a)].act = a /\ row'[Pair(a)].state = "pending_remote"
        /\ \A p \in Pairs : p # Pair(a) => row'[p] = row[p]
    BY <1>0, <1>6, <2>1, UpsertFacts
  <2>3. a \notin Inbound
    BY <1>6 DEF Inbound
  <2>. QED
    BY <1>0, <1>2, <1>3, <1>4, <1>6, <2>2, <2>3
<1>7. CASE a \in Undos /\ DeleteFollow(Of[a], By[a])
  <2>1. Of[a] \in FollowIds
    BY <1>7, KindFacts
  <2>2. /\ RowOK'
        /\ \A p \in Pairs :
             \/ row'[p] = row[p]
             \/ row'[p] = NoRow /\ row[p].act = Of[a] /\ p = Pair(Of[a]) /\ p[1] = By[a]
        /\ \/ removed' = removed
           \/ removed' = removed \cup {Of[a]} /\ row[Pair(Of[a])].act = Of[a] /\ row'[Pair(Of[a])] = NoRow
    BY <1>0, <1>7, <2>1, DeleteFacts
  <2>3. removed' \subseteq FollowIds
    BY <1>0, <2>1, <2>2
  <2>. QED
    BY <1>2, <1>3, <1>4, <1>7, <2>2, <2>3
<1>8. CASE a \in Answers /\ UNCHANGED <<row, about, removed>>
  BY <1>0, <1>2, <1>3, <1>4, <1>8 DEF RowOK
<1>. QED
  BY <1>5, <1>6, <1>7, <1>8 DEF PostOutbox, FollowEffects

\* The part of the invariant a publication could disturb.
LEMMA OutboxKeeps ==
  ASSUME IInv, NEW a \in Activities, PostOutbox(a), UNCHANGED <<pc, res, delivered, faults>>, wants' \subseteq Undos
  PROVE  IInv'
<1>1. /\ QueueOK' /\ owner' = owner /\ stored' = stored \cup {a} /\ a \notin stored /\ OnlyMore
      /\ \A j \in Jobs : \/ state'[j] = state[j]
                         \/ j = <<"deliver", a>> /\ state[j] = "none" /\ state'[j] = "waiting"
                         \/ j = <<"process", a>> /\ a \in Inbound /\ state[j] = "none" /\ state'[j] = "waiting"
      /\ RowOK' /\ removed' \subseteq FollowIds
  BY OutboxFacts
<1>2. \A p \in Pairs :
        \/ row'[p] = row[p]
        \/ a \in FollowIds /\ p = Pair(a) /\ row'[p].act = a
             /\ row'[p].state = "pending_remote" /\ a \notin Inbound
        \/ a \in Undos /\ p = Pair(Of[a]) /\ row[p].act = Of[a] /\ row'[p] = NoRow
  BY OutboxFacts
<1>3. \/ removed' = removed
      \/ /\ a \in Undos /\ removed' = removed \cup {Of[a]}
         /\ row[Pair(Of[a])].act = Of[a] /\ row'[Pair(Of[a])] = NoRow
  BY OutboxFacts
<1>4. TypeOK'
  <2>1. WorkerOK'
    BY Parts DEF IInv, WorkerOK
  <2>. QED
    BY <1>1, <2>1, PartsAfter DEF IInv, TypeOK
<1>5. Leases'
  BY <1>1 DEF IInv, Leases
<1>6. NoRow.act = NoAct /\ NoRow.state \notin Verdicts /\ "pending_remote" \notin Verdicts
  BY DEF NoRow, Verdicts
<1>7. Sources'
  <2>1. removed' \subseteq removed \cup stored'
    <3>1. a \in Undos /\ row[Pair(Of[a])].act = Of[a] => Of[a] \in stored
      BY KindFacts DEF IInv, Sources
    <3>. QED
      BY <1>1, <1>3, <3>1
  <2>2. \A b \in Activities : state'[<<"process", b>>] # "none" =>
          state[<<"process", b>>] # "none" \/ (b \in stored' /\ (b \in FollowIds => b \in Inbound))
    BY <1>1, JobFacts
  <2>3. \A p \in Pairs : row'[p].act \in {row[p].act, NoAct} \/ row'[p].act \in stored'
    BY <1>1, <1>2, <1>6
  <2>. QED
    BY <1>1, <2>1, <2>2, <2>3, SourcesKept DEF IInv
<1>8. Places'
  BY <1>1, PlacesKept DEF IInv
<1>9. AnsweredByFollowee'
  BY <1>1, <1>2, <1>6, AnsweredKept DEF IInv
<1>10. OutboundUndoFinal'
  <2>1. a \in FollowIds => a \notin removed'
    BY <1>1, <1>3, KindFacts DEF IInv, Sources
  <2>. QED
    BY <1>1, <1>2, <1>3, <1>6, <2>1, UndoneKept DEF IInv
<1>. QED
  BY <1>4, <1>5, <1>7, <1>8, <1>9, <1>10 DEF IInv

LEMMA PublishStep ==
  ASSUME IInv, NEW a \in Activities, Publish(a)
  PROVE  IInv'
BY OutboxKeeps DEF Publish, IInv, TypeOK

LEMMA UnfollowLookupStep ==
  ASSUME IInv, NEW u \in Undos, UnfollowLookup(u)
  PROVE  IInv'
<1> USE DEF UnfollowLookup, queueVars
<1>1. TypeOK'
  BY DEF IInv, TypeOK
<1>2. OnlyMore
  BY DEF OnlyMore
<1>3. Leases' /\ Sources'
  BY DEF IInv, Leases, Sources
<1>4. Places'
  BY <1>2, PlacesKept DEF IInv
<1>5. AnsweredByFollowee' /\ OutboundUndoFinal'
  BY <1>2, AnsweredKept, UndoneKept DEF IInv, TypeOK
<1>. QED
  BY <1>1, <1>3, <1>4, <1>5 DEF IInv

LEMMA UnfollowPublishStep ==
  ASSUME IInv, NEW u \in Undos, UnfollowPublish(u)
  PROVE  IInv'
BY KindFacts, OutboxKeeps DEF UnfollowPublish, IInv, TypeOK

\* What a step that leaves the tables and the rows alone has to keep.
LEMMA QueueStepKeeps ==
  ASSUME IInv, QueueOK', WorkerOK', Leases', UNCHANGED <<stored, row, about, wants, delivered, removed>>,
         faults' \in Nat, \A j \in Jobs : state[j] # "none" <=> state'[j] # "none",
         \A a \in Activities : \A w \in owner'[<<"process", a>>] :
           \/ w \in owner[<<"process", a>>] /\ pc'[w] = pc[w]
           \/ pc'[w] \in {"begin", "settle"}
           \/ pc'[w] \in {"resolve", "enqueue"} /\ a \in Inbound /\ FollowAutoAccept
           \/ pc'[w] = "update" /\ a \in Answers /\ By[a] = Of[Of[a]]
  PROVE  IInv'
<1>1. TypeOK'
  <2>1. RowOK'
    BY Parts DEF IInv, RowOK
  <2>. QED
    BY <2>1, PartsAfter DEF IInv, TypeOK
<1>2. OnlyMore
  BY DEF OnlyMore
<1>3. Sources'
  <2>1. \A a \in Activities : state'[<<"process", a>>] # "none" => state[<<"process", a>>] # "none"
    BY JobFacts
  <2>. QED
    BY <1>2, <2>1, SourcesKept DEF IInv
<1>4. Places'
  BY <1>2, PlacesKept DEF IInv
<1>5. AnsweredByFollowee' /\ OutboundUndoFinal'
  BY <1>2, AnsweredKept, UndoneKept DEF IInv, TypeOK
<1>. QED
  BY <1>1, <1>3, <1>4, <1>5 DEF IInv

\* A handler at its job: the job is an activity's, and the worker's only one.
LEMMA AtFacts ==
  ASSUME IInv, NEW w \in Workers, NEW l, NEW j \in Jobs, At(w, l, j)
  PROVE  /\ pc[w] = l /\ w \in owner[j] /\ owner[j] = {w} /\ state[j] = "taken"
         /\ \A i \in Jobs \ {j} : w \notin owner[i]
         /\ (l # "settle" => res[w] = "ok") /\ l \in Stations \ {"idle"}
<1>1. l # "settle" => res[w] = "ok"
  BY DEF At, IInv, Leases
<1>2. l \in Stations
  BY DEF At, IInv, TypeOK, Stations
<1>. QED
  BY <1>1, <1>2, HandFacts DEF At, IInv

LEMMA ClaimStep ==
  ASSUME IInv, NEW w \in Workers, NEW j \in Jobs, Claim(w, j)
  PROVE  IInv'
<1>1. /\ QueueOK' /\ state[j] = "waiting" /\ state'[j] = "taken" /\ owner'[j] = {w}
      /\ \A i \in Jobs \ {j} : state'[i] = state[i] /\ owner'[i] = owner[i]
  BY ClaimFacts, Parts DEF Claim, IInv
<1>2. /\ WorkerOK' /\ pc'[w] \in {"post", "begin"} /\ UNCHANGED res
      /\ pc'[w] = "post" => j[1] = "deliver"
      /\ \A v \in Workers \ {w} : pc'[v] = pc[v]
  BY Parts DEF Claim, Goto, IInv, WorkerOK, Stations
<1>3. pc[w] = "idle" /\ \A i \in Jobs : w \notin owner[i]
  BY DEF Claim, IInv, Leases
<1>4. \A i \in Jobs : \A v \in owner[i] : v \in Workers \ {w}
  BY <1>3 DEF IInv, TypeOK
<1>5. Leases'
  <2>1. \A i \in Jobs : owner'[i] # {} => state'[i] = "taken"
    BY <1>1 DEF IInv, Leases
  <2>2. \A i \in Jobs : \A u, v \in owner'[i] : u = v
    BY <1>1 DEF IInv, Leases
  <2>3. \A i, h \in Jobs : \A v \in owner'[i] \cap owner'[h] : i = h
    BY <1>1, <1>4 DEF IInv, Leases
  <2>4. \A v \in Workers : pc'[v] = "idle" => \A i \in Jobs : v \notin owner'[i]
    BY <1>1, <1>2 DEF IInv, Leases
  <2>5. \A v \in Workers : pc'[v] # "settle" => res'[v] = "ok"
    BY <1>2, <1>3 DEF IInv, Leases
  <2>. QED
    BY <2>1, <2>2, <2>3, <2>4, <2>5 DEF Leases
<1>6. ASSUME NEW a \in Activities, NEW v \in owner'[<<"process", a>>]
      PROVE  (v \in owner[<<"process", a>>] /\ pc'[v] = pc[v]) \/ pc'[v] \in {"begin", "settle"}
  <2>1. CASE j = <<"process", a>>
    <3>1. j[1] # "deliver"
      BY <2>1
    <3>. QED
      BY <1>1, <1>2, <2>1, <3>1
  <2>2. CASE j # <<"process", a>>
    BY <1>1, <1>2, <1>4, <2>2, JobFacts
  <2>. QED
    BY <2>1, <2>2
<1>7. /\ UNCHANGED <<stored, row, about, wants, delivered, removed>> /\ faults' \in Nat
      /\ \A i \in Jobs : state[i] # "none" <=> state'[i] # "none"
  BY <1>1 DEF Claim, IInv, TypeOK
<1>. QED
  BY <1>1, <1>2, <1>5, <1>6, <1>7, QueueStepKeeps

LEMMA SettleStep ==
  ASSUME IInv, NEW w \in Workers, NEW j \in Jobs, Settle(w, j)
  PROVE  IInv'
<1>1. /\ QueueOK' /\ state[j] = "taken" /\ owner[j] = {w} /\ owner'[j] = {}
      /\ state'[j] \in {"done", "dead", "waiting"}
      /\ \A i \in Jobs \ {j} : state'[i] = state[i] /\ owner'[i] = owner[i]
  BY SettleFacts, Parts DEF Settle, IInv
<1>2. /\ WorkerOK' /\ pc'[w] = "idle" /\ res'[w] = "ok"
      /\ \A v \in Workers \ {w} : pc'[v] = pc[v] /\ res'[v] = res[v]
  BY Parts DEF Settle, Goto, IInv, WorkerOK, Stations
<1>3. \A i \in Jobs : \A v \in owner'[i] : v \in owner[i] /\ v \in Workers \ {w}
  BY <1>1 DEF IInv, TypeOK, Leases
<1>4. Leases'
  BY <1>1, <1>2, <1>3 DEF IInv, Leases
<1>5. \A a \in Activities : \A v \in owner'[<<"process", a>>] :
        v \in owner[<<"process", a>>] /\ pc'[v] = pc[v]
  BY <1>2, <1>3, JobFacts
<1>6. /\ UNCHANGED <<stored, row, about, wants, delivered, removed>> /\ faults' \in Nat
      /\ \A i \in Jobs : state[i] # "none" <=> state'[i] # "none"
  BY <1>1 DEF Settle, IInv, TypeOK
<1>. QED
  BY <1>1, <1>2, <1>4, <1>5, <1>6, QueueStepKeeps

LEMMA VanishStep ==
  ASSUME IInv, NEW w \in Workers, Vanish(w)
  PROVE  IInv'
<1>1. QueueOK' /\ UNCHANGED state /\ \A j \in Jobs : owner'[j] = owner[j] \ {w}
  BY VanishFacts, Parts DEF Vanish, IInv
<1>2. /\ WorkerOK' /\ pc'[w] = "idle" /\ res'[w] = "ok"
      /\ \A v \in Workers \ {w} : pc'[v] = pc[v] /\ res'[v] = res[v]
  BY Parts DEF Vanish, Goto, IInv, WorkerOK, Stations
<1>3. \A i \in Jobs : \A v \in owner'[i] : v \in owner[i] /\ v \in Workers \ {w}
  BY <1>1 DEF IInv, TypeOK
<1>4. Leases'
  BY <1>1, <1>2, <1>3 DEF IInv, Leases
<1>5. \A a \in Activities : \A v \in owner'[<<"process", a>>] :
        v \in owner[<<"process", a>>] /\ pc'[v] = pc[v]
  BY <1>2, <1>3, JobFacts
<1>6. UNCHANGED <<stored, row, about, wants, delivered, removed>> /\ faults' \in Nat
  BY DEF Vanish, Fault, IInv, TypeOK
<1>. QED
  BY <1>1, <1>2, <1>4, <1>5, <1>6, QueueStepKeeps

LEMMA FailStep ==
  ASSUME IInv, NEW w \in Workers, Fail(w)
  PROVE  IInv'
<1>1. /\ pc[w] # "idle" /\ UNCHANGED <<state, owner, capped, tries>>
      /\ UNCHANGED <<stored, row, about, wants, delivered, removed>> /\ faults' \in Nat
  BY DEF Fail, Fault, queueVars, IInv, TypeOK
<1>2. /\ WorkerOK' /\ pc'[w] = "settle"
      /\ \A v \in Workers \ {w} : pc'[v] = pc[v] /\ res'[v] = res[v]
  BY Parts DEF Fail, End, Goto, IInv, WorkerOK, Stations
<1>3. QueueOK'
  BY <1>1, Parts DEF IInv, QueueOK
<1>4. Leases'
  BY <1>1, <1>2 DEF IInv, Leases
<1>5. \A a \in Activities : \A v \in owner'[<<"process", a>>] :
        (v \in owner[<<"process", a>>] /\ pc'[v] = pc[v]) \/ pc'[v] = "settle"
  BY <1>1, <1>2, JobFacts DEF IInv, TypeOK
<1>. QED
  BY <1>1, <1>2, <1>3, <1>4, <1>5, QueueStepKeeps

\* A handler's step that touches no job: its part of the invariant.
LEMMA HandlerStep ==
  ASSUME IInv, NEW w \in Workers, NEW l \in Stations \ {"idle"}, NEW j \in Jobs, w \in owner[j],
         UNCHANGED queueVars, Goto(w, l),
         \/ UNCHANGED res /\ res[w] = "ok"
         \/ l = "settle" /\ \E how \in {"ok", "error"} : res' = [res EXCEPT ![w] = how]
  PROVE  /\ QueueOK' /\ WorkerOK' /\ Leases' /\ UNCHANGED <<state, owner>> /\ pc'[w] = l
         /\ \A i \in Jobs \ {j} : \A v \in owner[i] : pc'[v] = pc[v] /\ res'[v] = res[v]
<1>1. UNCHANGED <<state, owner, capped, tries>>
  BY DEF queueVars
<1>2. QueueOK'
  BY <1>1, Parts DEF IInv, QueueOK
<1>. QED
  BY <1>1, <1>2, MoveFacts DEF IInv

LEMMA ResolveInboxStep ==
  ASSUME IInv, NEW w \in Workers, NEW f \in Activities, ResolveInbox(w, f)
  PROVE  IInv'
<1> DEFINE j == <<"process", f>>
<1>1. j \in Jobs /\ At(w, "resolve", j)
  BY JobFacts DEF ResolveInbox
<1>2. w \in owner[j] /\ owner[j] = {w} /\ res[w] = "ok" /\ pc[w] = "resolve"
  BY <1>1, AtFacts
<1>3. f \in Inbound /\ FollowAutoAccept
  BY <1>2 DEF IInv, Places, Running, Accepting
<1>4. /\ QueueOK' /\ WorkerOK' /\ Leases' /\ UNCHANGED <<state, owner>> /\ pc'[w] = "enqueue"
      /\ \A i \in Jobs \ {j} : \A v \in owner[i] : pc'[v] = pc[v]
  <2> HIDE DEF j
  <2>. QED
    BY <1>1, <1>2, HandlerStep DEF ResolveInbox, Stations
<1>5. ASSUME NEW a \in Activities, NEW v \in owner'[<<"process", a>>]
      PROVE  \/ v \in owner[<<"process", a>>] /\ pc'[v] = pc[v]
             \/ pc'[v] = "enqueue" /\ a \in Inbound /\ FollowAutoAccept
  <2>1. CASE a = f
    BY <1>2, <1>3, <1>4, <2>1
  <2>2. CASE a # f
    BY <1>4, <2>2, JobFacts
  <2>. QED
    BY <2>1, <2>2
<1>. QED
  BY <1>4, <1>5, QueueStepKeeps DEF ResolveInbox, IInv, TypeOK

LEMMA HandleAnswerStep ==
  ASSUME IInv, NEW w \in Workers, NEW a \in Activities, HandleAnswer(w, a)
  PROVE  IInv'
<1> DEFINE j == <<"process", a>>
<1>1. j \in Jobs /\ At(w, "begin", j) /\ a \in Answers
  BY JobFacts DEF HandleAnswer
<1>2. w \in owner[j] /\ owner[j] = {w} /\ res[w] = "ok"
  BY <1>1, AtFacts
<1>3. \/ \E how \in {"ok", "error"} : End(w, how)
      \/ Goto(w, "update") /\ UNCHANGED res /\ \E p \in Pairs : row[p].act = Of[a] /\ p[2] = By[a]
  BY DEF HandleAnswer
<1>4. \A p \in Pairs : row[p].act = Of[a] /\ p[2] = By[a] => By[a] = Of[Of[a]]
  BY <1>1, KindFacts DEF IInv, TypeOK, Pair
<1>5. PICK l \in {"settle", "update"} :
        /\ Goto(w, l) /\ (l = "update" => By[a] = Of[Of[a]])
        /\ \/ UNCHANGED res
           \/ l = "settle" /\ \E how \in {"ok", "error"} : res' = [res EXCEPT ![w] = how]
  BY <1>3, <1>4 DEF End
<1>6. /\ QueueOK' /\ WorkerOK' /\ Leases' /\ UNCHANGED <<state, owner>> /\ pc'[w] = l
      /\ \A i \in Jobs \ {j} : \A v \in owner[i] : pc'[v] = pc[v]
  <2> HIDE DEF j
  <2>1. l \in Stations \ {"idle"} /\ UNCHANGED queueVars
    BY DEF Stations, HandleAnswer
  <2>. QED
    BY <1>1, <1>2, <1>5, <2>1, HandlerStep
<1>7. ASSUME NEW b \in Activities, NEW v \in owner'[<<"process", b>>]
      PROVE  \/ v \in owner[<<"process", b>>] /\ pc'[v] = pc[v]
             \/ pc'[v] = "settle"
             \/ pc'[v] = "update" /\ b \in Answers /\ By[b] = Of[Of[b]]
  <2>1. CASE b = a
    BY <1>1, <1>2, <1>5, <1>6, <2>1
  <2>2. CASE b # a
    BY <1>6, <2>2, JobFacts
  <2>. QED
    BY <2>1, <2>2
<1>. QED
  BY <1>6, <1>7, QueueStepKeeps DEF HandleAnswer, IInv, TypeOK

LEMMA DeliverStep ==
  ASSUME IInv, NEW w \in Workers, NEW a \in Activities, Deliver(w, a)
  PROVE  IInv'
<1> DEFINE j == <<"deliver", a>>
<1>1. j \in Jobs /\ At(w, "post", j)
  BY JobFacts DEF Deliver
<1>2. w \in owner[j] /\ res[w] = "ok"
  BY <1>1, AtFacts
<1>3. /\ Goto(w, "settle") /\ \E how \in {"ok", "error"} : res' = [res EXCEPT ![w] = how]
      /\ faults' \in Nat /\ UNCHANGED <<row, about, wants, removed>> /\ Arrive(a)
  BY DEF Deliver, End, Fault, IInv, TypeOK
<1>4. /\ QueueOK' /\ owner' = owner /\ stored' \subseteq Activities /\ OnlyMore /\ delivered' \subseteq Activities
      /\ \A i \in Jobs : state[i] = "taken" => state'[i] = "taken"
      /\ Sources' /\ AnsweredByFollowee' /\ OutboundUndoFinal'
  <2>1. CASE SharedInbox(a) /\ delivered' = delivered \cup {a} /\ Recipient(a) \in Locals
    <3>1. a \in FollowIds => a \in Inbound
      BY <2>1, KindFacts DEF Recipient, Inbound
    <3>. QED
      BY <1>3, <2>1, <3>1, ArrivalKeeps DEF IInv, TypeOK
  <2>2. CASE delivered' = delivered \cup {a} /\ UNCHANGED <<stored, queueVars>>
    <3>1. UNCHANGED <<state, owner, capped, tries, stored>> /\ OnlyMore
      BY <2>2 DEF queueVars, OnlyMore
    <3>2. QueueOK'
      BY <3>1, Parts DEF IInv, QueueOK
    <3>3. Sources'
      BY <1>3, <3>1, SourcesKept DEF IInv
    <3>4. AnsweredByFollowee' /\ OutboundUndoFinal'
      BY <1>3, <3>1, AnsweredKept, UndoneKept DEF IInv, TypeOK
    <3>. QED
      BY <2>2, <3>1, <3>2, <3>3, <3>4 DEF IInv, TypeOK
  <2>. QED
    BY <1>3, <2>1, <2>2 DEF Arrive
<1>5. /\ WorkerOK' /\ Leases'
      /\ \A i \in Jobs \ {j} : \A v \in owner[i] : pc'[v] = pc[v]
  <2> HIDE DEF j
  <2>1. "settle" \in Stations \ {"idle"}
    BY DEF Stations
  <2>. QED
    BY <1>1, <1>2, <1>3, <1>4, <2>1, MoveFacts DEF IInv
<1>6. TypeOK'
  <2>1. RowOK'
    BY <1>3, Parts DEF IInv, RowOK
  <2>. QED
    BY <1>3, <1>4, <1>5, <2>1, PartsAfter DEF IInv, TypeOK
<1>7. Places'
  <2>1. \A b \in Activities : \A v \in owner'[<<"process", b>>] :
          v \in owner[<<"process", b>>] /\ pc'[v] = pc[v]
    BY <1>4, <1>5, JobFacts
  <2>. QED
    BY <1>4, <2>1, PlacesKept DEF IInv
<1>. QED
  BY <1>4, <1>5, <1>6, <1>7 DEF IInv

LEMMA EnqueueAcceptStep ==
  ASSUME IInv, NEW w \in Workers, NEW f \in Activities, EnqueueAccept(w, f)
  PROVE  IInv'
<1> DEFINE j == <<"process", f>>
           k == <<"deliver", AcceptOf[f]>>
<1>1. j \in Jobs /\ At(w, "enqueue", j)
  BY JobFacts DEF EnqueueAccept
<1>2. w \in owner[j] /\ owner[j] = {w} /\ res[w] = "ok" /\ pc[w] = "enqueue"
  BY <1>1, AtFacts
<1>3. f \in Inbound /\ FollowAutoAccept
  BY <1>2 DEF IInv, Places, Running, Accepting
<1>4. k \in Jobs /\ \A b \in Activities : <<"process", b>> # k
  BY <1>3, AcceptFacts, JobFacts
<1>5. CASE state[k] # "none" /\ End(w, "error") /\ UNCHANGED queueVars
  <2>1. /\ QueueOK' /\ WorkerOK' /\ Leases' /\ UNCHANGED <<state, owner>> /\ pc'[w] = "settle"
        /\ \A i \in Jobs \ {j} : \A v \in owner[i] : pc'[v] = pc[v]
    <3> HIDE DEF j, k
    <3>. QED
      BY <1>1, <1>2, <1>5, HandlerStep DEF End, Stations
  <2>2. \A b \in Activities : \A v \in owner'[<<"process", b>>] :
          (v \in owner[<<"process", b>>] /\ pc'[v] = pc[v]) \/ pc'[v] = "settle"
    BY <1>2, <2>1, JobFacts
  <2>. QED
    BY <2>1, <2>2, QueueStepKeeps DEF EnqueueAccept, IInv, TypeOK
<1>6. CASE state[k] = "none" /\ Q!Submit({k}, {k}) /\ Goto(w, "setState") /\ UNCHANGED res
  <2>1. /\ QueueOK' /\ owner' = owner /\ state'[k] = "waiting"
        /\ \A i \in Jobs \ {k} : state'[i] = state[i]
    <3> HIDE DEF k
    <3>1. {k} \in SUBSET Jobs /\ {k} \in SUBSET {k} /\ QueueOK
      BY <1>4, Parts DEF IInv
    <3>. QED
      BY <1>6, <3>1, SubmitFacts
  <2>2. /\ WorkerOK' /\ Leases' /\ pc'[w] = "setState"
        /\ \A i \in Jobs \ {j} : \A v \in owner[i] : pc'[v] = pc[v]
    <3> HIDE DEF j, k
    <3>1. "setState" \in Stations \ {"idle"} /\ \A i \in Jobs : state[i] = "taken" => state'[i] = "taken"
      BY <1>6, <2>1 DEF Stations
    <3>. QED
      BY <1>1, <1>2, <1>6, <2>1, <3>1, MoveFacts DEF IInv
  <2>3. UNCHANGED <<stored, row, about, wants, delivered, removed, faults>> /\ OnlyMore
    <3> HIDE DEF k
    <3>. QED
      BY <2>1 DEF EnqueueAccept, OnlyMore
  <2>4. TypeOK'
    <3>1. RowOK'
      BY <2>3, Parts DEF IInv, RowOK
    <3>. QED
      BY <2>1, <2>2, <2>3, <3>1, PartsAfter DEF IInv, TypeOK
  <2>5. Sources'
    <3>1. \A b \in Activities : state'[<<"process", b>>] = state[<<"process", b>>]
      BY <1>4, <2>1, JobFacts
    <3>. QED
      BY <2>3, <3>1, SourcesKept DEF IInv
  <2>6. Places'
    <3>1. \A b \in Activities : \A v \in owner'[<<"process", b>>] :
            \/ v \in owner[<<"process", b>>] /\ pc'[v] = pc[v]
            \/ pc'[v] = "setState" /\ b \in Inbound /\ FollowAutoAccept /\ Queued(b)'
      BY <1>2, <1>3, <2>1, <2>2, JobFacts DEF Queued
    <3>. QED
      BY <2>3, <3>1, PlacesKept DEF IInv
  <2>7. AnsweredByFollowee' /\ OutboundUndoFinal'
    BY <2>3, AnsweredKept, UndoneKept DEF IInv, TypeOK
  <2>. QED
    BY <2>2, <2>4, <2>5, <2>6, <2>7 DEF IInv
<1>. QED
  BY <1>5, <1>6 DEF EnqueueAccept

\* A handler's statement on the follows table, at its last or at its first place.
LEMMA RowStepKeeps ==
  ASSUME IInv, NEW w \in Workers, NEW a \in Activities,
         w \in owner[<<"process", a>>], owner[<<"process", a>>] = {w},
         NEW l \in {"settle", "resolve"}, Goto(w, l), l = "resolve" => a \in Inbound /\ FollowAutoAccept,
         \/ UNCHANGED res /\ res[w] = "ok"
         \/ l = "settle" /\ \E how \in {"ok", "error"} : res' = [res EXCEPT ![w] = how],
         UNCHANGED <<queueVars, stored, wants, delivered, faults>>,
         RowOK', removed' \subseteq FollowIds, removed' \subseteq removed \cup stored,
         \A p \in Pairs : row'[p].act \in {row[p].act, NoAct} \/ (row'[p].act \in stored /\ row'[p].act \in Inbound),
         \A f \in removed' \ removed : row'[Pair(f)].act = NoAct,
         AnsweredByFollowee'
  PROVE  IInv'
<1> DEFINE j == <<"process", a>>
<1>1. /\ QueueOK' /\ WorkerOK' /\ Leases' /\ UNCHANGED <<state, owner>> /\ pc'[w] = l
      /\ \A i \in Jobs \ {j} : \A v \in owner[i] : pc'[v] = pc[v]
  <2>1. j \in Jobs /\ l \in Stations \ {"idle"}
    BY JobFacts DEF Stations
  <2> HIDE DEF j
  <2>. QED
    BY <2>1, HandlerStep DEF j
<1>2. TypeOK'
  BY <1>1, PartsAfter DEF IInv, TypeOK
<1>3. OnlyMore
  BY <1>1 DEF OnlyMore
<1>4. Sources'
  BY <1>1, <1>3, SourcesKept DEF IInv
<1>5. Places'
  <2>1. \A b \in Activities : \A v \in owner'[<<"process", b>>] :
          \/ v \in owner[<<"process", b>>] /\ pc'[v] = pc[v]
          \/ pc'[v] = "settle"
          \/ pc'[v] = "resolve" /\ b \in Inbound /\ FollowAutoAccept
    BY <1>1, JobFacts
  <2>. QED
    BY <1>3, <2>1, PlacesKept DEF IInv
<1>6. OutboundUndoFinal'
  BY UndoneKept DEF IInv
<1>. QED
  BY <1>1, <1>2, <1>4, <1>5, <1>6 DEF IInv

LEMMA HandleFollowStep ==
  ASSUME IInv, NEW w \in Workers, NEW f \in Activities, HandleFollow(w, f)
  PROVE  IInv'
<1>1. /\ f \in FollowIds /\ <<"process", f>> \in Jobs /\ At(w, "begin", <<"process", f>>)
      /\ UpsertFollow(f, "pending") /\ UNCHANGED <<queueVars, stored, wants, delivered, removed, faults>>
  BY JobFacts DEF HandleFollow
<1>2. w \in owner[<<"process", f>>] /\ owner[<<"process", f>>] = {w} /\ res[w] = "ok" /\ state[<<"process", f>>] = "taken"
  BY <1>1, AtFacts
<1>3. f \in Inbound /\ f \in stored
  BY <1>1, <1>2 DEF IInv, Sources
<1>4. /\ RowOK' /\ row'[Pair(f)].act = f /\ row'[Pair(f)].state = "pending"
      /\ \A p \in Pairs : p # Pair(f) => row'[p] = row[p]
  <2>1. RowOK /\ "pending" \in States \ {"none"}
    BY Parts DEF IInv, States
  <2>. QED
    BY <1>1, <2>1, UpsertFacts
<1>5. AnsweredByFollowee'
  <2>1. OnlyMore
    BY <1>1 DEF OnlyMore, queueVars
  <2>. QED
    BY <1>4, <2>1, AnsweredKept DEF IInv, Verdicts
<1>6. PICK l \in {"settle", "resolve"} :
        /\ Goto(w, l) /\ (l = "resolve" => FollowAutoAccept)
        /\ \/ UNCHANGED res
           \/ l = "settle" /\ \E how \in {"ok", "error"} : res' = [res EXCEPT ![w] = how]
  BY DEF HandleFollow, End
<1>7. removed' \subseteq FollowIds /\ removed' \subseteq removed \cup stored
  BY <1>1 DEF IInv, TypeOK
<1>. QED
  BY <1>1, <1>2, <1>3, <1>4, <1>5, <1>6, <1>7, RowStepKeeps

\* What a settled row needs.
LEMMA SetKeeps ==
  ASSUME IInv, NEW w \in Workers, NEW a \in Activities, At(w, "setState", <<"process", a>>) \/ At(w, "update", <<"process", a>>),
         NEW f \in FollowIds, NEW s \in Verdicts, SetFollowState(f, By[f], s), End(w, "ok"),
         UNCHANGED <<queueVars, stored, wants, delivered, removed, faults>>,
         \/ s = "accepted" /\ f \in Inbound /\ FollowAutoAccept /\ Queued(f)
         \/ AnswerBy(f, s)
  PROVE  IInv'
<1>1. w \in owner[<<"process", a>>] /\ owner[<<"process", a>>] = {w}
  BY JobFacts, AtFacts
<1>2. /\ RowOK'
      /\ \A p \in Pairs : IF row[p].act = f THEN row'[p].act = f /\ row'[p].state = s
                           ELSE row'[p] = row[p]
  <2>1. RowOK /\ s \in States \ {"none"}
    BY Parts DEF IInv, States, Verdicts
  <2>. QED
    BY <2>1, SetFacts
<1>3. AnsweredByFollowee'
  <2>1. UNCHANGED <<state, stored>>
    BY DEF queueVars
  <2>2. \A g, v : AnswerBy(g, v) <=> AnswerBy(g, v)'
    BY <2>1 DEF AnswerBy
  <2> SUFFICES ASSUME NEW p \in Pairs, NEW g, g = row'[p].act
               PROVE  /\ row'[p].state = "accepted" =>
                           \/ AnswerBy(g, "accepted")'
                           \/ g \in Inbound /\ FollowAutoAccept /\ state'[<<"deliver", AcceptOf[g]>>] # "none"
                      /\ row'[p].state = "rejected" => AnswerBy(g, "rejected")'
    BY DEF AnsweredByFollowee, AnswerBy
  <2>3. CASE row[p].act = f
    <3>1. g = f /\ row'[p].state = s
      BY <1>2, <2>3
    <3>. QED
      BY <2>1, <2>2, <3>1 DEF Queued, Verdicts
  <2>4. CASE row[p].act # f
    <3>1. g = row[p].act /\ row'[p].state = row[p].state
      BY <1>2, <2>4
    <3>. QED
      BY <2>1, <2>2, <3>1 DEF IInv, AnsweredByFollowee
  <2>. QED
    BY <2>3, <2>4
<1>4. /\ \A p \in Pairs : row'[p].act = row[p].act
      /\ removed' \subseteq FollowIds /\ removed' \subseteq removed \cup stored
  BY <1>2 DEF IInv, TypeOK
<1>5. Goto(w, "settle") /\ \E how \in {"ok", "error"} : res' = [res EXCEPT ![w] = how]
  BY DEF End
<1>. QED
  BY <1>1, <1>2, <1>3, <1>4, <1>5, RowStepKeeps

LEMMA SetAcceptedStep ==
  ASSUME IInv, NEW w \in Workers, NEW f \in Activities, SetAccepted(w, f)
  PROVE  IInv'
<1>1. w \in owner[<<"process", f>>] /\ pc[w] = "setState"
  BY DEF SetAccepted, At
<1>2. f \in Inbound /\ FollowAutoAccept /\ Queued(f)
  BY <1>1 DEF IInv, Places, Running, Accepting
<1>3. f \in FollowIds /\ "accepted" \in Verdicts
  BY <1>2 DEF Inbound, Verdicts
<1>. QED
  BY <1>2, <1>3, SetKeeps DEF SetAccepted

LEMMA UpdateAnsweredStep ==
  ASSUME IInv, NEW w \in Workers, NEW a \in Activities, UpdateAnswered(w, a)
  PROVE  IInv'
<1>1. At(w, "update", <<"process", a>>)
  BY DEF UpdateAnswered
<1>2. a \in stored /\ a \in Answers /\ By[a] = Of[Of[a]]
  <2>1. state[<<"process", a>>] = "taken" /\ w \in owner[<<"process", a>>] /\ pc[w] = "update"
    BY <1>1, JobFacts, AtFacts
  <2>. QED
    BY <2>1 DEF IInv, Places, Running, Sources
<1>3. Of[a] \in FollowIds /\ Verdict[a] \in Verdicts
  BY <1>2, KindFacts
<1>4. AnswerBy(Of[a], Verdict[a])
  BY <1>2 DEF AnswerBy
<1>. QED
  BY <1>1, <1>3, <1>4, SetKeeps DEF UpdateAnswered

LEMMA HandleUndoStep ==
  ASSUME IInv, NEW w \in Workers, NEW u \in Activities, HandleUndo(w, u)
  PROVE  IInv'
<1>1. /\ u \in Undos /\ Of[u] \in FollowIds /\ At(w, "begin", <<"process", u>>)
      /\ DeleteFollow(Of[u], By[u]) /\ UNCHANGED <<queueVars, stored, wants, delivered, faults>>
  BY KindFacts DEF HandleUndo
<1>2. w \in owner[<<"process", u>>] /\ owner[<<"process", u>>] = {w}
  BY <1>1, JobFacts, AtFacts
<1>3. /\ RowOK' /\ \A p \in Pairs : row'[p] \in {row[p], NoRow}
      /\ \/ removed' = removed
         \/ removed' = removed \cup {Of[u]} /\ row[Pair(Of[u])].act = Of[u] /\ row'[Pair(Of[u])] = NoRow
  BY <1>1, Parts, DeleteFacts DEF IInv
<1>4. NoRow.act = NoAct /\ NoRow.state \notin Verdicts
  BY DEF NoRow, Verdicts
<1>5. removed' \subseteq FollowIds /\ removed' \subseteq removed \cup stored
  <2>1. row[Pair(Of[u])].act = Of[u] => Of[u] \in stored
    BY <1>1, KindFacts DEF IInv, Sources
  <2>. QED
    BY <1>1, <1>3, <2>1 DEF IInv, TypeOK
<1>6. AnsweredByFollowee'
  <2>1. OnlyMore
    BY <1>1 DEF OnlyMore, queueVars
  <2>. QED
    BY <1>3, <1>4, <2>1, AnsweredKept DEF IInv
<1>7. Goto(w, "settle") /\ \E how \in {"ok", "error"} : res' = [res EXCEPT ![w] = how]
  BY DEF HandleUndo, End
<1>8. /\ \A p \in Pairs : row'[p].act \in {row[p].act, NoAct}
      /\ \A f \in removed' \ removed : row'[Pair(f)].act = NoAct
  BY <1>3, <1>4
<1>. QED
  BY <1>1, <1>2, <1>3, <1>5, <1>6, <1>7, <1>8, RowStepKeeps

LEMMA NextIInv == IInv /\ [Next]_vars => IInv'
<1> SUFFICES ASSUME IInv, [Next]_vars PROVE IInv'
  OBVIOUS
<1>1. CASE UNCHANGED vars
  <2> USE <1>1 DEF vars, queueVars
  <2>1. TypeOK' /\ Leases' /\ Sources'
    BY DEF IInv, TypeOK, Leases, Sources
  <2>2. OnlyMore
    BY DEF OnlyMore
  <2>3. Places' /\ AnsweredByFollowee' /\ OutboundUndoFinal'
    BY <2>2, PlacesKept, AnsweredKept, UndoneKept DEF IInv, TypeOK
  <2>. QED
    BY <2>1, <2>3 DEF IInv
<1>2. CASE \E a \in Activities : Receive(a) \/ Publish(a)
  BY <1>2, ReceiveStep, PublishStep
<1>3. CASE \E u \in Undos : UnfollowLookup(u) \/ UnfollowPublish(u)
  BY <1>3, UnfollowLookupStep, UnfollowPublishStep
<1>4. CASE \E w \in Workers : \E j \in Jobs : Claim(w, j) \/ Settle(w, j)
  BY <1>4, ClaimStep, SettleStep
<1>5. CASE \E w \in Workers : \E a \in Activities : Handle(w, a)
  BY <1>5, HandleFollowStep, ResolveInboxStep, EnqueueAcceptStep, SetAcceptedStep,
     HandleAnswerStep, UpdateAnsweredStep, HandleUndoStep, DeliverStep DEF Handle
<1>6. CASE \E w \in Workers : Fail(w) \/ Vanish(w)
  BY <1>6, FailStep, VanishStep
<1>. QED
  BY <1>1, <1>2, <1>3, <1>4, <1>5, <1>6 DEF Next

\* IInv holds in every reachable state.
LEMMA Invariance == Spec => []IInv
  BY InitIInv, NextIInv, PTL DEF Spec

\* The types of Follows.
THEOREM TypeCorrect == Spec => []TypeOK
<1>1. IInv => TypeOK
  BY DEF IInv
<1>. QED
  BY <1>1, Invariance, PTL

\* Nobody but the followee settles a follow, and only the Follow its row is about
\* (handleFollow, handleAccept, handleReject).
THEOREM FolloweeAnswers == Spec => []AnsweredByFollowee
<1>1. IInv => AnsweredByFollowee
  BY DEF IInv
<1>. QED
  BY <1>1, Invariance, PTL

\* The unfollow of a local user is final, whatever answers arrive after it (handleUndo,
\* persistOutboxAndEnqueue).
THEOREM UndoneStaysUndone == Spec => []OutboundUndoFinal
<1>1. IInv => OutboundUndoFinal
  BY DEF IInv
<1>. QED
  BY <1>1, Invariance, PTL

-------------------------------------------------------------------------------
(***************************************************************************)
(* Only the follower takes a follow away.                                  *)
(***************************************************************************)
Undoes(p) == \E u \in Undos \cap stored' : By[u] = p[1] /\ Of[u] = row[p].act

LEMMA OutboxUndoes ==
  ASSUME IInv, NEW a \in Activities, PostOutbox(a), NEW p \in Pairs, row[p].act # NoAct, row'[p].act = NoAct
  PROVE  Undoes(p)
<1>1. a \in Undos /\ row[p].act = Of[a] /\ By[a] = p[1] /\ stored' = stored \cup {a}
  BY OutboxFacts, KindFacts
<1>. QED
  BY <1>1 DEF Undoes

LEMMA HandlerUndoes ==
  ASSUME IInv, NEW w \in Workers, NEW a \in Activities, Handle(w, a),
         NEW p \in Pairs, row[p].act # NoAct, row'[p].act = NoAct
  PROVE  Undoes(p)
<1>0. RowOK
  BY Parts DEF IInv
<1>1. CASE HandleFollow(w, a)
  <2>1. a \in FollowIds /\ UpsertFollow(a, "pending") /\ "pending" \in States \ {"none"}
    BY <1>1 DEF HandleFollow, States
  <2>. QED
    BY <1>0, <2>1, UpsertFacts, KindFacts
<1>2. CASE SetAccepted(w, a) \/ UpdateAnswered(w, a)
  <2>1. PICK f, b, s : SetFollowState(f, b, s)
    BY <1>2 DEF SetAccepted, UpdateAnswered
  <2>. QED
    BY <2>1, <1>0 DEF RowOK, SetFollowState
<1>3. CASE HandleUndo(w, a)
  <2>1. /\ a \in Undos /\ Of[a] \in FollowIds /\ DeleteFollow(Of[a], By[a]) /\ UNCHANGED stored
        /\ At(w, "begin", <<"process", a>>)
    BY <1>3, KindFacts DEF HandleUndo
  <2>2. a \in stored
    <3>1. <<"process", a>> \in Jobs
      BY JobFacts
    <3>2. state[<<"process", a>>] = "taken"
      BY <2>1, <3>1, AtFacts
    <3>. QED
      BY <3>2 DEF IInv, Sources
  <2>3. row[p].act = Of[a] /\ p[1] = By[a]
    BY <1>0, <2>1, DeleteFacts
  <2>. QED
    BY <2>1, <2>2, <2>3 DEF Undoes
<1>4. CASE UNCHANGED row
  BY <1>4
<1>. QED
  BY <1>1, <1>2, <1>3, <1>4 DEF Handle, ResolveInbox, EnqueueAccept, HandleAnswer, Deliver

\* Only an Undo of that very Follow by its follower takes a follow away (handleUndo,
\* FollowEffects of the outbox).
THEOREM UndoneByFollower == Spec => OnlyFollowerUndoes
<1>1. IInv /\ [Next]_vars => [\A p \in Pairs : row[p].act # NoAct /\ row'[p].act = NoAct => Undoes(p)]_vars
  <2> SUFFICES ASSUME IInv, Next, NEW p \in Pairs, row[p].act # NoAct, row'[p].act = NoAct
               PROVE  Undoes(p)
    OBVIOUS
  <2>1. CASE \E a \in Activities : Publish(a)
    BY <2>1, OutboxUndoes DEF Publish
  <2>2. CASE \E u \in Undos : UnfollowPublish(u)
    BY <2>2, OutboxUndoes, KindFacts DEF UnfollowPublish
  <2>3. CASE \E w \in Workers : \E a \in Activities : Handle(w, a)
    BY <2>3, HandlerUndoes
  <2>4. CASE UNCHANGED row
    BY <2>4
  <2>. QED
    BY <2>1, <2>2, <2>3, <2>4 DEF Next, Receive, UnfollowLookup, Claim, Settle, Fail, Vanish
<1>2. Spec => [][\A p \in Pairs : row[p].act # NoAct /\ row'[p].act = NoAct => Undoes(p)]_vars
  BY <1>1, Invariance, PTL DEF Spec
<1>. QED
  BY <1>2 DEF OnlyFollowerUndoes, Undoes
-------------------------------------------------------------------------------
(***************************************************************************)
(* The Follow a row is about.                                              *)
(***************************************************************************)
AboutStays == \A p \in Pairs : about[p] # NoAct => about'[p] # NoAct

\* What a step may do to the rows: leave one, write it for a Follow, or take it away for
\* an Undo of its Follow by its follower.
RowMoves ==
  /\ stored \subseteq stored'
  /\ \A p \in Pairs :
       \/ row'[p].act = row[p].act /\ about'[p] = about[p]
       \/ row'[p].act # NoAct /\ about'[p] = row'[p].act
       \/ /\ row'[p].act = NoAct /\ about'[p] = about[p] /\ row[p].act # NoAct
          /\ \E u \in Undos \cap stored' : Of[u] = row[p].act /\ By[u] = By[row[p].act]

LEMMA WrittenKept ==
  ASSUME LastWritten, RowMoves
  PROVE  LastWritten' /\ AboutStays
<1> DEFINE Gone(f) == \E a \in stored' : Withdraws(a, f)
<1>1. \A f : Withdrawn(f) => Gone(f)
  BY DEF Withdrawn, RowMoves
<1>2. \A f : (\E u \in Undos \cap stored' : Of[u] = f /\ By[u] = By[f]) => Gone(f)
  BY DEF Withdraws
<1> HIDE DEF Gone
<1>3. ASSUME NEW p \in Pairs
      PROVE  /\ about[p] # NoAct => about'[p] # NoAct
             /\ row'[p].act # NoAct => about'[p] = row'[p].act
             /\ row'[p].act = NoAct /\ about'[p] # NoAct => Gone(about'[p])
  <2>1. CASE row'[p].act = row[p].act /\ about'[p] = about[p]
    BY <1>1, <2>1 DEF LastWritten
  <2>2. CASE row'[p].act # NoAct /\ about'[p] = row'[p].act
    BY <2>2
  <2>3. CASE /\ row'[p].act = NoAct /\ about'[p] = about[p] /\ row[p].act # NoAct
             /\ \E u \in Undos \cap stored' : Of[u] = row[p].act /\ By[u] = By[row[p].act]
    BY <1>2, <2>3 DEF LastWritten
  <2>. QED
    BY <2>1, <2>2, <2>3 DEF RowMoves
<1>. QED
  BY <1>3 DEF LastWritten, AboutStays, Withdrawn, Gone

\* A step that leaves the rows alone.
LEMMA StillMoves ==
  ASSUME UNCHANGED <<row, about>>, stored \subseteq stored'
  PROVE  RowMoves
BY DEF RowMoves

LEMMA UpsertMoves ==
  ASSUME IInv, NEW f \in FollowIds, NEW s \in States \ {"none"}, UpsertFollow(f, s), stored \subseteq stored'
  PROVE  RowMoves
<1>1. /\ row'[Pair(f)].act = f /\ about'[Pair(f)] = f /\ f # NoAct
      /\ \A p \in Pairs : p # Pair(f) => row'[p] = row[p] /\ about'[p] = about[p]
  BY UpsertFacts, Parts, KindFacts DEF IInv
<1>2. \A p \in Pairs : p = Pair(f) => row'[p].act # NoAct /\ about'[p] = row'[p].act
  BY <1>1
<1>. QED
  BY <1>1, <1>2 DEF RowMoves

LEMMA SetMoves ==
  ASSUME IInv, NEW f \in FollowIds, NEW s \in States \ {"none"}, SetFollowState(f, By[f], s), UNCHANGED stored
  PROVE  RowMoves
<1>1. \A p \in Pairs : row'[p].act = row[p].act
  BY SetFacts, Parts DEF IInv
<1>. QED
  BY <1>1 DEF RowMoves, SetFollowState

LEMMA DeleteMoves ==
  ASSUME IInv, NEW u \in Undos, u \in stored', DeleteFollow(Of[u], By[u]), stored \subseteq stored'
  PROVE  RowMoves
<1>1. /\ Of[u] \in FollowIds /\ Of[u] # NoAct /\ UNCHANGED about
  BY KindFacts DEF DeleteFollow
<1>2. \A p \in Pairs : \/ row'[p] = row[p]
                       \/ row'[p] = NoRow /\ row[p].act = Of[u] /\ By[u] = By[Of[u]]
  BY <1>1, DeleteFacts, Parts DEF IInv
<1>3. NoRow.act = NoAct
  BY DEF NoRow
<1>. QED
  BY <1>1, <1>2, <1>3 DEF RowMoves

LEMMA OutboxMoves ==
  ASSUME IInv, NEW a \in Activities, PostOutbox(a)
  PROVE  RowMoves
<1>1. stored' = stored \cup {a}
  BY DEF PostOutbox
<1>2. CASE a \in FollowIds /\ UpsertFollow(a, "pending_remote")
  <2>1. "pending_remote" \in States \ {"none"}
    BY DEF States
  <2>. QED
    BY <1>1, <1>2, <2>1, UpsertMoves
<1>3. CASE a \in Undos /\ DeleteFollow(Of[a], By[a])
  BY <1>1, <1>3, DeleteMoves
<1>4. CASE UNCHANGED <<row, about>>
  BY <1>1, <1>4, StillMoves
<1>. QED
  BY <1>2, <1>3, <1>4 DEF PostOutbox, FollowEffects

LEMMA HandlerMoves ==
  ASSUME IInv, NEW w \in Workers, NEW a \in Activities,
         HandleFollow(w, a) \/ SetAccepted(w, a) \/ UpdateAnswered(w, a) \/ HandleUndo(w, a)
  PROVE  RowMoves
<1>1. CASE HandleFollow(w, a)
  <2>1. a \in FollowIds /\ UpsertFollow(a, "pending") /\ UNCHANGED stored /\ "pending" \in States \ {"none"}
    BY <1>1 DEF HandleFollow, States
  <2>. QED
    BY <2>1, UpsertMoves
<1>2. CASE SetAccepted(w, a)
  <2>1. At(w, "setState", <<"process", a>>) /\ SetFollowState(a, By[a], "accepted") /\ UNCHANGED stored
    BY <1>2 DEF SetAccepted
  <2>2. a \in FollowIds /\ "accepted" \in States \ {"none"}
    BY <2>1, AcceptFacts DEF At, IInv, Places, Running, Accepting, States
  <2>. QED
    BY <2>1, <2>2, SetMoves
<1>3. CASE UpdateAnswered(w, a)
  <2>1. At(w, "update", <<"process", a>>) /\ SetFollowState(Of[a], By[Of[a]], Verdict[a]) /\ UNCHANGED stored
    BY <1>3 DEF UpdateAnswered
  <2>2. a \in Answers
    BY <2>1 DEF At, IInv, Places, Running
  <2>3. Of[a] \in FollowIds /\ Verdict[a] \in States \ {"none"}
    BY <2>2, KindFacts DEF Verdicts, States
  <2>. QED
    BY <2>1, <2>3, SetMoves
<1>4. CASE HandleUndo(w, a)
  <2>1. /\ At(w, "begin", <<"process", a>>) /\ a \in Undos /\ DeleteFollow(Of[a], By[a])
        /\ UNCHANGED stored
    BY <1>4 DEF HandleUndo
  <2>2. <<"process", a>> \in Jobs
    BY JobFacts
  <2>3. state[<<"process", a>>] = "taken"
    BY <2>1, <2>2, AtFacts
  <2>4. a \in stored'
    BY <2>1, <2>3 DEF IInv, Sources
  <2>. QED
    BY <2>1, <2>4, DeleteMoves
<1>. QED
  BY <1>1, <1>2, <1>3, <1>4

LEMMA StepMoves ==
  ASSUME IInv, [Next]_vars
  PROVE  RowMoves
<1>1. CASE \E a \in Activities : Publish(a)
  BY <1>1, OutboxMoves DEF Publish
<1>2. CASE \E u \in Undos : UnfollowPublish(u)
  BY <1>2, OutboxMoves, KindFacts DEF UnfollowPublish
<1>3. CASE \E a \in Activities : Receive(a)
  BY <1>3, InboxFacts, StillMoves DEF Receive, IInv
<1>4. CASE \E w \in Workers, a \in Activities : Deliver(w, a)
  BY <1>4, InboxFacts, StillMoves DEF Deliver, Arrive, IInv
<1>5. CASE UNCHANGED <<row, about, stored>>
  BY <1>5, StillMoves
<1>6. CASE \E w \in Workers, a \in Activities : Handle(w, a)
  BY <1>4, <1>5, <1>6, HandlerMoves DEF Handle, ResolveInbox, EnqueueAccept, HandleAnswer
<1>7. CASE \/ \E u \in Undos : UnfollowLookup(u)
           \/ \E w \in Workers : Fail(w) \/ Vanish(w) \/ \E j \in Jobs : Claim(w, j) \/ Settle(w, j)
  BY <1>5, <1>7 DEF UnfollowLookup, Fail, Vanish, Claim, Settle
<1>. QED
  BY <1>1, <1>2, <1>3, <1>5, <1>6, <1>7 DEF Next, vars

LEMMA WrittenStep == IInv /\ LastWritten /\ [Next]_vars => LastWritten' /\ AboutStays
BY StepMoves, WrittenKept

LEMMA InitWritten == Init => LastWritten
BY DEF Init, LastWritten, NoRow

-------------------------------------------------------------------------------
(***************************************************************************)
(* Agreement without faults.                                               *)
(***************************************************************************)
BeforeQueued == {"begin", "resolve", "enqueue"}

\* A step that changes no row, and that takes no Follow on to its Accept.
LEMMA AgreementKept ==
  ASSUME IInv, Agreement, OnlyMore, UNCHANGED <<row, about>>, faults' = 0 => faults = 0,
         \A f \in Inbound :
           /\ Queued(f)' => Queued(f)
           /\ Told(f)' => Told(f) \/ Queued(f)
           /\ Running(Accepting, f)' => Running(Accepting, f)
           /\ faults' = 0 =>
                /\ state'[<<"process", f>>] \in {"none", "waiting"} => state[<<"process", f>>] \in {"none", "waiting"}
                /\ Running(BeforeQueued, f)' => Running(BeforeQueued, f) \/ state[<<"process", f>>] = "waiting"
                /\ \A w \in owner'[<<"process", f>>] : res'[w] = "ok"
                /\ Running(Accepting, f) => Running(Accepting, f)'
  PROVE  Agreement'
<1>1. Once'
  BY DEF Agreement, Once, BeforeQueued
<1>2. ASSUME NEW f \in Inbound
      PROVE  Queued(f) => Queued(f)'
  BY AcceptFacts, JobFacts DEF OnlyMore, Queued
<1>3. AcceptsQueued'
  BY <1>2 DEF Agreement, AcceptsQueued
<1>4. PendingMoves'
  <2> SUFFICES ASSUME NEW p \in Pairs, NEW f, f = row[p].act
               PROVE  /\ row[p].state = "pending_remote" => f \notin Inbound
                      /\ row[p].state = "pending" =>
                           f \in Inbound /\ (faults' = 0 /\ FollowAutoAccept => Running(Accepting, f)')
    BY DEF PendingMoves
  <2>. QED
    BY DEF Agreement, PendingMoves
<1>5. Upserted'
  BY <1>2 DEF Agreement, Upserted
<1>. QED
  BY <1>1, <1>3, <1>4, <1>5 DEF Agreement

\* A step that does not touch the jobs of the Follows, except that it may submit them.
LEMMA OthersAgree ==
  ASSUME IInv, Agreement, OnlyMore, UNCHANGED <<row, about>>, faults' = 0 => faults = 0,
         \A f \in Inbound :
           /\ Queued(f)' => Queued(f)
           /\ Told(f)' => Told(f) \/ Queued(f)
           /\ state'[<<"process", f>>] = state[<<"process", f>>] \/ state[<<"process", f>>] = "none"
           /\ owner'[<<"process", f>>] = owner[<<"process", f>>]
           /\ \A w \in owner[<<"process", f>>] : pc'[w] = pc[w] /\ res'[w] = res[w]
  PROVE  Agreement'
<1>1. ASSUME NEW f \in Inbound
      PROVE  /\ Queued(f)' => Queued(f)
             /\ Told(f)' => Told(f) \/ Queued(f)
             /\ Running(Accepting, f)' => Running(Accepting, f)
             /\ faults' = 0 =>
                  /\ state'[<<"process", f>>] \in {"none", "waiting"} => state[<<"process", f>>] \in {"none", "waiting"}
                  /\ Running(BeforeQueued, f)' => Running(BeforeQueued, f) \/ state[<<"process", f>>] = "waiting"
                  /\ \A w \in owner'[<<"process", f>>] : res'[w] = "ok"
                  /\ Running(Accepting, f) => Running(Accepting, f)'
  <2>1. faults' = 0 => \A w \in owner'[<<"process", f>>] : res'[w] = "ok"
    BY DEF Agreement, Once
  <2>2. /\ Running(Accepting, f)' <=> Running(Accepting, f)
        /\ Running(BeforeQueued, f)' <=> Running(BeforeQueued, f)
    BY DEF Running
  <2>. QED
    BY <2>1, <2>2
<1>. QED
  BY <1>1, AgreementKept

LEMMA ReceiveAgrees ==
  ASSUME IInv, Agreement, NEW a \in Activities, Receive(a)
  PROVE  Agreement'
<1>1. /\ QueueOK' /\ owner' = owner /\ stored \subseteq stored' /\ stored' \subseteq stored \cup {a}
      /\ \A j \in Jobs : \/ state'[j] = state[j]
                         \/ /\ j = <<"process", a>> /\ a \in stored'
                            /\ state[j] = "none" /\ state'[j] = "waiting"
  BY InboxFacts DEF Receive, IInv
<1>2. OnlyMore
  BY <1>1 DEF OnlyMore
<1>3. By[a] \in Remotes /\ UNCHANGED <<row, about, pc, res, wants, delivered, removed, faults>>
  BY DEF Receive
<1>4. ASSUME NEW f \in Inbound
      PROVE  /\ Queued(f)' => Queued(f)
             /\ Told(f)' => Told(f) \/ Queued(f)
             /\ state'[<<"process", f>>] = state[<<"process", f>>] \/ state[<<"process", f>>] = "none"
  <2>1. f \in Activities /\ AcceptOf[f] \in Activities /\ AcceptOf[f] # a
    BY <1>3, AcceptFacts, FollowsAssumption
  <2>2. Queued(f)' => Queued(f)
    BY <1>1, <2>1, JobFacts DEF Queued
  <2>3. Told(f)' => Told(f)
    BY <1>1, <1>3, <2>1 DEF Told
  <2>. QED
    BY <1>1, <2>1, <2>2, <2>3, JobFacts
<1>. QED
  BY <1>1, <1>2, <1>3, <1>4, OthersAgree

LEMMA OutboxAgrees ==
  ASSUME IInv, Agreement, AboutStays, NEW a \in Activities, PostOutbox(a), a \notin {AcceptOf[f] : f \in Inbound},
         UNCHANGED <<pc, res, delivered, faults>>
  PROVE  Agreement'
<1>1. /\ owner' = owner /\ stored' = stored \cup {a} /\ OnlyMore
      /\ \A j \in Jobs : \/ state'[j] = state[j]
                         \/ j = <<"deliver", a>> /\ state[j] = "none" /\ state'[j] = "waiting"
                         \/ j = <<"process", a>> /\ a \in Inbound /\ state[j] = "none" /\ state'[j] = "waiting"
  BY OutboxFacts
<1>2. \A p \in Pairs :
        \/ row'[p] = row[p]
        \/ row'[p].state = "pending_remote" /\ row'[p].act = a /\ a \in FollowIds \ Inbound
        \/ a \in Undos /\ p = Pair(Of[a]) /\ row'[p] = NoRow
  BY OutboxFacts
<1>3. ASSUME NEW f \in Inbound
      PROVE  /\ Queued(f)' <=> Queued(f)
             /\ Told(f)' <=> Told(f)
             /\ state'[<<"process", f>>] = state[<<"process", f>>] \/ state[<<"process", f>>] = "none"
  <2>1. f \in Activities /\ AcceptOf[f] \in Activities /\ AcceptOf[f] # a
    BY AcceptFacts
  <2>2. Queued(f)' <=> Queued(f)
    BY <1>1, <2>1, JobFacts DEF Queued, OnlyMore
  <2>3. Told(f)' <=> Told(f)
    BY <1>1, <2>1 DEF Told
  <2>. QED
    BY <1>1, <2>1, <2>2, <2>3, JobFacts
<1>4. \A f \in Inbound : \A ls : Running(ls, f)' <=> Running(ls, f)
  BY <1>1 DEF Running
<1>5. Once'
  BY <1>1, <1>3, <1>4 DEF Agreement, Once
<1>6. AcceptsQueued'
  BY <1>3 DEF Agreement, AcceptsQueued
<1>7. NoRow.state = "none"
  BY DEF NoRow
<1>8. PendingMoves'
  <2> SUFFICES ASSUME NEW p \in Pairs, row'[p] = row[p], NEW f, f = row[p].act
               PROVE  /\ row[p].state = "pending_remote" => f \notin Inbound
                      /\ row[p].state = "pending" =>
                           f \in Inbound /\ (faults' = 0 /\ FollowAutoAccept => Running(Accepting, f)')
    BY <1>2, <1>7 DEF PendingMoves
  <2>. QED
    BY <1>4 DEF Agreement, PendingMoves
<1>9. Upserted'
  <2>1. ASSUME NEW f \in Inbound, Queued(f)' \/ Running(Accepting, f)'
        PROVE  about[Pair(f)] # NoAct /\ Pair(f) \in Pairs
    BY <1>3, <1>4, <2>1, AcceptFacts, KindFacts DEF Agreement, Upserted
  <2>. QED
    BY <2>1 DEF Upserted, AboutStays
<1>. QED
  BY <1>5, <1>6, <1>8, <1>9 DEF Agreement

LEMMA UnfollowLookupAgrees ==
  ASSUME IInv, Agreement, NEW u \in Undos, UnfollowLookup(u)
  PROVE  Agreement'
<1> USE DEF UnfollowLookup, queueVars
<1>1. OnlyMore
  BY DEF OnlyMore
<1>2. \A f \in Inbound : (Queued(f)' => Queued(f)) /\ (Told(f)' => Told(f))
  BY DEF Queued, Told
<1>. QED
  BY <1>1, <1>2, OthersAgree

LEMMA HandleAnswerAgrees ==
  ASSUME IInv, Agreement, NEW w \in Workers, NEW a \in Activities, HandleAnswer(w, a)
  PROVE  Agreement'
<1>1. /\ a \in Answers /\ At(w, "begin", <<"process", a>>)
      /\ UNCHANGED <<state, owner, stored, row, about, delivered, faults>>
      /\ \A v \in Workers \ {w} : pc'[v] = pc[v] /\ res'[v] = res[v]
  BY DEF HandleAnswer, End, Goto, queueVars, IInv, TypeOK
<1>2. OnlyMore
  BY <1>1 DEF OnlyMore
<1>3. \A f \in Inbound : (Queued(f)' => Queued(f)) /\ (Told(f)' => Told(f))
  BY <1>1 DEF Queued, Told
<1>4. ASSUME NEW f \in Inbound, NEW v \in owner[<<"process", f>>]
      PROVE  v \in Workers \ {w}
  <2>1. f \in Activities /\ f # a
    BY <1>1, KindFacts, AcceptFacts
  <2>2. <<"process", a>> \in Jobs /\ <<"process", f>> \in Jobs \ {<<"process", a>>}
    BY <2>1, JobFacts
  <2>. QED
    BY <1>1, <2>2, AtFacts DEF IInv, TypeOK
<1>. QED
  BY <1>1, <1>2, <1>3, <1>4, OthersAgree

LEMMA DeliverAgrees ==
  ASSUME IInv, Agreement, NEW w \in Workers, NEW a \in Activities, Deliver(w, a)
  PROVE  Agreement'
<1> DEFINE j == <<"deliver", a>>
<1>1. /\ j \in Jobs /\ At(w, "post", j) /\ state[j] = "taken"
      /\ \A i \in Jobs \ {j} : w \notin owner[i]
  <2>1. j \in Jobs /\ At(w, "post", j)
    BY JobFacts DEF Deliver
  <2> HIDE DEF j
  <2>. QED
    BY <2>1, AtFacts
<1>2. /\ owner' = owner /\ stored \subseteq stored' /\ stored' \subseteq stored \cup {a}
      /\ delivered' \subseteq delivered \cup {a}
      /\ \A i \in Jobs : \/ state'[i] = state[i]
                         \/ i = <<"process", a>> /\ state[i] = "none" /\ state'[i] = "waiting"
  <2>1. CASE SharedInbox(a) /\ delivered' = delivered \cup {a}
    BY <2>1, InboxFacts DEF IInv
  <2>2. CASE delivered' = delivered \cup {a} /\ UNCHANGED <<stored, queueVars>>
    BY <2>2 DEF queueVars
  <2>. QED
    BY <2>1, <2>2 DEF Deliver, Arrive
<1>3. /\ UNCHANGED <<row, about>> /\ (faults' = 0 => faults = 0)
      /\ \A v \in Workers \ {w} : pc'[v] = pc[v] /\ res'[v] = res[v]
  BY DEF Deliver, End, Goto, Fault, IInv, TypeOK
<1>4. OnlyMore
  BY <1>2 DEF OnlyMore
<1>5. ASSUME NEW f \in Inbound
      PROVE  /\ Queued(f)' => Queued(f)
             /\ Told(f)' => Told(f) \/ Queued(f)
             /\ state'[<<"process", f>>] = state[<<"process", f>>] \/ state[<<"process", f>>] = "none"
             /\ \A v \in owner[<<"process", f>>] : v \in Workers \ {w}
  <2>1. f \in Activities /\ AcceptOf[f] \in Activities
    BY AcceptFacts
  <2>2. Queued(f)' => Queued(f)
    BY <1>2, <2>1, JobFacts DEF Queued
  <2>3. Told(f)' => Told(f) \/ Queued(f)
    BY <1>1, <1>2 DEF Told, Queued
  <2>4. <<"process", f>> \in Jobs \ {j}
    BY <2>1, JobFacts
  <2>. QED
    BY <1>1, <1>2, <2>2, <2>3, <2>4 DEF IInv, TypeOK
<1>6. \A f \in Inbound : /\ owner'[<<"process", f>>] = owner[<<"process", f>>]
                         /\ \A v \in owner[<<"process", f>>] : pc'[v] = pc[v] /\ res'[v] = res[v]
  BY <1>2, <1>3, <1>5
<1>. QED
  BY <1>3, <1>4, <1>5, <1>6, OthersAgree

LEMMA ClaimAgrees ==
  ASSUME IInv, Agreement, NEW w \in Workers, NEW j \in Jobs, Claim(w, j)
  PROVE  Agreement'
<1>1. /\ state[j] = "waiting" /\ state'[j] = "taken" /\ owner'[j] = {w} /\ owner[j] = {}
      /\ \A i \in Jobs \ {j} : state'[i] = state[i] /\ owner'[i] = owner[i]
  BY ClaimFacts, Parts DEF Claim, IInv, Leases
<1>2. /\ pc'[w] \in {"post", "begin"} /\ res' = res /\ res[w] = "ok"
      /\ \A v \in Workers \ {w} : pc'[v] = pc[v]
      /\ UNCHANGED <<stored, row, about, delivered, faults>>
  BY DEF Claim, Goto, IInv, TypeOK, Leases
<1>3. OnlyMore
  BY <1>1, <1>2 DEF OnlyMore
<1>4. \A i \in Jobs : \A v \in owner[i] : v \in Workers \ {w}
  BY DEF Claim, IInv, TypeOK, Leases
<1>5. ASSUME NEW f \in Inbound
      PROVE  /\ Queued(f)' => Queued(f)
             /\ Told(f)' => Told(f) \/ Queued(f)
             /\ Running(Accepting, f)' => Running(Accepting, f)
             /\ faults' = 0 =>
                  /\ state'[<<"process", f>>] \in {"none", "waiting"} => state[<<"process", f>>] \in {"none", "waiting"}
                  /\ Running(BeforeQueued, f)' => Running(BeforeQueued, f) \/ state[<<"process", f>>] = "waiting"
                  /\ \A v \in owner'[<<"process", f>>] : res'[v] = "ok"
                  /\ Running(Accepting, f) => Running(Accepting, f)'
  <2>1. /\ <<"process", f>> \in Jobs /\ <<"deliver", AcceptOf[f]>> \in Jobs
        /\ f \in Activities
    BY AcceptFacts, JobFacts
  <2>2. (Queued(f)' => Queued(f)) /\ (Told(f)' => Told(f))
    BY <1>1, <1>2, <2>1 DEF Queued, Told
  <2>3. faults' = 0 => \A v \in owner'[<<"process", f>>] : res'[v] = "ok"
    BY <1>1, <1>2, <2>1 DEF Agreement, Once
  <2>4. CASE j = <<"process", f>>
    <3>1. ~Running(Accepting, f) /\ ~Running(Accepting, f)'
      BY <1>1, <1>2, <2>4 DEF Running, Accepting
    <3>. QED
      BY <1>1, <2>2, <2>3, <2>4, <3>1
  <2>5. CASE j # <<"process", f>>
    <3>1. /\ Running(Accepting, f)' <=> Running(Accepting, f)
          /\ Running(BeforeQueued, f)' <=> Running(BeforeQueued, f)
      BY <1>1, <1>2, <1>4, <2>1, <2>5 DEF Running
    <3>. QED
      BY <1>1, <2>1, <2>2, <2>3, <2>5, <3>1
  <2>. QED
    BY <2>4, <2>5
<1>. QED
  BY <1>2, <1>3, <1>5, AgreementKept

\* A step after which a worker has no job; without a fault it has settled one that is done.
LEMMA LetGoAgrees ==
  ASSUME IInv, Agreement, NEW w \in Workers, UNCHANGED <<stored, row, about, delivered>>, faults' = 0 => faults = 0,
         \A j \in Jobs : state[j] # "none" <=> state'[j] # "none",
         \A j \in Jobs : owner'[j] = owner[j] \ {w},
         \A v \in Workers \ {w} : pc'[v] = pc[v] /\ res'[v] = res[v],
         faults' = 0 => pc[w] = "settle" /\ \A f \in Inbound :
           state'[<<"process", f>>] \in {"none", "waiting"} => state[<<"process", f>>] \in {"none", "waiting"}
  PROVE  Agreement'
<1>1. OnlyMore
  BY DEF OnlyMore
<1>2. ASSUME NEW f \in Inbound
      PROVE  /\ Queued(f)' => Queued(f)
             /\ Told(f)' => Told(f) \/ Queued(f)
             /\ Running(Accepting, f)' => Running(Accepting, f)
             /\ faults' = 0 =>
                  /\ state'[<<"process", f>>] \in {"none", "waiting"} => state[<<"process", f>>] \in {"none", "waiting"}
                  /\ Running(BeforeQueued, f)' => Running(BeforeQueued, f) \/ state[<<"process", f>>] = "waiting"
                  /\ \A v \in owner'[<<"process", f>>] : res'[v] = "ok"
                  /\ Running(Accepting, f) => Running(Accepting, f)'
  <2>1. /\ <<"process", f>> \in Jobs /\ <<"deliver", AcceptOf[f]>> \in Jobs
    BY AcceptFacts, JobFacts
  <2>2. (Queued(f)' => Queued(f)) /\ (Told(f)' => Told(f))
    BY <2>1 DEF Queued, Told
  <2>3. \A v \in owner'[<<"process", f>>] : v \in owner[<<"process", f>>] /\ v \in Workers \ {w}
    BY <2>1 DEF IInv, TypeOK
  <2>4. faults' = 0 => \A v \in owner'[<<"process", f>>] : res'[v] = "ok"
    BY <2>3 DEF Agreement, Once
  <2>5. /\ Running(Accepting, f)' => Running(Accepting, f)
        /\ Running(BeforeQueued, f)' => Running(BeforeQueued, f)
    BY <2>3 DEF Running
  <2>6. faults' = 0 => (Running(Accepting, f) => Running(Accepting, f)')
    BY <2>1, <2>3 DEF Running, Accepting, IInv, TypeOK
  <2>. QED
    BY <2>2, <2>4, <2>5, <2>6
<1>. QED
  BY <1>1, <1>2, AgreementKept

LEMMA SettleAgrees ==
  ASSUME IInv, Agreement, NEW w \in Workers, NEW j \in Jobs, Settle(w, j)
  PROVE  Agreement'
<1>1. /\ state[j] = "taken" /\ owner[j] = {w} /\ owner'[j] = {}
      /\ state'[j] \in {"done", "dead", "waiting"} /\ (Q!Complete(w, j) => state'[j] = "done")
      /\ \A i \in Jobs \ {j} : state'[i] = state[i] /\ owner'[i] = owner[i]
  BY SettleFacts, Parts DEF Settle, IInv
<1>2. /\ At(w, "settle", j) /\ (res[w] = "ok" => Q!Complete(w, j))
      /\ \A v \in Workers \ {w} : pc'[v] = pc[v] /\ res'[v] = res[v]
      /\ UNCHANGED <<stored, row, about, delivered, faults>>
  BY DEF Settle, Goto, IInv, TypeOK
<1>3. \A i \in Jobs : owner'[i] = owner[i] \ {w}
  BY <1>1, <1>2, AtFacts
<1>4. ASSUME faults' = 0, NEW f \in Inbound, state'[<<"process", f>>] \in {"none", "waiting"}
      PROVE  state[<<"process", f>>] \in {"none", "waiting"}
  <2>1. <<"process", f>> \in Jobs
    BY AcceptFacts, JobFacts
  <2>2. CASE j = <<"process", f>>
    <3>1. res[w] = "ok"
      BY <1>1, <1>2, <1>4, <2>2 DEF Agreement, Once
    <3>. QED
      BY <1>1, <1>2, <1>4, <2>2, <3>1
  <2>3. CASE j # <<"process", f>>
    BY <1>1, <1>4, <2>1, <2>3
  <2>. QED
    BY <2>2, <2>3
<1>5. /\ \A i \in Jobs : state[i] # "none" <=> state'[i] # "none"
      /\ pc[w] = "settle"
  BY <1>1, <1>2 DEF At
<1>. QED
  BY <1>2, <1>3, <1>4, <1>5, LetGoAgrees

LEMMA VanishAgrees ==
  ASSUME IInv, Agreement, NEW w \in Workers, Vanish(w)
  PROVE  Agreement'
<1>1. UNCHANGED state /\ \A j \in Jobs : owner'[j] = owner[j] \ {w}
  BY VanishFacts, Parts DEF Vanish, IInv
<1>2. /\ faults' # 0 /\ UNCHANGED <<stored, row, about, delivered>>
      /\ \A v \in Workers \ {w} : pc'[v] = pc[v] /\ res'[v] = res[v]
  BY DEF Vanish, Fault, Goto, IInv, TypeOK
<1>. QED
  BY <1>1, <1>2, LetGoAgrees

LEMMA FailAgrees ==
  ASSUME IInv, Agreement, NEW w \in Workers, Fail(w)
  PROVE  Agreement'
<1>1. /\ faults' # 0 /\ UNCHANGED <<state, owner, stored, row, about, delivered>> /\ pc'[w] = "settle"
      /\ \A v \in Workers \ {w} : pc'[v] = pc[v]
  BY DEF Fail, Fault, End, Goto, queueVars, IInv, TypeOK
<1>2. OnlyMore
  BY <1>1 DEF OnlyMore
<1>3. ASSUME NEW f \in Inbound
      PROVE  /\ Queued(f)' => Queued(f)
             /\ Told(f)' => Told(f) \/ Queued(f)
             /\ Running(Accepting, f)' => Running(Accepting, f)
  <2>1. <<"process", f>> \in Jobs
    BY AcceptFacts, JobFacts
  <2>2. (Queued(f)' => Queued(f)) /\ (Told(f)' => Told(f))
    BY <1>1 DEF Queued, Told
  <2>3. Running(Accepting, f)' => Running(Accepting, f)
    BY <1>1, <2>1 DEF Running, Accepting, IInv, TypeOK
  <2>. QED
    BY <2>2, <2>3
<1>. QED
  BY <1>1, <1>2, <1>3, AgreementKept

\* A handler of a Follow's job at a place, and what its step leaves to the other handlers.
HandlesAlone(w, l, f) ==
  /\ pc[w] = l /\ owner[<<"process", f>>] = {w} /\ state[<<"process", f>>] = "taken"
  /\ \A ls : (Running(ls, f) <=> pc[w] \in ls) /\ (Running(ls, f)' <=> pc'[w] \in ls)
  /\ \A g \in Inbound \ {f} :
       /\ \A ls : Running(ls, g)' <=> Running(ls, g)
       /\ \A v \in owner[<<"process", g>>] : res'[v] = res[v]

LEMMA FollowHandler ==
  ASSUME IInv, Agreement, NEW w \in Workers, NEW f \in Inbound, NEW l, At(w, l, <<"process", f>>),
         owner' = owner, \A v \in Workers \ {w} : pc'[v] = pc[v] /\ res'[v] = res[v]
  PROVE  HandlesAlone(w, l, f)
<1>1. f \in Activities /\ <<"process", f>> \in Jobs
  BY AcceptFacts, JobFacts
<1>2. /\ pc[w] = l /\ owner[<<"process", f>>] = {w} /\ state[<<"process", f>>] = "taken"
      /\ \A i \in Jobs \ {<<"process", f>>} : w \notin owner[i]
  BY <1>1, AtFacts
<1>3. ASSUME NEW g \in Inbound \ {f}
      PROVE  \A v \in owner[<<"process", g>>] : v \in Workers \ {w}
  <2>1. g \in Activities /\ g # f
    BY AcceptFacts
  <2>2. <<"process", g>> \in Jobs \ {<<"process", f>>}
    BY <1>1, <2>1, JobFacts
  <2>. QED
    BY <1>2, <2>2 DEF IInv, TypeOK
<1>4. ASSUME NEW g \in Inbound \ {f}, NEW ls
      PROVE  Running(ls, g)' <=> Running(ls, g)
  BY <1>3 DEF Running
<1>5. ASSUME NEW ls
      PROVE  (Running(ls, f) <=> pc[w] \in ls) /\ (Running(ls, f)' <=> pc'[w] \in ls)
  BY <1>2 DEF Running
<1>. QED
  BY <1>2, <1>3, <1>4, <1>5 DEF HandlesAlone

LEMMA HandleFollowAgrees ==
  ASSUME IInv, Agreement, AboutStays, NEW w \in Workers, NEW f \in Activities, HandleFollow(w, f)
  PROVE  Agreement'
<1>1. /\ f \in FollowIds /\ At(w, "begin", <<"process", f>>) /\ UpsertFollow(f, "pending")
      /\ UNCHANGED <<state, owner, stored, delivered, faults>>
      /\ IF FollowAutoAccept THEN pc'[w] = "resolve" /\ UNCHANGED res ELSE pc'[w] = "settle" /\ res'[w] = "ok"
      /\ \A v \in Workers \ {w} : pc'[v] = pc[v] /\ res'[v] = res[v]
  BY DEF HandleFollow, End, Goto, queueVars, IInv, TypeOK
<1>2. f \in Inbound
  <2>1. <<"process", f>> \in Jobs
    BY JobFacts
  <2>2. state[<<"process", f>>] = "taken"
    BY <1>1, <2>1, AtFacts
  <2>. QED
    BY <1>1, <2>2 DEF IInv, Sources
<1>3. /\ pc[w] = "begin" /\ owner[<<"process", f>>] = {w} /\ state[<<"process", f>>] = "taken"
      /\ \A ls : (Running(ls, f) <=> pc[w] \in ls) /\ (Running(ls, f)' <=> pc'[w] \in ls)
      /\ \A g \in Inbound \ {f} :
           /\ \A ls : Running(ls, g)' <=> Running(ls, g)
           /\ \A v \in owner[<<"process", g>>] : res'[v] = res[v]
  <2>1. HandlesAlone(w, "begin", f)
    BY <1>1, <1>2, FollowHandler
  <2>. QED
    BY <2>1 DEF HandlesAlone
<1>4. /\ row'[Pair(f)].act = f /\ row'[Pair(f)].state = "pending" /\ about'[Pair(f)] = f
      /\ \A p \in Pairs : p # Pair(f) => row'[p] = row[p]
  <2>1. RowOK /\ "pending" \in States \ {"none"}
    BY Parts DEF IInv, States
  <2>. QED
    BY <1>1, <2>1, UpsertFacts
<1>5. ASSUME NEW g \in Inbound
      PROVE  (Queued(g)' <=> Queued(g)) /\ (Told(g)' <=> Told(g))
  <2>1. UNCHANGED <<state, delivered>>
    BY <1>1
  <2>. QED
    BY <2>1 DEF Queued, Told
<1>6. Once'
  <2>1. ASSUME faults' = 0, NEW g \in Inbound
        PROVE  /\ state'[<<"process", g>>] \in {"none", "waiting"} => ~Queued(g)'
               /\ Running(BeforeQueued, g)' => ~Queued(g)'
               /\ \A v \in owner'[<<"process", g>>] : res'[v] = "ok"
    <3>1. CASE g = f
      <4>1. Running({"begin", "resolve", "enqueue"}, f) /\ faults = 0
        BY <1>1, <1>3, <2>1
      <4>2. ~Queued(f) /\ res[w] = "ok"
        BY <1>2, <1>3, <4>1 DEF Agreement, Once
      <4>3. ~Queued(f)' /\ res'[w] = "ok" /\ owner'[<<"process", f>>] = {w}
        BY <1>1, <1>2, <1>3, <1>5, <4>2
      <4>. QED
        BY <1>1, <1>3, <3>1, <4>3
    <3>2. CASE g # f
      <4>1. /\ state[<<"process", g>>] \in {"none", "waiting"} => ~Queued(g)
            /\ Running(BeforeQueued, g) => ~Queued(g)
            /\ \A v \in owner[<<"process", g>>] : res[v] = "ok"
        BY <1>1, <2>1 DEF Agreement, Once, BeforeQueued
      <4>2. UNCHANGED <<state, owner>> /\ (Queued(g)' <=> Queued(g))
        BY <1>1, <1>5
      <4>3. /\ Running(BeforeQueued, g)' <=> Running(BeforeQueued, g)
            /\ \A v \in owner[<<"process", g>>] : res'[v] = res[v]
        BY <1>3, <3>2
      <4>. QED
        BY <4>1, <4>2, <4>3
    <3>. QED
      BY <3>1, <3>2
  <2>. QED
    BY <2>1 DEF Once, BeforeQueued
<1>7. AcceptsQueued'
  BY <1>5 DEF Agreement, AcceptsQueued
<1>8. PendingMoves'
  <2> SUFFICES ASSUME NEW p \in Pairs, NEW g, g = row'[p].act
               PROVE  /\ row'[p].state = "pending_remote" => g \notin Inbound
                      /\ row'[p].state = "pending" =>
                           g \in Inbound /\ (faults' = 0 /\ FollowAutoAccept => Running(Accepting, g)')
    BY DEF PendingMoves
  <2>1. CASE p = Pair(f)
    <3>1. FollowAutoAccept => Running(Accepting, f)'
      BY <1>1, <1>3 DEF Accepting
    <3>. QED
      BY <1>2, <1>4, <2>1, <3>1
  <2>2. CASE p # Pair(f)
    <3>1. row'[p] = row[p] /\ g = row[p].act
      BY <1>4, <2>2
    <3>2. /\ row[p].state = "pending_remote" => g \notin Inbound
          /\ row[p].state = "pending" =>
               g \in Inbound /\ (faults = 0 /\ FollowAutoAccept => Running(Accepting, g))
      BY <3>1 DEF Agreement, PendingMoves
    <3>3. FollowAutoAccept => Running(Accepting, f)'
      BY <1>1, <1>3 DEF Accepting
    <3>. QED
      BY <1>1, <1>3, <3>1, <3>2, <3>3
  <2>. QED
    BY <2>1, <2>2
<1>9. Upserted'
  <2>1. ASSUME NEW g \in Inbound, Queued(g)' \/ Running(Accepting, g)'
        PROVE  about'[Pair(g)] # NoAct
    <3>1. CASE g = f
      BY <1>1, <1>4, <3>1, KindFacts
    <3>2. CASE g # f
      <4>1. Queued(g) \/ Running(Accepting, g)
        BY <1>3, <1>5, <2>1, <3>2
      <4>2. about[Pair(g)] # NoAct /\ Pair(g) \in Pairs
        BY <4>1, AcceptFacts, KindFacts DEF Agreement, Upserted
      <4>. QED
        BY <4>2 DEF AboutStays
    <3>. QED
      BY <3>1, <3>2
  <2>. QED
    BY <2>1 DEF Upserted
<1>. QED
  BY <1>6, <1>7, <1>8, <1>9 DEF Agreement

LEMMA ResolveInboxAgrees ==
  ASSUME IInv, Agreement, NEW w \in Workers, NEW f \in Activities, ResolveInbox(w, f)
  PROVE  Agreement'
<1>1. /\ At(w, "resolve", <<"process", f>>) /\ pc'[w] = "enqueue" /\ UNCHANGED res
      /\ UNCHANGED <<state, owner, stored, row, about, delivered, faults>>
      /\ \A v \in Workers \ {w} : pc'[v] = pc[v] /\ res'[v] = res[v]
  BY DEF ResolveInbox, Goto, queueVars, IInv, TypeOK
<1>2. f \in Inbound
  BY <1>1 DEF At, IInv, Places, Running, Accepting
<1>3. /\ pc[w] = "resolve"
      /\ \A ls : (Running(ls, f) <=> pc[w] \in ls) /\ (Running(ls, f)' <=> pc'[w] \in ls)
      /\ \A g \in Inbound \ {f} : \A ls : Running(ls, g)' <=> Running(ls, g)
  <2>1. HandlesAlone(w, "resolve", f)
    BY <1>1, <1>2, FollowHandler
  <2>. QED
    BY <2>1 DEF HandlesAlone
<1>4. OnlyMore
  BY <1>1 DEF OnlyMore
<1>5. ASSUME NEW g \in Inbound
      PROVE  /\ Queued(g)' => Queued(g)
             /\ Told(g)' => Told(g) \/ Queued(g)
             /\ Running(Accepting, g)' <=> Running(Accepting, g)
             /\ Running(BeforeQueued, g)' <=> Running(BeforeQueued, g)
             /\ faults = 0 => \A v \in owner[<<"process", g>>] : res[v] = "ok"
  <2>1. (Queued(g)' => Queued(g)) /\ (Told(g)' => Told(g))
    BY <1>1 DEF Queued, Told
  <2>2. /\ Running(Accepting, g)' <=> Running(Accepting, g)
        /\ Running(BeforeQueued, g)' <=> Running(BeforeQueued, g)
    BY <1>1, <1>3 DEF Accepting, BeforeQueued
  <2>. QED
    BY <2>1, <2>2 DEF Agreement, Once
<1>. QED
  BY <1>1, <1>4, <1>5, AgreementKept

LEMMA EnqueueAcceptAgrees ==
  ASSUME IInv, Agreement, NEW w \in Workers, NEW f \in Activities, EnqueueAccept(w, f)
  PROVE  Agreement'
<1> DEFINE k == <<"deliver", AcceptOf[f]>>
<1>1. At(w, "enqueue", <<"process", f>>) /\ UNCHANGED <<stored, row, about, delivered, faults>>
  BY DEF EnqueueAccept
<1>2. f \in Inbound /\ FollowAutoAccept
  BY <1>1 DEF At, IInv, Places, Running, Accepting
<1>3. k \in Jobs /\ \A g \in Inbound : <<"process", g>> \in Jobs \ {k}
                /\ (<<"deliver", AcceptOf[g]>> = k => g = f) /\ <<"deliver", AcceptOf[g]>> \in Jobs
  BY <1>2, AcceptFacts, JobFacts
<1>4. /\ owner' = owner /\ \A i \in Jobs \ {k} : state'[i] = state[i]
      /\ state[k] # "none" => state'[k] # "none" /\ pc'[w] = "settle"
      /\ state[k] = "none" => state'[k] = "waiting" /\ pc'[w] = "setState" /\ res' = res
      /\ \A v \in Workers \ {w} : pc'[v] = pc[v] /\ res'[v] = res[v]
  <2>1. /\ \A v \in Workers \ {w} : pc'[v] = pc[v] /\ res'[v] = res[v]
        /\ \/ state[k] = "none" /\ Q!Submit({k}, {k}) /\ pc'[w] = "setState" /\ UNCHANGED res
           \/ state[k] # "none" /\ pc'[w] = "settle" /\ UNCHANGED queueVars
    BY DEF EnqueueAccept, End, Goto, IInv, TypeOK
  <2>2. CASE state[k] = "none" /\ Q!Submit({k}, {k}) /\ pc'[w] = "setState" /\ UNCHANGED res
    <3> HIDE DEF k
    <3>1. {k} \in SUBSET Jobs /\ {k} \in SUBSET {k} /\ QueueOK
      BY <1>3, Parts DEF IInv
    <3>. QED
      BY <2>1, <2>2, <3>1, SubmitFacts
  <2>3. CASE state[k] # "none" /\ pc'[w] = "settle" /\ UNCHANGED queueVars
    BY <2>1, <2>3 DEF queueVars
  <2>. QED
    BY <2>1, <2>2, <2>3
<1>5. /\ pc[w] = "enqueue" /\ owner[<<"process", f>>] = {w} /\ state[<<"process", f>>] = "taken"
      /\ \A ls : (Running(ls, f) <=> pc[w] \in ls) /\ (Running(ls, f)' <=> pc'[w] \in ls)
      /\ \A g \in Inbound \ {f} :
           /\ \A ls : Running(ls, g)' <=> Running(ls, g)
           /\ \A v \in owner[<<"process", g>>] : res'[v] = res[v]
  <2> HIDE DEF k
  <2>1. HandlesAlone(w, "enqueue", f)
    BY <1>1, <1>2, <1>4, FollowHandler
  <2>. QED
    BY <2>1 DEF HandlesAlone
<1>6. faults = 0 => ~Queued(f) /\ \A g \in Inbound : \A v \in owner[<<"process", g>>] : res[v] = "ok"
  BY <1>2, <1>5 DEF Agreement, Once
<1>7. /\ \A g \in Inbound : Queued(g) => Queued(g)'
      /\ \A g \in Inbound \ {f} : Queued(g)' => Queued(g)
      /\ Queued(f)'
  BY <1>2, <1>3, <1>4 DEF Queued
<1>8. \A g \in Inbound : Told(g)' <=> Told(g)
  BY <1>1 DEF Told
<1>9. Once'
  <2>1. ASSUME faults' = 0, NEW g \in Inbound
        PROVE  /\ state'[<<"process", g>>] \in {"none", "waiting"} => ~Queued(g)'
               /\ Running(BeforeQueued, g)' => ~Queued(g)'
               /\ \A v \in owner'[<<"process", g>>] : res'[v] = "ok"
    <3>1. state'[<<"process", g>>] = state[<<"process", g>>] /\ faults = 0
      BY <1>1, <1>3, <1>4, <2>1
    <3>2. CASE g = f
      <4>1. state[k] = "none"
        BY <1>6, <3>1 DEF Queued
      <4>2. pc'[w] = "setState" /\ res' = res
        BY <1>4, <4>1
      <4>3. ~Running(BeforeQueued, f)'
        BY <1>5, <4>2 DEF BeforeQueued
      <4>. QED
        BY <1>4, <1>5, <1>6, <3>1, <3>2, <4>2, <4>3
    <3>3. CASE g # f
      <4>1. /\ state[<<"process", g>>] \in {"none", "waiting"} => ~Queued(g)
            /\ Running(BeforeQueued, g) => ~Queued(g)
        BY <3>1 DEF Agreement, Once, BeforeQueued
      <4>. QED
        BY <1>4, <1>5, <1>6, <1>7, <3>1, <3>3, <4>1
    <3>. QED
      BY <3>2, <3>3
  <2>. QED
    BY <2>1 DEF Once, BeforeQueued
<1>10. AcceptsQueued'
  BY <1>2, <1>7, <1>8 DEF Agreement, AcceptsQueued
<1>11. PendingMoves'
  <2> SUFFICES ASSUME NEW p \in Pairs, NEW g, g = row[p].act
               PROVE  /\ row[p].state = "pending_remote" => g \notin Inbound
                      /\ row[p].state = "pending" =>
                           g \in Inbound /\ (faults' = 0 /\ FollowAutoAccept => Running(Accepting, g)')
    BY <1>1 DEF PendingMoves
  <2>1. /\ row[p].state = "pending_remote" => g \notin Inbound
        /\ row[p].state = "pending" =>
             g \in Inbound /\ (faults = 0 /\ FollowAutoAccept => Running(Accepting, g))
    BY DEF Agreement, PendingMoves
  <2>2. faults = 0 => Running(Accepting, f)'
    <3>1. faults = 0 => pc'[w] = "setState"
      BY <1>4, <1>6 DEF Queued
    <3>. QED
      BY <1>5, <3>1 DEF Accepting
  <2>. QED
    BY <1>1, <1>5, <2>1, <2>2
<1>12. Upserted'
  <2>1. ASSUME NEW g \in Inbound, Queued(g)' \/ Running(Accepting, g)'
        PROVE  Queued(g) \/ Running(Accepting, g)
    BY <1>5, <1>7, <2>1 DEF Accepting
  <2>. QED
    BY <1>1, <1>8, <2>1 DEF Agreement, Upserted
<1>. QED
  BY <1>9, <1>10, <1>11, <1>12 DEF Agreement

\* A handler's statement on rows: no row becomes pending.
LEMMA RowAgrees ==
  ASSUME IInv, Agreement, AboutStays, UNCHANGED <<state, owner, stored, delivered, faults>>,
         \A g \in Inbound :
           /\ Running(BeforeQueued, g)' => Running(BeforeQueued, g)
           /\ Running(Accepting, g)' => Running(Accepting, g)
           /\ \A v \in owner[<<"process", g>>] : res[v] = "ok" => res'[v] = "ok",
         \A p \in Pairs : row'[p].state \in {"pending", "pending_remote"} =>
           row'[p] = row[p] /\ \A g \in Inbound : g = row[p].act =>
             (Running(Accepting, g) => Running(Accepting, g)')
  PROVE  Agreement'
<1>1. ASSUME NEW g \in Inbound
      PROVE  (Queued(g)' <=> Queued(g)) /\ (Told(g)' <=> Told(g))
  BY DEF Queued, Told
<1>2. Once'
  BY <1>1 DEF Agreement, Once, BeforeQueued
<1>3. AcceptsQueued'
  BY <1>1 DEF Agreement, AcceptsQueued
<1>4. PendingMoves'
  <2> SUFFICES ASSUME NEW p \in Pairs, row'[p] = row[p], NEW g, g = row[p].act,
                      row[p].state \in {"pending", "pending_remote"}
               PROVE  /\ row[p].state = "pending_remote" => g \notin Inbound
                      /\ row[p].state = "pending" =>
                           g \in Inbound /\ (faults' = 0 /\ FollowAutoAccept => Running(Accepting, g)')
    BY DEF PendingMoves
  <2>1. /\ row[p].state = "pending_remote" => g \notin Inbound
        /\ row[p].state = "pending" =>
             g \in Inbound /\ (faults = 0 /\ FollowAutoAccept => Running(Accepting, g))
    BY DEF Agreement, PendingMoves
  <2>2. g \in Inbound => (Running(Accepting, g) => Running(Accepting, g)')
    OBVIOUS
  <2>. QED
    BY <2>1, <2>2
<1>5. Upserted'
  <2>1. ASSUME NEW g \in Inbound, Queued(g)' \/ Running(Accepting, g)'
        PROVE  about[Pair(g)] # NoAct /\ Pair(g) \in Pairs
    BY <1>1, <2>1, AcceptFacts, KindFacts DEF Agreement, Upserted
  <2>. QED
    BY <2>1 DEF Upserted, AboutStays
<1>. QED
  BY <1>2, <1>3, <1>4, <1>5 DEF Agreement

LEMMA SetAcceptedAgrees ==
  ASSUME IInv, Agreement, AboutStays, NEW w \in Workers, NEW f \in Activities, SetAccepted(w, f)
  PROVE  Agreement'
<1>1. /\ At(w, "setState", <<"process", f>>) /\ SetFollowState(f, By[f], "accepted")
      /\ pc'[w] = "settle" /\ res'[w] = "ok"
      /\ \A v \in Workers \ {w} : pc'[v] = pc[v] /\ res'[v] = res[v]
      /\ UNCHANGED <<state, owner, stored, delivered, faults>>
  BY DEF SetAccepted, End, Goto, queueVars, IInv, TypeOK
<1>2. f \in Inbound
  BY <1>1 DEF At, IInv, Places, Running, Accepting
<1>3. /\ owner[<<"process", f>>] = {w}
      /\ \A ls : Running(ls, f)' <=> pc'[w] \in ls
      /\ \A g \in Inbound \ {f} :
           /\ \A ls : Running(ls, g)' <=> Running(ls, g)
           /\ \A v \in owner[<<"process", g>>] : res'[v] = res[v]
  <2>1. HandlesAlone(w, "setState", f)
    BY <1>1, <1>2, FollowHandler
  <2>. QED
    BY <2>1 DEF HandlesAlone
<1>4. /\ \A p \in Pairs : IF row[p].act = f THEN row'[p].act = f /\ row'[p].state = "accepted"
                           ELSE row'[p] = row[p]
  <2>1. RowOK /\ "accepted" \in States \ {"none"} /\ f \in FollowIds
    BY <1>2, AcceptFacts, Parts DEF IInv, States
  <2>. QED
    BY <1>1, <2>1, SetFacts
<1>5. ASSUME NEW g \in Inbound
      PROVE  /\ Running(BeforeQueued, g)' => Running(BeforeQueued, g)
             /\ Running(Accepting, g)' => Running(Accepting, g)
             /\ \A v \in owner[<<"process", g>>] : res[v] = "ok" => res'[v] = "ok"
             /\ g # f => (Running(Accepting, g) => Running(Accepting, g)')
  <2>1. ~Running(BeforeQueued, f)' /\ ~Running(Accepting, f)'
    BY <1>1, <1>3 DEF BeforeQueued, Accepting
  <2>. QED
    BY <1>1, <1>3, <2>1
<1>6. ASSUME NEW p \in Pairs, row'[p].state \in {"pending", "pending_remote"}
      PROVE  row'[p] = row[p] /\ row[p].act # f
  BY <1>4, <1>6
<1>. QED
  BY <1>1, <1>5, <1>6, RowAgrees

LEMMA UpdateAnsweredAgrees ==
  ASSUME IInv, Agreement, AboutStays, NEW w \in Workers, NEW a \in Activities, UpdateAnswered(w, a)
  PROVE  Agreement'
<1>1. /\ At(w, "update", <<"process", a>>) /\ SetFollowState(Of[a], By[Of[a]], Verdict[a])
      /\ \A v \in Workers \ {w} : pc'[v] = pc[v] /\ res'[v] = res[v]
      /\ UNCHANGED <<state, owner, stored, delivered, faults>>
  BY DEF UpdateAnswered, End, Goto, queueVars, IInv, TypeOK
<1>2. a \in Answers
  BY <1>1 DEF At, IInv, Places, Running
<1>3. \A p \in Pairs : IF row[p].act = Of[a] THEN row'[p].act = Of[a] /\ row'[p].state = Verdict[a]
                        ELSE row'[p] = row[p]
  <2>1. RowOK /\ Of[a] \in FollowIds /\ Verdict[a] \in States \ {"none"}
    BY <1>2, KindFacts, Parts DEF IInv, States, Verdicts
  <2>. QED
    BY <1>1, <2>1, SetFacts
<1>4. ASSUME NEW g \in Inbound
      PROVE  \A v \in owner[<<"process", g>>] : v \in Workers \ {w}
  <2>1. g \in Activities /\ g # a
    BY <1>2, AcceptFacts, KindFacts
  <2>2. <<"process", a>> \in Jobs /\ <<"process", g>> \in Jobs \ {<<"process", a>>}
    BY <2>1, JobFacts
  <2>. QED
    BY <1>1, <2>2, AtFacts DEF IInv, TypeOK
<1>5. ASSUME NEW g \in Inbound
      PROVE  /\ Running(BeforeQueued, g)' <=> Running(BeforeQueued, g)
             /\ Running(Accepting, g)' <=> Running(Accepting, g)
             /\ \A v \in owner[<<"process", g>>] : res'[v] = res[v]
  BY <1>1, <1>4 DEF Running
<1>6. ASSUME NEW p \in Pairs, row'[p].state \in {"pending", "pending_remote"}
      PROVE  row'[p] = row[p]
  <2>1. Verdict[a] \notin {"pending", "pending_remote"}
    BY <1>2, KindFacts DEF Verdicts
  <2>. QED
    BY <1>3, <1>6, <2>1
<1>. QED
  BY <1>1, <1>5, <1>6, RowAgrees

LEMMA HandleUndoAgrees ==
  ASSUME IInv, Agreement, AboutStays, NEW w \in Workers, NEW u \in Activities, HandleUndo(w, u)
  PROVE  Agreement'
<1>1. /\ At(w, "begin", <<"process", u>>) /\ u \in Undos /\ DeleteFollow(Of[u], By[u])
      /\ \A v \in Workers \ {w} : pc'[v] = pc[v] /\ res'[v] = res[v]
      /\ UNCHANGED <<state, owner, stored, delivered, faults>>
  BY DEF HandleUndo, End, Goto, queueVars, IInv, TypeOK
<1>2. /\ RowOK'
      /\ \A p \in Pairs : row'[p] = row[p] \/ (row'[p] = NoRow /\ p = Pair(Of[u]))
  BY <1>1, KindFacts, Parts, DeleteFacts DEF IInv
<1>3. /\ <<"process", u>> \in Jobs /\ state[<<"process", u>>] = "taken"
      /\ \A i \in Jobs \ {<<"process", u>>} : w \notin owner[i]
  <2>1. <<"process", u>> \in Jobs
    BY JobFacts
  <2>. QED
    BY <1>1, <2>1, AtFacts
<1>4. ASSUME NEW g \in Inbound
      PROVE  /\ Running(BeforeQueued, g)' <=> Running(BeforeQueued, g)
             /\ Running(Accepting, g)' <=> Running(Accepting, g)
             /\ \A v \in owner[<<"process", g>>] : res'[v] = res[v]
  <2>1. g \in Activities /\ g # u
    BY <1>1, AcceptFacts, KindFacts
  <2>2. <<"process", g>> \in Jobs \ {<<"process", u>>}
    BY <2>1, JobFacts
  <2>3. \A v \in owner[<<"process", g>>] : v \in Workers \ {w}
    BY <1>3, <2>2 DEF IInv, TypeOK
  <2>. QED
    BY <1>1, <2>3 DEF Running
<1>5. ASSUME NEW p \in Pairs, row'[p].state \in {"pending", "pending_remote"}
      PROVE  row'[p] = row[p]
  BY <1>2, <1>5 DEF NoRow
<1>. QED
  BY <1>1, <1>4, <1>5, RowAgrees

LEMMA InitAgrees == Init => Agreement
<1> SUFFICES ASSUME Init PROVE Agreement
  OBVIOUS
<1>1. /\ \A p \in Pairs : row[p].state = "none"
      /\ \A j \in Jobs : state[j] = "none" /\ owner[j] = {}
      /\ stored = {} /\ delivered = {}
  BY DEF Init, Q!Init, NoRow
<1>2. ASSUME NEW f \in Inbound
      PROVE  /\ ~Queued(f) /\ ~Told(f) /\ ~Running(Accepting, f)
             /\ owner[<<"process", f>>] = {}
  BY <1>1, AcceptFacts, JobFacts DEF Queued, Told, Running
<1>. QED
  BY <1>1, <1>2 DEF Agreement, Once, AcceptsQueued, PendingMoves, Upserted

LEMMA NextAgrees == IInv /\ Agreement /\ LastWritten /\ [Next]_vars => Agreement'
<1> SUFFICES ASSUME IInv, Agreement, LastWritten, [Next]_vars PROVE Agreement'
  OBVIOUS
<1>0. AboutStays
  BY WrittenStep
<1>1. CASE UNCHANGED vars
  <2> USE <1>1 DEF vars, queueVars
  <2>1. OnlyMore
    BY DEF OnlyMore
  <2>2. \A f \in Inbound : (Queued(f)' => Queued(f)) /\ (Told(f)' => Told(f))
    BY DEF Queued, Told
  <2>. QED
    BY <2>1, <2>2, OthersAgree
<1>2. CASE \E a \in Activities : Receive(a) \/ Publish(a)
  BY <1>0, <1>2, ReceiveAgrees, OutboxAgrees DEF Publish
<1>3. CASE \E u \in Undos : UnfollowLookup(u) \/ UnfollowPublish(u)
  <2>1. \A u \in Undos : u \in Activities /\ u \notin {AcceptOf[f] : f \in Inbound}
    BY KindFacts, AcceptFacts
  <2>. QED
    BY <1>0, <1>3, <2>1, UnfollowLookupAgrees, OutboxAgrees DEF UnfollowPublish
<1>4. CASE \E w \in Workers : \E j \in Jobs : Claim(w, j) \/ Settle(w, j)
  BY <1>4, ClaimAgrees, SettleAgrees
<1>5. CASE \E w \in Workers : \E a \in Activities : Handle(w, a)
  BY <1>0, <1>5, HandleFollowAgrees, ResolveInboxAgrees, EnqueueAcceptAgrees, SetAcceptedAgrees,
     HandleAnswerAgrees, UpdateAnsweredAgrees, HandleUndoAgrees, DeliverAgrees DEF Handle
<1>6. CASE \E w \in Workers : Fail(w) \/ Vanish(w)
  BY <1>6, FailAgrees, VanishAgrees
<1>. QED
  BY <1>1, <1>2, <1>3, <1>4, <1>5, <1>6 DEF Next

\* What the row says of a Follow whose follower was told Accept, whatever has failed.
LEMMA Outcome ==
  ASSUME IInv, Agreement, LastWritten, NEW f \in Inbound, Told(f)
  PROVE  \/ row[Pair(f)].state = "accepted"
         \/ /\ row[Pair(f)].state = "pending" /\ FollowAutoAccept
            /\ \E g \in Inbound : faults = 0 => Running(Accepting, g)
         \/ Withdrawn(about[Pair(f)])
<1> DEFINE g == row[Pair(f)].act
<1>1. Queued(f) /\ FollowAutoAccept /\ about[Pair(f)] # NoAct
  BY DEF Agreement, AcceptsQueued, Upserted
<1>2. f \in FollowIds /\ Pair(f) \in Pairs
  BY AcceptFacts, KindFacts
<1>3. CASE g = NoAct
  BY <1>1, <1>2, <1>3 DEF LastWritten
<1>4. CASE g # NoAct
  <2>1. about[Pair(f)] = g
    BY <1>2, <1>4 DEF LastWritten
  <2>2. g \in FollowIds /\ Pair(g) = Pair(f) /\ row[Pair(f)].state \in States \ {"none"}
    BY <1>2, <1>4 DEF IInv, TypeOK
  <2>3. g \in Inbound
    BY <1>2, <2>2, PairFacts
  <2>4. row[Pair(f)].state # "pending_remote"
    BY <1>2, <2>3 DEF Agreement, PendingMoves
  <2>5. row[Pair(f)].state = "pending" => (faults = 0 => Running(Accepting, g))
    BY <1>1, <1>2 DEF Agreement, PendingMoves
  <2>6. row[Pair(f)].state = "rejected" => Withdrawn(g)
    <3>1. row[Pair(f)].state = "rejected" => AnswerBy(g, "rejected")
      BY <1>2 DEF IInv, AnsweredByFollowee
    <3>. QED
      BY <3>1 DEF AnswerBy, Withdrawn, Withdraws
  <2>. QED
    BY <1>1, <2>1, <2>2, <2>3, <2>4, <2>5, <2>6 DEF States
<1>. QED
  BY <1>3, <1>4

\* In a quiet state no handler is accepting anything.
LEMMA QuietRuns ==
  ASSUME IInv, Quiet, NEW g \in Inbound
  PROVE  ~Running(Accepting, g)
BY AcceptFacts, JobFacts DEF Quiet, Running, Accepting, IInv, TypeOK

LEMMA Agrees == Spec => [](IInv /\ Agreement /\ LastWritten)
BY InitIInv, NextIInv, InitAgrees, NextAgrees, InitWritten, WrittenStep, PTL DEF Spec

\* When all is quiet and nothing has failed, whoever was told Accept is recorded as a
\* follower, unless the Follow its row was last written for was undone by its follower or
\* rejected by its followee (handleFollow, handleUndo, handleReject).
THEOREM AgreedWhenQuiet == Spec => []QuietAgreement
<1>1. IInv /\ Agreement /\ LastWritten => QuietAgreement
  BY Outcome, QuietRuns DEF QuietAgreement
<1>. QED
  BY <1>1, Agrees, PTL

-------------------------------------------------------------------------------
(***************************************************************************)
(* What holds whatever fails: a Follow that is let go was answered.        *)
(***************************************************************************)
\* A job is finished once its handler has come to its end, settled or not.
Finished(j) == state[j] = "done" \/ \E w \in owner[j] : pc[w] = "settle" /\ res[w] = "ok"

\* The thread from a Follow to its follower has no gap: a stored Follow has its job, whose
\* end has queued the Accept, whose end has delivered it.
Thread ==
  /\ \A f \in Inbound \cap stored : state[<<"process", f>>] # "none"
  /\ FollowAutoAccept => \A f \in Inbound : Finished(<<"process", f>>) => Queued(f)
  /\ \A a \in Activities : Finished(<<"deliver", a>>) => a \in delivered

\* Once all jobs are done, every Follow of a local actor was accepted and its follower told
\* so, faults or not, and its row says so or belongs to a Follow that was withdrawn; only
\* a fault may have left it pending.
AnsweredAtRest ==
  Quiet /\ FollowAutoAccept => \A f \in Inbound \cap stored :
    /\ Told(f)
    /\ \/ row[Pair(f)].state = "accepted"
       \/ row[Pair(f)].state = "pending" /\ faults > 0
       \/ Withdrawn(about[Pair(f)])

LEMMA ThreadKept ==
  ASSUME Thread, delivered \subseteq delivered',
         \A j \in Jobs : state[j] # "none" => state'[j] # "none",
         \A f \in Inbound \cap stored' : f \in stored \/ state'[<<"process", f>>] # "none",
         FollowAutoAccept => \A f \in Inbound :
           Finished(<<"process", f>>)' => Finished(<<"process", f>>) \/ Queued(f)',
         \A a \in Activities : Finished(<<"deliver", a>>)' => Finished(<<"deliver", a>>) \/ a \in delivered'
  PROVE  Thread'
<1>1. \A f \in Inbound : <<"process", f>> \in Jobs /\ (Queued(f) => Queued(f)')
  BY AcceptFacts, JobFacts DEF Queued
<1>2. \A f \in Inbound \cap stored' : state'[<<"process", f>>] # "none"
  BY <1>1 DEF Thread
<1>3. FollowAutoAccept => \A f \in Inbound : Finished(<<"process", f>>)' => Queued(f)'
  BY <1>1 DEF Thread
<1>4. \A a \in Activities : Finished(<<"deliver", a>>)' => a \in delivered'
  BY DEF Thread
<1>. QED
  BY <1>2, <1>3, <1>4 DEF Thread

\* A step that finishes no job.
LEMMA ThreadLeft ==
  ASSUME Thread, delivered \subseteq delivered',
         \A j \in Jobs : state[j] # "none" => state'[j] # "none",
         \A f \in Inbound \cap stored' : f \in stored \/ state'[<<"process", f>>] # "none",
         \A j \in Jobs : Finished(j)' => Finished(j)
  PROVE  Thread'
<1>1. \A f \in Inbound : Finished(<<"process", f>>)' => Finished(<<"process", f>>)
  BY AcceptFacts, JobFacts
<1>2. \A a \in Activities : Finished(<<"deliver", a>>)' => Finished(<<"deliver", a>>)
  BY JobFacts
<1>. QED
  BY <1>1, <1>2, ThreadKept

\* A step of a handler may finish the job in its hands, and no other.
LEMMA HandFinishes ==
  ASSUME IInv, NEW w \in Workers, NEW j \in Jobs, w \in owner[j], owner' = owner,
         \A i \in Jobs : state'[i] = "done" => state[i] = "done",
         \A v \in Workers \ {w} : pc'[v] = pc[v] /\ res'[v] = res[v]
  PROVE  \A i \in Jobs : Finished(i)' => Finished(i) \/ (i = j /\ pc'[w] = "settle" /\ res'[w] = "ok")
<1> SUFFICES ASSUME NEW i \in Jobs, Finished(i)', ~Finished(i)
             PROVE  i = j /\ pc'[w] = "settle" /\ res'[w] = "ok"
  OBVIOUS
<1>1. PICK v \in owner[i] : pc'[v] = "settle" /\ res'[v] = "ok"
  BY DEF Finished
<1>2. v \in Workers /\ v = w
  BY <1>1 DEF Finished, IInv, TypeOK
<1>3. i = j
  BY <1>2, HandFacts DEF IInv
<1>. QED
  BY <1>1, <1>2, <1>3

\* An inbox stores no activity without its job.
LEMMA InboxThreads ==
  ASSUME IInv, NEW a \in Activities, SharedInbox(a)
  PROVE  \A b \in stored' : b \in stored \/ state'[<<"process", b>>] # "none"
<1>1. CASE Known(a) /\ UNCHANGED <<stored, queueVars>>
  BY <1>1
<1>2. CASE stored' = stored \cup {a} /\ Q!Submit({<<"process", a>>}, {})
  <2>1. {<<"process", a>>} \in SUBSET Jobs /\ {} \in SUBSET {<<"process", a>>}
    BY JobFacts
  <2>2. Q!Submit({<<"process", a>>}, {})
    BY <1>2
  <2>3. QueueOK
    BY Parts DEF IInv
  <2>4. state'[<<"process", a>>] = "waiting"
    BY <2>1, <2>2, <2>3, SubmitFacts
  <2>. QED
    BY <1>2, <2>4
<1>. QED
  BY <1>1, <1>2 DEF SharedInbox

LEMMA ReceiveThreads ==
  ASSUME IInv, Thread, NEW a \in Activities, Receive(a)
  PROVE  Thread'
<1>1. /\ owner' = owner
      /\ \A j \in Jobs : state'[j] = state[j] \/ (state[j] = "none" /\ state'[j] = "waiting")
  BY InboxFacts DEF Receive, IInv
<1>2. UNCHANGED <<pc, res, delivered>>
  BY DEF Receive
<1>3. \A f \in Inbound \cap stored' : f \in stored \/ state'[<<"process", f>>] # "none"
  BY InboxThreads DEF Receive
<1>4. \A j \in Jobs : Finished(j)' => Finished(j)
  BY <1>1, <1>2 DEF Finished
<1>. QED
  BY <1>1, <1>2, <1>3, <1>4, ThreadLeft

LEMMA OutboxThreads ==
  ASSUME IInv, Thread, NEW a \in Activities, PostOutbox(a), UNCHANGED <<pc, res, delivered>>
  PROVE  Thread'
<1>1. /\ owner' = owner /\ stored' = stored \cup {a}
      /\ \A j \in Jobs : state'[j] = state[j] \/ (state[j] = "none" /\ state'[j] = "waiting")
  BY OutboxFacts
<1>2. a \in Inbound => state'[<<"process", a>>] # "none"
  <2> SUFFICES ASSUME a \in Inbound PROVE state'[<<"process", a>>] # "none"
    OBVIOUS
  <2> DEFINE J == {<<"deliver", a>>} \cup {<<"process", a>>}
  <2>1. Q!Submit(J, {<<"deliver", a>>})
    BY DEF PostOutbox
  <2>2. J \in SUBSET Jobs /\ {<<"deliver", a>>} \in SUBSET J /\ <<"process", a>> \in J
    BY JobFacts
  <2>3. QueueOK
    BY Parts DEF IInv
  <2> HIDE DEF J
  <2>. QED
    BY <2>1, <2>2, <2>3, SubmitFacts
<1>3. \A j \in Jobs : Finished(j)' => Finished(j)
  BY <1>1 DEF Finished
<1>. QED
  BY <1>1, <1>2, <1>3, ThreadLeft

LEMMA ClaimThreads ==
  ASSUME IInv, Thread, NEW w \in Workers, NEW j \in Jobs, Claim(w, j)
  PROVE  Thread'
<1>1. /\ state[j] = "waiting" /\ state'[j] = "taken" /\ owner'[j] = {w}
      /\ \A i \in Jobs \ {j} : state'[i] = state[i] /\ owner'[i] = owner[i]
  BY ClaimFacts, Parts DEF Claim, IInv
<1>2. /\ pc'[w] # "settle" /\ UNCHANGED <<res, stored, delivered>>
      /\ \A v \in Workers \ {w} : pc'[v] = pc[v]
  BY DEF Claim, Goto, IInv, TypeOK
<1>3. \A i \in Jobs : Finished(i)' => Finished(i)
  <2>1. ~Finished(j)'
    BY <1>1, <1>2 DEF Finished
  <2>2. \A i \in Jobs : \A v \in owner[i] : v \in Workers \ {w}
    BY DEF Claim, IInv, TypeOK, Leases
  <2>3. \A i \in Jobs \ {j} : Finished(i)' => Finished(i)
    BY <1>1, <1>2, <2>2 DEF Finished
  <2>. QED
    BY <2>1, <2>3
<1>. QED
  BY <1>1, <1>2, <1>3, ThreadLeft

\* A job is marked done by the worker whose handler came to its end.
LEMMA SettleThreads ==
  ASSUME IInv, Thread, NEW w \in Workers, NEW j \in Jobs, Settle(w, j)
  PROVE  Thread'
<1>1. /\ state[j] = "taken" /\ owner[j] = {w} /\ owner'[j] = {} /\ state'[j] \in {"done", "dead", "waiting"}
      /\ \A i \in Jobs \ {j} : state'[i] = state[i] /\ owner'[i] = owner[i]
  BY SettleFacts, Parts DEF Settle, IInv
<1>2. /\ UNCHANGED <<stored, delivered>>
      /\ \A v \in Workers \ {w} : pc'[v] = pc[v] /\ res'[v] = res[v]
  BY DEF Settle, Goto, IInv, TypeOK
<1>3. \A i \in Jobs : Finished(i)' => Finished(i)
  <2>1. Finished(j)' => Finished(j)
    <3>1. CASE res[w] = "ok"
      BY <1>1, <3>1 DEF Finished, Settle, At
    <3>2. CASE Q!Retry(w, j)
      BY <1>1, <3>2 DEF Finished, Q!Retry, Q!Settle, IInv, TypeOK
    <3>3. CASE Q!GiveUp(w, j)
      BY <1>1, <3>3 DEF Finished, Q!GiveUp, Q!Settle, IInv, TypeOK
    <3>. QED
      BY <3>1, <3>2, <3>3 DEF Settle
  <2>2. \A i \in Jobs \ {j} : \A v \in owner[i] : v \in Workers \ {w}
    BY <1>1 DEF IInv, TypeOK, Leases
  <2>3. \A i \in Jobs \ {j} : Finished(i)' => Finished(i)
    BY <1>1, <1>2, <2>2 DEF Finished
  <2>. QED
    BY <2>1, <2>3
<1>. QED
  BY <1>1, <1>2, <1>3, ThreadLeft

\* A worker that vanishes, or whose statement fails, finishes nothing.
LEMMA FaultThreads ==
  ASSUME IInv, Thread, NEW w \in Workers, Vanish(w) \/ Fail(w)
  PROVE  Thread'
<1>1. /\ UNCHANGED <<state, stored, delivered>>
      /\ \A j \in Jobs : owner'[j] \subseteq owner[j]
      /\ \A v \in Workers \ {w} : pc'[v] = pc[v] /\ res'[v] = res[v]
  <2>1. CASE Vanish(w)
    BY <2>1, VanishFacts, Parts DEF Vanish, Goto, IInv, TypeOK
  <2>2. CASE Fail(w)
    BY <2>2 DEF Fail, End, Goto, queueVars, IInv, TypeOK
  <2>. QED
    BY <2>1, <2>2
<1>2. pc'[w] = "idle" \/ res'[w] = "error"
  BY DEF Vanish, Fail, End, Goto, IInv, TypeOK
<1>3. \A j \in Jobs : Finished(j)' => Finished(j)
  <2> SUFFICES ASSUME NEW j \in Jobs, Finished(j)', state[j] # "done"
               PROVE  \E v \in owner[j] : pc[v] = "settle" /\ res[v] = "ok"
    BY <1>1 DEF Finished
  <2>1. PICK v \in owner'[j] : pc'[v] = "settle" /\ res'[v] = "ok"
    BY <1>1 DEF Finished
  <2>2. v \in owner[j] /\ v \in Workers \ {w}
    BY <1>1, <1>2, <2>1 DEF IInv, TypeOK
  <2>. QED
    BY <1>1, <2>1, <2>2
<1>. QED
  BY <1>1, <1>3, ThreadLeft

LEMMA DeliverThreads ==
  ASSUME IInv, Thread, NEW w \in Workers, NEW a \in Activities, Deliver(w, a)
  PROVE  Thread'
<1> DEFINE j == <<"deliver", a>>
<1>1. /\ j \in Jobs /\ w \in owner[j]
      /\ \A b \in Activities : <<"process", b>> # j /\ (<<"deliver", b>> = j => b = a)
  BY JobFacts DEF Deliver, At
<1>2. /\ delivered' = delivered \cup {a}
      /\ \A v \in Workers \ {w} : pc'[v] = pc[v] /\ res'[v] = res[v]
  BY DEF Deliver, Arrive, End, Goto, IInv, TypeOK
<1>3. /\ owner' = owner
      /\ \A i \in Jobs : state'[i] = state[i] \/ (state[i] = "none" /\ state'[i] = "waiting")
      /\ \A f \in Inbound \cap stored' : f \in stored \/ state'[<<"process", f>>] # "none"
  <2>1. CASE SharedInbox(a)
    BY <2>1, InboxFacts, InboxThreads DEF IInv
  <2>2. CASE UNCHANGED <<stored, queueVars>>
    BY <2>2 DEF queueVars
  <2>. QED
    BY <2>1, <2>2 DEF Deliver, Arrive
<1>4. \A i \in Jobs : Finished(i)' => Finished(i) \/ i = j
  <2> HIDE DEF j
  <2>1. \A i \in Jobs : state'[i] = "done" => state[i] = "done"
    BY <1>3
  <2>. QED
    BY <1>1, <1>2, <1>3, <2>1, HandFinishes
<1>5. \A f \in Inbound : Finished(<<"process", f>>)' => Finished(<<"process", f>>)
  BY <1>1, <1>4, AcceptFacts, JobFacts
<1>6. \A b \in Activities : Finished(<<"deliver", b>>)' => Finished(<<"deliver", b>>) \/ b \in delivered'
  BY <1>1, <1>2, <1>4, JobFacts
<1>. QED
  BY <1>2, <1>3, <1>5, <1>6, ThreadKept

\* A step of the handler of a process job; only a Follow's has something to show for its end.
LEMMA ProcessThreads ==
  ASSUME IInv, Thread, NEW w \in Workers, NEW b \in Activities, w \in owner[<<"process", b>>],
         UNCHANGED <<owner, stored, delivered>>,
         \A i \in Jobs : state'[i] = state[i] \/ (state[i] = "none" /\ state'[i] = "waiting"),
         \A v \in Workers \ {w} : pc'[v] = pc[v] /\ res'[v] = res[v],
         b \in Inbound /\ FollowAutoAccept => pc'[w] # "settle" \/ res'[w] = "error" \/ Queued(b)'
  PROVE  Thread'
<1> DEFINE j == <<"process", b>>
<1>1. /\ j \in Jobs /\ w \in owner[j]
      /\ \A c \in Activities : <<"deliver", c>> # j /\ (<<"process", c>> = j => c = b)
  BY JobFacts
<1>2. \A i \in Jobs : Finished(i)' => Finished(i) \/ (i = j /\ pc'[w] = "settle" /\ res'[w] = "ok")
  <2> HIDE DEF j
  <2>1. \A i \in Jobs : state'[i] = "done" => state[i] = "done"
    OBVIOUS
  <2>. QED
    BY <1>1, <2>1, HandFinishes
<1>3. ASSUME FollowAutoAccept, NEW f \in Inbound, Finished(<<"process", f>>)', ~Finished(<<"process", f>>)
      PROVE  Queued(f)'
  <2>1. <<"process", f>> = j /\ pc'[w] = "settle" /\ res'[w] = "ok"
    BY <1>2, <1>3, AcceptFacts, JobFacts
  <2>2. f = b
    BY <1>1, <2>1, AcceptFacts
  <2>. QED
    BY <1>3, <2>1, <2>2
<1>4. \A a \in Activities : Finished(<<"deliver", a>>)' => Finished(<<"deliver", a>>)
  BY <1>1, <1>2, JobFacts
<1>. QED
  BY <1>3, <1>4, ThreadKept

LEMMA HandlerThreads ==
  ASSUME IInv, Thread, NEW w \in Workers, NEW a \in Activities,
         \/ HandleFollow(w, a) \/ ResolveInbox(w, a) \/ EnqueueAccept(w, a) \/ SetAccepted(w, a)
         \/ HandleAnswer(w, a) \/ UpdateAnswered(w, a) \/ HandleUndo(w, a)
  PROVE  Thread'
<1> DEFINE j == <<"process", a>>
           l == pc[w]
<1>1. j \in Jobs /\ At(w, l, j) /\ w \in owner[j]
  BY JobFacts DEF HandleFollow, ResolveInbox, EnqueueAccept, SetAccepted, HandleAnswer, UpdateAnswered, HandleUndo, At
<1>2. UNCHANGED <<stored, delivered>>
  BY DEF HandleFollow, ResolveInbox, EnqueueAccept, SetAccepted, HandleAnswer, UpdateAnswered, HandleUndo
<1>3. \/ a \in FollowIds /\ l = "begin" /\ (FollowAutoAccept => Goto(w, "resolve") /\ UNCHANGED res)
                        /\ (~FollowAutoAccept => End(w, "ok")) /\ UNCHANGED queueVars
      \/ Goto(w, "enqueue") /\ UNCHANGED res /\ UNCHANGED queueVars
      \/ Goto(w, "setState") /\ UNCHANGED res /\ l = "enqueue"
           /\ Q!Submit({<<"deliver", AcceptOf[a]>>}, {<<"deliver", AcceptOf[a]>>})
      \/ End(w, "error") /\ UNCHANGED queueVars
      \/ l = "setState" /\ End(w, "ok") /\ UNCHANGED queueVars
      \/ a \notin FollowIds /\ UNCHANGED queueVars
           /\ ((\E how \in {"ok", "error"} : End(w, how)) \/ (Goto(w, "update") /\ UNCHANGED res))
  <2>1. CASE HandleFollow(w, a)
    BY <2>1 DEF HandleFollow, At
  <2>2. CASE ResolveInbox(w, a)
    BY <2>2 DEF ResolveInbox
  <2>3. CASE EnqueueAccept(w, a)
    BY <2>3 DEF EnqueueAccept, At
  <2>4. CASE SetAccepted(w, a)
    BY <2>4 DEF SetAccepted, At
  <2>5. CASE HandleAnswer(w, a)
    BY <2>5, KindFacts DEF HandleAnswer
  <2>6. CASE UpdateAnswered(w, a)
    <3>1. Running({"update"}, a)
      BY <2>6 DEF UpdateAnswered, At, Running
    <3>2. a \notin FollowIds
      BY <3>1, KindFacts DEF IInv, Places
    <3>. QED
      BY <2>6, <3>2 DEF UpdateAnswered
  <2>7. CASE HandleUndo(w, a)
    BY <2>7, KindFacts DEF HandleUndo
  <2>. QED
    BY <2>1, <2>2, <2>3, <2>4, <2>5, <2>6, <2>7
<1>4. \A v \in Workers \ {w} : pc'[v] = pc[v] /\ res'[v] = res[v]
  BY <1>3 DEF End, Goto, IInv, TypeOK
<1>5. owner' = owner /\ \A i \in Jobs : state'[i] = state[i] \/ (state[i] = "none" /\ state'[i] = "waiting")
  <2>1. CASE UNCHANGED queueVars
    BY <2>1 DEF queueVars
  <2>2. CASE l = "enqueue" /\ Q!Submit({<<"deliver", AcceptOf[a]>>}, {<<"deliver", AcceptOf[a]>>})
    <3>1. Running(Accepting, a)
      BY <1>1, <2>2 DEF Running, Accepting
    <3>2. {<<"deliver", AcceptOf[a]>>} \in SUBSET Jobs
      BY <3>1, AcceptFacts, JobFacts DEF IInv, Places
    <3>3. QueueOK
      BY Parts DEF IInv
    <3> DEFINE J == {<<"deliver", AcceptOf[a]>>}
    <3>4. J \in SUBSET Jobs /\ J \in SUBSET J /\ Q!Submit(J, J)
      BY <2>2, <3>2
    <3> HIDE DEF J
    <3>. QED
      BY <3>3, <3>4, SubmitFacts
  <2>. QED
    BY <1>3, <2>1, <2>2
<1>6. a \in Inbound /\ FollowAutoAccept => pc'[w] # "settle" \/ res'[w] = "error" \/ Queued(a)'
  <2> SUFFICES ASSUME a \in Inbound, FollowAutoAccept, pc'[w] = "settle", res'[w] # "error"
               PROVE  Queued(a)'
    OBVIOUS
  <2>1. a \in FollowIds /\ <<"deliver", AcceptOf[a]>> \in Jobs
    BY AcceptFacts, JobFacts
  <2>2. pc[w] = "setState"
    BY <1>3, <2>1 DEF End, Goto, IInv, TypeOK
  <2>3. Queued(a)
    BY <1>1, <2>2 DEF IInv, Places, Running
  <2>. QED
    BY <1>5, <2>1, <2>3 DEF Queued
<1>. QED
  BY <1>1, <1>2, <1>4, <1>5, <1>6, ProcessThreads

LEMMA InitThreads == Init => Thread
<1> SUFFICES ASSUME Init PROVE Thread
  OBVIOUS
<1>1. stored = {} /\ \A j \in Jobs : ~Finished(j)
  BY DEF Init, Q!Init, Finished
<1>. QED
  BY <1>1, AcceptFacts, JobFacts DEF Thread

LEMMA NextThreads == IInv /\ Thread /\ [Next]_vars => Thread'
<1> SUFFICES ASSUME IInv, Thread, [Next]_vars PROVE Thread'
  OBVIOUS
<1>1. CASE UNCHANGED <<queueVars, stored, pc, res, delivered>>
  <2>1. \A j \in Jobs : Finished(j)' => Finished(j)
    BY <1>1 DEF queueVars, Finished
  <2>. QED
    BY <1>1, <2>1, ThreadLeft DEF queueVars
<1>2. CASE \E a \in Activities : Receive(a) \/ Publish(a)
  BY <1>2, ReceiveThreads, OutboxThreads DEF Publish
<1>3. CASE \E u \in Undos : UnfollowLookup(u) \/ UnfollowPublish(u)
  <2>1. \A u \in Undos : UnfollowPublish(u) => Thread'
    BY KindFacts, OutboxThreads DEF UnfollowPublish
  <2>2. \A u \in Undos : UnfollowLookup(u) => Thread'
    BY <1>1 DEF UnfollowLookup
  <2>. QED
    BY <1>3, <2>1, <2>2
<1>4. CASE \E w \in Workers : \E j \in Jobs : Claim(w, j) \/ Settle(w, j)
  BY <1>4, ClaimThreads, SettleThreads
<1>5. CASE \E w \in Workers : \E a \in Activities : Handle(w, a)
  BY <1>5, HandlerThreads, DeliverThreads DEF Handle
<1>6. CASE \E w \in Workers : Fail(w) \/ Vanish(w)
  BY <1>6, FaultThreads
<1>. QED
  BY <1>1, <1>2, <1>3, <1>4, <1>5, <1>6 DEF Next, vars

\* What FollowAnswered rests on, without its fairness: a Follow of a local actor cannot fall
\* through.  Whatever statements failed, requests were repeated and workers were lost on the
\* way, when all jobs are done its Accept was delivered, and the follows table says so, is
\* left pending by a fault, or is about a Follow that was withdrawn (persistOutboxAndEnqueue and SharedInbox store a Follow with its job,
\* handleFollow returns nil after Enqueue only, DeliverActivity after the POST only).
THEOREM AnsweredWhenQuiet == Spec => []AnsweredAtRest
<1>1. IInv /\ Agreement /\ LastWritten /\ Thread => AnsweredAtRest
  <2> SUFFICES ASSUME IInv, Agreement, LastWritten, Thread, Quiet, FollowAutoAccept, NEW f \in Inbound \cap stored
               PROVE  /\ Told(f)
                      /\ \/ row[Pair(f)].state = "accepted"
                         \/ row[Pair(f)].state = "pending" /\ faults > 0
                         \/ Withdrawn(about[Pair(f)])
    BY DEF AnsweredAtRest
  <2>1. /\ <<"process", f>> \in Jobs /\ <<"deliver", AcceptOf[f]>> \in Jobs /\ AcceptOf[f] \in Activities
    BY AcceptFacts, JobFacts
  <2>2. state[<<"process", f>>] = "done"
    BY <2>1 DEF Quiet, Thread
  <2>3. state[<<"deliver", AcceptOf[f]>>] = "done"
    BY <2>1, <2>2 DEF Quiet, Thread, Finished, Queued
  <2>4. Told(f)
    BY <2>1, <2>3 DEF Thread, Finished, Told
  <2>5. faults \in Nat
    BY DEF IInv, TypeOK
  <2>6. faults # 0 => faults > 0
    BY <2>5
  <2>. QED
    BY <2>4, <2>6, Outcome, QuietRuns
<1>2. Spec => []Thread
  BY InitIInv, NextIInv, InitThreads, NextThreads, PTL DEF Spec
<1>. QED
  BY <1>1, <1>2, Agrees, PTL
===============================================================================
