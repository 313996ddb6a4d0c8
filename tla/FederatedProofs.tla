---------------------------- MODULE FederatedProofs ----------------------------
(***************************************************************************)
(* Proofs about Federated, for all actors, objects, activities, workers    *)
(* and bounds.  IInv is the invariant about who is the owner of an object, *)
(* whatever the order of events; Told builds on it and says what the       *)
(* tables show of the last word on a subject whose activities arrived in   *)
(* turn, and that its author alone claims.                                 *)
(***************************************************************************)
EXTENDS Federated, NaturalsInduction, WellFoundedInduction, TLAPS

\* A worker has one job at most, none when it is idle, and only what was received.
Leases ==
  /\ \A a \in Activities \ stored : state[a] = "none" /\ owner[a] = {}
  /\ \A w \in Workers : \A a, b \in Activities : w \in owner[a] /\ w \in owner[b] => a = b
  /\ \A w \in Workers : \A a \in Activities : pc[w] = "idle" => w \notin owner[a]

\* A document about o that actor may have kept in its name.
Kept(d, o, actor) ==
  /\ d \in OnObjects /\ Of[d] = o
  /\ ObjectAttributedToMatches(d, actor)
  /\ By[d] \in {actor, Author[o]}

\* A handler that is about to write runs an activity of one who claims the object, and has
\* a document that this one may have kept.
Vouched(w, a) ==
  /\ a \in OnObjects
  /\ By[a] \in Claimants(Of[a])
  /\ Kind[a] # "Delete" => Kept(doc[w], Of[a], By[a])

Writes == \A w \in Workers : \A a \in Activities : At(w, "write", a) => Vouched(w, a)

IInv == TypeOK /\ Leases /\ Writes /\ KeptAsClaimed

\* What is fetched is the author's, and was sent.
LEMMA ServedFacts ==
  ASSUME TypeOK, NEW o \in Objects, NEW d \in Served(o)
  PROVE  /\ d \in OnObjects /\ Of[d] = o /\ By[d] = Author[o]
         /\ d \in Sent /\ Kind[d] \in {"Create", "Update"} /\ Legit(d)
<1>1. PICK i \in DOMAIN issued : /\ Kind[issued[i]] \in {"Create", "Update"}
                                 /\ Of[issued[i]] = o /\ Legit(issued[i])
                                 /\ d = issued[i]
  BY DEF Served
<1>2. issued[i] \in Activities
  BY <1>1 DEF TypeOK
<1>3. issued[i] \in OnObjects
  BY <1>1, <1>2 DEF OnObjects, ObjectKinds
<1>. QED
  BY <1>1, <1>3 DEF Legit, Sent

\* An activity whose document names no other author than its actor makes this one a
\* claimant, who may have the document kept.
LEMMA CreditFacts ==
  ASSUME TypeOK, NEW a \in OnObjects, a \in stored, activityShouldApplySideEffects(a),
         Kind[a] = "Create" \/ (Kind[a] = "Update" /\ a \in Embedded),
         NEW d \in Documents(a), ObjectAttributedToMatches(d, By[a])
  PROVE  By[a] \in Claimants(Of[a]) /\ Kept(d, Of[a], By[a])
<1>. USE FederatedAssumption
<1>0. Of[a] \in Objects
  OBVIOUS
<1>1. CASE a \in Embedded
  <2>1. d = a
    BY <1>1 DEF Documents
  <2>2. Claims(a)
    BY <1>1, <2>1 DEF Claims
  <2>. QED
    BY <2>1, <2>2 DEF Claimants, Kept
<1>2. CASE a \notin Embedded
  <2>1. /\ d \in OnObjects /\ Of[d] = Of[a] /\ By[d] = Author[Of[a]]
        /\ d \in Sent /\ Kind[d] \in {"Create", "Update"} /\ Legit(d)
    BY <1>0, <1>2, ServedFacts DEF Documents
  <2>2. Claims(a)
    BY <1>2, <2>1 DEF Claims
  <2>. QED
    BY <2>1, <2>2 DEF Claimants, Kept
<1>. QED
  BY <1>1, <1>2

\* Who has claimed an object goes on doing so.
LEMMA ClaimantsGrow ==
  ASSUME stored \subseteq stored', Sent \subseteq Sent'
  PROVE  \A o : Claimants(o) \subseteq Claimants(o)' /\ (Contested(o) => Contested(o)')
<1>1. ASSUME NEW a, Claims(a) PROVE Claims(a)'
  BY <1>1 DEF Claims, activityShouldApplySideEffects, ObjectAttributedToMatches, Legit
<1>2. \A o : Claimants(o) \subseteq Claimants(o)'
  BY <1>1 DEF Claimants
<1>. QED
  BY <1>2 DEF Contested

LEMMA ClaimantsStay ==
  ASSUME UNCHANGED <<stored, issued>>
  PROVE  \A o : Claimants(o)' = Claimants(o) /\ Contested(o)' = Contested(o)
<1>1. Sent' = Sent
  BY DEF Sent
<1>2. ASSUME NEW a PROVE Claims(a)' = Claims(a)
  BY <1>1 DEF Claims, activityShouldApplySideEffects, ObjectAttributedToMatches, Legit
<1>3. \A o : Claimants(o)' = Claimants(o)
  BY <1>2 DEF Claimants
<1>. QED
  BY <1>3 DEF Contested

\* A step that leaves the rows alone keeps what is said of them.
LEMMA RowsKept ==
  ASSUME KeptAsClaimed, stored \subseteq stored', Sent \subseteq Sent', UNCHANGED objectVars
  PROVE  KeptAsClaimed'
<1>1. \A o : Claimants(o) \subseteq Claimants(o)'
  BY ClaimantsGrow
<1>. QED
  BY <1>1 DEF KeptAsClaimed, ObjectAttributedToMatches, objectVars

\* A worker whose place, document and job stay as they are goes on being vouched for.
LEMMA VouchedKept ==
  ASSUME NEW w \in Workers, NEW a \in Activities, Vouched(w, a), doc'[w] = doc[w],
         stored \subseteq stored', Sent \subseteq Sent'
  PROVE  Vouched(w, a)'
<1>1. \A o : Claimants(o) \subseteq Claimants(o)'
  BY ClaimantsGrow
<1>. QED
  BY <1>1 DEF Vouched, Kept, ObjectAttributedToMatches

LEMMA SubjectFacts ==
  ASSUME NEW a \in Activities
  PROVE  Subject(a) \in Objects \cup Keys
<1>. USE FederatedAssumption
<1>1. CASE a \in OnObjects /\ a \notin Undos
  BY <1>1 DEF Subject
<1>2. CASE a \in Undos /\ a \notin OnObjects
  BY <1>2 DEF Subject, Keys
<1>3. CASE a \notin Undos /\ a \notin OnObjects
  BY <1>3 DEF Subject, Keys
<1>4. a \in Undos => a \notin OnObjects
  BY DEF Undos, OnObjects, ObjectKinds
<1>. QED
  BY <1>1, <1>2, <1>3, <1>4

\* IInv holds at the start.
LEMMA InitIInv == Init => IInv
<1>. SUFFICES ASSUME Init PROVE IInv
  OBVIOUS
<1>. USE FederatedAssumption
<1>1. TypeOK
  BY DEF Init, Q!Init, TypeOK
<1>2. Leases
  BY DEF Init, Q!Init, Leases
<1>3. Writes
  BY DEF Init, Writes, At
<1>4. KeptAsClaimed
  BY DEF Init, KeptAsClaimed
<1>. QED
  BY <1>1, <1>2, <1>3, <1>4 DEF IInv

\* Sending keeps IInv.
LEMMA SendIInv ==
  ASSUME IInv, NEW a \in Activities, Send(a)
  PROVE  IInv'
<1>1. issued' \in Seq(Activities)
  BY DEF Send, IInv, TypeOK
<1>2. TypeOK'
  BY <1>1 DEF Send, IInv, TypeOK, queueVars, objectVars
<1>3. stored \subseteq stored' /\ Sent \subseteq Sent' /\ UNCHANGED <<queueVars, objectVars, pc, doc>>
  <2>1. \A i \in DOMAIN issued : i \in DOMAIN issued' /\ issued'[i] = issued[i]
    BY DEF Send, IInv, TypeOK
  <2>. QED
    BY <2>1 DEF Send, Sent
<1>4. Leases'
  BY <1>3 DEF Send, IInv, Leases, queueVars
<1>5. Writes'
  BY <1>3, VouchedKept DEF IInv, Writes, At, queueVars
<1>6. KeptAsClaimed'
  BY <1>3, RowsKept DEF IInv
<1>. QED
  BY <1>2, <1>4, <1>5, <1>6 DEF IInv

\* Receiving keeps IInv.
LEMMA ReceiveIInv ==
  ASSUME IInv, NEW a \in Activities, Receive(a)
  PROVE  IInv'
<1>1. /\ state' = [j \in Activities |-> IF j = a THEN "waiting" ELSE state[j]]
      /\ UNCHANGED <<owner, capped, tries>>
      /\ stored' = stored \cup {a}
  BY DEF Receive, Q!Submit, IInv, TypeOK
<1>2. raced' \subseteq Objects \cup Keys
  BY SubjectFacts DEF Receive, IInv, TypeOK
<1>3. TypeOK'
  BY <1>1, <1>2 DEF Receive, IInv, TypeOK, objectVars
<1>4. Leases'
  BY <1>1 DEF Receive, IInv, TypeOK, Leases
<1>5. /\ stored \subseteq stored' /\ Sent \subseteq Sent'
      /\ UNCHANGED <<owner, objectVars, pc, doc>>
  BY <1>1 DEF Receive, Sent
<1>6. Writes'
  BY <1>5, VouchedKept DEF IInv, Writes, At
<1>7. KeptAsClaimed'
  BY <1>5, RowsKept DEF IInv
<1>. QED
  BY <1>3, <1>4, <1>6, <1>7 DEF IInv

\* Taking a job keeps IInv.
LEMMA ClaimIInv ==
  ASSUME IInv, NEW w \in Workers, NEW a \in Activities, Claim(w, a)
  PROVE  IInv'
<1>1. /\ state[a] = "waiting" /\ pc[w] = "idle"
      /\ state' = [state EXCEPT ![a] = "taken"]
      /\ owner' = [owner EXCEPT ![a] = {w}]
      /\ UNCHANGED <<tries, capped>>
      /\ pc' = [pc EXCEPT ![w] = "begin"]
      /\ UNCHANGED <<stored, objectVars, edge, doc, res, issued, raced, faults>>
  BY DEF Claim, Q!Claim, Goto
<1>2. TypeOK'
  BY <1>1 DEF IInv, TypeOK, objectVars
<1>3. Leases'
  BY <1>1 DEF IInv, TypeOK, Leases
<1>0. stored \subseteq stored' /\ Sent \subseteq Sent'
  BY <1>1 DEF Sent
<1>4. Writes'
  <2>. SUFFICES ASSUME NEW v \in Workers, NEW b \in Activities, At(v, "write", b)'
                PROVE  Vouched(v, b)'
    BY DEF Writes
  <2>1. At(v, "write", b) /\ doc'[v] = doc[v]
    BY <1>1 DEF IInv, TypeOK, At
  <2>. QED
    BY <1>0, <2>1, VouchedKept DEF IInv, Writes
<1>5. KeptAsClaimed'
  BY <1>0, <1>1, RowsKept DEF IInv
<1>. QED
  BY <1>2, <1>3, <1>4, <1>5 DEF IInv

\* A worker that lets go of its job, whatever becomes of the job, keeps IInv.
LEMMA LetGoIInv ==
  ASSUME IInv, NEW w \in Workers,
         state' \in [Activities -> {"none", "waiting", "taken", "done"}],
         \A a \in Activities \ stored : state'[a] = state[a],
         owner' \in [Activities -> SUBSET Workers],
         \A a \in Activities : owner'[a] = owner[a] \ {w},
         pc' = [pc EXCEPT ![w] = "idle"], doc' = [doc EXCEPT ![w] = NoAct],
         res' = [res EXCEPT ![w] = "ok"], faults' \in Nat,
         UNCHANGED <<tries, capped, stored, objectVars, edge, issued, raced>>
  PROVE  IInv'
<1>1. TypeOK'
  BY DEF IInv, TypeOK, objectVars
<1>2. Leases'
  BY DEF IInv, TypeOK, Leases
<1>3. Writes'
  <2>. SUFFICES ASSUME NEW v \in Workers, NEW a \in Activities, At(v, "write", a)'
                PROVE  Vouched(v, a)'
    BY DEF Writes
  <2>1. v # w
    BY DEF At, IInv, TypeOK
  <2>2. At(v, "write", a)
    BY <2>1 DEF At, IInv, TypeOK
  <2>3. doc'[v] = doc[v]
    BY <2>1 DEF IInv, TypeOK
  <2>4. stored \subseteq stored' /\ Sent \subseteq Sent'
    BY DEF Sent
  <2>. QED
    BY <2>2, <2>3, <2>4, VouchedKept DEF IInv, Writes
<1>4. KeptAsClaimed'
  BY RowsKept DEF IInv, Sent
<1>. QED
  BY <1>1, <1>2, <1>3, <1>4 DEF IInv

\* Settling a job keeps IInv.
LEMMA SettleIInv ==
  ASSUME IInv, NEW w \in Workers, NEW a \in Activities, Settle(w, a)
  PROVE  IInv'
<1>1. /\ state[a] = "taken" /\ owner[a] = {w}
      /\ owner' = [owner EXCEPT ![a] = {}]
      /\ state' = [state EXCEPT ![a] = "done"] \/ state' = [state EXCEPT ![a] = "waiting"]
      /\ UNCHANGED <<tries, capped>>
  <2>1. CASE res[w] = "ok"
    BY <2>1 DEF Settle, Q!Complete, Q!Settle
  <2>2. CASE res[w] # "ok"
    BY <2>2 DEF Settle, Q!Retry, Q!Settle, IInv, TypeOK
  <2>. QED
    BY <2>1, <2>2
<1>2. state' \in [Activities -> {"none", "waiting", "taken", "done"}]
  BY <1>1 DEF IInv, TypeOK
<1>3. \A b \in Activities \ stored : state'[b] = state[b]
  BY <1>1 DEF IInv, TypeOK, Leases
<1>4. owner' \in [Activities -> SUBSET Workers]
  BY <1>1 DEF IInv, TypeOK
<1>5. \A b \in Activities : owner'[b] = owner[b] \ {w}
  BY <1>1 DEF IInv, TypeOK, Leases
<1>6. /\ pc' = [pc EXCEPT ![w] = "idle"] /\ doc' = [doc EXCEPT ![w] = NoAct]
      /\ res' = [res EXCEPT ![w] = "ok"] /\ faults' \in Nat
      /\ UNCHANGED <<tries, capped, stored, objectVars, edge, issued, raced>>
  BY <1>1 DEF Settle, Goto, IInv, TypeOK
<1>. QED
  BY <1>2, <1>3, <1>4, <1>5, <1>6, LetGoIInv

\* The death of a worker keeps IInv.
LEMMA VanishIInv ==
  ASSUME IInv, NEW w \in Workers, Vanish(w)
  PROVE  IInv'
<1>1. /\ owner' = [b \in Activities |-> owner[b] \ {w}]
      /\ UNCHANGED <<state, tries, capped>>
  BY DEF Vanish, Q!Vanish
<1>2. owner' \in [Activities -> SUBSET Workers]
  BY <1>1 DEF IInv, TypeOK
<1>3. /\ pc' = [pc EXCEPT ![w] = "idle"] /\ doc' = [doc EXCEPT ![w] = NoAct]
      /\ res' = [res EXCEPT ![w] = "ok"] /\ faults' \in Nat
      /\ UNCHANGED <<tries, capped, stored, objectVars, edge, issued, raced>>
  BY <1>1 DEF Vanish, Fault, Goto, IInv, TypeOK
<1>4. state' \in [Activities -> {"none", "waiting", "taken", "done"}]
  BY <1>1 DEF IInv, TypeOK
<1>. QED
  BY <1>1, <1>2, <1>3, <1>4, LetGoIInv

\* A handler that ends without a write, or with that of an edge, keeps IInv.
LEMMA EndIInv ==
  ASSUME IInv, NEW w \in Workers, pc[w] # "idle", pc' = [pc EXCEPT ![w] = "settle"],
         res' \in [Workers -> {"ok", "error"}], faults' \in Nat,
         edge' \in [Keys -> OnEdges \cup {NoAct}],
         UNCHANGED <<queueVars, stored, objectVars, doc, issued, raced>>
  PROVE  IInv'
<1>1. TypeOK'
  BY DEF IInv, TypeOK, queueVars, objectVars
<1>2. Leases'
  BY DEF IInv, TypeOK, Leases, queueVars
<1>3. Writes'
  <2>. SUFFICES ASSUME NEW v \in Workers, NEW b \in Activities, At(v, "write", b)'
                PROVE  Vouched(v, b)'
    BY DEF Writes
  <2>1. At(v, "write", b) /\ doc'[v] = doc[v]
    BY DEF IInv, TypeOK, At, queueVars
  <2>. QED
    BY <2>1, VouchedKept DEF IInv, Writes, Sent
<1>4. KeptAsClaimed'
  BY RowsKept DEF IInv, Sent
<1>. QED
  BY <1>1, <1>2, <1>3, <1>4 DEF IInv

\* What End and Committed do to a worker.
LEMMA EndFacts ==
  ASSUME TypeOK, NEW w \in Workers,
         \/ Committed(w)
         \/ UNCHANGED faults /\ (End(w, "ok") \/ End(w, "error"))
         \/ Fault /\ End(w, "error")
  PROVE  /\ pc' = [pc EXCEPT ![w] = "settle"]
         /\ res' \in [Workers -> {"ok", "error"}]
         /\ faults' \in Nat
<1>1. End(w, "ok") \/ End(w, "error")
  BY DEF Committed
<1>2. pc' = [pc EXCEPT ![w] = "settle"] /\ res' \in [Workers -> {"ok", "error"}]
  BY <1>1 DEF End, Goto, TypeOK
<1>3. faults' = faults \/ faults' = faults + 1
  BY DEF Committed, Fault
<1>. QED
  BY <1>2, <1>3 DEF TypeOK

LEMMA FailIInv ==
  ASSUME IInv, NEW w \in Workers, Fail(w)
  PROVE  IInv'
<1>1. /\ pc' = [pc EXCEPT ![w] = "settle"] /\ res' \in [Workers -> {"ok", "error"}] /\ faults' \in Nat
  BY EndFacts DEF Fail, IInv
<1>2. /\ pc[w] # "idle" /\ edge' \in [Keys -> OnEdges \cup {NoAct}]
      /\ UNCHANGED <<queueVars, stored, objectVars, doc, issued, raced>>
  BY DEF Fail, IInv, TypeOK
<1>. QED
  BY <1>1, <1>2, EndIInv

\* A handler that goes on to its write with an activity that is vouched for keeps IInv.
LEMMA GoOnIInv ==
  ASSUME IInv, NEW w \in Workers, NEW a \in Activities, At(w, "begin", a),
         pc' = [pc EXCEPT ![w] = "write"],
         doc' \in [Workers -> OnObjects \cup {NoAct}],
         \A v \in Workers \ {w} : doc'[v] = doc[v],
         Vouched(w, a)',
         UNCHANGED <<queueVars, stored, objectVars, edge, res, issued, raced, faults>>
  PROVE  IInv'
<1>1. TypeOK'
  BY DEF IInv, TypeOK, queueVars, objectVars
<1>2. Leases'
  BY DEF IInv, TypeOK, Leases, queueVars, At
<1>3. Writes'
  <2>. SUFFICES ASSUME NEW v \in Workers, NEW b \in Activities, At(v, "write", b)'
                PROVE  Vouched(v, b)'
    BY DEF Writes
  <2>1. CASE v = w
    <3>1. b = a
      BY <2>1 DEF At, IInv, Leases, queueVars
    <3>. QED
      BY <2>1, <3>1
  <2>2. CASE v # w
    <3>1. At(v, "write", b)
      BY <2>2 DEF At, IInv, TypeOK, queueVars
    <3>2. doc'[v] = doc[v]
      BY <2>2
    <3>. QED
      BY <3>1, <3>2, VouchedKept DEF IInv, Writes, Sent
  <2>. QED
    BY <2>1, <2>2
<1>4. KeptAsClaimed'
  BY RowsKept DEF IInv, Sent
<1>. QED
  BY <1>1, <1>2, <1>3, <1>4 DEF IInv

\* A Create up to its write keeps IInv.
LEMMA CreateIInv ==
  ASSUME IInv, NEW w \in Workers, NEW a \in Activities, HandleCreate(w, a)
  PROVE  IInv'
<1>1. /\ a \in OnObjects /\ Kind[a] = "Create" /\ At(w, "begin", a)
      /\ UNCHANGED <<queueVars, stored, objectVars, edge, issued, raced, faults>>
  BY DEF HandleCreate, OnObjects, ObjectKinds
<1>2. CASE (End(w, "ok") \/ End(w, "error")) /\ UNCHANGED doc
  <2>1. /\ pc' = [pc EXCEPT ![w] = "settle"] /\ res' \in [Workers -> {"ok", "error"}] /\ faults' \in Nat
    BY <1>1, <1>2, EndFacts DEF IInv
  <2>2. pc[w] # "idle" /\ edge' \in [Keys -> OnEdges \cup {NoAct}]
    BY <1>1 DEF At, IInv, TypeOK
  <2>. QED
    BY <1>1, <1>2, <2>1, <2>2, EndIInv
<1>3. CASE \E d \in Documents(a) : /\ activityShouldApplySideEffects(a)
                                   /\ ObjectAttributedToMatches(d, By[a])
                                   /\ Goto(w, "write")
                                   /\ doc' = [doc EXCEPT ![w] = d] /\ UNCHANGED res
  <2>1. PICK d \in Documents(a) : /\ activityShouldApplySideEffects(a)
                                  /\ ObjectAttributedToMatches(d, By[a])
                                  /\ Goto(w, "write")
                                  /\ doc' = [doc EXCEPT ![w] = d] /\ UNCHANGED res
    BY <1>3
  <2>2. a \in stored
    BY <1>1 DEF At, IInv, Leases
  <2>6. By[a] \in Claimants(Of[a]) /\ Kept(d, Of[a], By[a])
    BY <1>1, <2>1, <2>2, CreditFacts DEF IInv
  <2>3. doc' \in [Workers -> OnObjects \cup {NoAct}] /\ doc'[w] = d
    BY <2>1, <2>6 DEF IInv, TypeOK, Kept
  <2>4. Vouched(w, a)'
    <3>1. Claimants(Of[a])' = Claimants(Of[a])
      BY <1>1, ClaimantsStay
    <3>. QED
      BY <1>1, <2>3, <2>6, <3>1 DEF Vouched, Kept, ObjectAttributedToMatches
  <2>5. \A v \in Workers \ {w} : doc'[v] = doc[v]
    BY <2>1 DEF IInv, TypeOK
  <2>. QED
    BY <1>1, <2>1, <2>3, <2>4, <2>5, GoOnIInv DEF Goto
<1>. QED
  BY <1>2, <1>3 DEF HandleCreate

\* An Update up to its write keeps IInv.
LEMMA UpdateIInv ==
  ASSUME IInv, NEW w \in Workers, NEW a \in Activities, HandleUpdate(w, a)
  PROVE  IInv'
<1>1. /\ a \in OnObjects /\ Kind[a] = "Update" /\ At(w, "begin", a)
      /\ UNCHANGED <<queueVars, stored, objectVars, edge, issued, raced, faults>>
  BY DEF HandleUpdate, OnObjects, ObjectKinds
<1>2. CASE (End(w, "ok") \/ End(w, "error")) /\ UNCHANGED doc
  <2>1. /\ pc' = [pc EXCEPT ![w] = "settle"] /\ res' \in [Workers -> {"ok", "error"}] /\ faults' \in Nat
    BY <1>1, <1>2, EndFacts DEF IInv
  <2>2. pc[w] # "idle" /\ edge' \in [Keys -> OnEdges \cup {NoAct}]
    BY <1>1 DEF At, IInv, TypeOK
  <2>. QED
    BY <1>1, <1>2, <2>1, <2>2, EndIInv
<1>3. CASE /\ a \in Embedded /\ activityShouldApplySideEffects(a)
           /\ ObjectAttributedToMatches(a, By[a])
           /\ Goto(w, "write") /\ doc' = [doc EXCEPT ![w] = a] /\ UNCHANGED res
  <2>1. a \in Documents(a) /\ a \in stored
    BY <1>1, <1>3 DEF Documents, At, IInv, Leases
  <2>2. By[a] \in Claimants(Of[a]) /\ Kept(a, Of[a], By[a])
    BY <1>1, <1>3, <2>1, CreditFacts DEF IInv
  <2>3. doc' \in [Workers -> OnObjects \cup {NoAct}] /\ doc'[w] = a
    BY <1>1, <1>3 DEF IInv, TypeOK
  <2>4. Vouched(w, a)'
    <3>1. Claimants(Of[a])' = Claimants(Of[a])
      BY <1>1, ClaimantsStay
    <3>. QED
      BY <1>1, <2>2, <2>3, <3>1 DEF Vouched, Kept, ObjectAttributedToMatches
  <2>5. \A v \in Workers \ {w} : doc'[v] = doc[v]
    BY <1>3 DEF IInv, TypeOK
  <2>. QED
    BY <1>1, <1>3, <2>3, <2>4, <2>5, GoOnIInv DEF Goto
<1>. QED
  BY <1>2, <1>3 DEF HandleUpdate

\* A Delete up to its write keeps IInv: the owner it has read has claimed the object.
LEMMA DeleteIInv ==
  ASSUME IInv, NEW w \in Workers, NEW a \in Activities, HandleDelete(w, a)
  PROVE  IInv'
<1>1. /\ a \in OnObjects /\ Kind[a] = "Delete" /\ At(w, "begin", a)
      /\ UNCHANGED <<queueVars, stored, objectVars, edge, doc, issued, raced, faults>>
  BY DEF HandleDelete, OnObjects, ObjectKinds
<1>2. CASE End(w, "ok") \/ End(w, "error")
  <2>1. /\ pc' = [pc EXCEPT ![w] = "settle"] /\ res' \in [Workers -> {"ok", "error"}] /\ faults' \in Nat
    BY <1>1, <1>2, EndFacts DEF IInv
  <2>2. pc[w] # "idle" /\ edge' \in [Keys -> OnEdges \cup {NoAct}]
    BY <1>1 DEF At, IInv, TypeOK
  <2>. QED
    BY <1>1, <2>1, <2>2, EndIInv
<1>3. CASE ObjectOwnerActorID(Of[a]) = By[a] /\ Goto(w, "write") /\ UNCHANGED res
  <2>1. Of[a] \in Objects /\ By[a] # Nobody
    BY <1>1, FederatedAssumption
  <2>2. actor_id[Of[a]] = By[a]
    BY <1>3, <2>1 DEF ObjectOwnerActorID
  <2>3. By[a] \in Claimants(Of[a])
    BY <2>1, <2>2 DEF IInv, KeptAsClaimed
  <2>4. Vouched(w, a)'
    <3>1. Claimants(Of[a])' = Claimants(Of[a])
      BY <1>1, ClaimantsStay
    <3>. QED
      BY <1>1, <2>3, <3>1 DEF Vouched
  <2>5. doc' \in [Workers -> OnObjects \cup {NoAct}] /\ \A v \in Workers \ {w} : doc'[v] = doc[v]
    BY <1>1 DEF IInv, TypeOK
  <2>. QED
    BY <1>1, <1>3, <2>4, <2>5, GoOnIInv DEF Goto
<1>. QED
  BY <1>2, <1>3 DEF HandleDelete

\* The write of a Create, an Update or a Delete keeps IInv.
LEMMA WriteIInv ==
  ASSUME IInv, NEW w \in Workers, NEW a \in Activities, WriteObject(w, a)
  PROVE  IInv'
<1>1. /\ At(w, "write", a)
      /\ UNCHANGED <<queueVars, stored, edge, doc, issued, raced>>
  BY DEF WriteObject
<1>2. /\ a \in OnObjects /\ By[a] \in Claimants(Of[a]) /\ a \in stored
      /\ Kind[a] # "Delete" => Kept(doc[w], Of[a], By[a])
  BY <1>1 DEF IInv, Writes, Vouched, Leases, At
<1>0. \A o : Claimants(o)' = Claimants(o)
  BY <1>1, ClaimantsStay
<1>3. /\ pc' = [pc EXCEPT ![w] = "settle"] /\ res' \in [Workers -> {"ok", "error"}] /\ faults' \in Nat
  BY EndFacts DEF WriteObject, IInv
<1>4. Of[a] \in Objects /\ By[a] \in Actors /\ By[a] # Nobody /\ NoAct \notin OnObjects
  BY <1>2, FederatedAssumption DEF OnObjects
<1>5. ASSUME Kind[a] = "Delete" PROVE TypeOK' /\ KeptAsClaimed'
  <2>1. live' = [live EXCEPT ![Of[a]] = FALSE] /\ UNCHANGED <<actor_id, raw_json>>
    BY <1>5 DEF WriteObject, SoftDeleteFederatedObject
  <2>2. TypeOK'
    BY <1>1, <1>3, <1>4, <2>1 DEF IInv, TypeOK, queueVars
  <2>3. KeptAsClaimed'
    <3>. SUFFICES ASSUME NEW o \in Objects, actor_id[o] # Nobody
                  PROVE  /\ actor_id[o] \in Claimants(o)
                         /\ Of[raw_json[o]] = o /\ ObjectAttributedToMatches(raw_json[o], actor_id[o])
                         /\ By[raw_json[o]] \in {actor_id[o], Author[o]}
                         /\ ~live'[o] => \E d \in stored : /\ Kind[d] = "Delete" /\ Of[d] = o
                                                          /\ By[d] \in Claimants(o)
      BY <1>0, <1>1, <2>1 DEF KeptAsClaimed, ObjectAttributedToMatches
    <3>1. o # Of[a] => live'[o] = live[o]
      BY <2>1 DEF IInv, TypeOK
    <3>. QED
      BY <1>2, <1>5, <3>1 DEF IInv, KeptAsClaimed
  <2>. QED
    BY <2>2, <2>3
<1>6. ASSUME Kind[a] # "Delete" PROVE TypeOK' /\ KeptAsClaimed'
  <2>1. /\ actor_id' = [actor_id EXCEPT ![Of[a]] = By[a]]
        /\ raw_json' = [raw_json EXCEPT ![Of[a]] = doc[w]]
        /\ live' = [live EXCEPT ![Of[a]] = TRUE]
    BY <1>6 DEF WriteObject, UpsertFederatedObject
  <2>2. TypeOK'
    BY <1>1, <1>2, <1>3, <1>4, <1>6, <2>1 DEF IInv, TypeOK, queueVars, Kept
  <2>3. ASSUME NEW o \in Objects, actor_id'[o] # Nobody
        PROVE  /\ actor_id'[o] \in Claimants(o)
               /\ Of[raw_json'[o]] = o /\ ObjectAttributedToMatches(raw_json'[o], actor_id'[o])
               /\ By[raw_json'[o]] \in {actor_id'[o], Author[o]}
               /\ ~live'[o] => \E d \in stored : /\ Kind[d] = "Delete" /\ Of[d] = o
                                                /\ By[d] \in Claimants(o)
    <3>1. CASE o = Of[a]
      <4>1. actor_id'[o] = By[a] /\ raw_json'[o] = doc[w] /\ live'[o] = TRUE
        BY <2>1, <3>1 DEF IInv, TypeOK
      <4>. QED
        BY <1>2, <1>6, <3>1, <4>1 DEF Kept
    <3>2. CASE o # Of[a]
      <4>1. actor_id'[o] = actor_id[o] /\ raw_json'[o] = raw_json[o] /\ live'[o] = live[o]
        BY <2>1, <3>2 DEF IInv, TypeOK
      <4>. QED
        BY <2>3, <4>1 DEF IInv, KeptAsClaimed
    <3>. QED
      BY <3>1, <3>2
  <2>4. KeptAsClaimed'
    BY <1>0, <1>1, <2>3 DEF KeptAsClaimed, ObjectAttributedToMatches
  <2>. QED
    BY <2>2, <2>4
<1>7. TypeOK' /\ KeptAsClaimed'
  BY <1>5, <1>6
<1>8. Leases'
  BY <1>1, <1>3 DEF IInv, TypeOK, Leases, queueVars, At
<1>9. Writes'
  <2>. SUFFICES ASSUME NEW v \in Workers, NEW b \in Activities, At(v, "write", b)'
                PROVE  Vouched(v, b)'
    BY DEF Writes
  <2>1. At(v, "write", b) /\ doc'[v] = doc[v]
    BY <1>1, <1>3 DEF IInv, TypeOK, At, queueVars
  <2>. QED
    BY <1>1, <2>1, VouchedKept DEF IInv, Writes, Sent
<1>. QED
  BY <1>7, <1>8, <1>9 DEF IInv

\* The handlers of edges and of their Undo keep IInv.
LEMMA EdgeIInv ==
  ASSUME IInv, NEW w \in Workers, NEW a \in Activities, HandleEdge(w, a) \/ HandleUndo(w, a)
  PROVE  IInv'
<1>1. /\ At(w, "begin", a) /\ Committed(w)
      /\ UNCHANGED <<queueVars, stored, objectVars, doc, issued, raced>>
  BY DEF HandleEdge, HandleUndo
<1>2. /\ pc' = [pc EXCEPT ![w] = "settle"] /\ res' \in [Workers -> {"ok", "error"}] /\ faults' \in Nat
  BY <1>1, EndFacts DEF IInv
<1>3. edge' \in [Keys -> OnEdges \cup {NoAct}]
  BY DEF HandleEdge, HandleUndo, UpsertEdge, DeleteEdge, IInv, TypeOK
<1>4. pc[w] # "idle"
  BY <1>1 DEF At
<1>. QED
  BY <1>1, <1>2, <1>3, <1>4, EndIInv

\* Every step keeps IInv.
LEMMA NextIInv == IInv /\ [Next]_vars => IInv'
<1>. SUFFICES ASSUME IInv, [Next]_vars PROVE IInv'
  OBVIOUS
<1>1. ASSUME NEW a \in Activities, Send(a) \/ Receive(a) PROVE IInv'
  BY <1>1, SendIInv, ReceiveIInv
<1>2. ASSUME NEW w \in Workers, NEW a \in Activities, Claim(w, a) \/ Settle(w, a) PROVE IInv'
  BY <1>2, ClaimIInv, SettleIInv
<1>3. ASSUME NEW w \in Workers, NEW a \in Activities, ProcessInboxActivity(w, a) PROVE IInv'
  BY <1>3, CreateIInv, UpdateIInv, DeleteIInv, WriteIInv, EdgeIInv DEF ProcessInboxActivity
<1>4. ASSUME NEW w \in Workers, Fail(w) \/ Vanish(w) PROVE IInv'
  BY <1>4, FailIInv, VanishIInv
<1>5. CASE UNCHANGED vars
  <2>1. TypeOK' /\ Leases'
    BY <1>5 DEF vars, queueVars, objectVars, IInv, TypeOK, Leases
  <2>2. Writes'
    BY <1>5, VouchedKept DEF vars, queueVars, IInv, Writes, At, Sent
  <2>3. KeptAsClaimed'
    BY <1>5, RowsKept DEF vars, IInv, Sent
  <2>. QED
    BY <2>1, <2>2, <2>3 DEF IInv
<1>. QED
  BY <1>1, <1>2, <1>3, <1>4, <1>5 DEF Next

LEMMA Invariance == Spec => []IInv
  BY InitIInv, NextIInv, PTL DEF Spec

\* The queue, the tables and the handlers of the inbox worker keep their types: a row
\* of objects has an owner and a document, or is not there.
THEOREM TypeCorrect == Spec => []TypeOK
<1>1. IInv => TypeOK
  BY DEF IInv
<1>. QED
  BY <1>1, Invariance, PTL

\* What is kept of an object is what one who claimed it may say of it, in whatever order the
\* activities about it are handled and retried (handleCreate, handleUpdate, handleDelete).
THEOREM ObjectsAreTheirClaimants == Spec => []KeptAsClaimed
<1>1. IInv => KeptAsClaimed
  BY DEF IInv
<1>. QED
  BY <1>1, Invariance, PTL

\* An object that its author alone claims has the author as owner, the author's document,
\* and is gone only by the author's Delete, whatever strangers send about it.
THEOREM UncontestedIsTheAuthors ==
  Spec => [](\A o \in Objects : actor_id[o] # Nobody /\ ~Contested(o) =>
               /\ actor_id[o] = Author[o] /\ By[raw_json[o]] = Author[o]
               /\ ~live[o] => \E d \in stored : Kind[d] = "Delete" /\ Of[d] = o /\ By[d] = Author[o])
<1>1. IInv => \A o \in Objects : actor_id[o] # Nobody /\ ~Contested(o) =>
                /\ actor_id[o] = Author[o] /\ By[raw_json[o]] = Author[o]
                /\ ~live[o] => \E d \in stored : Kind[d] = "Delete" /\ Of[d] = o /\ By[d] = Author[o]
  BY DEF IInv, KeptAsClaimed, Contested
<1>. QED
  BY <1>1, Invariance, PTL

\* A step changes a like, boost or block only as its actor's Undo of that very activity,
\* or as another activity of that pair (handleLike, handleAnnounce, handleBlock, handleUndo).
THEOREM EdgesAreTheirActors == Spec => OnlyActorUndoes
<1>1. ASSUME IInv, [Next]_vars, NEW k \in Keys, edge[k] # NoAct, edge'[k] # edge[k]
      PROVE  \/ \E u \in Undos \cap stored : Of[u] = edge[k] /\ By[u] = k[2] /\ edge'[k] = NoAct
             \/ edge'[k] \in stored /\ Key(edge'[k]) = k /\ activityShouldApplySideEffects(edge'[k])
  <2>1. PICK w \in Workers, a \in Activities : HandleEdge(w, a) \/ HandleUndo(w, a)
    <3>1. Next /\ edge' # edge
      BY <1>1 DEF vars
    <3>2. ~(\E a \in Activities : Send(a) \/ Receive(a))
      BY <3>1 DEF Send, Receive
    <3>3. \A w \in Workers : ~Fail(w) /\ ~Vanish(w) /\ \A a \in Activities : ~Claim(w, a) /\ ~Settle(w, a)
      BY <3>1 DEF Claim, Settle, Fail, Vanish
    <3>4. \A w \in Workers, a \in Activities :
            ~HandleCreate(w, a) /\ ~HandleUpdate(w, a) /\ ~HandleDelete(w, a) /\ ~WriteObject(w, a)
      BY <3>1 DEF HandleCreate, HandleUpdate, HandleDelete, WriteObject
    <3>. QED
      BY <3>1, <3>2, <3>3, <3>4 DEF Next, ProcessInboxActivity
  <2>2. a \in stored
    BY <1>1, <2>1 DEF HandleEdge, HandleUndo, At, IInv, Leases
  <2>3. CASE HandleEdge(w, a)
    <3>1. edge' = [edge EXCEPT ![Key(a)] = a] /\ activityShouldApplySideEffects(a)
      BY <1>1, <2>3 DEF HandleEdge, UpsertEdge
    <3>2. edge'[k] = IF k = Key(a) THEN a ELSE edge[k]
      BY <1>1, <3>1 DEF IInv, TypeOK
    <3>. QED
      BY <1>1, <2>2, <3>1, <3>2
  <2>4. CASE HandleUndo(w, a)
    <3>1. a \in Undos /\ edge'[k] = IF edge[k] = Of[a] /\ k[2] = By[a] THEN NoAct ELSE edge[k]
      BY <1>1, <2>4 DEF HandleUndo, DeleteEdge
    <3>. QED
      BY <1>1, <2>2, <3>1
  <2>. QED
    BY <2>1, <2>3, <2>4
<1>2. IInv /\ [Next]_vars =>
        [\A k \in Keys : edge[k] # NoAct /\ edge'[k] # edge[k] =>
           \/ \E u \in Undos \cap stored : Of[u] = edge[k] /\ By[u] = k[2] /\ edge'[k] = NoAct
           \/ edge'[k] \in stored /\ Key(edge'[k]) = k /\ activityShouldApplySideEffects(edge'[k])]_vars
  BY <1>1
<1>. QED
  BY <1>2, Invariance, PTL DEF Spec, OnlyActorUndoes

-------------------------------------------------------------------------------
(***************************************************************************)
(* The last word.                                                          *)
(***************************************************************************)
\* The job of a is over, or will be as soon as its worker settles it.
Effective(a) ==
  state[a] = "done" \/ \E w \in Workers : At(w, "settle", a) /\ res[w] = "ok"

\* A job that somebody has is taken, and has one holder.
Holders ==
  \A a \in Activities : \A v, w \in owner[a] : state[a] = "taken" /\ v = w

\* Everything is sent once, before it is received, and an Undo after what it undoes.
Postbag ==
  /\ \A i, j \in DOMAIN issued : issued[i] = issued[j] => i = j
  /\ stored \subseteq Sent
  /\ \A i \in DOMAIN issued : issued[i] \in Undos =>
       \E j \in DOMAIN issued : j < i /\ issued[j] = Of[issued[i]]

\* Where nothing raced, what came before a received activity on its subject is done.
Queued ==
  \A i, j \in DOMAIN issued :
    /\ i < j /\ issued[j] \in stored
    /\ Subject(issued[i]) = Subject(issued[j]) /\ Subject(issued[j]) \notin raced
    /\ Legit(issued[i]) /\ Legit(issued[j])
    => state[issued[i]] = "done"

\* A handler that is about to write has an activity that counts, and a document that
\* was sent with it or later.
Fresh(w, a) ==
  /\ Meant(a)
  /\ Kind[a] # "Delete" =>
       \E i, m \in DOMAIN issued : i <= m /\ issued[i] = a /\ issued[m] = doc[w]

Freshness ==
  \A w \in Workers : \A a \in Activities :
    At(w, "write", a) /\ ~Contested(Of[a]) => Fresh(w, a)

Latest(n, I) == n \in I /\ \A j \in I : j <= n

\* The row of an object shows its last activity once that is handled.
ObjectShows(o, n) ==
  /\ live[o] <=> Kind[issued[n]] # "Delete"
  /\ live[o] => \E m \in DOMAIN issued : m >= n /\ issued[m] = raw_json[o]

\* The objects whose activities arrived in turn, and that their author alone claims.
Quiet == {o \in Objects \ raced : ~Contested(o)}

ObjectsTold ==
  \A o \in Quiet : \A n \in Turns(o) :
    Latest(n, Turns(o)) /\ Effective(issued[n]) => ObjectShows(o, n)

Likes(k) == {i \in Turns(k) : issued[i] \in OnEdges}

\* The row of an edge shows its last Like once that is handled: it is there, unless an
\* Undo of it came in, and gone once such an Undo is handled.
EdgeShows(k, n) ==
  /\ edge[k] \in {issued[n], NoAct}
  /\ edge[k] = NoAct => \E i \in Turns(k) : Kind[issued[i]] = "Undo" /\ Of[issued[i]] = issued[n]
  /\ \A i \in Turns(k) :
       Kind[issued[i]] = "Undo" /\ Of[issued[i]] = issued[n] /\ Effective(issued[i]) => edge[k] = NoAct

EdgesTold ==
  /\ \A k \in Keys : edge[k] # NoAct => Key(edge[k]) = k
  /\ \A k \in Keys \ raced : \A n \in Likes(k) :
       Latest(n, Likes(k)) /\ Effective(issued[n]) => EdgeShows(k, n)

Told == Holders /\ Postbag /\ Queued /\ Freshness /\ ObjectsTold /\ EdgesTold

\* A set of naturals has a least element.
LEMMA LeastOf ==
  ASSUME NEW S, S \subseteq Nat, S # {}
  PROVE  \E x \in S : \A y \in S : x <= y
<1> DEFINE Less == OpToRel(<, Nat)
<1>1. \A x, y \in Nat : x < y => <<x, y>> \in Less
  BY DEF OpToRel
<1>2. PICK x \in S : \A y \in S : ~ (<<y, x>> \in Less)
  <2>1. IsWellFoundedOn(Less, Nat)
    BY NatLessThanWellFounded
  <2> HIDE DEF Less
  <2>2. QED
    BY <2>1, WFMin, Zenon
<1> HIDE DEF Less
<1>3. ASSUME NEW y \in S PROVE x <= y
  <2>1. x \in Nat /\ y \in Nat /\ ~(y < x)
    BY <1>1, <1>2
  <2>. QED
    BY <2>1
<1>. QED
  BY <1>3

\* The last of finitely many turns is one of them, and none comes after it.
LEMMA LastIsLatest ==
  ASSUME NEW N \in Nat, NEW I \in SUBSET (1..N), I # {}
  PROVE  Latest(LastOf(I), I)
<1> DEFINE J == {N - i : i \in I}
<1>1. J \subseteq Nat /\ J # {}
  <2>1. \A i \in 1..N : N - i \in Nat
    OBVIOUS
  <2>. QED
    BY <2>1
<1>2. \E k \in J : \A l \in J : k <= l
  <2>. HIDE DEF J
  <2>. QED
    BY <1>1, LeastOf
<1>3. PICK n \in I : \A l \in J : N - n <= l
  BY <1>2
<1>4. ASSUME NEW j \in I PROVE j <= n
  <2>1. N - n <= N - j /\ n \in Nat /\ j \in Nat
    BY <1>3
  <2>. QED
    BY <2>1
<1>5. \E i \in I : \A j \in I : j <= i
  BY <1>4
<1>. QED
  BY <1>5 DEF LastOf, Latest

\* What is true of the subject of an activity by its kind.
LEMMA Subjects ==
  ASSUME NEW a \in Activities
  PROVE  /\ a \in OnObjects => Subject(a) = Of[a] /\ Of[a] \in Objects /\ Subject(a) \notin Keys
         /\ a \in OnEdges => /\ Subject(a) = Key(a) /\ Key(a) \in Keys
                             /\ Subject(a) \notin Objects /\ Legit(a)
         /\ a \in Undos => /\ Subject(a) = Key(Of[a]) /\ Of[a] \in OnEdges
                           /\ Subject(a) \in Keys /\ Subject(a) \notin Objects
<1>. USE FederatedAssumption
<1>1. /\ a \in OnObjects => a \notin Undos /\ a \notin OnEdges
      /\ a \in OnEdges => a \notin Undos
  BY DEF Undos, OnObjects, OnEdges, ObjectKinds, EdgeKinds
<1>2. a \in OnObjects => Subject(a) = Of[a] /\ Of[a] \in Objects /\ Subject(a) \notin Keys
  <2>1. a \in OnObjects => Subject(a) = Of[a]
    BY <1>1 DEF Subject
  <2>2. a \in OnObjects => Of[a] \in Objects
    OBVIOUS
  <2>3. \A x \in Objects : x \notin Keys
    OBVIOUS
  <2>. QED
    BY <2>1, <2>2, <2>3
<1>3. a \in OnEdges => Subject(a) = Key(a) /\ Key(a) \in Keys /\ Subject(a) \notin Objects /\ Legit(a)
  BY <1>1 DEF Subject, Keys, Legit
<1>4. a \in Undos => /\ Subject(a) = Key(Of[a]) /\ Of[a] \in OnEdges
                     /\ Subject(a) \in Keys /\ Subject(a) \notin Objects
  BY <1>1 DEF Subject, Keys
<1>. QED
  BY <1>2, <1>3, <1>4

\* A turn is a place in the order of sending, of an activity that counts.
LEMMA TurnFacts ==
  ASSUME TypeOK, NEW s, NEW i \in Turns(s)
  PROVE  /\ i \in DOMAIN issued /\ i \in Nat /\ issued[i] \in Activities
         /\ issued[i] \in stored /\ Subject(issued[i]) = s
         /\ Meant(issued[i]) /\ Legit(issued[i])
  BY DEF TypeOK, Turns, Meant

\* What was received has its place.
LEMMA PlaceOf ==
  ASSUME TypeOK, Postbag, NEW a \in stored
  PROVE  \E i \in DOMAIN issued : issued[i] = a /\ (Meant(a) => i \in Turns(Subject(a)))
  BY DEF TypeOK, Postbag, Sent, Turns

\* While a job is not done, nothing about its subject was received that was sent later,
\* unless the subject raced.
LEMMA NothingAfter ==
  ASSUME TypeOK, Queued, NEW i \in DOMAIN issued, Legit(issued[i]), state[issued[i]] # "done",
         Subject(issued[i]) \notin raced,
         NEW j \in DOMAIN issued, issued[j] \in stored, Legit(issued[j]),
         Subject(issued[j]) = Subject(issued[i])
  PROVE  j <= i
<1>1. i \in Nat /\ j \in Nat
  BY DEF TypeOK
<1>2. ~(i < j)
  BY DEF Queued
<1>. QED
  BY <1>1, <1>2

\* A job that is being handled is neither done nor over.
LEMMA BeingHandled ==
  ASSUME IInv, Holders, NEW w \in Workers, NEW a \in Activities, w \in owner[a], pc[w] # "settle"
  PROVE  a \in stored /\ state[a] # "done" /\ ~Effective(a)
<1>1. a \in stored
  BY DEF IInv, Leases
<1>2. state[a] = "taken" /\ \A v \in Workers : v \in owner[a] => v = w
  BY DEF Holders, IInv, TypeOK
<1>. QED
  BY <1>1, <1>2 DEF Effective, At

\* An object whose turns, row and handled jobs stay as they are goes on showing the last.
LEMMA ObjectKept ==
  ASSUME TypeOK, ObjectsTold, NEW o \in Quiet,
         Turns(o)' = Turns(o), issued' = issued,
         live'[o] = live[o], raw_json'[o] = raw_json[o],
         \A b \in Activities : Meant(b) /\ Subject(b) = o /\ Effective(b)' => Effective(b),
         NEW n \in Turns(o)', Latest(n, Turns(o))', Effective(issued[n])'
  PROVE  ObjectShows(o, n)'
<1>1. n \in Turns(o) /\ Latest(n, Turns(o))
  BY DEF Latest
<1>2. issued[n] \in Activities /\ Meant(issued[n]) /\ Subject(issued[n]) = o
  BY <1>1, TurnFacts
<1>3. Effective(issued[n])
  <2>. DEFINE b == issued[n]
  <2>1. issued'[n] = b
    OBVIOUS
  <2>2. Effective(b)'
    BY <2>1 DEF Effective, At
  <2>. QED
    BY <1>2, <2>2
<1>4. ObjectShows(o, n)
  BY <1>1, <1>3 DEF ObjectsTold
<1>. QED
  BY <1>4 DEF ObjectShows

\* Likewise an edge.
LEMMA EdgeKept ==
  ASSUME TypeOK, EdgesTold, NEW k \in Keys \ raced,
         Turns(k)' = Turns(k), issued' = issued, edge'[k] = edge[k],
         \A b \in Activities : Meant(b) /\ Subject(b) = k /\ Effective(b)' => Effective(b),
         NEW n \in Likes(k)', Latest(n, Likes(k))', Effective(issued[n])'
  PROVE  EdgeShows(k, n)'
<1>1. Likes(k)' = Likes(k)
  BY DEF Likes
<1>2. n \in Likes(k) /\ Latest(n, Likes(k))
  BY <1>1 DEF Latest
<1>3. \A i \in Turns(k) : Effective(issued[i])' => Effective(issued[i])
  <2>. SUFFICES ASSUME NEW i \in Turns(k), Effective(issued[i])' PROVE Effective(issued[i])
    OBVIOUS
  <2>. DEFINE b == issued[i]
  <2>1. issued'[i] = b /\ b \in Activities /\ Meant(b) /\ Subject(b) = k
    BY TurnFacts
  <2>2. Effective(b)'
    BY <2>1 DEF Effective, At
  <2>. QED
    BY <2>1, <2>2
<1>4. n \in Turns(k)
  BY <1>2 DEF Likes
<1>5. EdgeShows(k, n)
  BY <1>2, <1>3, <1>4 DEF EdgesTold
<1>. QED
  BY <1>3, <1>5 DEF EdgeShows

\* Without sending or receiving, the same objects stay quiet.
LEMMA QuietStays ==
  ASSUME UNCHANGED <<issued, stored, raced>>
  PROVE  Quiet' = Quiet
<1>1. \A o : Contested(o)' = Contested(o)
  BY ClaimantsStay
<1>. QED
  BY <1>1 DEF Quiet

\* A step that neither sends nor receives nor writes, and does not end the handling of an
\* activity that counts.
LEMMA UnwrittenTold ==
  ASSUME TypeOK, Told, Holders', Freshness',
         UNCHANGED <<issued, stored, raced, objectVars, edge>>,
         \A b \in Activities : state[b] = "done" => state'[b] = "done",
         \A b \in Activities : Meant(b) /\ Effective(b)' => Effective(b)
  PROVE  Told'
<1>1. \A s : Turns(s)' = Turns(s)
  BY DEF Turns
<1>2. Postbag'
  BY DEF Told, Postbag, Sent
<1>3. Queued'
  BY DEF Told, Queued, TypeOK
<1>4. ObjectsTold'
  BY <1>1, QuietStays, ObjectKept DEF Told, ObjectsTold, objectVars
<1>5. EdgesTold'
  <2>1. (\A k \in Keys : edge[k] # NoAct => Key(edge[k]) = k)'
    BY DEF Told, EdgesTold, Key
  <2>. QED
    BY <2>1, <1>1, EdgeKept DEF Told, EdgesTold
<1>. QED
  BY <1>2, <1>3, <1>4, <1>5 DEF Told

\* Told holds at the start.
LEMMA InitTold == Init => Told
<1>. SUFFICES ASSUME Init PROVE Told
  OBVIOUS
<1>. USE FederatedAssumption
<1>1. Holders /\ Freshness
  BY DEF Init, Q!Init, Holders, Freshness, At
<1>2. Postbag /\ Queued
  BY DEF Init, Postbag, Queued, Sent
<1>3. \A s : Turns(s) = {}
  BY DEF Init, Turns
<1>4. ObjectsTold
  BY <1>3 DEF ObjectsTold
<1>5. EdgesTold
  BY <1>3 DEF Init, EdgesTold, Likes
<1>. QED
  BY <1>1, <1>2, <1>4, <1>5 DEF Told

\* Taking a job keeps Told.
LEMMA ClaimTold ==
  ASSUME IInv, Told, NEW w \in Workers, NEW a \in Activities, Claim(w, a)
  PROVE  Told'
<1>1. /\ state[a] = "waiting" /\ pc[w] = "idle"
      /\ state' = [state EXCEPT ![a] = "taken"]
      /\ owner' = [owner EXCEPT ![a] = {w}]
      /\ pc' = [pc EXCEPT ![w] = "begin"]
      /\ UNCHANGED <<stored, objectVars, edge, doc, res, issued, raced, faults>>
  BY DEF Claim, Q!Claim, Goto
<1>2. Holders'
  BY <1>1 DEF IInv, TypeOK, Told, Holders
<1>3. Freshness'
  BY <1>1, ClaimantsStay DEF IInv, TypeOK, Told, Freshness, Fresh, At
<1>4. \A b \in Activities : state[b] = "done" => state'[b] = "done"
  BY <1>1 DEF IInv, TypeOK
<1>5. \A b \in Activities : Effective(b)' => Effective(b)
  BY <1>1 DEF IInv, TypeOK, Effective, At
<1>. QED
  BY <1>1, <1>2, <1>3, <1>4, <1>5, UnwrittenTold DEF IInv

\* A worker that lets go of its job keeps Told: a job that becomes done was over.
LEMMA LetGoTold ==
  ASSUME IInv, Told, NEW w \in Workers,
         \A a \in Activities : owner'[a] = owner[a] \ {w},
         pc' = [pc EXCEPT ![w] = "idle"], doc' = [doc EXCEPT ![w] = NoAct],
         res' = [res EXCEPT ![w] = "ok"],
         \A a \in Activities : w \notin owner[a] => state'[a] = state[a],
         \A a \in Activities : /\ state[a] = "done" => state'[a] = "done"
                               /\ owner'[a] # {} => state'[a] = state[a]
                               /\ state'[a] = "done" => Effective(a),
         UNCHANGED <<stored, objectVars, edge, issued, raced>>
  PROVE  Told'
<1>1. Holders'
  BY DEF IInv, TypeOK, Told, Holders
<1>2. Freshness'
  <2>. SUFFICES ASSUME NEW v \in Workers, NEW a \in Activities, At(v, "write", a)', ~Contested(Of[a])
                PROVE  Fresh(v, a)'
    BY ClaimantsStay DEF Freshness
  <2>1. v # w
    BY DEF At, IInv, TypeOK
  <2>2. At(v, "write", a) /\ doc'[v] = doc[v]
    BY <2>1 DEF At, IInv, TypeOK
  <2>. QED
    BY <2>2 DEF Told, Freshness, Fresh
<1>3. ASSUME NEW b \in Activities, Effective(b)' PROVE Effective(b)
  <2>1. CASE state'[b] = "done"
    BY <2>1
  <2>2. CASE \E v \in Workers : At(v, "settle", b)' /\ res'[v] = "ok"
    <3>1. PICK v \in Workers : At(v, "settle", b)' /\ res'[v] = "ok"
      BY <2>2
    <3>2. v # w
      BY <3>1 DEF At, IInv, TypeOK
    <3>3. At(v, "settle", b) /\ res[v] = "ok"
      BY <3>1, <3>2 DEF At, IInv, TypeOK
    <3>. QED
      BY <3>3 DEF Effective
  <2>. QED
    BY <1>3, <2>1, <2>2 DEF Effective
<1>. QED
  BY <1>1, <1>2, <1>3, UnwrittenTold DEF IInv

\* Settling a job keeps Told.
LEMMA SettleTold ==
  ASSUME IInv, Told, NEW w \in Workers, NEW a \in Activities, Settle(w, a)
  PROVE  Told'
<1>1. /\ state[a] = "taken" /\ owner[a] = {w}
      /\ owner' = [owner EXCEPT ![a] = {}]
      /\ \/ state' = [state EXCEPT ![a] = "done"] /\ res[w] = "ok"
         \/ state' = [state EXCEPT ![a] = "waiting"]
  <2>1. CASE res[w] = "ok"
    BY <2>1 DEF Settle, Q!Complete, Q!Settle
  <2>2. CASE res[w] # "ok"
    BY <2>2 DEF Settle, Q!Retry, Q!Settle
  <2>. QED
    BY <2>1, <2>2
<1>2. /\ At(w, "settle", a)
      /\ pc' = [pc EXCEPT ![w] = "idle"] /\ doc' = [doc EXCEPT ![w] = NoAct]
      /\ res' = [res EXCEPT ![w] = "ok"]
      /\ UNCHANGED <<stored, objectVars, edge, issued, raced>>
  BY DEF Settle, Goto
<1>3. \A b \in Activities : owner'[b] = owner[b] \ {w}
  BY <1>1 DEF IInv, TypeOK, Leases
<1>4. \A b \in Activities : state'[b] = "done" => Effective(b)
  BY <1>1, <1>2 DEF IInv, TypeOK, Effective
<1>5. \A b \in Activities : /\ w \notin owner[b] => state'[b] = state[b]
                            /\ state[b] = "done" => state'[b] = "done"
                            /\ owner'[b] # {} => state'[b] = state[b]
  BY <1>1 DEF IInv, TypeOK
<1>. QED
  BY <1>2, <1>3, <1>4, <1>5, LetGoTold

\* The death of a worker keeps Told.
LEMMA VanishTold ==
  ASSUME IInv, Told, NEW w \in Workers, Vanish(w)
  PROVE  Told'
<1>1. /\ owner' = [b \in Activities |-> owner[b] \ {w}] /\ UNCHANGED state
      /\ pc' = [pc EXCEPT ![w] = "idle"] /\ doc' = [doc EXCEPT ![w] = NoAct]
      /\ res' = [res EXCEPT ![w] = "ok"]
      /\ UNCHANGED <<stored, objectVars, edge, issued, raced>>
  BY DEF Vanish, Q!Vanish, Goto
<1>2. \A b \in Activities : state'[b] = "done" => Effective(b)
  BY <1>1 DEF Effective
<1>. QED
  BY <1>1, <1>2, LetGoTold

\* The end of a handler, before its effect on the tables is looked at: only what it has
\* ended with "ok" becomes effective.
LEMMA EndTold ==
  ASSUME IInv, Told, NEW w \in Workers, NEW how, End(w, how), pc[w] # "settle",
         UNCHANGED <<queueVars, stored, doc, issued, raced>>
  PROVE  /\ Holders' /\ Postbag' /\ Queued' /\ Freshness'
         /\ \A b \in Activities : Effective(b)' => Effective(b) \/ (w \in owner[b] /\ how = "ok")
         /\ \A s : Turns(s)' = Turns(s)
<1>1. pc' = [pc EXCEPT ![w] = "settle"] /\ res' = [res EXCEPT ![w] = how]
  BY DEF End, Goto
<1>2. Holders' /\ Postbag'
  BY DEF Told, Holders, Postbag, Sent, queueVars
<1>3. Queued'
  BY DEF Told, Queued, queueVars
<1>4. Freshness'
  BY <1>1, ClaimantsStay DEF IInv, TypeOK, Told, Freshness, Fresh, At, queueVars
<1>5. ASSUME NEW b \in Activities, Effective(b)', ~Effective(b) PROVE w \in owner[b] /\ how = "ok"
  <2>1. PICK v \in Workers : At(v, "settle", b)' /\ res'[v] = "ok"
    BY <1>5 DEF Effective, queueVars
  <2>2. v = w
    BY <1>1, <1>5, <2>1 DEF Effective, At, IInv, TypeOK, queueVars
  <2>. QED
    BY <1>1, <2>1, <2>2 DEF At, IInv, TypeOK, queueVars
<1>6. \A s : Turns(s)' = Turns(s)
  BY DEF Turns
<1>. QED
  BY <1>2, <1>3, <1>4, <1>5, <1>6

\* A handler that ends without a write, with an error or with an activity that does not
\* count, keeps Told.
LEMMA EndUnwrittenTold ==
  ASSUME IInv, Told, NEW w \in Workers, NEW how, End(w, how), pc[w] # "settle",
         UNCHANGED <<queueVars, stored, objectVars, edge, doc, issued, raced>>,
         \A b \in Activities : w \in owner[b] /\ how = "ok" => ~Meant(b)
  PROVE  Told'
<1>1. /\ Holders' /\ Freshness'
      /\ \A b \in Activities : Effective(b)' => Effective(b) \/ (w \in owner[b] /\ how = "ok")
  BY EndTold
<1>2. \A b \in Activities : Meant(b) /\ Effective(b)' => Effective(b)
  BY <1>1
<1>3. \A b \in Activities : state[b] = "done" => state'[b] = "done"
  BY DEF queueVars
<1>. QED
  BY <1>1, <1>2, <1>3, UnwrittenTold DEF IInv

LEMMA FailTold ==
  ASSUME IInv, Told, NEW w \in Workers, Fail(w)
  PROVE  Told'
  BY EndUnwrittenTold DEF Fail

\* A handler that goes on to its write with an activity that counts keeps Told.
LEMMA GoOnTold ==
  ASSUME IInv, Told, NEW w \in Workers, NEW a \in Activities, At(w, "begin", a),
         pc' = [pc EXCEPT ![w] = "write"],
         \A v \in Workers \ {w} : doc'[v] = doc[v],
         Contested(Of[a]) \/ Fresh(w, a)',
         UNCHANGED <<queueVars, stored, objectVars, edge, res, issued, raced>>
  PROVE  Told'
<1>1. Holders'
  BY DEF Told, Holders, queueVars
<1>2. Freshness'
  <2>. SUFFICES ASSUME NEW v \in Workers, NEW b \in Activities, At(v, "write", b)', ~Contested(Of[b])
                PROVE  Fresh(v, b)'
    BY ClaimantsStay DEF Freshness
  <2>1. CASE v = w
    <3>1. b = a
      BY <2>1 DEF At, IInv, Leases, queueVars
    <3>. QED
      BY <2>1, <3>1
  <2>2. CASE v # w
    <3>1. At(v, "write", b) /\ doc'[v] = doc[v]
      BY <2>2 DEF At, IInv, TypeOK, queueVars
    <3>. QED
      BY <3>1 DEF Told, Freshness, Fresh
  <2>. QED
    BY <2>1, <2>2
<1>3. \A b \in Activities : Effective(b)' => Effective(b)
  BY DEF IInv, TypeOK, Effective, At, queueVars
<1>4. \A b \in Activities : state[b] = "done" => state'[b] = "done"
  BY DEF queueVars
<1>. QED
  BY <1>1, <1>2, <1>3, <1>4, UnwrittenTold DEF IInv

\* What a Create fetches was sent with it or later, for its author's Create is one of the
\* writes that are looked at.
LEMMA FetchedIsFresh ==
  ASSUME TypeOK, NEW a \in OnObjects, Kind[a] = "Create", Legit(a),
         NEW i \in DOMAIN issued, issued[i] = a, NEW d \in Documents(a)
  PROVE  \E m \in DOMAIN issued : i <= m /\ issued[m] = d
<1>1. i \in Nat
  BY DEF TypeOK
<1>2. CASE a \in Embedded
  BY <1>1, <1>2 DEF Documents
<1>3. CASE a \notin Embedded
  <2>. DEFINE writes == {k \in DOMAIN issued : Kind[issued[k]] \in {"Create", "Update"}
                                                 /\ Of[issued[k]] = Of[a] /\ Legit(issued[k])}
  <2>1. PICK m \in DOMAIN issued : issued[m] = d /\ \A j \in writes : j <= m
    BY <1>3 DEF Documents, Served
  <2>2. i \in writes
    OBVIOUS
  <2>. QED
    BY <2>1, <2>2
<1>. QED
  BY <1>2, <1>3

\* A Create up to its write keeps Told.
LEMMA CreateTold ==
  ASSUME IInv, Told, NEW w \in Workers, NEW a \in Activities, HandleCreate(w, a)
  PROVE  Told'
<1>1. /\ a \in OnObjects /\ a \notin Undos /\ Kind[a] = "Create" /\ At(w, "begin", a) /\ pc[w] # "settle"
      /\ UNCHANGED <<queueVars, stored, objectVars, edge, issued, raced, faults>>
  BY DEF HandleCreate, OnObjects, ObjectKinds, Undos, At
<1>2. CASE End(w, "error") /\ UNCHANGED doc
  BY <1>1, <1>2, EndUnwrittenTold
<1>3. CASE End(w, "ok") /\ UNCHANGED doc /\ ~activityShouldApplySideEffects(a)
  <2>1. \A b \in Activities : w \in owner[b] => ~Meant(b)
    BY <1>1, <1>3 DEF At, IInv, Leases, Meant
  <2>. QED
    BY <1>1, <1>3, <2>1, EndUnwrittenTold
<1>4. CASE \E d \in Documents(a) : /\ activityShouldApplySideEffects(a)
                                   /\ ObjectAttributedToMatches(d, By[a])
                                   /\ Goto(w, "write")
                                   /\ doc' = [doc EXCEPT ![w] = d] /\ UNCHANGED res
  <2>1. PICK d \in Documents(a) : /\ activityShouldApplySideEffects(a)
                                  /\ ObjectAttributedToMatches(d, By[a])
                                  /\ Goto(w, "write")
                                  /\ doc' = [doc EXCEPT ![w] = d] /\ UNCHANGED res
    BY <1>4
  <2>4. a \in stored
    BY <1>1 DEF At, IInv, Leases
  <2>0. doc'[w] = d /\ \A v \in Workers \ {w} : doc'[v] = doc[v]
    <3>1. d \in OnObjects
      BY <1>1, <2>1, <2>4, CreditFacts DEF IInv, Kept
    <3>. QED
      BY <2>1, <3>1 DEF IInv, TypeOK
  <2>. SUFFICES ASSUME ~Contested(Of[a]) PROVE Told'
    BY <1>1, <2>0, <2>1, GoOnTold DEF Goto
  <2>2. By[a] = Author[Of[a]]
    BY <1>1, <2>1, <2>4, CreditFacts DEF IInv, Contested
  <2>3. Legit(a) /\ Meant(a)
    BY <1>1, <2>1, <2>2 DEF Legit, Meant
  <2>5. PICK i \in DOMAIN issued : issued[i] = a
    BY <2>4, PlaceOf DEF IInv, Told
  <2>6. PICK m \in DOMAIN issued : i <= m /\ issued[m] = d
    BY <1>1, <2>3, <2>5, FetchedIsFresh DEF IInv
  <2>8. Fresh(w, a)'
    <3>1. Meant(a)' /\ issued' = issued
      BY <1>1, <2>3 DEF Meant, Legit
    <3>. QED
      BY <2>0, <2>5, <2>6, <3>1 DEF Fresh
  <2>. QED
    BY <1>1, <2>0, <2>1, <2>8, GoOnTold DEF Goto
<1>. QED
  BY <1>2, <1>3, <1>4 DEF HandleCreate

\* An Update up to its write keeps Told.
LEMMA UpdateTold ==
  ASSUME IInv, Told, NEW w \in Workers, NEW a \in Activities, HandleUpdate(w, a)
  PROVE  Told'
<1>1. /\ a \in OnObjects /\ a \notin Undos /\ Kind[a] = "Update" /\ At(w, "begin", a) /\ pc[w] # "settle"
      /\ UNCHANGED <<queueVars, stored, objectVars, edge, issued, raced, faults>>
  BY DEF HandleUpdate, OnObjects, ObjectKinds, Undos, At
<1>2. CASE End(w, "error") /\ UNCHANGED doc
  BY <1>1, <1>2, EndUnwrittenTold
<1>3. CASE End(w, "ok") /\ UNCHANGED doc /\ (a \notin Embedded \/ ~activityShouldApplySideEffects(a))
  <2>1. \A b \in Activities : w \in owner[b] => ~Meant(b)
    BY <1>1, <1>3 DEF At, IInv, Leases, Meant
  <2>. QED
    BY <1>1, <1>3, <2>1, EndUnwrittenTold
<1>4. CASE /\ a \in Embedded /\ activityShouldApplySideEffects(a)
           /\ ObjectAttributedToMatches(a, By[a])
           /\ Goto(w, "write") /\ doc' = [doc EXCEPT ![w] = a] /\ UNCHANGED res
  <2>3. a \in stored
    BY <1>1 DEF At, IInv, Leases
  <2>6. doc'[w] = a /\ \A v \in Workers \ {w} : doc'[v] = doc[v]
    BY <1>4 DEF IInv, TypeOK
  <2>. SUFFICES ASSUME ~Contested(Of[a]) PROVE Told'
    BY <1>1, <1>4, <2>6, GoOnTold DEF Goto
  <2>1. By[a] = Author[Of[a]]
    <3>1. a \in Documents(a)
      BY <1>4 DEF Documents
    <3>. QED
      BY <1>1, <1>4, <2>3, <3>1, CreditFacts DEF IInv, Contested
  <2>2. Meant(a)
    BY <1>1, <1>4, <2>1 DEF Legit, Meant
  <2>4. PICK i \in DOMAIN issued : issued[i] = a
    BY <2>3, PlaceOf DEF IInv, Told
  <2>5. i <= i
    BY DEF IInv, TypeOK
  <2>7. Fresh(w, a)'
    <3>1. Meant(a)' /\ issued' = issued
      BY <1>1, <2>2 DEF Meant, Legit
    <3>. QED
      BY <2>4, <2>5, <2>6, <3>1 DEF Fresh
  <2>. QED
    BY <1>1, <1>4, <2>6, <2>7, GoOnTold DEF Goto
<1>. QED
  BY <1>2, <1>3, <1>4 DEF HandleUpdate

\* The handler that ends, of an activity about an object that counts and is the last
\* received: if the row then shows it, or the object is contested, Told is kept.
LEMMA ObjectEndTold ==
  ASSUME IInv, Told, NEW w \in Workers, NEW a \in OnObjects, w \in owner[a],
         pc[w] # "settle", NEW how, End(w, how),
         UNCHANGED <<queueVars, stored, edge, doc, issued, raced>>,
         \A o \in Objects \ {Of[a]} : live'[o] = live[o] /\ raw_json'[o] = raw_json[o],
         \/ Contested(Of[a])
         \/ Meant(a) /\ \A n \in DOMAIN issued : issued[n] = a => ObjectShows(Of[a], n)'
  PROVE  Told'
<1>1. /\ Holders' /\ Postbag' /\ Queued' /\ Freshness'
      /\ \A b \in Activities : Effective(b)' => Effective(b) \/ (w \in owner[b] /\ how = "ok")
      /\ \A s : Turns(s)' = Turns(s)
  BY EndTold
<1>2. a \in Activities /\ Subject(a) = Of[a] /\ Subject(a) \notin Keys
  BY Subjects DEF OnObjects
<1>3. \A b \in Activities : b # a /\ Effective(b)' => Effective(b)
  BY <1>1, <1>2 DEF IInv, Leases
<1>4. a \in stored /\ state[a] # "done"
  BY <1>2, BeingHandled DEF Told
<1>5. ObjectsTold'
  <2>. SUFFICES ASSUME NEW o \in Quiet, NEW n \in Turns(o)', Latest(n, Turns(o))',
                       Effective(issued[n])'
                PROVE  ObjectShows(o, n)'
    BY QuietStays DEF ObjectsTold
  <2>1. CASE o # Of[a]
    <3>1. \A b \in Activities : Meant(b) /\ Subject(b) = o /\ Effective(b)' => Effective(b)
      BY <1>2, <1>3, <2>1
    <3>. QED
      BY <1>1, <2>1, <3>1, ObjectKept DEF IInv, Told, Quiet
  <2>2. CASE o = Of[a]
    <3>0. /\ Meant(a) /\ Legit(a) /\ o \notin raced
          /\ \A l \in DOMAIN issued : issued[l] = a => ObjectShows(Of[a], l)'
      BY <2>2 DEF Quiet, Meant
    <3>1. PICK i \in DOMAIN issued : issued[i] = a /\ i \in Turns(o)
      BY <1>2, <1>4, <2>2, <3>0, PlaceOf DEF IInv, Told
    <3>2. n \in Turns(o) /\ i <= n
      BY <1>1, <3>1 DEF Latest
    <3>3. /\ n \in DOMAIN issued /\ n \in Nat /\ issued[n] \in stored
          /\ Legit(issued[n]) /\ Subject(issued[n]) = o
      BY <3>2, TurnFacts DEF IInv
    <3>4. n <= i
      BY <1>2, <1>4, <2>2, <3>0, <3>1, <3>3, NothingAfter DEF IInv, Told
    <3>5. n = i
      BY <3>1, <3>2, <3>3, <3>4, TurnFacts DEF IInv
    <3>. QED
      BY <2>2, <3>0, <3>1, <3>5
  <2>. QED
    BY <2>1, <2>2
<1>6. EdgesTold'
  <2>1. (\A k \in Keys : edge[k] # NoAct => Key(edge[k]) = k)'
    BY DEF Told, EdgesTold, Key
  <2>2. ASSUME NEW k \in Keys \ raced
        PROVE  \A b \in Activities : Meant(b) /\ Subject(b) = k /\ Effective(b)' => Effective(b)
    BY <1>2, <1>3
  <2>. QED
    BY <2>1, <2>2, <1>1, EdgeKept DEF Told, EdgesTold, IInv
<1>. QED
  BY <1>1, <1>5, <1>6 DEF Told

\* A Delete up to its write keeps Told: it ends at once only when nothing is there.
LEMMA DeleteTold ==
  ASSUME IInv, Told, NEW w \in Workers, NEW a \in Activities, HandleDelete(w, a)
  PROVE  Told'
<1>1. /\ a \in OnObjects /\ a \notin Undos /\ Kind[a] = "Delete" /\ At(w, "begin", a) /\ pc[w] # "settle"
      /\ w \in owner[a]
      /\ UNCHANGED <<queueVars, stored, objectVars, edge, doc, issued, raced, faults>>
  BY DEF HandleDelete, OnObjects, ObjectKinds, Undos, At
<1>2. CASE End(w, "error")
  BY <1>1, <1>2, EndUnwrittenTold
<1>3. CASE End(w, "ok") /\ ~Meant(a)
  <2>1. \A b \in Activities : w \in owner[b] => ~Meant(b)
    BY <1>1, <1>3 DEF IInv, Leases
  <2>. QED
    BY <1>1, <1>3, <2>1, EndUnwrittenTold
<1>4. CASE End(w, "ok") /\ Meant(a) /\ ObjectOwnerActorID(Of[a]) = Nobody
  <2>1. Of[a] \in Objects
    BY <1>1, FederatedAssumption
  <2>2. live[Of[a]] = FALSE
    <3>1. live[Of[a]] \in BOOLEAN
      BY <2>1 DEF IInv, TypeOK
    <3>2. live[Of[a]] => actor_id[Of[a]] # Nobody
      BY <2>1, Zenon DEF IInv, TypeOK
    <3>3. ~live[Of[a]]
      BY <1>4, <3>2, Zenon DEF ObjectOwnerActorID
    <3>. QED
      BY <3>1, <3>3, Zenon
  <2>3. \A n \in DOMAIN issued : issued[n] = a => ObjectShows(Of[a], n)'
    BY <1>1, <2>2 DEF ObjectShows, objectVars
  <2>. QED
    BY <1>1, <1>4, <2>3, ObjectEndTold DEF objectVars
<1>5. CASE /\ activityShouldApplySideEffects(a) /\ ObjectOwnerActorID(Of[a]) = By[a]
           /\ Goto(w, "write") /\ UNCHANGED res
  <2>1. Of[a] \in Objects /\ By[a] # Nobody
    BY <1>1, FederatedAssumption
  <2>2. actor_id[Of[a]] = By[a]
    BY <1>5, <2>1 DEF ObjectOwnerActorID
  <2>3. ~Contested(Of[a]) => By[a] = Author[Of[a]]
    BY <2>1, <2>2 DEF IInv, KeptAsClaimed, Contested
  <2>4. ~Contested(Of[a]) => Fresh(w, a)'
    BY <1>1, <1>5, <2>3 DEF Fresh, Meant, Legit
  <2>. QED
    BY <1>1, <1>5, <2>4, GoOnTold DEF Goto
<1>. QED
  BY <1>1, <1>2, <1>3, <1>4, <1>5 DEF HandleDelete, Meant

\* The write of a Create, an Update or a Delete keeps Told.
LEMMA WriteTold ==
  ASSUME IInv, Told, NEW w \in Workers, NEW a \in Activities, WriteObject(w, a)
  PROVE  Told'
<1>1. /\ At(w, "write", a) /\ w \in owner[a] /\ pc[w] # "settle"
      /\ UNCHANGED <<queueVars, stored, edge, doc, issued, raced>>
  BY DEF WriteObject, At
<1>2. a \in OnObjects /\ Of[a] \in Objects
  BY <1>1, FederatedAssumption DEF IInv, Writes, Vouched
<1>6. ~Contested(Of[a]) => Fresh(w, a) /\ Meant(a)
  BY <1>1 DEF Told, Freshness, Fresh
<1>3. \A o \in Objects \ {Of[a]} : live'[o] = live[o] /\ raw_json'[o] = raw_json[o]
  BY DEF WriteObject, SoftDeleteFederatedObject, UpsertFederatedObject, IInv, TypeOK
<1>4. ASSUME ~Contested(Of[a]), NEW n \in DOMAIN issued, issued[n] = a PROVE ObjectShows(Of[a], n)'
  <2>1. CASE Kind[a] = "Delete"
    <3>1. live'[Of[a]] = FALSE
      BY <1>2, <2>1 DEF WriteObject, SoftDeleteFederatedObject, IInv, TypeOK
    <3>. QED
      BY <1>1, <1>4, <2>1, <3>1 DEF ObjectShows
  <2>2. CASE Kind[a] # "Delete"
    <3>1. live'[Of[a]] = TRUE /\ raw_json'[Of[a]] = doc[w]
      BY <1>2, <2>2 DEF WriteObject, UpsertFederatedObject, IInv, TypeOK
    <3>2. PICK i \in DOMAIN issued, m \in DOMAIN issued : i <= m /\ issued[i] = a /\ issued[m] = doc[w]
      BY <1>4, <1>6, <2>2 DEF Fresh
    <3>3. i = n /\ i \in Nat /\ m \in Nat
      BY <1>4, <3>2 DEF Told, Postbag, IInv, TypeOK
    <3>4. m >= n /\ issued'[m] = raw_json'[Of[a]] /\ m \in DOMAIN issued' /\ Kind[issued'[n]] # "Delete"
      BY <1>1, <1>4, <2>2, <3>1, <3>2, <3>3
    <3>. QED
      BY <3>1, <3>4 DEF ObjectShows
  <2>. QED
    BY <2>1, <2>2
<1>5. PICK how \in {"ok", "error"} : End(w, how)
  BY DEF WriteObject, Committed
<1>7. Contested(Of[a]) \/ (Meant(a) /\ \A n \in DOMAIN issued : issued[n] = a => ObjectShows(Of[a], n)')
  BY <1>4, <1>6
<1>. QED
  BY <1>1, <1>2, <1>3, <1>5, <1>7, ObjectEndTold

\* A handler that ends, of an activity about an edge, tells nothing about the objects, and
\* nothing about the other edges if it leaves these alone.
LEMMA EdgeEndTold ==
  ASSUME IInv, Told, NEW w \in Workers, NEW a \in Activities, w \in owner[a],
         a \in OnEdges \/ a \in Undos,
         pc[w] # "settle", NEW how, End(w, how),
         UNCHANGED <<queueVars, stored, objectVars, doc, issued, raced>>,
         \A k \in Keys : edge'[k] # NoAct => Key(edge'[k]) = k,
         \A k \in Keys : k # Subject(a) \/ ~Meant(a) => edge'[k] = edge[k],
         Meant(a) /\ Subject(a) \notin raced =>
           \A n \in Likes(Subject(a)) :
             /\ Latest(n, Likes(Subject(a)))
             /\ issued[n] # a => Effective(issued[n])
             => EdgeShows(Subject(a), n)'
  PROVE  Told'
<1>1. /\ Holders' /\ Postbag' /\ Queued' /\ Freshness'
      /\ \A b \in Activities : Effective(b)' => Effective(b) \/ (w \in owner[b] /\ how = "ok")
      /\ \A s : Turns(s)' = Turns(s)
  BY EndTold
<1>2. Subject(a) \notin Objects
  BY Subjects
<1>3. \A b \in Activities : b # a /\ Effective(b)' => Effective(b)
  BY <1>1 DEF IInv, Leases
<1>4. ObjectsTold'
  <2>1. ASSUME NEW o \in Quiet
        PROVE  \A b \in Activities : Meant(b) /\ Subject(b) = o /\ Effective(b)' => Effective(b)
    BY <1>2, <1>3 DEF Quiet
  <2>. QED
    BY <2>1, <1>1, QuietStays, ObjectKept DEF Told, ObjectsTold, objectVars, IInv
<1>5. EdgesTold'
  <2>1. (\A k \in Keys : edge[k] # NoAct => Key(edge[k]) = k)'
    BY DEF Key
  <2>2. ASSUME NEW k \in Keys \ raced, NEW n \in Likes(k)', Latest(n, Likes(k))', Effective(issued[n])'
        PROVE  EdgeShows(k, n)'
    <3>1. CASE k # Subject(a) \/ ~Meant(a)
      <4>1. \A b \in Activities : Meant(b) /\ Subject(b) = k /\ Effective(b)' => Effective(b)
        BY <1>3, <3>1
      <4>. QED
        BY <1>1, <2>2, <3>1, <4>1, EdgeKept DEF IInv, Told
    <3>2. CASE k = Subject(a) /\ Meant(a)
      <4>1. Likes(k)' = Likes(k)
        BY <1>1 DEF Likes
      <4>2. n \in Likes(k) /\ Latest(n, Likes(k))
        BY <2>2, <4>1 DEF Latest
      <4>3. issued[n] # a => Effective(issued[n])
        <5>. DEFINE b == issued[n]
        <5>1. b \in Activities /\ issued'[n] = b
          BY <4>2, TurnFacts DEF Likes, IInv
        <5>2. Effective(b)'
          BY <2>2, <5>1 DEF Effective, At
        <5>. QED
          BY <1>3, <5>1, <5>2
      <4>. QED
        BY <3>2, <4>2, <4>3
    <3>. QED
      BY <3>1, <3>2
  <2>. QED
    BY <2>1, <2>2 DEF EdgesTold
<1>. QED
  BY <1>1, <1>4, <1>5 DEF Told

\* A Like, an Announce or a Block keeps Told: its Undo cannot have come in yet.
LEMMA EdgeTold ==
  ASSUME IInv, Told, NEW w \in Workers, NEW a \in Activities, HandleEdge(w, a)
  PROVE  Told'
<1>1. /\ a \in OnEdges /\ At(w, "begin", a) /\ w \in owner[a] /\ pc[w] # "settle"
      /\ UNCHANGED <<queueVars, stored, objectVars, doc, issued, raced>>
  BY DEF HandleEdge, At
<1>2. PICK how \in {"ok", "error"} : End(w, how)
  BY DEF HandleEdge, Committed
<1>3. /\ Subject(a) = Key(a) /\ Key(a) \in Keys /\ Legit(a) /\ a # NoAct
      /\ Kind[a] # "Update" /\ a \notin Undos
  BY <1>1, Subjects, FederatedAssumption DEF OnEdges, EdgeKinds, Undos
<1>4. \A k \in Keys : edge'[k] = IF k = Key(a) /\ activityShouldApplySideEffects(a) THEN a ELSE edge[k]
  BY DEF HandleEdge, UpsertEdge, IInv, TypeOK
<1>5. \A k \in Keys : edge'[k] # NoAct => Key(edge'[k]) = k
  BY <1>4 DEF Told, EdgesTold
<1>6. \A k \in Keys : k # Subject(a) \/ ~Meant(a) => edge'[k] = edge[k]
  BY <1>3, <1>4 DEF Meant
<1>7. ASSUME Meant(a), Subject(a) \notin raced, NEW n \in Likes(Subject(a)),
             Latest(n, Likes(Subject(a)))
      PROVE  EdgeShows(Subject(a), n)'
  <2>. DEFINE k == Subject(a)
  <2>1. a \in stored /\ state[a] # "done"
    BY <1>1, BeingHandled DEF Told
  <2>2. PICK i \in DOMAIN issued : issued[i] = a /\ i \in Turns(k)
    BY <1>7, <2>1, PlaceOf DEF IInv, Told
  <2>3. \A j \in Turns(k) : j <= i
    BY <1>3, <1>7, <2>1, <2>2, TurnFacts, NothingAfter DEF IInv, Told
  <2>4. n = i
    <3>1. i \in Likes(k)
      BY <1>1, <2>2 DEF Likes
    <3>2. i <= n /\ n <= i /\ n \in Nat /\ i \in Nat
      BY <1>7, <2>3, <3>1, TurnFacts DEF Latest, Likes, IInv
    <3>. QED
      BY <3>2
  <2>5. edge'[k] = a
    BY <1>3, <1>4, <1>7 DEF Meant
  <2>6. ASSUME NEW j \in Turns(k), Kind[issued[j]] = "Undo", Of[issued[j]] = a PROVE FALSE
    <3>1. j \in DOMAIN issued /\ issued[j] \in Undos /\ j <= i
      BY <2>3, <2>6, TurnFacts DEF IInv, Undos
    <3>2. PICK l \in DOMAIN issued : l < j /\ issued[l] = a
      BY <2>6, <3>1 DEF Told, Postbag
    <3>3. l = i /\ l \in Nat /\ j \in Nat
      BY <2>2, <3>1, <3>2 DEF Told, Postbag, IInv, TypeOK
    <3>. QED
      BY <3>1, <3>2, <3>3
  <2>7. Turns(k)' = Turns(k) /\ issued' = issued
    BY <1>1 DEF Turns
  <2>. QED
    BY <1>3, <2>2, <2>4, <2>5, <2>6, <2>7 DEF EdgeShows
<1>. QED
  BY <1>1, <1>2, <1>5, <1>6, <1>7, EdgeEndTold

\* An Undo keeps Told: it deletes what it names, if that is the last of its pair.
LEMMA UndoTold ==
  ASSUME IInv, Told, NEW w \in Workers, NEW u \in Activities, HandleUndo(w, u)
  PROVE  Told'
<1>1. /\ u \in Undos /\ At(w, "begin", u) /\ w \in owner[u] /\ pc[w] # "settle"
      /\ UNCHANGED <<queueVars, stored, objectVars, doc, issued, raced>>
  BY DEF HandleUndo, At
<1>2. PICK how \in {"ok", "error"} : End(w, how)
  BY DEF HandleUndo, Committed
<1>3. /\ Subject(u) = Key(Of[u]) /\ Of[u] \in OnEdges /\ Subject(u) \in Keys /\ Of[u] # NoAct
      /\ Kind[u] = "Undo"
  BY <1>1, Subjects, FederatedAssumption DEF OnEdges, Undos
<1>4. \A k \in Keys : edge'[k] = IF edge[k] = Of[u] /\ k[2] = By[u] THEN NoAct ELSE edge[k]
  BY DEF HandleUndo, DeleteEdge
<1>5. \A k \in Keys : edge'[k] # NoAct => Key(edge'[k]) = k
  BY <1>4 DEF Told, EdgesTold
<1>6. Meant(u) <=> By[u] = By[Of[u]]
  BY <1>1, <1>3 DEF Meant, Legit, OnObjects, ObjectKinds
<1>7. ASSUME NEW k \in Keys, k # Subject(u) \/ ~Meant(u) PROVE edge'[k] = edge[k]
  <2>1. ~(edge[k] = Of[u] /\ k[2] = By[u])
    <3>. SUFFICES ASSUME edge[k] = Of[u], k[2] = By[u] PROVE FALSE
      OBVIOUS
    <3>1. Key(Of[u]) = k
      BY <1>3 DEF Told, EdgesTold
    <3>2. Key(Of[u])[2] = By[Of[u]]
      BY DEF Key
    <3>. QED
      BY <1>3, <1>6, <1>7, <3>1, <3>2
  <2>. QED
    BY <1>4, <2>1
<1>8. ASSUME Meant(u), Subject(u) \notin raced, NEW n \in Likes(Subject(u)),
             Latest(n, Likes(Subject(u))), issued[n] # u => Effective(issued[n])
      PROVE  EdgeShows(Subject(u), n)'
  <2>. DEFINE k == Subject(u)
  <2>1. n \in Turns(k) /\ issued[n] \in OnEdges /\ issued[n] # u
    BY <1>1, <1>8 DEF Likes, OnEdges, EdgeKinds, Undos
  <2>2. EdgeShows(k, n)
    BY <1>3, <1>8, <2>1 DEF Told, EdgesTold
  <2>3. Turns(k)' = Turns(k) /\ issued' = issued
    BY <1>1 DEF Turns
  <2>4. k[2] = By[u]
    BY <1>3, <1>6, <1>8 DEF Key
  <2>5. CASE Of[u] = issued[n]
    <3>1. edge'[k] = NoAct
      BY <1>3, <1>4, <2>2, <2>4, <2>5 DEF EdgeShows
    <3>2. PICK i \in Turns(k) : issued[i] = u
      <4>1. u \in stored
        BY <1>1, BeingHandled DEF Told
      <4>. QED
        BY <1>8, <4>1, PlaceOf DEF IInv, Told
    <3>. QED
      BY <1>3, <2>3, <2>5, <3>1, <3>2 DEF EdgeShows
  <2>6. CASE Of[u] # issued[n]
    <3>1. edge'[k] = edge[k]
      BY <1>3, <1>4, <2>2, <2>6 DEF EdgeShows
    <3>2. ASSUME NEW i \in Turns(k), Of[issued[i]] = issued[n], Effective(issued[i])'
          PROVE  Effective(issued[i])
      <4>. DEFINE b == issued[i]
      <4>1. b \in Activities /\ b # u /\ issued'[i] = b
        BY <1>1, <2>6, <3>2, TurnFacts DEF IInv
      <4>2. Effective(b)'
        BY <3>2, <4>1 DEF Effective, At
      <4>3. \A c \in Activities : Effective(c)' => Effective(c) \/ (w \in owner[c] /\ how = "ok")
        BY <1>1, <1>2, EndTold
      <4>. QED
        BY <1>1, <4>1, <4>2, <4>3 DEF IInv, Leases
    <3>. QED
      BY <2>2, <2>3, <3>1, <3>2 DEF EdgeShows
  <2>. QED
    BY <2>5, <2>6
<1>. QED
  BY <1>1, <1>2, <1>5, <1>7, <1>8, EdgeEndTold

\* Sending keeps Told: what is sent last was not received.
LEMMA SendTold ==
  ASSUME IInv, Told, NEW a \in Activities, Send(a)
  PROVE  Told'
<1>. DEFINE N == Len(issued)
<1>1. /\ N \in Nat /\ DOMAIN issued = 1..N /\ DOMAIN issued' = 1..(N + 1)
      /\ issued'[N + 1] = a
      /\ \A i \in DOMAIN issued : issued'[i] = issued[i] /\ i \in DOMAIN issued' /\ i < N + 1
      /\ \A i \in DOMAIN issued' : i # N + 1 => i \in DOMAIN issued
  BY DEF Send, IInv, TypeOK
<1>2. /\ a \notin Sent /\ a \notin stored
      /\ UNCHANGED <<queueVars, stored, objectVars, edge, pc, doc, res, raced, faults>>
  BY DEF Send, Told, Postbag
<1>. HIDE DEF N
<1>0. \A o : Contested(o) => Contested(o)'
  BY <1>1, <1>2, ClaimantsGrow DEF Sent
<1>3. Holders'
  BY <1>2 DEF Told, Holders, queueVars
<1>4. Postbag'
  <2>1. (\A i, j \in DOMAIN issued : issued[i] = issued[j] => i = j)'
    BY <1>1, <1>2 DEF Told, Postbag, Sent
  <2>2. (stored \subseteq Sent)'
    BY <1>1, <1>2 DEF Told, Postbag, Sent
  <2>3. ASSUME NEW i \in DOMAIN issued', issued'[i] \in Undos
        PROVE  \E j \in DOMAIN issued' : j < i /\ issued'[j] = Of[issued'[i]]
    <3>1. CASE i = N + 1
      <4>1. Of[a] \in Sent
        BY <1>1, <2>3, <3>1 DEF Send
      <4>. QED
        BY <1>1, <3>1, <4>1 DEF Sent
    <3>2. CASE i # N + 1
      <4>1. PICK j \in DOMAIN issued : j < i /\ issued[j] = Of[issued[i]]
        BY <1>1, <2>3, <3>2 DEF Told, Postbag
      <4>. QED
        BY <1>1, <3>2, <4>1
    <3>. QED
      BY <3>1, <3>2
  <2>. QED
    BY <2>1, <2>2, <2>3 DEF Postbag
<1>5. Queued'
  <2>. SUFFICES ASSUME NEW i \in DOMAIN issued', NEW j \in DOMAIN issued', i < j,
                       issued'[j] \in stored, Subject(issued'[i]) = Subject(issued'[j]),
                       Subject(issued'[j]) \notin raced, Legit(issued'[i]), Legit(issued'[j])
                PROVE  state[issued'[i]] = "done"
    BY <1>2 DEF Queued, queueVars, Subject, Legit
  <2>1. j # N + 1
    BY <1>1, <1>2
  <2>2. i \in DOMAIN issued /\ j \in DOMAIN issued
    BY <1>1, <2>1
  <2>. QED
    BY <1>1, <2>2 DEF Told, Queued
<1>6. Freshness'
  <2>. SUFFICES ASSUME NEW w \in Workers, NEW b \in Activities, At(w, "write", b), ~Contested(Of[b])
                PROVE  Fresh(w, b)'
    BY <1>0, <1>2 DEF Freshness, At, queueVars
  <2>1. Fresh(w, b)
    BY DEF Told, Freshness
  <2>. QED
    BY <1>1, <1>2, <2>1 DEF Fresh, Meant, Legit
<1>7. \A s : Turns(s)' = Turns(s)
  BY <1>1, <1>2 DEF Turns
<1>8. ObjectsTold'
  <2>. SUFFICES ASSUME NEW o \in Quiet, NEW n \in Turns(o), Latest(n, Turns(o)),
                       Effective(issued[n])
                PROVE  ObjectShows(o, n)'
    <3>1. \A o : \A n \in Turns(o) : issued'[n] = issued[n]
      BY <1>1 DEF Turns
    <3>2. Quiet' \subseteq Quiet
      BY <1>0, <1>2 DEF Quiet
    <3>. QED
      BY <1>2, <1>7, <3>1, <3>2 DEF ObjectsTold, Latest, Effective, At, queueVars
  <2>1. ObjectShows(o, n) /\ issued'[n] = issued[n]
    BY <1>1 DEF Told, ObjectsTold, Turns
  <2>. QED
    BY <1>1, <1>2, <2>1 DEF ObjectShows, objectVars
<1>9. EdgesTold'
  <2>1. \A k : \A n \in Turns(k) : issued'[n] = issued[n]
    BY <1>1 DEF Turns
  <2>2. \A k : Likes(k)' = Likes(k)
    BY <1>7, <2>1 DEF Likes
  <2>3. (\A k \in Keys : edge[k] # NoAct => Key(edge[k]) = k)'
    BY <1>2 DEF Told, EdgesTold, Key
  <2>4. ASSUME NEW k \in Keys \ raced, NEW n \in Likes(k), Latest(n, Likes(k)), Effective(issued[n])
        PROVE  EdgeShows(k, n)'
    <3>1. EdgeShows(k, n) /\ n \in Turns(k)
      BY <2>4 DEF Told, EdgesTold, Likes
    <3>. QED
      BY <1>2, <1>7, <2>1, <3>1 DEF EdgeShows, Effective, At, queueVars
  <2>5. \A k : \A n \in Likes(k) : issued'[n] = issued[n]
    BY <2>1 DEF Likes
  <2>. QED
    BY <1>2, <2>2, <2>3, <2>4, <2>5 DEF EdgesTold, Latest, Effective, At, queueVars
<1>. QED
  BY <1>3, <1>4, <1>5, <1>6, <1>8, <1>9 DEF Told

\* Receiving keeps Told: what comes in turn is the last of its subject, and not over.
LEMMA ReceiveTold ==
  ASSUME IInv, Told, NEW a \in Activities, Receive(a)
  PROVE  Told'
<1>1. /\ a \in Sent /\ a \notin stored /\ stored' = stored \cup {a}
      /\ state' = [j \in Activities |-> IF j = a THEN "waiting" ELSE state[j]]
      /\ raced \subseteq raced'
      /\ Legit(a) /\ Subject(a) \notin raced' => InTurn(a)
      /\ UNCHANGED <<owner, objectVars, edge, pc, doc, res, issued, faults>>
  BY DEF Receive, Q!Submit
<1>2. state[a] = "none" /\ owner[a] = {}
  BY <1>1 DEF IInv, Leases
<1>3. \A b \in Activities : state[b] = "done" => state'[b] = "done"
  BY <1>1, <1>2
<1>4. /\ \A b \in Activities : Effective(b)' => Effective(b)
      /\ ~Effective(a)'
  BY <1>1, <1>2 DEF Effective, At
<1>5. PICK i \in DOMAIN issued : issued[i] = a
  BY <1>1 DEF Sent
<1>6. i \in Nat /\ \A j \in DOMAIN issued : j \in Nat /\ issued[j] \in Activities
  BY DEF IInv, TypeOK
<1>0. \A o : Contested(o) => Contested(o)'
  BY <1>1, ClaimantsGrow DEF Sent
<1>7. Holders' /\ Freshness' /\ Postbag'
  <2>1. Holders'
    BY <1>1, <1>2 DEF Told, Holders
  <2>2. Freshness'
    BY <1>0, <1>1 DEF Told, Freshness, Fresh, At, Meant, Legit
  <2>3. Postbag'
    BY <1>1 DEF Told, Postbag, Sent
  <2>. QED
    BY <2>1, <2>2, <2>3
<1>8. ASSUME NEW h \in DOMAIN issued, NEW j \in DOMAIN issued, h < j,
             issued[j] \in stored', Subject(issued[h]) = Subject(issued[j]),
             Subject(issued[j]) \notin raced', Legit(issued[h]), Legit(issued[j])
      PROVE  state[issued[h]] = "done"
  <2>1. CASE issued[j] = a
    BY <1>1, <1>8, <2>1 DEF InTurn
  <2>2. CASE issued[j] # a
    BY <1>1, <1>8, <2>2 DEF Told, Queued
  <2>. QED
    BY <2>1, <2>2
<1>9. Queued'
  BY <1>1, <1>3, <1>6, <1>8 DEF Queued, Subject, Legit
\* Nothing on its subject came before that was sent later.
<1>10. ASSUME Legit(a), Subject(a) \notin raced', NEW n \in DOMAIN issued, issued[n] \in stored',
              Legit(issued[n]), Subject(issued[n]) = Subject(a)
       PROVE  n <= i
  <2>1. ~(i < n)
    BY <1>2, <1>5, <1>8, <1>10
  <2>. QED
    BY <1>6, <2>1
<1>11. \A s : ~(Meant(a) /\ Subject(a) = s) => Turns(s)' = Turns(s)
  BY <1>1 DEF Turns, Meant, Legit, Subject
<1>12. \A s : /\ Turns(s) \subseteq Turns(s)'
              /\ Meant(a) /\ Subject(a) = s => i \in Turns(s)'
              /\ \A n \in Turns(s)' : /\ n \in DOMAIN issued /\ issued[n] \in stored'
                                      /\ Legit(issued[n]) /\ Subject(issued[n]) = s
                                      /\ n \in Turns(s) \/ issued[n] = a
  BY <1>1, <1>5 DEF Turns, Meant, Legit, Subject
\* A later turn would be the last, and a is not over.
<1>13. ASSUME Meant(a), Subject(a) \notin raced', NEW n \in Turns(Subject(a))', i <= n,
              Effective(issued[n])'
       PROVE  FALSE
  <2>1. n <= i
    BY <1>10, <1>12, <1>13 DEF Meant
  <2>2. n = i
    BY <1>6, <1>12, <1>13, <2>1
  <2>. QED
    BY <1>1, <1>4, <1>5, <1>13, <2>2 DEF Effective, At
<1>14. ObjectsTold'
  <2>. SUFFICES ASSUME NEW o \in Quiet', NEW n \in Turns(o)', Latest(n, Turns(o))',
                       Effective(issued[n])'
                PROVE  ObjectShows(o, n)'
    BY DEF ObjectsTold
  <2>0. o \in Quiet /\ o \notin raced'
    BY <1>0, <1>1 DEF Quiet
  <2>1. CASE Meant(a) /\ Subject(a) = o
    BY <1>12, <1>13, <2>0, <2>1 DEF Latest
  <2>2. CASE ~(Meant(a) /\ Subject(a) = o)
    <3>1. Turns(o)' = Turns(o)
      BY <1>11, <2>2
    <3>. QED
      BY <1>1, <1>4, <2>0, <3>1, ObjectKept DEF IInv, Told, objectVars
  <2>. QED
    BY <2>1, <2>2
<1>15. EdgesTold'
  <2>1. (\A k \in Keys : edge[k] # NoAct => Key(edge[k]) = k)'
    BY <1>1 DEF Told, EdgesTold, Key
  <2>. SUFFICES ASSUME NEW k \in Keys \ raced', NEW n \in Likes(k)', Latest(n, Likes(k))',
                       Effective(issued[n])'
                PROVE  EdgeShows(k, n)'
    BY <2>1 DEF EdgesTold
  <2>2. CASE ~(Meant(a) /\ Subject(a) = k)
    <3>1. Turns(k)' = Turns(k) /\ k \in Keys \ raced
      BY <1>1, <1>11, <2>2
    <3>. QED
      BY <1>1, <1>4, <3>1, EdgeKept DEF IInv, Told
  <2>3. CASE Meant(a) /\ Subject(a) = k /\ a \in OnEdges
    <3>1. n \in Turns(k)' /\ i \in Likes(k)'
      BY <1>1, <1>5, <1>12, <2>3 DEF Likes
    <3>. QED
      BY <1>13, <2>3, <3>1 DEF Latest
  <2>4. CASE Meant(a) /\ Subject(a) = k /\ a \notin OnEdges
    <3>1. Likes(k)' = Likes(k)
      BY <1>1, <1>12, <2>4 DEF Likes
    <3>2. n \in Likes(k) /\ Latest(n, Likes(k)) /\ k \in Keys \ raced
      BY <1>1, <3>1 DEF Latest
    <3>3. n \in DOMAIN issued /\ issued[n] \in Activities /\ issued'[n] = issued[n]
      BY <1>1, <3>2, TurnFacts DEF Likes, IInv
    <3>4. Effective(issued[n])
      <4>. DEFINE b == issued[n]
      <4>1. Effective(b)'
        BY <3>3 DEF Effective, At
      <4>. QED
        BY <1>4, <3>3, <4>1
    <3>5. EdgeShows(k, n)
      BY <3>2, <3>4 DEF Told, EdgesTold
    <3>6. ASSUME NEW j \in Turns(k)', Effective(issued[j])'
          PROVE  j \in Turns(k) /\ Effective(issued[j])
      <4>. DEFINE b == issued[j]
      <4>1. b \in Activities /\ issued'[j] = b
        BY <1>1, <1>6, <1>12
      <4>2. Effective(b)'
        BY <3>6, <4>1 DEF Effective, At
      <4>. QED
        BY <1>4, <1>12, <4>1, <4>2
    <3>. QED
      BY <1>1, <1>12, <3>3, <3>5, <3>6 DEF EdgeShows
  <2>. QED
    BY <2>2, <2>3, <2>4
<1>. QED
  BY <1>7, <1>9, <1>14, <1>15 DEF Told

\* Every step keeps Told.
LEMMA NextTold == IInv /\ Told /\ [Next]_vars => Told'
<1>. SUFFICES ASSUME IInv, Told, [Next]_vars PROVE Told'
  OBVIOUS
<1>1. ASSUME NEW a \in Activities, Send(a) \/ Receive(a) PROVE Told'
  BY <1>1, SendTold, ReceiveTold
<1>2. ASSUME NEW w \in Workers, NEW a \in Activities, Claim(w, a) \/ Settle(w, a) PROVE Told'
  BY <1>2, ClaimTold, SettleTold
<1>3. ASSUME NEW w \in Workers, NEW a \in Activities, ProcessInboxActivity(w, a) PROVE Told'
  BY <1>3, CreateTold, UpdateTold, DeleteTold, WriteTold, EdgeTold, UndoTold DEF ProcessInboxActivity
<1>4. ASSUME NEW w \in Workers, Fail(w) \/ Vanish(w) PROVE Told'
  BY <1>4, FailTold, VanishTold
<1>5. CASE UNCHANGED vars
  <2>1. Holders' /\ Freshness'
    BY <1>5, ClaimantsStay DEF vars, queueVars, Told, Holders, Freshness, Fresh, At, Meant, Legit
  <2>2. \A b \in Activities : /\ state[b] = "done" => state'[b] = "done"
                              /\ Effective(b)' => Effective(b)
    BY <1>5 DEF vars, queueVars, Effective, At
  <2>3. UNCHANGED <<issued, stored, raced, objectVars, edge>>
    BY <1>5 DEF vars
  <2>. QED
    BY <2>1, <2>2, <2>3, UnwrittenTold DEF IInv
<1>. QED
  BY <1>1, <1>2, <1>3, <1>4, <1>5 DEF Next

\* When the jobs of a subject are done, the last of its activities is effective.
LEMMA ToldLastWord ==
  ASSUME TypeOK, Told
  PROVE  LastWordStands
<1>1. PICK N \in Nat : DOMAIN issued = 1..N
  BY DEF TypeOK
<1>2. ASSUME NEW s, Settled(s), NEW n \in Turns(s) PROVE Effective(issued[n])
  BY <1>2, TurnFacts DEF Settled, Effective
<1>3. ASSUME NEW o \in Quiet, Settled(o), Turns(o) # {} PROVE ObjectReflects(o)
  <2>. DEFINE n == LastOf(Turns(o))
  <2>1. Latest(n, Turns(o))
    BY <1>1, <1>3, LastIsLatest DEF Turns
  <2>2. ObjectShows(o, n)
    BY <1>2, <1>3, <2>1 DEF Latest, Told, ObjectsTold
  <2>. QED
    BY <2>2 DEF ObjectShows, ObjectReflects
<1>4. ASSUME NEW k \in Keys \ raced, Settled(k), Likes(k) # {} PROVE EdgeReflects(k)
  <2>. DEFINE n == LastOf(Likes(k))
              undone == \E i \in Turns(k) : Kind[issued[i]] = "Undo" /\ Of[issued[i]] = issued[n]
  <2>1. Latest(n, Likes(k))
    BY <1>1, <1>4, LastIsLatest DEF Likes, Turns
  <2>2. n \in Likes(k) /\ n \in Turns(k)
    BY <2>1 DEF Latest, Likes
  <2>3. EdgeShows(k, n)
    BY <1>2, <1>4, <2>1, <2>2 DEF Told, EdgesTold
  <2>4. edge[k] = IF undone THEN NoAct ELSE issued[n]
    BY <1>2, <1>4, <2>3 DEF EdgeShows
  <2>. QED
    BY <2>4 DEF EdgeReflects, Likes
<1>5. ASSUME NEW k \in Keys, Likes(k) = {} PROVE EdgeReflects(k)
  BY <1>5 DEF EdgeReflects, Likes
<1>6. ASSUME NEW o \in Objects, Turns(o) = {} PROVE ObjectReflects(o)
  BY <1>6 DEF ObjectReflects
<1>. QED
  BY <1>3, <1>4, <1>5, <1>6 DEF LastWordStands, Quiet

\* When the activities on one object or pair arrive in turn and all their jobs are done,
\* the tables say what was said last, whatever failed, was committed without an answer or
\* run again, or was sent by others in between, for an object as long as nobody but its
\* author claims it (the handlers of inboxproc, run again from the top by the worker).
THEOREM LastWord == Spec => []LastWordStands
<1>1. IInv /\ Told => LastWordStands
  BY ToldLastWord DEF IInv
<1>2. Spec => [](IInv /\ Told)
  BY InitIInv, InitTold, NextIInv, NextTold, PTL DEF Spec
<1>. QED
  BY <1>1, <1>2, PTL

\* The job of a Doable activity fails only because something failed then: a statement, the
\* answer of one, or nothing at all.
FailsByFault ==
  [][\A w \in Workers : \A a \in Activities :
       Doable(a) /\ w \in owner[a] /\ res[w] = "ok" /\ res'[w] = "error" => faults' = faults + 1]_vars

\* What the author says of its object, the handlers accept while nobody else claims it: the
\* row, if there is one, is the author's.
LEMMA AuthorAccepted ==
  ASSUME IInv, NEW a \in OnObjects, Doable(a)
  PROVE  /\ Kind[a] \in {"Create", "Update"} => ObjectAttributedToMatches(a, By[a])
         /\ ObjectOwnerActorID(Of[a]) \in {By[a], Nobody}
<1>. USE FederatedAssumption
<1>1. By[a] = Author[Of[a]] /\ Of[a] \in Objects /\ ~Contested(Of[a])
  BY DEF Doable, Legit
<1>2. live[Of[a]] => actor_id[Of[a]] = By[a]
  BY <1>1 DEF IInv, TypeOK, KeptAsClaimed, Contested
<1>. QED
  BY <1>2 DEF Doable, ObjectOwnerActorID

\* What HandledInTheEnd rests on, without its fairness: the order in which the activities of
\* an actor come makes no job of the actor's fail, nor what strangers send unless they claim
\* the object.  An Update without a row makes it, a Delete or an Undo without a row is done,
\* an Update or a Delete finds no other owner (handleCreate, handleUpdate, handleDelete,
\* handleUndo).
THEOREM NoOrderFails == Spec => FailsByFault
<1>1. ASSUME IInv, Next, NEW w \in Workers, NEW a \in Activities, Doable(a), w \in owner[a],
             res[w] = "ok", res'[w] = "error"
      PROVE  faults' = faults + 1
  <2>1. Legit(a) /\ (Kind[a] = "Create" => a \in Embedded)
    BY <1>1 DEF Doable
  <2>2. \/ \E b \in Activities : ProcessInboxActivity(w, b)
        \/ \E v \in Workers : Fail(v)
    <3>1. \A b \in Activities : Send(b) \/ Receive(b) => res' = res
      BY DEF Send, Receive
    <3>2. \A v \in Workers : \A b \in Activities : Claim(v, b) => res' = res
      BY DEF Claim
    <3>3. \A v \in Workers : (\E b \in Activities : Settle(v, b)) \/ Vanish(v) => res'[w] \in {res[w], "ok"}
      BY <1>1 DEF Settle, Vanish, IInv, TypeOK
    <3>4. ASSUME NEW v \in Workers, NEW b \in Activities, ProcessInboxActivity(v, b) PROVE v = w
      <4>1. \/ res' = res \/ \E how : res' = [res EXCEPT ![v] = how]
        BY <3>4 DEF ProcessInboxActivity, HandleCreate, HandleUpdate, HandleDelete, WriteObject,
                    HandleEdge, HandleUndo, Committed, End
      <4>. QED
        BY <1>1, <4>1 DEF IInv, TypeOK
    <3>. QED
      BY <1>1, <3>1, <3>2, <3>3, <3>4 DEF Next
  <2>3. CASE \E v \in Workers : Fail(v)
    BY <2>3 DEF Fail, Fault
  <2>4. CASE \E b \in Activities : ProcessInboxActivity(w, b)
    <3>1. PICK b \in Activities : ProcessInboxActivity(w, b)
      BY <2>4
    <3>2. w \in owner[b]
      BY <3>1 DEF ProcessInboxActivity, HandleCreate, HandleUpdate, HandleDelete, WriteObject,
                  HandleEdge, HandleUndo, At
    <3>3. b = a
      BY <1>1, <3>2 DEF IInv, Leases
    <3>4. Committed(w) => faults' = faults + 1
      BY <1>1 DEF Committed, End, Fault, IInv, TypeOK
    <3>5. ~End(w, "ok") /\ res' # res
      BY <1>1 DEF End, IInv, TypeOK
    <3>6. a \in OnObjects => /\ Kind[a] \in {"Create", "Update"} => ObjectAttributedToMatches(a, By[a])
                             /\ ObjectOwnerActorID(Of[a]) \in {By[a], Nobody}
      BY <1>1, AuthorAccepted
    <3>7. ~HandleCreate(w, a)
      <4> SUFFICES ASSUME HandleCreate(w, a) PROVE FALSE
        OBVIOUS
      <4>1. a \in OnObjects /\ Documents(a) = {a}
        BY <2>1 DEF HandleCreate, OnObjects, ObjectKinds, Documents
      <4>. QED
        BY <3>5, <3>6, <4>1 DEF HandleCreate
    <3>8. ~HandleUpdate(w, a)
      <4> SUFFICES ASSUME HandleUpdate(w, a) PROVE FALSE
        OBVIOUS
      <4>1. a \in OnObjects
        BY DEF HandleUpdate, OnObjects, ObjectKinds
      <4>. QED
        BY <3>5, <3>6, <4>1 DEF HandleUpdate
    <3>9. ~HandleDelete(w, a)
      <4> SUFFICES ASSUME HandleDelete(w, a) PROVE FALSE
        OBVIOUS
      <4>1. a \in OnObjects
        BY DEF HandleDelete, OnObjects, ObjectKinds
      <4>. QED
        BY <3>5, <3>6, <4>1 DEF HandleDelete
    <3>10. WriteObject(w, a) \/ HandleEdge(w, a) \/ HandleUndo(w, a) => Committed(w)
      BY DEF WriteObject, HandleEdge, HandleUndo
    <3>. QED
      BY <3>1, <3>3, <3>4, <3>7, <3>8, <3>9, <3>10 DEF ProcessInboxActivity
  <2>. QED
    BY <2>2, <2>3, <2>4
<1>2. IInv /\ [Next]_vars =>
        [\A w \in Workers : \A a \in Activities :
           Doable(a) /\ w \in owner[a] /\ res[w] = "ok" /\ res'[w] = "error" => faults' = faults + 1]_vars
  BY <1>1
<1>. QED
  BY <1>2, Invariance, PTL DEF Spec, FailsByFault
================================================================================
