------------------------------- MODULE JobQueue -------------------------------
(***************************************************************************)
(* What the queue package promises a producer (queue/queue.go, Backend and *)
(* SQLDelayedNack), without tables, transactions, clocks or processes:     *)
(* a submitted job is taken by one worker at a time, comes back when it    *)
(* failed, a capped job fewer times than MaxAttempts, and ends done or     *)
(* dead.  What it does not promise is visible too: a taken job may lose    *)
(* its owner, and then nobody takes it again.                              *)
(***************************************************************************)
EXTENDS Integers

CONSTANTS Jobs, Workers, MaxAttempts

VARIABLES
  state,    \* state[j]: "none", "waiting", "taken", "done" or "dead"
  owner,    \* owner[j]: the workers that hold a lease of j
  capped,   \* the deliveries: given up after MaxAttempts tries
  tries     \* tries[j]: failures recorded on a capped job

vars == <<state, owner, capped, tries>>

Init ==
  /\ state = [j \in Jobs |-> "none"]
  /\ owner = [j \in Jobs |-> {}]
  /\ tries = [j \in Jobs |-> 0]
  /\ capped = {}

\* Jobs J are inserted by one transaction, those of C as deliveries.
Submit(J, C) ==
  /\ \A j \in J : state[j] = "none"
  /\ state' = [j \in Jobs |-> IF j \in J THEN "waiting" ELSE state[j]]
  /\ capped' = capped \cup C
  /\ UNCHANGED <<owner, tries>>

Claim(w, j) ==
  /\ state[j] = "waiting"
  /\ state' = [state EXCEPT ![j] = "taken"]
  /\ owner' = [owner EXCEPT ![j] = {w}]
  /\ UNCHANGED <<tries, capped>>

\* The claim is recorded but its answer is lost.
LostClaim(j) ==
  /\ state[j] = "waiting"
  /\ state' = [state EXCEPT ![j] = "taken"]
  /\ UNCHANGED <<owner, tries, capped>>

Settle(w, j, s) ==
  /\ state[j] = "taken"
  /\ owner[j] = {w}
  /\ owner' = [owner EXCEPT ![j] = {}]
  /\ state' = [state EXCEPT ![j] = s]
  /\ UNCHANGED capped

Complete(w, j) == Settle(w, j, "done") /\ UNCHANGED tries

GiveUp(w, j) == j \in capped /\ Settle(w, j, "dead") /\ UNCHANGED tries

Retry(w, j) ==
  /\ Settle(w, j, "waiting")
  /\ \/ j \in capped /\ tries[j] + 1 < MaxAttempts /\ tries' = [tries EXCEPT ![j] = @ + 1]
     \/ j \notin capped /\ UNCHANGED tries

\* Workers W die, or fail to record how their job ended.
Vanish(W) ==
  /\ owner' = [j \in Jobs |-> owner[j] \ W]
  /\ UNCHANGED <<state, tries, capped>>

Next ==
  \/ \E J \in SUBSET Jobs : \E C \in SUBSET J : Submit(J, C)
  \/ \E j \in Jobs : LostClaim(j)
  \/ \E j \in Jobs, w \in Workers :
       Claim(w, j) \/ Complete(w, j) \/ GiveUp(w, j) \/ Retry(w, j)
  \/ \E W \in SUBSET Workers : Vanish(W)

Spec == Init /\ [][Next]_vars
===============================================================================
