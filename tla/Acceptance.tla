------------------------------ MODULE Acceptance ------------------------------
(***************************************************************************)
(* What a sender may rely on (PostOutbox, SharedInbox): an activity is     *)
(* taken over together with every job it asks for, in one step and once;   *)
(* no job comes from anywhere else, or later.                              *)
(***************************************************************************)
CONSTANTS Activities, Targets

VARIABLES stored, jobs

vars == <<stored, jobs>>

Init == stored = {} /\ jobs = {}

Accept(a, T) ==
  /\ a \notin stored
  /\ stored' = stored \cup {a}
  /\ jobs' = jobs \cup ({a} \X T)

Next == \E a \in Activities, T \in SUBSET Targets : Accept(a, T)

Spec == Init /\ [][Next]_vars
===============================================================================
