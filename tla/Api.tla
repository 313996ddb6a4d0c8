---------------------------------- MODULE Api ----------------------------------
(***************************************************************************)
(* Requests to the Mastodon client API and their handlers, which run       *)
(* concurrently; among them the remote Follows and Undos that change who   *)
(* follows a user.  Req[r] is a record: the operation `op` of request r    *)
(* and what the operation needs.  A handler is a sequence of statements,   *)
(* each committed by itself unless it is said to be part of a transaction. *)
(* OAuth, Media and Statuses give the operations, Client puts them         *)
(* together.                                                               *)
(***************************************************************************)
EXTENDS Integers, FiniteSets

CONSTANTS
  Req,         \* the requests that may be made
  Nothing,     \* no value
  Bounds       \* bound: what may be requested in one behaviour, and how many faults occur then

Requests == DOMAIN Req

ASSUME ApiAssumption ==
  /\ Nothing \notin Requests
  /\ \A r \in Requests : Req[r].op \in STRING
  /\ \A b \in Bounds : b.reqs \subseteq Requests /\ b.faults \in Nat

VARIABLES
  plan,      \* the bound of this behaviour
  pc,        \* pc[r]: where the handler of r is
  held,      \* held[r]: what it has read
  answer,    \* answer[r]: how r was answered
  faults     \* statements that failed, answers lost, handlers that vanished

apiVars == <<plan, pc, held, answer, faults>>

ApiInit ==
  /\ plan \in Bounds
  /\ pc = [r \in plan.reqs |-> "new"]
  /\ held = [r \in plan.reqs |-> Nothing]
  /\ answer = [r \in plan.reqs |-> Nothing]
  /\ faults = 0

Begun == {r \in plan.reqs : pc[r] # "new"}

Fault == faults < plan.faults /\ faults' = faults + 1 /\ UNCHANGED plan

\* The handler of an operation is at place l.
At(r, op, l) == Req[r].op = op /\ pc[r] = l

Goto(r, l, x) ==
  /\ pc' = [pc EXCEPT ![r] = l]
  /\ held' = [held EXCEPT ![r] = x]
  /\ UNCHANGED <<plan, answer>>

Reply(r, code) ==
  /\ pc' = [pc EXCEPT ![r] = "answered"]
  /\ held' = [held EXCEPT ![r] = Nothing]
  /\ answer' = [answer EXCEPT ![r] = code]
  /\ UNCHANGED plan

\* The last statement of a handler did what it should; its answer may be lost.
Done(r, code, lost) == (Reply(r, code) /\ UNCHANGED faults) \/ (Reply(r, lost) /\ Fault)
================================================================================
