---------------------------- MODULE DeliveryBackoff ----------------------------
(***************************************************************************)
(* The retry schedule of one delivery: nextDeliveryRunAfter of             *)
(* internal/worker/delivery_fail.go, called once per failed try with the   *)
(* failures recorded before it, until DeliveryMaxAttempts tries are made.  *)
(* The doubling loop is one step per iteration.  A configuration is any    *)
(* pair of integers the environment gives, zero and negative ones          *)
(* included; the code replaces those that make no sense.                   *)
(*                                                                         *)
(* Delays are in seconds.  The code computes them as 64-bit nanoseconds;   *)
(* nothing wraps while the maximum is below 2^62 ns (146 years).           *)
(***************************************************************************)
EXTENDS Integers

CONSTANTS
  Initials, Maxima,     \* values of AP_DELIVERY_BACKOFF_INITIAL_SEC and _MAX_SEC
  MaxAttempts,          \* cfg.DeliveryMaxAttempts
  DefaultInitial,       \* 30 in the code
  MaxDoublings          \* 20 in the code

ASSUME BackoffAssumption ==
  /\ Initials \subseteq Int
  /\ Maxima \subseteq Int
  /\ MaxAttempts \in Nat \ {0}
  /\ DefaultInitial \in Nat \ {0}
  /\ MaxDoublings \in Nat

VARIABLES
  initSec, maxSec,      \* the configuration in force, after the fallbacks
  prior,                \* failures recorded before the current one
  pc,                   \* "failed", "double" or "dead"
  d, i,                 \* the loop's delay and counter
  last                  \* delay scheduled after the previous failure (0: none)

vars == <<initSec, maxSec, prior, pc, d, i, last>>

InitialSec(given) == IF given < 1 THEN DefaultInitial ELSE given

MaxSec(given, initial) == IF given < initial THEN initial ELSE given

Init ==
  /\ \E x \in Initials : initSec = InitialSec(x)
  /\ \E y \in Maxima : maxSec = MaxSec(y, initSec)
  /\ prior = 0
  /\ pc = "failed"
  /\ d = 0
  /\ i = 0
  /\ last = 0

Doublings == IF prior > MaxDoublings THEN MaxDoublings ELSE prior

\* A try failed: the dead letter, or the call of nextDeliveryRunAfter.
GiveUp ==
  /\ pc = "failed"
  /\ prior + 1 >= MaxAttempts
  /\ pc' = "dead"
  /\ UNCHANGED <<initSec, maxSec, prior, d, i, last>>

StartDelay ==
  /\ pc = "failed"
  /\ prior + 1 < MaxAttempts
  /\ pc' = "double"
  /\ d' = initSec
  /\ i' = 0
  /\ UNCHANGED <<initSec, maxSec, prior, last>>

\* Bug variant: the cap is looked at before the doubling only.
DoubleUncapped ==
  /\ pc = "double"
  /\ i < Doublings
  /\ d < maxSec
  /\ d' = 2 * d
  /\ i' = i + 1
  /\ UNCHANGED <<initSec, maxSec, prior, pc, last>>

Double ==
  /\ pc = "double"
  /\ i < Doublings
  /\ d < maxSec
  /\ d' = IF 2 * d > maxSec THEN maxSec ELSE 2 * d
  /\ i' = i + 1
  /\ UNCHANGED <<initSec, maxSec, prior, pc, last>>

LoopEnds == pc = "double" /\ (i = Doublings \/ d >= maxSec)

\* The loop ends, at the cap (break) or with its counter; the row is scheduled and
\* the next try fails too.
Schedule ==
  /\ LoopEnds
  /\ last' = IF i < Doublings THEN maxSec ELSE d
  /\ prior' = prior + 1
  /\ pc' = "failed"
  /\ UNCHANGED <<initSec, maxSec, d, i>>

Next == GiveUp \/ StartDelay \/ Double \/ Schedule

Spec == Init /\ [][Next]_vars

-------------------------------------------------------------------------------
\* The delay in force and the loop's intermediate one never leave the configured
\* range, whatever the environment says and however many tries have failed.
DelayInRange ==
  /\ 1 <= initSec /\ initSec <= maxSec
  /\ pc = "double" => initSec <= d /\ d <= maxSec
  /\ prior > 0 => initSec <= last /\ last <= maxSec

Least(a, b) == IF a < b THEN a ELSE b

\* The powers of two.
TwoTo[n \in Nat] == IF n = 0 THEN 1 ELSE 2 * TwoTo[n - 1]

\* The delay after n failures is the initial one doubled n times, at most
\* MaxDoublings times, and capped: the early break and the cap inside the loop
\* change nothing in that.
DelayIsCappedExponential ==
  prior > 0 => last = Least(initSec * TwoTo[Least(prior - 1, MaxDoublings)], maxSec)
===============================================================================
