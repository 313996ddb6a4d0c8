------------------------ MODULE DeliveryBackoffProofs ------------------------
(***************************************************************************)
(* Proofs about DeliveryBackoff, for every configuration and any numbers   *)
(* of tries and doublings.                                                 *)
(***************************************************************************)
EXTENDS DeliveryBackoff, NaturalsInduction, WellFoundedInduction, TLAPS

LoopType ==
  /\ initSec \in Int /\ maxSec \in Int /\ d \in Int /\ last \in Int
  /\ prior \in Nat /\ i \in Nat
  /\ pc \in {"failed", "double", "dead"}

BInv == LoopType /\ DelayInRange

LEMMA InitBInv == Init => BInv
BY BackoffAssumption DEF Init, BInv, LoopType, DelayInRange, InitialSec, MaxSec

LEMMA NextBInv == BInv /\ [Next]_vars => BInv'
<1> SUFFICES ASSUME BInv, [Next]_vars PROVE BInv'
  OBVIOUS
<1> USE DEF BInv, LoopType, DelayInRange
<1>1. CASE GiveUp
  BY <1>1 DEF GiveUp
<1>2. CASE StartDelay
  BY <1>2 DEF StartDelay
<1>3. CASE Double
  BY <1>3 DEF Double
<1>4. CASE Schedule
  BY <1>4 DEF Schedule, LoopEnds
<1>5. CASE UNCHANGED vars
  BY <1>5 DEF vars
<1>6. QED
  BY <1>1, <1>2, <1>3, <1>4, <1>5 DEF Next

\* Whatever the environment gives for the two settings, and however many tries have
\* failed, nextDeliveryRunAfter stays between the initial and the maximal delay.
THEOREM DelaysInRange == Spec => []DelayInRange
<1>1. BInv => DelayInRange
  BY DEF BInv
<1>2. QED
  BY <1>1, InitBInv, NextBInv, PTL DEF Spec

-------------------------------------------------------------------------------
(***************************************************************************)
(* The powers of two.  What is true of every number is shown of the least  *)
(* number of which it would not be.                                        *)
(***************************************************************************)
LEMMA LeastNumber ==
  ASSUME NEW S, S \subseteq Nat, S # {}
  PROVE  \E x \in S : \A y \in S : x <= y
<1> DEFINE Less == OpToRel(<, Nat)
<1>1. \A x, y \in Nat : x < y => <<x, y>> \in Less
  BY DEF OpToRel
<1>2. PICK x \in S : \A y \in S : ~ (<<y, x>> \in Less)
  <2>1. IsWellFoundedOn(Less, Nat)
    BY NatLessThanWellFounded
  <2> HIDE DEF Less
  <2>2. QED
    BY <2>1, WFMin, Zenon
<1> HIDE DEF Less
<1>3. ASSUME NEW y \in S
      PROVE  x <= y
  <2>1. x \in Nat /\ y \in Nat /\ ~(y < x)
    BY <1>1, <1>2
  <2>2. QED
    BY <2>1
<1>4. QED
  BY <1>2, <1>3

\* f has the powers of two up to the n-th.
Powers(f, n) ==
  /\ DOMAIN f = 0 .. n
  /\ \A m \in 0 .. n : f[m] = IF m = 0 THEN 1 ELSE 2 * f[m - 1]

LEMMA PowersExist ==
  ASSUME NEW n \in Nat
  PROVE  \E f : Powers(f, n)
<1> DEFINE S == {m \in Nat : ~ \E f : Powers(f, m)}
<1>1. SUFFICES ASSUME S # {}
               PROVE  FALSE
  OBVIOUS
<1>2. PICK x \in S : \A y \in S : x <= y
  <2>1. S \subseteq Nat
    OBVIOUS
  <2> HIDE DEF S
  <2>2. QED
    BY <1>1, <2>1, LeastNumber
<1>3. Powers([m \in 0 .. 0 |-> 1], 0)
  BY DEF Powers
<1>4. x \in Nat /\ x # 0
  BY <1>2, <1>3
<1>5. x - 1 \in Nat /\ ~(x <= x - 1)
  BY <1>4
<1>6. PICK f : Powers(f, x - 1)
  BY <1>2, <1>5
<1>7. PICK g : g = [m \in 0 .. x |-> IF m = x THEN 2 * f[x - 1] ELSE f[m]]
  OBVIOUS
<1>8. ASSUME NEW m \in 0 .. x
      PROVE  g[m] = IF m = 0 THEN 1 ELSE 2 * g[m - 1]
  <2>1. CASE m = x
    <3>1. x - 1 \in 0 .. x /\ x - 1 # x
      BY <1>4
    <3>2. g[x] = 2 * f[x - 1] /\ g[x - 1] = f[x - 1]
      BY <1>4, <1>7, <3>1
    <3>3. QED
      BY <1>4, <2>1, <3>2
  <2>2. CASE m # x
    <3>1. m \in 0 .. x - 1
      BY <1>4, <2>2
    <3>2. g[m] = f[m] /\ f[m] = IF m = 0 THEN 1 ELSE 2 * f[m - 1]
      BY <1>6, <1>7, <2>2, <3>1 DEF Powers
    <3>3. m # 0 => m - 1 \in 0 .. x /\ m - 1 # x
      BY <1>4, <3>1
    <3>4. m # 0 => g[m - 1] = f[m - 1]
      BY <1>7, <3>3
    <3>5. QED
      BY <3>2, <3>4
  <2>3. QED
    BY <2>1, <2>2
<1>9. Powers(g, x)
  BY <1>7, <1>8 DEF Powers
<1>10. QED
  BY <1>2, <1>9

\* Two such functions agree where both are defined.
LEMMA PowersAgree ==
  ASSUME NEW n \in Nat, NEW k \in Nat, NEW f, NEW g, Powers(f, n), Powers(g, k),
         NEW j \in Nat, j <= n, j <= k
  PROVE  f[j] = g[j]
<1> DEFINE S == {m \in Nat : m <= n /\ m <= k /\ f[m] # g[m]}
<1>1. SUFFICES ASSUME S # {}
               PROVE  FALSE
  OBVIOUS
<1>2. PICK x \in S : \A y \in S : x <= y
  <2>1. S \subseteq Nat
    OBVIOUS
  <2> HIDE DEF S
  <2>2. QED
    BY <1>1, <2>1, LeastNumber
<1>3. x \in 0 .. n /\ x \in 0 .. k /\ f[x] # g[x]
  OBVIOUS
<1>4. x # 0
  BY <1>3 DEF Powers
<1>5. f[x] = 2 * f[x - 1] /\ g[x] = 2 * g[x - 1]
  BY <1>3, <1>4 DEF Powers
<1>6. x - 1 \in Nat /\ x - 1 <= n /\ x - 1 <= k /\ ~(x <= x - 1)
  BY <1>3, <1>4
<1>7. f[x - 1] = g[x - 1]
  BY <1>2, <1>6
<1>8. QED
  BY <1>3, <1>5, <1>7

LEMMA TwoToUnfolds == TwoTo = [n \in Nat |-> IF n = 0 THEN 1 ELSE 2 * TwoTo[n - 1]]
<1> DEFINE Up(n) == CHOOSE f : Powers(f, n)
           F     == [n \in Nat |-> Up(n)[n]]
<1>1. \A n \in Nat : Powers(Up(n), n)
  BY PowersExist
<1>2. \A n \in Nat : F[n] = Up(n)[n]
  OBVIOUS
<1>3. ASSUME NEW n \in Nat
      PROVE  F[n] = IF n = 0 THEN 1 ELSE 2 * F[n - 1]
  <2> HIDE DEF F, Up
  <2>1. CASE n = 0
    BY <1>1, <1>2, <2>1 DEF Powers
  <2>2. CASE n # 0
    <3>1. n - 1 \in Nat /\ n - 1 <= n /\ n \in 0 .. n
      BY <2>2
    <3>2. Up(n)[n] = 2 * Up(n)[n - 1]
      BY <1>1, <2>2, <3>1 DEF Powers
    <3>3. Up(n)[n - 1] = Up(n - 1)[n - 1]
      BY <1>1, <3>1, PowersAgree
    <3>4. QED
      BY <1>2, <2>2, <3>1, <3>2, <3>3
  <2>3. QED
    BY <2>1, <2>2
<1>4. DOMAIN F = Nat /\ F = [n \in DOMAIN F |-> F[n]]
  OBVIOUS
<1> HIDE DEF F
<1>5. F = [n \in Nat |-> IF n = 0 THEN 1 ELSE 2 * F[n - 1]]
  BY <1>3, <1>4
<1>6. QED
  BY <1>5 DEF TwoTo

LEMMA TwoToZero == TwoTo[0] = 1
BY TwoToUnfolds

LEMMA TwoToNext ==
  ASSUME NEW n \in Nat
  PROVE  TwoTo[n + 1] = 2 * TwoTo[n]
<1>1. n + 1 \in Nat /\ n + 1 # 0 /\ (n + 1) - 1 = n
  OBVIOUS
<1>2. TwoTo[n + 1] = IF n + 1 = 0 THEN 1 ELSE 2 * TwoTo[(n + 1) - 1]
  BY <1>1, TwoToUnfolds
<1>3. QED
  BY <1>1, <1>2

LEMMA TwoToNat ==
  ASSUME NEW n \in Nat
  PROVE  TwoTo[n] \in Nat \ {0}
<1> DEFINE S == {m \in Nat : TwoTo[m] \notin Nat \ {0}}
<1>1. SUFFICES ASSUME S # {}
               PROVE  FALSE
  OBVIOUS
<1>2. PICK x \in S : \A y \in S : x <= y
  <2>1. S \subseteq Nat
    OBVIOUS
  <2> HIDE DEF S
  <2>2. QED
    BY <1>1, <2>1, LeastNumber
<1>3. x \in Nat /\ x # 0
  BY <1>2, TwoToZero
<1>4. x - 1 \in Nat /\ ~(x <= x - 1) /\ (x - 1) + 1 = x
  BY <1>3
<1>5. TwoTo[x - 1] \in Nat \ {0}
  BY <1>2, <1>4
<1>6. TwoTo[(x - 1) + 1] = 2 * TwoTo[x - 1]
  BY <1>4, TwoToNext
<1>7. TwoTo[x] \in Nat \ {0}
  BY <1>4, <1>5, <1>6
<1>8. QED
  BY <1>2, <1>7

\* More doublings make no less.
LEMMA TwoToGrows ==
  ASSUME NEW m \in Nat, NEW n \in Nat, m <= n
  PROVE  TwoTo[m] <= TwoTo[n]
<1> DEFINE S == {k \in Nat : m <= k /\ ~ (TwoTo[m] <= TwoTo[k])}
<1>1. SUFFICES ASSUME S # {}
               PROVE  FALSE
  OBVIOUS
<1>2. PICK x \in S : \A y \in S : x <= y
  <2>1. S \subseteq Nat
    OBVIOUS
  <2> HIDE DEF S
  <2>2. QED
    BY <1>1, <2>1, LeastNumber
<1>3. x \in Nat /\ m <= x /\ x # m
  BY <1>2, TwoToNat
<1>4. x - 1 \in Nat /\ m <= x - 1 /\ ~(x <= x - 1) /\ (x - 1) + 1 = x
  BY <1>3
<1>5. TwoTo[m] <= TwoTo[x - 1]
  BY <1>2, <1>4
<1>6. TwoTo[(x - 1) + 1] = 2 * TwoTo[x - 1]
  BY <1>4, TwoToNext
<1>7. TwoTo[m] \in Nat /\ TwoTo[x - 1] \in Nat
  BY <1>4, TwoToNat
<1>8. TwoTo[m] <= TwoTo[x]
  BY <1>4, <1>5, <1>6, <1>7
<1>9. QED
  BY <1>2, <1>8

-------------------------------------------------------------------------------
\* The delay after n doublings, if none is stopped by the maximum before it is made.
After(n) == Least(initSec * TwoTo[n], maxSec)

\* The loop has doubled i times, and its early end comes when more would change nothing.
Doubled ==
  /\ pc = "double" => i <= Doublings /\ d = After(i)
  /\ DelayIsCappedExponential

LEMMA InitDoubled == Init => Doubled
BY DEF Init, Doubled, DelayIsCappedExponential

\* An iteration doubles once.
LEMMA DoubleOnce ==
  ASSUME BInv, Doubled, Double
  PROVE  Doubled'
<1>1. /\ pc = "double" /\ i < Doublings /\ d < maxSec /\ i' = i + 1
      /\ d' = IF 2 * d > maxSec THEN maxSec ELSE 2 * d
      /\ UNCHANGED <<initSec, maxSec, prior, pc, last>>
  BY DEF Double
<1>2. i \in Nat /\ d \in Int /\ initSec \in Int /\ maxSec \in Int /\ prior \in Nat /\ Doublings \in Nat
  BY BackoffAssumption DEF BInv, LoopType, Doublings
<1>3. PICK a, b, n : a = TwoTo[i] /\ b = TwoTo[i + 1] /\ n = initSec
  OBVIOUS
<1>4. a \in Nat /\ b = 2 * a /\ n \in Int
  BY <1>2, <1>3, TwoToNat, TwoToNext
<1>5. d = n * a
  BY <1>1, <1>2, <1>3, <1>4 DEF Doubled, After, Least
<1>6. n * b = 2 * (n * a)
  BY <1>4
<1>7. d' = IF n * b < maxSec THEN n * b ELSE maxSec
  BY <1>1, <1>2, <1>5, <1>6
<1>8. d' = After(i)'
  BY <1>1, <1>3, <1>7 DEF After, Least
<1>9. i' <= Doublings' /\ DelayIsCappedExponential'
  BY <1>1, <1>2 DEF Doubled, Doublings, DelayIsCappedExponential
<1>10. QED
  BY <1>8, <1>9 DEF Doubled

\* The end of the loop schedules what all the doublings would give.
LEMMA ScheduleDoubled ==
  ASSUME BInv, Doubled, Schedule
  PROVE  Doubled'
<1>1. /\ pc = "double" /\ (i = Doublings \/ d >= maxSec) /\ prior' = prior + 1 /\ pc' = "failed"
      /\ last' = IF i < Doublings THEN maxSec ELSE d
      /\ UNCHANGED <<initSec, maxSec, d, i>>
  BY DEF Schedule, LoopEnds
<1>2. i \in Nat /\ d \in Int /\ initSec \in Int /\ maxSec \in Int /\ prior \in Nat /\ Doublings \in Nat
      /\ initSec >= 1
  BY BackoffAssumption DEF BInv, LoopType, Doublings, DelayInRange
<1>3. i <= Doublings /\ d = After(i)
  BY <1>1 DEF Doubled
<1>4. last' = After(Doublings)
  <2>1. CASE i = Doublings
    BY <1>1, <1>2, <1>3, <2>1
  <2>2. CASE i < Doublings /\ d >= maxSec
    <3>1. PICK a, b, n : a = TwoTo[i] /\ b = TwoTo[Doublings] /\ n = initSec
      OBVIOUS
    <3>2. a \in Nat /\ b \in Nat /\ a <= b /\ n \in Nat
      BY <1>2, <1>3, <3>1, TwoToNat, TwoToGrows
    <3>3. n * a >= maxSec
      BY <1>2, <1>3, <2>2, <3>1, <3>2 DEF After, Least
    <3>4. n * a <= n * b
      BY <3>2
    <3>5. n * b >= maxSec
      BY <1>2, <3>2, <3>3, <3>4
    <3>6. QED
      BY <1>1, <1>2, <2>2, <3>1, <3>2, <3>5 DEF After, Least
  <2>3. QED
    BY <1>1, <1>2, <1>3, <2>1, <2>2
<1>5. Least(prior' - 1, MaxDoublings) = Doublings
  BY <1>1, <1>2, BackoffAssumption DEF Least, Doublings
<1>6. DelayIsCappedExponential'
  BY <1>1, <1>4, <1>5 DEF DelayIsCappedExponential, After
<1>7. QED
  BY <1>1, <1>6 DEF Doubled

LEMMA NextDoubled == BInv /\ Doubled /\ [Next]_vars => Doubled'
<1> SUFFICES ASSUME BInv, Doubled, [Next]_vars PROVE Doubled'
  OBVIOUS
<1>1. CASE GiveUp
  BY <1>1 DEF GiveUp, Doubled, DelayIsCappedExponential
<1>2. CASE StartDelay
  <2>1. /\ d' = initSec /\ i' = 0 /\ UNCHANGED <<initSec, maxSec, prior, last>>
    BY <1>2 DEF StartDelay
  <2>2. Doublings \in Nat /\ initSec \in Int /\ maxSec \in Int /\ initSec <= maxSec
    BY BackoffAssumption DEF BInv, LoopType, Doublings, DelayInRange
  <2>3. initSec * TwoTo[0] = initSec
    BY <2>2, TwoToZero
  <2>4. d' = After(i)' /\ i' <= Doublings'
    BY <2>1, <2>2, <2>3 DEF After, Least, Doublings
  <2>5. QED
    BY <2>1, <2>4 DEF Doubled, DelayIsCappedExponential
<1>3. CASE Double
  BY <1>3, DoubleOnce
<1>4. CASE Schedule
  BY <1>4, ScheduleDoubled
<1>5. CASE UNCHANGED vars
  BY <1>5 DEF vars, Doubled, DelayIsCappedExponential, After, Doublings
<1>6. QED
  BY <1>1, <1>2, <1>3, <1>4, <1>5 DEF Next

\* The loop of nextDeliveryRunAfter, with its cap and its break, computes the initial delay
\* times two to the number of failures, up to MaxDoublings and the maximal delay.
THEOREM DelaysAreCappedPowers == Spec => []DelayIsCappedExponential
<1>1. Doubled => DelayIsCappedExponential
  BY DEF Doubled
<1>2. QED
  BY <1>1, InitBInv, NextBInv, InitDoubled, NextDoubled, PTL DEF Spec
==============================================================================
