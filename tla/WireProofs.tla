------------------------------- MODULE WireProofs -------------------------------
(***************************************************************************)
(* Proofs about Wire, for every set of conversations, documents, addresses *)
(* and rows, and all bounds.                                               *)
(*                                                                         *)
(* The three conversations share no variable but the plan and the clock,   *)
(* so the inductive invariant has a part for each: Seeking for the search  *)
(* of an inbox, Delivering for the delivery to it, Reading for the pages.  *)
(***************************************************************************)
EXTENDS Wire, FiniteSetTheorems, TLAPS

---------------------------------------------------------------------------------
(***************************************************************************)
(* The least and the greatest of a set of numbers                          *)
(***************************************************************************)
LEMMA MinOf ==
  ASSUME NEW S, S \subseteq Nat, S # {}
  PROVE  Min(S) \in S /\ \A y \in S : Min(S) <= y
<1> DEFINE Less == OpToRel(<, Nat)
<1>1. \A x, y \in Nat : x < y => <<x, y>> \in Less
  BY DEF OpToRel
<1>2. PICK x \in S : \A y \in S : ~ (<<y, x>> \in Less)
  <2>1. IsWellFoundedOn(Less, Nat)
    BY NatLessThanWellFounded
  <2> HIDE DEF Less
  <2>2. QED
    BY <2>1, WFMin, Zenon
<1> HIDE DEF Less
<1>3. \A y \in S : x <= y
  <2>1. ASSUME NEW y \in S
        PROVE  x <= y
    <3>1. x \in Nat /\ y \in Nat /\ ~(y < x)
      BY <1>1, <1>2
    <3>2. QED
      BY <3>1
  <2>2. QED
    BY <2>1
<1>4. QED
  BY <1>3 DEF Min

\* The greatest has the fewest above it.
LEMMA MaxOf ==
  ASSUME NEW S, S \subseteq Nat, S # {}, IsFiniteSet(S)
  PROVE  Max(S) \in S /\ \A y \in S : y <= Max(S)
<1> DEFINE Above(x) == {y \in S : y > x}
           Counts   == {Cardinality(Above(x)) : x \in S}
<1>1. \A x \in S : IsFiniteSet(Above(x)) /\ Cardinality(Above(x)) \in Nat
  BY FS_Subset, FS_CardinalityType
<1>2. Counts \subseteq Nat /\ Counts # {}
  BY <1>1
<1>3. Min(Counts) \in Counts /\ \A n \in Counts : Min(Counts) <= n
  <2> HIDE DEF Counts
  <2>1. QED
    BY <1>2, MinOf
<1>4. PICK x \in S : \A y \in S : Cardinality(Above(x)) <= Cardinality(Above(y))
  BY <1>3
<1>5. ASSUME NEW y \in S, y > x
      PROVE  FALSE
  <2>1. Above(y) \subseteq Above(x) /\ y \in Above(x) /\ y \notin Above(y)
    <3>1. \A z \in S : z \in Nat
      OBVIOUS
    <3>2. x \in S /\ y > x
      BY <1>4, <1>5
    <3>3. y \in Above(x) /\ y \notin Above(y)
      BY <3>1, <3>2
    <3>4. ASSUME NEW z \in Above(y)
          PROVE  z \in Above(x)
      <4>1. z \in S /\ z > y
        BY <3>4
      <4>2. z > x
        BY <3>1, <3>2, <4>1
      <4>3. QED
        BY <4>1, <4>2
    <3>5. QED
      BY <3>3, <3>4
  <2>2. Cardinality(Above(y)) <= Cardinality(Above(x)) /\ Cardinality(Above(x)) # Cardinality(Above(y))
    <3>1. Above(y) \in SUBSET Above(x) /\ Above(x) # Above(y)
      BY <2>1
    <3> HIDE DEF Above
    <3>2. QED
      BY <1>1, <3>1, FS_Subset
  <2>3. Cardinality(Above(x)) <= Cardinality(Above(y))
    BY <1>4, <1>5
  <2>4. QED
    BY <1>1, <1>5, <2>2, <2>3
<1>6. \A y \in S : x >= y
  BY <1>5
<1>7. QED
  BY <1>6 DEF Max

Above(S, x) == {j \in S : j > x}
Top(S, n)   == {i \in S : Cardinality(Above(S, i)) < n}

\* T holds the greatest of S, n of them at most: all are there from the least one up, and if
\* they are not n they are all there are.
Heads(T, S, n) ==
  /\ T \subseteq S /\ IsFiniteSet(T)
  /\ Cardinality(T) = n => T # {} /\ \A i \in S : i >= Min(T) => i \in T
  /\ Cardinality(T) # n => T = S

LEMMA TopOf ==
  ASSUME NEW S, S \subseteq Nat, IsFiniteSet(S), NEW n \in Nat, n > 0,
         NEW T, T = Top(S, n)
  PROVE  Heads(T, S, n)
<1>1. \A x \in S : IsFiniteSet(Above(S, x)) /\ Cardinality(Above(S, x)) \in Nat
  BY FS_Subset, FS_CardinalityType DEF Above
<1>2. T \subseteq S /\ IsFiniteSet(T) /\ Cardinality(T) \in Nat
  <2>1. T \in SUBSET S
    BY DEF Top
  <2>2. QED
    BY <2>1, FS_Subset, FS_CardinalityType
<1>3. \A x, y \in S : x <= y => Above(S, y) \subseteq Above(S, x)
  <2>1. ASSUME NEW x \in S, NEW y \in S, x <= y, NEW z \in Above(S, y)
        PROVE  z \in Above(S, x)
    <3>1. z \in Nat /\ x \in Nat /\ y \in Nat /\ z > y /\ z \in S
      BY <2>1 DEF Above
    <3>2. z > x
      BY <2>1, <3>1
    <3>3. QED
      BY <3>1, <3>2 DEF Above
  <2>2. QED
    BY <2>1
<1>4. \A x, y \in S : x <= y => Cardinality(Above(S, y)) <= Cardinality(Above(S, x))
  <2> SUFFICES ASSUME NEW x \in S, NEW y \in S, x <= y
               PROVE  Cardinality(Above(S, y)) <= Cardinality(Above(S, x))
    OBVIOUS
  <2>1. Above(S, y) \in SUBSET Above(S, x)
    BY <1>3
  <2>2. QED
    BY <1>1, <2>1, FS_Subset
<1>5. \A x \in S : x \in T <=> Cardinality(Above(S, x)) < n
  BY DEF Top
<1>6. ASSUME Cardinality(T) = n
      PROVE  T # {} /\ \A i \in S : i >= Min(T) => i \in T
  <2>1. T # {}
    BY <1>6, FS_EmptySet
  <2>2. Min(T) \in T
    BY <1>2, <2>1, MinOf
  <2>3. ASSUME NEW i \in S, i >= Min(T)
        PROVE  i \in T
    <3>1. PICK m \in T : m = Min(T)
      BY <2>2
    <3>2. m \in S /\ m \in Nat /\ i \in Nat /\ m <= i
      BY <1>2, <2>3, <3>1
    <3>3. Cardinality(Above(S, m)) < n /\ Cardinality(Above(S, i)) <= Cardinality(Above(S, m))
      BY <1>4, <1>5, <3>1, <3>2
    <3>4. Cardinality(Above(S, i)) \in Nat /\ Cardinality(Above(S, m)) \in Nat
      BY <1>1, <3>2
    <3>5. Cardinality(Above(S, i)) < n
      BY <3>3, <3>4
    <3>6. QED
      BY <1>5, <2>3, <3>5
  <2>4. QED
    BY <2>1, <2>3
<1>7. ASSUME T # S
      PROVE  Cardinality(T) = n
  <2> DEFINE R == S \ T
  <2>1. R \subseteq Nat /\ R # {} /\ R \subseteq S
    BY <1>2, <1>7
  <2>2. IsFiniteSet(R)
    BY <2>1, FS_Subset
  <2>3. Max(R) \in R /\ \A y \in R : y <= Max(R)
    BY <2>1, <2>2, MaxOf
  <2>4. PICK i \in R : \A y \in R : y <= i
    BY <2>3
  <2>5. i \in S /\ i \notin T /\ i \in Nat /\ ~(Cardinality(Above(S, i)) < n)
    BY <1>5, <2>1, <2>4
  <2>6. T = Above(S, i)
    <3>1. ASSUME NEW x \in T
          PROVE  x \in Above(S, i)
      <4>1. x \in S /\ x \in Nat /\ Cardinality(Above(S, x)) < n
        BY <1>2, <1>5, <3>1
      <4>2. ~(x <= i)
        BY <1>1, <1>4, <2>5, <4>1
      <4>3. QED
        BY <2>5, <4>1, <4>2 DEF Above
    <3>2. ASSUME NEW x \in Above(S, i)
          PROVE  x \in T
      <4>1. x \in S /\ x \in Nat /\ x > i
        BY <3>2 DEF Above
      <4>2. x \notin R
        BY <2>4, <2>5, <4>1
      <4>3. QED
        BY <4>1, <4>2
    <3>3. QED
      BY <3>1, <3>2
  <2>7. Cardinality(T) >= n
    BY <1>1, <2>5, <2>6
  <2>8. T # {}
    <3>1. Cardinality(T) # 0
      BY <1>2, <2>7
    <3>2. QED
      BY <1>2, <3>1, FS_EmptySet
  <2>9. PICK m \in T : \A y \in T : m <= y
    BY <1>2, <2>8, MinOf
  <2>10. T = Above(S, m) \cup {m}
    <3>1. ASSUME NEW x \in T, x # m
          PROVE  x \in Above(S, m)
      <4>1. x \in S /\ x \in Nat /\ m \in Nat /\ m <= x
        BY <1>2, <2>9, <3>1
      <4>2. x > m
        BY <3>1, <4>1
      <4>3. QED
        BY <4>1, <4>2 DEF Above
    <3>2. ASSUME NEW x \in Above(S, m)
          PROVE  x \in T
      <4>1. x \in S /\ x \in Nat /\ m \in Nat /\ i \in Nat /\ x > m /\ m > i
        BY <1>2, <2>5, <2>6, <2>9, <3>2 DEF Above
      <4>2. x > i
        BY <4>1
      <4>3. QED
        BY <2>6, <4>1, <4>2 DEF Above
    <3>3. QED
      BY <2>9, <3>1, <3>2
  <2>11. m \notin Above(S, m)
    BY <1>2, <2>9 DEF Above
  <2>12. Cardinality(T) = Cardinality(Above(S, m)) + 1
    BY <1>1, <1>2, <2>9, <2>10, <2>11, FS_AddElement
  <2>13. Cardinality(Above(S, m)) < n
    BY <1>2, <1>5, <2>9
  <2>14. QED
    BY <1>1, <1>2, <2>7, <2>9, <2>12, <2>13
<1>8. QED
  BY <1>2, <1>6, <1>7 DEF Heads

---------------------------------------------------------------------------------
(***************************************************************************)
(* The reading of a collection                                             *)
(***************************************************************************)
\* Below the cursor nothing was listed yet; from the cursor up everything was that has
\* been accepted all the while.
Reading ==
  /\ rows \in [Ids -> {"none", "pending", "accepted", "deleted"}] /\ got \in [Ids -> {0, 1}]
  /\ steady \subseteq Ids /\ \A i \in steady : rows[i] = "accepted"
  /\ walk = [at |-> walk.at, limit |-> walk.limit, max |-> walk.max, since |-> walk.since, total |-> walk.total]
  /\ walk.at \in {"none", "root", "count", "list", "end", "unauthorized"}
  /\ walk.limit \in Int /\ walk.max \in Int /\ walk.since \in Int
  /\ walk.at = "list" => walk.limit > 0
  /\ walk.at = "root" => \A i \in Ids : got[i] = 0
  /\ walk.at \in {"count", "list"} => \A i \in Ids :
       /\ i < walk.max => got[i] = 0
       /\ i >= walk.max /\ i > walk.since /\ i \in steady => got[i] = 1
  /\ walk.at = "end" => \A i \in steady : i > walk.since => got[i] = 1

\* No row is at the sentinel or above.
LEMMA SentinelAbove == Sentinel \in Int /\ \A i \in Ids : i \in Nat /\ i < Sentinel
<1>1. Ids \subseteq Nat /\ Ids # {} /\ IsFiniteSet(Ids)
  BY PagingAssumption
<1>2. Max(Ids) \in Ids /\ \A i \in Ids : i <= Max(Ids)
  BY <1>1, MaxOf
<1>3. PICK m \in Ids : m = Max(Ids) /\ \A i \in Ids : i <= m
  BY <1>2
<1>4. QED
  BY <1>1, <1>3 DEF Sentinel

\* The limit of a page is positive, before and after it is clamped.
LEMMA LimitsPositive ==
  ASSUME NEW l \in Int
  PROVE  /\ collectionPageParams(l) \in Int /\ collectionPageParams(l) > 0
         /\ l > 0 => Clamp(l) \in Nat /\ Clamp(l) > 0
BY PagingAssumption DEF collectionPageParams, Clamp

LEMMA InitReading ==
  ASSUME Init
  PROVE  Reading
<1>1. /\ rows = [i \in Ids |-> IF i \in Accepted THEN "accepted" ELSE "none"]
      /\ got = [i \in Ids |-> 0] /\ steady = Accepted /\ walk = plan.walk /\ plan \in Plans
  BY DEF Init, PagingInit
<1>2. /\ walk = [at |-> walk.at, limit |-> walk.limit, max |-> Sentinel, since |-> walk.since, total |-> walk.total]
      /\ walk.at \in {"none", "root", "count"} /\ walk.limit \in Int /\ walk.since \in Int
  BY <1>1, WireAssumption
<1>3. walk.max = Sentinel
  <2>1. [at |-> walk.at, limit |-> walk.limit, max |-> Sentinel, since |-> walk.since, total |-> walk.total].max = Sentinel
    OBVIOUS
  <2>2. QED
    BY <1>2, <2>1
<1>4. \A i \in Ids : ~(i >= walk.max)
  BY <1>3, SentinelAbove
<1>5. QED
  BY <1>1, <1>2, <1>3, <1>4, SentinelAbove, PagingAssumption DEF Reading

\* The root and the count of a page set the cursor, and the limit of what comes next.
LEMMA RootReading ==
  ASSUME Reading, GetRoot
  PROVE  Reading'
<1>1. PICK l \in Int : l = collectionPageParams(walk.limit)
  BY LimitsPositive DEF Reading
<1>2. PICK t : t = Cardinality({i \in Ids : InCollection(i)})
  OBVIOUS
<1>3. PICK m \in Int : m = Sentinel
  BY SentinelAbove
<1>4. /\ walk.at = "root" /\ walk' = [walk EXCEPT !.at = "count", !.limit = l, !.max = m, !.since = 0, !.total = t]
      /\ UNCHANGED <<rows, got, steady>>
  BY <1>1, <1>2, <1>3 DEF GetRoot
<1>5. walk' = [at |-> "count", limit |-> l, max |-> m, since |-> 0, total |-> t]
  BY <1>4 DEF Reading
<1>6. walk'.at = "count" /\ walk'.limit = l /\ walk'.max = m /\ walk'.since = 0 /\ walk'.total = t
  BY <1>5
<1>7. \A i \in Ids : got[i] = 0 /\ ~(i >= m)
  BY <1>3, <1>4, SentinelAbove DEF Reading
<1>8. \A i \in Ids : /\ i < walk'.max => got'[i] = 0
                     /\ i >= walk'.max /\ i > walk'.since /\ i \in steady' => got'[i] = 1
  BY <1>4, <1>6, <1>7
<1>9. /\ walk' = [at |-> walk'.at, limit |-> walk'.limit, max |-> walk'.max, since |-> walk'.since, total |-> walk'.total]
      /\ walk'.limit \in Int /\ walk'.max \in Int /\ walk'.since \in Int /\ walk'.at = "count"
  BY <1>1, <1>3, <1>5, <1>6
<1>10. QED
  BY <1>4, <1>8, <1>9 DEF Reading

LEMMA CountReading ==
  ASSUME Reading, CountPage
  PROVE  Reading'
<1>1. PICK l \in Int : l = collectionPageParams(walk.limit) /\ l > 0
  BY LimitsPositive DEF Reading
<1>2. PICK t : t = Cardinality({i \in Ids : InCollection(i)})
  OBVIOUS
<1>3. /\ walk.at = "count" /\ walk' = [walk EXCEPT !.at = "list", !.limit = l, !.total = t]
      /\ UNCHANGED <<rows, got, steady>>
  BY <1>1, <1>2 DEF CountPage
<1>4. walk' = [at |-> "list", limit |-> l, max |-> walk.max, since |-> walk.since, total |-> t]
  BY <1>3 DEF Reading
<1>5. walk'.at = "list" /\ walk'.limit = l /\ walk'.max = walk.max /\ walk'.since = walk.since /\ walk'.total = t
  BY <1>4
<1>6. QED
  BY <1>1, <1>3, <1>4, <1>5 DEF Reading

\* A page lists the newest rows below the cursor; a full one moves it to the oldest of
\* them, and one that is not full is the last.
LEMMA ListReading ==
  ASSUME Reading, ListPage
  PROVE  Reading'
<1>1. PICK n \in Nat : n = Clamp(walk.limit) /\ n > 0
  BY LimitsPositive DEF Reading, ListPage
<1>2. PICK all : all = {i \in Ids : rows[i] = "accepted" /\ i < walk.max /\ i > walk.since}
  OBVIOUS
<1>3. PICK page : page = Top(all, n)
  OBVIOUS
<1>4. Between(n) = page
  BY <1>2, <1>3 DEF Between, InCollection, Top, Above
<1>5. Ids \subseteq Nat /\ all \subseteq Ids /\ all \subseteq Nat /\ IsFiniteSet(all)
  <2>1. Ids \subseteq Nat /\ IsFiniteSet(Ids) /\ all \in SUBSET Ids
    BY <1>2, PagingAssumption
  <2>2. QED
    BY <2>1, FS_Subset
<1>6. /\ page \subseteq all
      /\ Cardinality(page) = n => page # {} /\ \A i \in all : i >= Min(page) => i \in page
      /\ Cardinality(page) # n => page = all
  <2>1. n \in Nat /\ n > 0 /\ all \subseteq Nat /\ IsFiniteSet(all) /\ page = Top(all, n)
    BY <1>1, <1>3, <1>5
  <2>2. Heads(page, all, n)
    BY <2>1, TopOf
  <2>3. QED
    BY <2>2 DEF Heads
<1>7. /\ walk.at = "list" /\ UNCHANGED <<rows, steady>>
      /\ got' = [i \in Ids |-> IF i \in page THEN got[i] + 1 ELSE got[i]]
      /\ walk' = IF Cardinality(page) = n THEN [walk EXCEPT !.at = "count", !.max = Min(page)]
                 ELSE [walk EXCEPT !.at = "end"]
  BY <1>1, <1>4 DEF ListPage
<1>8. \A i \in page : i \in Ids /\ got[i] = 0 /\ i < walk.max /\ i > walk.since
  BY <1>2, <1>6, <1>7 DEF Reading
<1>9. got' \in [Ids -> {0, 1}] /\ \A i \in Ids : got'[i] = IF i \in page THEN 1 ELSE got[i]
  BY <1>7, <1>8 DEF Reading
<1>10. \A i \in steady : i \in Ids /\ i \in Nat /\ (i > walk.since => i \in all \/ got[i] = 1)
  <2>1. ASSUME NEW i \in steady, i > walk.since, i \notin all
        PROVE  got[i] = 1
    <3>1. i \in Ids /\ i \in Nat /\ walk.max \in Int /\ ~(i < walk.max)
      BY <1>2, <1>5, <2>1 DEF Reading
    <3>2. QED
      BY <1>7, <2>1, <3>1 DEF Reading
  <2>2. \A i \in steady : i \in Ids /\ i \in Nat
    BY <1>5 DEF Reading
  <2>3. QED
    BY <2>1, <2>2
<1>11. CASE Cardinality(page) = n
  <2>1. Min(page) \in page /\ \A i \in page : Min(page) <= i
    BY <1>5, <1>6, <1>11, MinOf
  <2>2. PICK m \in page : m = Min(page)
    BY <2>1
  <2>3. walk' = [at |-> "count", limit |-> walk.limit, max |-> m, since |-> walk.since, total |-> walk.total]
    BY <1>7, <1>11, <2>2 DEF Reading
  <2>4. walk'.at = "count" /\ walk'.limit = walk.limit /\ walk'.max = m /\ walk'.since = walk.since
        /\ walk'.total = walk.total
    BY <2>3
  <2>5. m \in Int /\ m < walk.max /\ m \in Nat
    BY <1>5, <1>6, <1>8, <2>2
  <2>6. ASSUME NEW i \in Ids, i < m
        PROVE  got'[i] = 0
    <3>1. i \notin page /\ i \in Nat /\ i < walk.max
      BY <1>5, <2>1, <2>2, <2>5, <2>6 DEF Reading
    <3>2. QED
      BY <1>7, <1>9, <3>1 DEF Reading
  <2>7. ASSUME NEW i \in steady, i >= m, i > walk.since
        PROVE  got'[i] = 1
    BY <1>6, <1>9, <1>10, <1>11, <2>2, <2>7
  <2>8. QED
    BY <1>7, <1>9, <2>3, <2>4, <2>5, <2>6, <2>7 DEF Reading
<1>12. CASE Cardinality(page) # n
  <2>1. walk' = [at |-> "end", limit |-> walk.limit, max |-> walk.max, since |-> walk.since, total |-> walk.total]
    BY <1>7, <1>12 DEF Reading
  <2>2. walk'.at = "end" /\ walk'.limit = walk.limit /\ walk'.max = walk.max /\ walk'.since = walk.since
        /\ walk'.total = walk.total
    BY <2>1
  <2>3. \A i \in steady : i > walk.since => got'[i] = 1
    BY <1>6, <1>9, <1>10, <1>12
  <2>4. QED
    BY <1>7, <1>9, <2>1, <2>2, <2>3 DEF Reading
<1>13. QED
  BY <1>11, <1>12

LEMMA ChangeReading ==
  ASSUME Reading, NEW i \in Ids, Change(i)
  PROVE  Reading'
<1>1. PICK v \in {"pending", "accepted", "deleted"} :
        /\ rows' = [rows EXCEPT ![i] = v]
        /\ steady' = IF v = "accepted" THEN steady ELSE steady \ {i}
  BY DEF Change
<1>2. UNCHANGED <<walk, got>>
  BY DEF Change
<1>3. steady' \subseteq steady
  BY <1>1
<1>4. rows' \in [Ids -> {"none", "pending", "accepted", "deleted"}] /\ \A j \in steady' : rows'[j] = "accepted"
  BY <1>1, <1>3 DEF Reading
<1>5. QED
  BY <1>2, <1>3, <1>4 DEF Reading

LEMMA NextReading ==
  ASSUME Reading, [Next]_vars
  PROVE  Reading'
<1>1. ASSUME UNCHANGED pagingVars
      PROVE  Reading'
  BY <1>1 DEF Reading, pagingVars
<1>2. CASE Unauthorized
  <2>1. walk' = [walk EXCEPT !.at = "unauthorized"] /\ UNCHANGED <<rows, got, steady>>
    BY <1>2 DEF Unauthorized
  <2>2. walk' = [at |-> "unauthorized", limit |-> walk.limit, max |-> walk.max, since |-> walk.since, total |-> walk.total]
    BY <2>1 DEF Reading
  <2>3. walk'.at = "unauthorized" /\ walk'.limit = walk.limit /\ walk'.max = walk.max /\ walk'.since = walk.since
        /\ walk'.total = walk.total
    BY <2>2
  <2>4. QED
    BY <2>1, <2>2, <2>3 DEF Reading
<1>3. CASE Read
  BY <1>3, RootReading, CountReading, ListReading DEF Read
<1>4. ASSUME NEW i \in Ids, Change(i)
      PROVE  Reading'
  BY <1>4, ChangeReading
<1>5. CASE \/ FetchNext /\ UNCHANGED <<wireVars, pagingVars>>
           \/ Tick \/ Rotate \/ DeliverActivity \/ GiveUpWaiting
  BY <1>1, <1>5 DEF Tick, Rotate, DeliverActivity, GiveUpWaiting, Others
<1>6. ASSUME NEW p \in net, Redirect(p) \/ Garble(p) \/ RedirectToGet(p) \/ LookUpKey(p)
      PROVE  Reading'
  BY <1>1, <1>6 DEF Redirect, Garble, RedirectToGet, LookUpKey, Others
<1>7. ASSUME NEW q \in found, Verify(q)
      PROVE  Reading'
  BY <1>1, <1>7 DEF Verify, Others
<1>8. CASE UNCHANGED vars
  BY <1>1, <1>8 DEF vars
<1>9. QED
  BY <1>2, <1>3, <1>4, <1>5, <1>6, <1>7, <1>8 DEF Next

\* FollowersPage lists the rows below max_id in descending order and orderedCollectionPageDoc
\* makes the last of a full page the next max_id: no row is listed twice, and none that was
\* there all the while is passed over, whatever comes and goes between two pages.
THEOREM PagesAreComplete == Spec => []PagesComplete
<1>1. ASSUME Reading
      PROVE  PagesComplete
  BY <1>1 DEF Reading, PagesComplete
<1>2. QED
  BY <1>1, InitReading, NextReading, PTL DEF Spec

---------------------------------------------------------------------------------
(***************************************************************************)
(* The search for an inbox                                                 *)
(***************************************************************************)
\* Whatever was asked for has been seen, and the depth counts what was seen.
Seeking ==
  /\ search = [at |-> search.at, ref |-> search.ref, depth |-> search.depth, seen |-> search.seen]
  /\ search.depth \in 0 .. maxInboxResolutionSteps
  /\ IsFiniteSet(search.seen) /\ Cardinality(search.seen) = search.depth
  /\ fetched \in [DOMAIN Documents -> {0, 1}]
  /\ \A c \in DOMAIN Documents : fetched[c] > 0 => c \in search.seen
  /\ search.at = "check" => search.ref = Nothing \/ (search.ref.canon # Nothing /\ Reference(search.ref))
  /\ search.at = "get" => search.ref.canon \in DOMAIN Documents
  /\ search.at = "found" => /\ search.ref # Nothing /\ search.ref.canon # Nothing
                            /\ search.ref.inbox /\ PreDialCheck(policy, search.ref)
  /\ policy.relax \/ dialled \cap Private = {}

LEMMA InitSeeking ==
  ASSUME Init
  PROVE  Seeking
<1>1. /\ search = plan.search /\ plan \in Plans
      /\ fetched = [c \in DOMAIN Documents |-> 0] /\ dialled = {}
  BY DEF Init, FetchInit
<1>2. /\ search = [at |-> search.at, ref |-> search.ref, depth |-> 0, seen |-> {}]
      /\ search.at \in {"none", "check"}
      /\ search.ref # Nothing => search.ref.canon # Nothing /\ Reference(search.ref)
  BY <1>1, WireAssumption
<1>3. search.depth = 0 /\ search.seen = {}
  <2> DEFINE x == [at |-> search.at, ref |-> search.ref, depth |-> 0, seen |-> {}]
  <2>1. x.depth = 0 /\ x.seen = {}
    OBVIOUS
  <2>2. search = x
    BY <1>2
  <2> HIDE DEF x
  <2>3. QED
    BY <2>1, <2>2
<1>4. IsFiniteSet(search.seen) /\ Cardinality(search.seen) = 0
  BY <1>3, FS_EmptySet
<1>5. QED
  BY <1>1, <1>2, <1>3, <1>4, FetchAssumption DEF Seeking

\* A reference is refused, is the inbox, or is asked for: then it was not seen before.
LEMMA CheckSeeking ==
  ASSUME Seeking, inboxURLFromReference
  PROVE  Seeking'
<1>1. search.at = "check" /\ policy' = policy
  BY DEF inboxURLFromReference
<1>2. CASE GiveUp
  <2>1. search' = [at |-> "failed", ref |-> Nothing, depth |-> search.depth, seen |-> search.seen]
        /\ UNCHANGED <<fetched, dialled>>
    BY <1>2 DEF GiveUp, Seeking
  <2>2. search'.at = "failed" /\ search'.ref = Nothing /\ search'.depth = search.depth /\ search'.seen = search.seen
    BY <2>1
  <2>3. QED
    BY <1>1, <2>1, <2>2 DEF Seeking
<1>3. ASSUME search' = [search EXCEPT !.at = "found"], UNCHANGED <<fetched, dialled>>,
             search.ref # Nothing, search.ref.inbox, PreDialCheck(policy, search.ref)
      PROVE  Seeking'
  <2>1. search' = [at |-> "found", ref |-> search.ref, depth |-> search.depth, seen |-> search.seen]
    BY <1>3 DEF Seeking
  <2>2. search'.at = "found" /\ search'.ref = search.ref /\ search'.depth = search.depth /\ search'.seen = search.seen
    BY <2>1
  <2>3. PreDialCheck(policy, search.ref)'
    BY <1>1, <1>3, <2>2 DEF PreDialCheck, checkIP
  <2>4. search.ref.canon # Nothing
    BY <1>1, <1>3 DEF Seeking
  <2>5. QED
    BY <1>1, <1>3, <2>1, <2>2, <2>3, <2>4 DEF Seeking
<1>4. ASSUME NEW u, u = search.ref, u # Nothing, u.scheme \in {"http", "https"}, u.canon \notin search.seen,
             ~u.inbox, search.depth < maxInboxResolutionSteps,
             search' = [search EXCEPT !.at = "get", !.depth = @ + 1, !.seen = @ \cup {u.canon}],
             fetched' = [fetched EXCEPT ![u.canon] = @ + 1], UNCHANGED dialled
      PROVE  Seeking'
  <2>1. search' = [at |-> "get", ref |-> u, depth |-> search.depth + 1, seen |-> search.seen \cup {u.canon}]
    BY <1>4 DEF Seeking
  <2>2. /\ search'.at = "get" /\ search'.ref = u /\ search'.depth = search.depth + 1
        /\ search'.seen = search.seen \cup {u.canon}
    BY <2>1
  <2>3. u.canon \in DOMAIN Documents
    BY <1>1, <1>4 DEF Seeking, Reference
  <2>4. fetched[u.canon] = 0
    BY <1>4, <2>3 DEF Seeking
  <2>5. fetched' \in [DOMAIN Documents -> {0, 1}] /\ \A c \in DOMAIN Documents : c # u.canon => fetched'[c] = fetched[c]
    BY <1>4, <2>3, <2>4 DEF Seeking
  <2>6. \A c \in DOMAIN Documents : fetched'[c] > 0 => c \in search'.seen
    BY <2>2, <2>5 DEF Seeking
  <2>7. IsFiniteSet(search'.seen) /\ Cardinality(search'.seen) = search'.depth
    BY <1>4, <2>2, FS_AddElement DEF Seeking
  <2>8. search'.depth \in 0 .. maxInboxResolutionSteps
    BY <1>4, <2>2, FetchAssumption DEF Seeking
  <2>9. QED
    BY <1>1, <1>4, <2>1, <2>2, <2>3, <2>5, <2>6, <2>7, <2>8 DEF Seeking
<1>5. QED
  BY <1>2, <1>3, <1>4 DEF inboxURLFromReference, Canonical

\* A connection comes to an address that passed with all that were found with it.
LEMMA DialsPublic ==
  ASSUME NEW p, NEW u, NEW up, NEW x \in dialContext(p, u, up), ~p.relax
  PROVE  x \notin Private
<1>1. PICK ips \in Lookup(u) : validateAllResolvedIPs(p, ips) /\ x \in sortIPsPreferIPv4(ips \cap up)
  BY DEF dialContext
<1>2. x \in ips
  BY <1>1 DEF sortIPsPreferIPv4
<1>3. QED
  BY <1>1, <1>2 DEF validateAllResolvedIPs, checkIP

\* A document is read, or a redirect followed, over a connection that was checked.
LEMMA GetSeeking ==
  ASSUME Seeking, fetchActorInbox
  PROVE  Seeking'
<1>1. search.at = "get" /\ policy' = policy /\ search.ref.canon \in DOMAIN Documents
  BY DEF fetchActorInbox, Seeking
<1>2. CASE GiveUp
  <2>1. search' = [at |-> "failed", ref |-> Nothing, depth |-> search.depth, seen |-> search.seen]
        /\ UNCHANGED <<fetched, dialled>>
    BY <1>2 DEF GiveUp, Seeking
  <2>2. search'.at = "failed" /\ search'.ref = Nothing /\ search'.depth = search.depth /\ search'.seen = search.seen
    BY <2>1
  <2>3. QED
    BY <1>1, <2>1, <2>2 DEF Seeking
<1>3. ASSUME NEW up, NEW x \in dialContext(policy, search.ref, up), dialled' = dialled \cup {x}, UNCHANGED fetched,
             \/ \E r \in Documents[search.ref.canon] :
                  search' = IF r = Nothing THEN [search EXCEPT !.at = "failed", !.ref = Nothing]
                            ELSE [search EXCEPT !.at = "check", !.ref = r]
             \/ \E r \in Redirects[search.ref.canon] : search' = [search EXCEPT !.ref = r]
      PROVE  Seeking'
  <2>1. policy'.relax \/ dialled' \cap Private = {}
    <3>1. CASE policy.relax
      BY <1>1, <3>1
    <3>2. CASE ~policy.relax
      <4>1. x \notin Private
        BY <3>2, <1>3, DialsPublic
      <4>2. QED
        BY <1>1, <1>3, <3>2, <4>1 DEF Seeking
    <3>3. QED
      BY <3>1, <3>2
  <2>2. ASSUME NEW l, NEW r, search' = [search EXCEPT !.at = l, !.ref = r],
               \/ l = "failed"
               \/ l = "check" /\ r.canon # Nothing /\ Reference(r)
               \/ l = "get" /\ r.canon \in DOMAIN Documents
        PROVE  Seeking'
    <3>1. search' = [at |-> l, ref |-> r, depth |-> search.depth, seen |-> search.seen]
      BY <2>2 DEF Seeking
    <3>2. search'.at = l /\ search'.ref = r /\ search'.depth = search.depth /\ search'.seen = search.seen
      BY <3>1
    <3>3. QED
      BY <1>1, <1>3, <2>1, <2>2, <3>1, <3>2 DEF Seeking
  <2>3. ASSUME NEW r \in Documents[search.ref.canon],
               search' = IF r = Nothing THEN [search EXCEPT !.at = "failed", !.ref = Nothing]
                         ELSE [search EXCEPT !.at = "check", !.ref = r]
        PROVE  Seeking'
    <3>1. r # Nothing => r.canon # Nothing /\ Reference(r)
      BY <1>1, FetchAssumption
    <3>2. QED
      BY <2>2, <2>3, <3>1
  <2>4. ASSUME NEW r \in Redirects[search.ref.canon], search' = [search EXCEPT !.ref = r]
        PROVE  Seeking'
    <3>1. r.canon \in DOMAIN Documents
      BY <1>1, FetchAssumption
    <3>2. search' = [search EXCEPT !.at = "get", !.ref = r]
      BY <1>1, <2>4 DEF Seeking
    <3>3. QED
      BY <2>2, <3>1, <3>2
  <2>5. QED
    BY <1>3, <2>3, <2>4
<1>4. QED
  BY <1>2, <1>3 DEF fetchActorInbox

LEMMA NextSeeking ==
  ASSUME Seeking, [Next]_vars
  PROVE  Seeking'
<1>1. ASSUME UNCHANGED fetchVars
      PROVE  Seeking'
  <2>1. UNCHANGED <<policy, search, fetched, dialled>>
    BY <1>1 DEF fetchVars
  <2>2. PreDialCheck(policy, search.ref)' = PreDialCheck(policy, search.ref)
    BY <2>1 DEF PreDialCheck, checkIP
  <2>3. QED
    BY <2>1, <2>2 DEF Seeking
<1>2. CASE FetchNext
  BY <1>2, CheckSeeking, GetSeeking DEF FetchNext
<1>3. CASE Tick \/ Rotate \/ DeliverActivity \/ GiveUpWaiting \/ Unauthorized \/ Read
  BY <1>1, <1>3 DEF Tick, Rotate, DeliverActivity, GiveUpWaiting, Unauthorized, Read, Others
<1>4. ASSUME NEW p \in net, Redirect(p) \/ Garble(p) \/ RedirectToGet(p) \/ LookUpKey(p)
      PROVE  Seeking'
  BY <1>1, <1>4 DEF Redirect, Garble, RedirectToGet, LookUpKey, Others
<1>5. ASSUME NEW q \in found, Verify(q)
      PROVE  Seeking'
  BY <1>1, <1>5 DEF Verify, Others
<1>6. CASE UNCHANGED fetchVars
  BY <1>1, <1>6
<1>7. QED
  BY <1>2, <1>3, <1>4, <1>5, <1>6 DEF Next, vars

\* inboxURLFromReference keeps the canonical URLs it has asked for and the depth it has
\* come to: no document is asked for twice, and no more of them than the limit.
THEOREM SearchIsBounded == Spec => []SearchBounded
<1>1. ASSUME Seeking
      PROVE  SearchBounded
  <2>1. \A c \in DOMAIN fetched : fetched[c] <= 1
    BY <1>1 DEF Seeking
  <2>2. {c \in DOMAIN fetched : fetched[c] > 0} \in SUBSET search.seen
    BY <1>1 DEF Seeking
  <2>3. Cardinality({c \in DOMAIN fetched : fetched[c] > 0}) <= Cardinality(search.seen)
        /\ IsFiniteSet({c \in DOMAIN fetched : fetched[c] > 0})
    BY <1>1, <2>2, FS_Subset DEF Seeking
  <2>4. Cardinality({c \in DOMAIN fetched : fetched[c] > 0}) <= maxInboxResolutionSteps
    BY <1>1, <2>3, FS_CardinalityType, FetchAssumption DEF Seeking
  <2>5. QED
    BY <1>1, <2>1, <2>4 DEF Seeking, SearchBounded
<1>2. QED
  BY <1>1, InitSeeking, NextSeeking, PTL DEF Spec

\* dialContext connects to the addresses that validateAllResolvedIPs was shown, and to no
\* others: names may resolve to something else the next time.  An unspecified address, which
\* checkIP lets pass, is the only one that leads to where it would not let another.
THEOREM DialsAreChecked == Spec => []DialsChecked
<1>1. ASSUME Seeking
      PROVE  DialsChecked
  BY <1>1 DEF Seeking, DialsChecked, Reached
<1>2. QED
  BY <1>1, InitSeeking, NextSeeking, PTL DEF Spec

---------------------------------------------------------------------------------
(***************************************************************************)
(* The delivery                                                            *)
(***************************************************************************)
\* What a delivery to u signs at the time date.
Text(u, date) ==
  [h \in HeaderOrder |-> IF h = "target" THEN <<"post", u.canon>>
                         ELSE IF h = "host" THEN u.host
                         ELSE IF h = "date" THEN date ELSE "activity"]

\* A delivery to u, as it was signed with the key k, with what may have been changed since.
Delivery(u, k, target, host, body, date) ==
  [method |-> "post", target |-> target, host |-> host, body |-> body, date |-> date,
   digest |-> "activity", type |-> "activity", accept |-> Nothing,
   sig |-> [key |-> k, names |-> HeaderOrder, text |-> Text(u, date)]]

\* The attempt t was signed or looked up with the key file's key.
ByFile(t) == [try |-> t, what |-> "key file"] \in wrong

\* The key that was found is that of the signature or a later one, unless the key file's met.
Fitting(f) == f.pub \in f.req.msg.sig.key .. key \/ ByFile(f.req.try)

\* A request on its way: an attempt that was made, to the inbox that was found, with a key
\* of before or the key file's, unaltered unless something has happened to it.
Carries(p) ==
  /\ p.try \in 1 .. job.tries /\ p.sent \in Nat
  /\ p.msg.sig.key \in 1 .. key \/ (p.msg.sig.key = FileKey /\ ByFile(p.try))
  /\ p.msg = Delivery(search.ref, p.msg.sig.key, p.msg.target, p.msg.host, p.msg.body, p.sent)
  /\ p.msg.body = "activity" \/ [try |-> p.try, what |-> "garble"] \in wrong
  /\ (p.msg.target = search.ref.canon /\ p.msg.host = search.ref.host)
       \/ [try |-> p.try, what |-> "redirect"] \in wrong

Sent ==
  /\ now \in Nat /\ key \in 1 .. 2 /\ plan \in Plans
  /\ job.at \in {"ready", "waiting", "done", "refused"} /\ job.tries \in Nat
  /\ job = [at |-> job.at, tries |-> job.tries]
  /\ (net # {} \/ found # {} \/ accepted # {}) => search.at = "found"
  /\ \A p \in net : p = [try |-> p.try, sent |-> p.sent, msg |-> p.msg] /\ Carries(p)
  /\ \A f \in found : Carries(f.req) /\ Fitting(f)

Whys == {"no key", "other actor", "other key", "changed", "late"}

Delivering ==
  /\ Sent /\ AcceptedAsSigned
  /\ \A r \in refused : r.why \in Whys
  /\ RefusedForCause

\* SignPost makes such a message of a request to u.
LEMMA SignedDelivery ==
  ASSUME NEW u, NEW k, NEW n
  PROVE  SignPost(Unsigned("post", u.canon, u.host, "activity"), k, n)
           = Delivery(u, k, u.canon, u.host, "activity", n)
<1> DEFINE none == [key |-> Nothing, names |-> {}, text |-> Nothing]
           plain == [method |-> "post", target |-> u.canon, host |-> u.host, body |-> "activity", date |-> Nothing,
                     digest |-> Nothing, type |-> Nothing, accept |-> Nothing, sig |-> none]
           dated == [method |-> "post", target |-> u.canon, host |-> u.host, body |-> "activity", date |-> n,
                     digest |-> "activity", type |-> "activity", accept |-> Nothing, sig |-> none]
<1> HIDE DEF none
<1>1. Unsigned("post", u.canon, u.host, "activity") = plain
  BY DEF Unsigned, none
<1>2. [plain EXCEPT !.digest = plain.body, !.date = n, !.type = "activity"] = dated
  <2> DEFINE p == [plain EXCEPT !.digest = plain.body]
             q == [p EXCEPT !.date = n]
             r == [q EXCEPT !.type = "activity"]
  <2>1. p = [method |-> "post", target |-> u.canon, host |-> u.host, body |-> "activity", date |-> Nothing,
             digest |-> "activity", type |-> Nothing, accept |-> Nothing, sig |-> none]
    OBVIOUS
  <2> HIDE DEF p
  <2>2. q = [method |-> "post", target |-> u.canon, host |-> u.host, body |-> "activity", date |-> n,
             digest |-> "activity", type |-> Nothing, accept |-> Nothing, sig |-> none]
    BY <2>1
  <2> HIDE DEF q
  <2>3. r = dated
    BY <2>2
  <2>4. QED
    BY <2>3 DEF p, q
<1>3. /\ dated.method = "post" /\ dated.target = u.canon /\ dated["host"] = u.host /\ dated["date"] = n
      /\ dated["digest"] = "activity" /\ dated["type"] = "activity"
  OBVIOUS
<1>4. BuildSigningString(dated, HeaderOrder) = Text(u, n)
  <2> HIDE DEF dated
  <2>1. QED
    BY <1>3 DEF BuildSigningString, Text, HeaderOrder
<1>5. [dated EXCEPT !.sig = [key |-> k, names |-> HeaderOrder, text |-> Text(u, n)]]
        = Delivery(u, k, u.canon, u.host, "activity", n)
  BY DEF Delivery
<1>6. SignPost(plain, k, n) = Signed(dated, HeaderOrder, k)
  <2> HIDE DEF plain, dated
  <2>1. QED
    BY <1>2 DEF SignPost
<1>7. Signed(dated, HeaderOrder, k) = Delivery(u, k, u.canon, u.host, "activity", n)
  <2> HIDE DEF dated
  <2>1. QED
    BY <1>4, <1>5 DEF Signed
<1>8. QED
  BY <1>1, <1>6, <1>7

\* The headers of such a message, and what VerifyRequest makes of it: the receiver computes
\* what was signed from the headers that it got.
LEMMA VerifiedDelivery ==
  ASSUME NEW u, u.canon # Nothing, u.host # Nothing, NEW n \in Nat, NEW pub, NEW t \in Int,
         NEW m, m = Delivery(u, m.sig.key, m.target, m.host, m.body, n)
  PROVE  /\ verifyDateHeader(m, t) <=> t - n \in -MaxSkew .. MaxSkew
         /\ VerifyRequest(m, pub, t) => (m.body = "activity" /\ m.target = u.canon /\ verifyDateHeader(m, t))
         /\ (verifyDateHeader(m, t) /\ pub = m.sig.key /\ m.body = "activity" /\ m.target = u.canon
               /\ m.host = u.host) => VerifyRequest(m, pub, t)
<1>1. /\ m.method = "post" /\ m.date = n /\ m.digest = "activity"
      /\ m.sig = [key |-> m.sig.key, names |-> HeaderOrder, text |-> Text(u, n)]
      /\ m["target"] = m.target /\ m["host"] = m.host /\ m["date"] = n /\ m["digest"] = "activity"
      /\ m["type"] = "activity"
  <2>1. PICK k, target, host, body : m = Delivery(u, k, target, host, body, n) /\ k = m.sig.key
    OBVIOUS
  <2>2. QED
    BY <2>1 DEF Delivery
<1>2. m.sig.names = HeaderOrder /\ m.sig.text = Text(u, n)
  BY <1>1
<1>3. n # Nothing /\ "activity" # Nothing
  BY WireAssumption
<1>4. verifyDateHeader(m, t) <=> t - n \in -MaxSkew .. MaxSkew
  BY <1>1, <1>3 DEF verifyDateHeader
<1>5. ASSUME VerifyRequest(m, pub, t)
      PROVE  m.body = "activity" /\ m.target = u.canon /\ verifyDateHeader(m, t)
  <2>1. m.digest = m.body /\ m.sig.text = BuildSigningString(m, m.sig.names) /\ verifyDateHeader(m, t)
    BY <1>5 DEF VerifyRequest, VerifyDigest, Verifies
  <2>2. Text(u, n)["target"] = <<"post", u.canon>>
    BY DEF Text, HeaderOrder
  <2>3. BuildSigningString(m, HeaderOrder)["target"] = <<"post", m.target>>
    BY <1>1 DEF BuildSigningString, HeaderOrder
  <2>4. <<"post", m.target>> = <<"post", u.canon>>
    BY <1>2, <2>1, <2>2, <2>3
  <2>5. m.target = u.canon
    BY <2>4
  <2>6. QED
    BY <1>1, <2>1, <2>5
<1>6. ASSUME verifyDateHeader(m, t), pub = m.sig.key, m.body = "activity", m.target = u.canon, m.host = u.host
      PROVE  VerifyRequest(m, pub, t)
  <2>1. VerifyDigest(m)
    BY <1>1, <1>3, <1>6 DEF VerifyDigest
  <2>2. HeaderOrder # {} /\ ~Missing(m, HeaderOrder)
    BY <1>1, <1>3, <1>6 DEF Missing, HeaderOrder
  <2>3. BuildSigningString(m, HeaderOrder) = Text(u, n)
    BY <1>1, <1>6 DEF BuildSigningString, Text, HeaderOrder
  <2>4. QED
    BY <1>2, <1>6, <2>1, <2>2, <2>3 DEF VerifyRequest, Verifies
<1>7. QED
  BY <1>4, <1>5, <1>6

\* The id of the key is in the document once, at the place that the document has it.
LEMMA KeyFound ==
  ASSUME NEW k \in 0 .. 2
  PROVE  PublicKeyForKeyID(ActorDocument(k), KeyId) = k
<1> DEFINE doc == ActorDocument(k)
           match == {i \in DOMAIN doc.keys : doc.keys[i].id = KeyId /\ doc.keys[i].pem # Nothing}
<1>1. k # Nothing
  BY WireAssumption
<1>2. CASE plan.array
  <2>1. doc.keys = <<[id |-> "old-key", pem |-> Nothing], [id |-> KeyId, pem |-> k]>>
    BY <1>2 DEF ActorDocument
  <2>2. DOMAIN doc.keys = {1, 2} /\ doc.keys[1].id = "old-key" /\ doc.keys[2].id = KeyId /\ doc.keys[2].pem = k
    BY <2>1
  <2> HIDE DEF doc
  <2>3. match = {2}
    BY <1>1, <2>2 DEF KeyId
  <2>4. Min(match) = 2
    BY <2>3, MinOf
  <2>5. QED
    BY <2>2, <2>3, <2>4 DEF PublicKeyForKeyID, doc
<1>3. CASE ~plan.array
  <2>1. doc.keys = <<[id |-> KeyId, pem |-> k]>>
    BY <1>3 DEF ActorDocument
  <2>2. DOMAIN doc.keys = {1} /\ doc.keys[1].id = KeyId /\ doc.keys[1].pem = k
    BY <2>1
  <2> HIDE DEF doc
  <2>3. match = {1}
    BY <1>1, <2>2
  <2>4. Min(match) = 1
    BY <2>3, MinOf
  <2>5. QED
    BY <2>2, <2>3, <2>4 DEF PublicKeyForKeyID, doc
<1>4. QED
  BY <1>2, <1>3

\* What has happened stays in the history.
LEMMA ByFileStays ==
  ASSUME NEW t, ByFile(t), wrong \subseteq wrong'
  PROVE  ByFile(t)'
BY DEF ByFile

\* Met writes down the key file's, and forgets nothing.
LEMMA MetIsKept ==
  ASSUME NEW t, NEW k, Met(t, k)
  PROVE  wrong \subseteq wrong' /\ (k = FileKey => ByFile(t)')
<1>1. CASE k = FileKey
  <2>1. wrong' = wrong \cup {[try |-> t, what |-> "key file"]}
    BY <1>1 DEF Met
  <2>2. QED
    BY <2>1 DEF ByFile
<1>2. CASE k # FileKey
  BY <1>2 DEF Met
<1>3. QED
  BY <1>1, <1>2

\* What is on its way stays as it is when the key, the job and what happens go on.
LEMMA StillCarries ==
  ASSUME NEW p, Carries(p), search'.ref = search.ref, job.tries \in Nat, key \in Nat,
         job'.tries \in Nat, job'.tries >= job.tries, key' \in Nat, key' >= key, wrong \subseteq wrong'
  PROVE  Carries(p)'
<1>1. p.try \in 1 .. job'.tries
  BY DEF Carries
<1>2. p.msg.sig.key \in 1 .. key' \/ (p.msg.sig.key = FileKey /\ ByFile(p.try)')
  <2>1. p.msg.sig.key \in 1 .. key \/ (p.msg.sig.key = FileKey /\ ByFile(p.try))
    BY DEF Carries
  <2>2. ASSUME p.msg.sig.key \in 1 .. key
        PROVE  p.msg.sig.key \in 1 .. key'
    BY <2>2
  <2>3. ASSUME ByFile(p.try)
        PROVE  ByFile(p.try)'
    BY <2>3, ByFileStays
  <2>4. QED
    BY <2>1, <2>2, <2>3
<1>3. QED
  BY <1>1, <1>2 DEF Carries

LEMMA InitDelivering ==
  ASSUME Init
  PROVE  Delivering
<1>1. job = [at |-> "ready", tries |-> 0] /\ job.at = "ready" /\ job.tries = 0
  BY DEF Init
<1>2. now = 0 /\ key = 1 /\ plan \in Plans /\ net = {} /\ found = {} /\ accepted = {} /\ refused = {}
  BY DEF Init
<1>3. Sent
  BY <1>1, <1>2 DEF Sent
<1>4. QED
  BY <1>1, <1>2, <1>3 DEF Delivering, AcceptedAsSigned, RefusedForCause

\* The rest when nothing of the past is forgotten and the job is not done by this.
LEMMA StillJudged ==
  ASSUME AcceptedAsSigned, RefusedForCause, \A r \in refused : r.why \in Whys,
         plan' = plan, accepted' = accepted, refused' = refused, wrong \subseteq wrong', key > 1 => key' > 1,
         accepted # {} => search'.ref = search.ref, job' = job \/ job'.at # "done"
  PROVE  AcceptedAsSigned' /\ RefusedForCause' /\ \A r \in refused' : r.why \in Whys
<1>1. AcceptedAsSigned'
  <2>1. ASSUME NEW a \in accepted
        PROVE  /\ a.req.msg.body = "activity" /\ a.req.msg.target = search'.ref.canon
               /\ a.at + plan'.offset - a.req.sent \in -MaxSkew .. MaxSkew
    BY DEF AcceptedAsSigned
  <2>2. ASSUME job'.at = "done"
        PROVE  \/ \E a \in accepted : a.req.try = job'.tries
               \/ [try |-> job'.tries, what |-> "see other"] \in wrong'
    BY <2>2 DEF AcceptedAsSigned
  <2>3. accepted' # {} => plan'.actor = Signer
    BY DEF AcceptedAsSigned
  <2>4. QED
    BY <2>1, <2>2, <2>3 DEF AcceptedAsSigned
<1>2. RefusedForCause'
  <2>1. ASSUME NEW r \in refused
        PROVE  CASE r.why = "no key"      -> TRUE
                 [] r.why = "other actor" -> plan'.actor # Signer
                 [] r.why = "other key"   -> key' > 1 \/ [try |-> r.try, what |-> "key file"] \in wrong'
                 [] r.why = "changed"     -> \E w \in wrong' : w.try = r.try /\ w.what \in {"redirect", "garble"}
                 [] OTHER                 -> r.at + plan'.offset - r.sent \notin -MaxSkew .. MaxSkew
    <3>1. r.why \in {"no key", "other actor", "other key", "changed", "late"}
      BY DEF Whys
    <3>2. CASE r.why \in {"no key", "other actor"}
      BY <3>2 DEF RefusedForCause
    <3>3. CASE r.why = "other key"
      <4>1. key > 1 \/ [try |-> r.try, what |-> "key file"] \in wrong
        BY <3>3 DEF RefusedForCause
      <4>2. QED
        BY <3>3, <4>1
    <3>4. CASE r.why = "changed"
      BY <3>4 DEF RefusedForCause
    <3>5. CASE r.why = "late"
      BY <3>5 DEF RefusedForCause
    <3>6. QED
      BY <3>1, <3>2, <3>3, <3>4, <3>5
  <2>2. QED
    BY <2>1 DEF RefusedForCause
<1>3. QED
  BY <1>1, <1>2

\* The job after an answer.
LEMMA AnsweredJob ==
  ASSUME Sent, NEW p, NEW at \in {"done", "refused"}, Answered(p, at)
  PROVE  /\ job' = [at |-> job'.at, tries |-> job.tries] /\ job'.tries = job.tries
         /\ job'.at \in {job.at, at}
         /\ job' = job \/ (job'.at = at /\ p.try = job.tries)
<1>1. job = [at |-> job.at, tries |-> job.tries] /\ job.tries \in Nat
  BY DEF Sent
<1>2. CASE job = [at |-> "waiting", tries |-> p.try]
  <2>1. job.tries = p.try
    BY <1>2
  <2>2. job' = [job EXCEPT !.at = at]
    BY <1>2 DEF Answered
  <2>3. job' = [at |-> at, tries |-> job.tries]
    BY <1>1, <2>2
  <2>4. job'.at = at /\ job'.tries = job.tries
    BY <2>3
  <2>5. QED
    BY <2>1, <2>3, <2>4
<1>3. CASE job # [at |-> "waiting", tries |-> p.try]
  BY <1>1, <1>3 DEF Answered
<1>4. QED
  BY <1>2, <1>3

\* Each attempt is signed anew, with the key of now.
LEMMA DeliverDelivering ==
  ASSUME Seeking, Delivering, DeliverActivity
  PROVE  Delivering'
<1>1. /\ search.at = "found" /\ job.tries \in Nat /\ now \in Nat /\ key \in 1 .. 2
      /\ UNCHANGED <<policy, search, fetched, dialled, plan, now, key, found, accepted, refused>>
  BY DEF DeliverActivity, Others, fetchVars, Delivering, Sent
<1>2. /\ job' = [at |-> "waiting", tries |-> job.tries + 1]
      /\ job'.at = "waiting" /\ job'.tries = job.tries + 1
  BY DEF DeliverActivity
<1>2a. PICK t : t = job.tries + 1
  OBVIOUS
<1>3. PICK k \in KeysRead : /\ Met(t, k)
                             /\ net' = net \cup {[try |-> job.tries + 1, sent |-> now,
                                  msg |-> Delivery(search.ref, k, search.ref.canon, search.ref.host, "activity", now)]}
  BY <1>2a, SignedDelivery DEF DeliverActivity
<1>4. PICK x : /\ x = [try |-> job.tries + 1, sent |-> now,
                       msg |-> Delivery(search.ref, k, search.ref.canon, search.ref.host, "activity", now)]
               /\ net' = net \cup {x}
  BY <1>3
<1>5. x.try = job.tries + 1 /\ x.sent = now
      /\ x.msg = Delivery(search.ref, k, search.ref.canon, search.ref.host, "activity", now)
  BY <1>4
<1>6. wrong \subseteq wrong' /\ (k \in 1 .. key \/ (k = FileKey /\ ByFile(x.try)'))
  <2>1. wrong \subseteq wrong' /\ (k = FileKey => ByFile(t)')
    BY <1>3, MetIsKept
  <2>2. k = key \/ k = FileKey
    BY DEF KeysRead
  <2>3. k = key => k \in 1 .. key
    BY <1>1
  <2>4. x.try = t
    BY <1>5, <1>2a
  <2>5. QED
    BY <2>1, <2>2, <2>3, <2>4
<1>7. x.msg.sig = [key |-> k, names |-> HeaderOrder, text |-> Text(search.ref, now)]
      /\ x.msg.target = search.ref.canon /\ x.msg.host = search.ref.host /\ x.msg.body = "activity"
  BY <1>5 DEF Delivery
<1>8. x.msg.sig.key = k
  BY <1>7
<1>9. Carries(x)'
  BY <1>1, <1>2, <1>5, <1>7, <1>8, <1>6 DEF Carries
<1>10. \A p : Carries(p) => Carries(p)'
  BY <1>1, <1>2, <1>6, StillCarries
<1>11. Sent'
  <2>1. \A p \in net' : p = [try |-> p.try, sent |-> p.sent, msg |-> p.msg] /\ Carries(p)'
    BY <1>4, <1>5, <1>9, <1>10 DEF Delivering, Sent
  <2>2. \A f \in found' : Carries(f.req)' /\ Fitting(f)'
    BY <1>1, <1>10, <1>6 DEF Delivering, Sent, Fitting, ByFile
  <2>3. job' = [at |-> job'.at, tries |-> job'.tries] /\ job'.tries \in Nat
    BY <1>1, <1>2
  <2>4. search'.at = "found" /\ now' \in Nat /\ key' \in 1 .. 2 /\ plan' \in Plans
    BY <1>1 DEF Delivering, Sent
  <2>5. QED
    BY <1>2, <2>1, <2>2, <2>3, <2>4 DEF Sent
<1>12. /\ AcceptedAsSigned /\ RefusedForCause
       /\ \A r \in refused : r.why \in Whys
  BY DEF Delivering
<1>13. wrong \subseteq wrong' /\ (key > 1 => key' > 1) /\ search'.ref = search.ref
       /\ job'.at # "done"
  BY <1>1, <1>2, <1>6
<1>14. AcceptedAsSigned' /\ RefusedForCause' /\ \A r \in refused' : r.why \in Whys
  BY <1>1, <1>12, <1>13, StillJudged
<1>15. QED
  BY <1>11, <1>14 DEF Delivering

\* Sent again, when what is new on its way is so.
LEMMA StillSent ==
  ASSUME Sent, UNCHANGED <<search, plan>>, now' \in Nat, key' \in 1 .. 2, key' >= key,
         job' = [at |-> job'.at, tries |-> job.tries], job'.at \in {"ready", "waiting", "done", "refused"},
         wrong \subseteq wrong', (net' # {} \/ found' # {} \/ accepted' # {}) => search.at = "found",
         \A p \in net' : p \in net \/ (p = [try |-> p.try, sent |-> p.sent, msg |-> p.msg] /\ Carries(p)'),
         \A f \in found' : f \in found \/ (Carries(f.req)' /\ Fitting(f)')
  PROVE  Sent'
<1>1. job.tries \in Nat /\ key \in Nat /\ key' \in Nat /\ plan' \in Plans
  BY DEF Sent
<1>2. job'.tries = job.tries /\ job' = [at |-> job'.at, tries |-> job'.tries]
  OBVIOUS
<1>3. \A p : Carries(p) => Carries(p)'
  BY <1>1, <1>2, StillCarries
<1>4. \A p \in net' : p = [try |-> p.try, sent |-> p.sent, msg |-> p.msg] /\ Carries(p)'
  BY <1>3 DEF Sent
<1>5. ASSUME NEW f \in found'
      PROVE  Carries(f.req)' /\ Fitting(f)'
  <2>1. CASE f \in found
    <3>1. Carries(f.req) /\ Fitting(f)
      BY <2>1 DEF Sent
    <3>2. f.req.msg.sig.key \in 0 .. key
      BY <1>1, <3>1 DEF Carries, FileKey
    <3>3. ASSUME f.pub \in f.req.msg.sig.key .. key
          PROVE  Fitting(f)'
      <4>1. f.pub \in f.req.msg.sig.key .. key'
        BY <1>1, <3>2, <3>3
      <4>2. QED
        BY <4>1 DEF Fitting
    <3>5. ASSUME ByFile(f.req.try)
          PROVE  Fitting(f)'
      BY <3>5, ByFileStays DEF Fitting
    <3>6. Fitting(f)'
      BY <3>1, <3>3, <3>5 DEF Fitting
    <3>7. QED
      BY <1>3, <3>1, <3>6
  <2>2. QED
    BY <2>1, <1>5
<1>6. QED
  BY <1>1, <1>2, <1>4, <1>5 DEF Sent

\* What Redirect and Garble make of a request.
Readdressed(p, target, host) == [p EXCEPT !.msg.target = target, !.msg.host = host]
Garbled(p, body)             == [p EXCEPT !.msg.body = body]

\* A message of which the address or the body is changed keeps the rest.
LEMMA Altered ==
  ASSUME NEW p, p = [try |-> p.try, sent |-> p.sent, msg |-> p.msg],
         NEW u, NEW k, NEW target, NEW host, NEW body, NEW n, p.msg = Delivery(u, k, target, host, body, n),
         NEW target2, NEW host2, NEW body2
  PROVE  /\ Readdressed(p, target2, host2)
              = [try |-> p.try, sent |-> p.sent, msg |-> Delivery(u, k, target2, host2, body, n)]
         /\ Garbled(p, body2)
              = [try |-> p.try, sent |-> p.sent, msg |-> Delivery(u, k, target, host, body2, n)]
<1>1. /\ [p.msg EXCEPT !.target = target2] = Delivery(u, k, target2, host, body, n)
      /\ [p.msg EXCEPT !.body = body2] = Delivery(u, k, target, host, body2, n)
  BY DEF Delivery
<1>2. PICK q : q = [p EXCEPT !.msg = Delivery(u, k, target2, host, body, n)]
  OBVIOUS
<1>3. q = [p EXCEPT !.msg.target = target2]
  BY <1>1, <1>2
<1>4. q = [try |-> p.try, sent |-> p.sent, msg |-> Delivery(u, k, target2, host, body, n)]
  BY <1>2
<1>5. q.msg = Delivery(u, k, target2, host, body, n)
  BY <1>4
<1>6. [q.msg EXCEPT !.host = host2] = Delivery(u, k, target2, host2, body, n)
  BY <1>5 DEF Delivery
<1>7. [q EXCEPT !.msg = Delivery(u, k, target2, host2, body, n)]
        = [try |-> p.try, sent |-> p.sent, msg |-> Delivery(u, k, target2, host2, body, n)]
  BY <1>4
<1>8. [q EXCEPT !.msg.host = host2] = [q EXCEPT !.msg = Delivery(u, k, target2, host2, body, n)]
  BY <1>6
<1>9. [p EXCEPT !.msg.target = target2, !.msg.host = host2] = [q EXCEPT !.msg.host = host2]
  BY <1>3
<1>10. [p EXCEPT !.msg.body = body2] = [p EXCEPT !.msg = Delivery(u, k, target, host, body2, n)]
  BY <1>1
<1>11. [p EXCEPT !.msg = Delivery(u, k, target, host, body2, n)]
         = [try |-> p.try, sent |-> p.sent, msg |-> Delivery(u, k, target, host, body2, n)]
  OBVIOUS
<1>12. QED
  BY <1>7, <1>8, <1>9, <1>10, <1>11 DEF Readdressed, Garbled

\* The facts of a request on its way.
LEMMA OnItsWay ==
  ASSUME Sent, NEW p, Carries(p)
  PROVE  /\ p.try \in 1 .. job.tries /\ job.tries \in Nat /\ p.sent \in Nat
         /\ p.msg.sig.key \in 1 .. key \/ (p.msg.sig.key = FileKey /\ ByFile(p.try))
         /\ key \in 1 .. 2 /\ now \in Nat /\ plan \in Plans
         /\ p.msg = Delivery(search.ref, p.msg.sig.key, p.msg.target, p.msg.host, p.msg.body, p.sent)
         /\ p.msg.body = "activity" \/ [try |-> p.try, what |-> "garble"] \in wrong
         /\ (p.msg.target = search.ref.canon /\ p.msg.host = search.ref.host)
              \/ [try |-> p.try, what |-> "redirect"] \in wrong
BY DEF Sent, Carries

\* A redirect and a change of the body are written down for the attempt.
LEMMA RedirectDelivering ==
  ASSUME Delivering, NEW p \in net, Redirect(p)
  PROVE  Delivering'
<1>1. UNCHANGED <<policy, search, fetched, dialled, plan, now, key, job, found, accepted, refused>>
  BY DEF Redirect, Others, fetchVars
<1>2. Sent /\ search.at = "found" /\ Carries(p) /\ p = [try |-> p.try, sent |-> p.sent, msg |-> p.msg]
  BY DEF Delivering, Sent
<1>3. wrong' = wrong \cup {[try |-> p.try, what |-> "redirect"]}
  BY DEF Redirect
<1>4. PICK x : /\ x = Readdressed(p, Elsewhere.canon, Elsewhere.host)
               /\ net' = (net \ {p}) \cup {x}
  BY DEF Redirect, Readdressed
<1>5. PICK k, b : k = p.msg.sig.key /\ b = p.msg.body
                  /\ p.msg = Delivery(search.ref, k, p.msg.target, p.msg.host, b, p.sent)
  BY <1>2, OnItsWay
<1>6. PICK u : u = search.ref
  OBVIOUS
<1>7. x = [try |-> p.try, sent |-> p.sent, msg |-> Delivery(u, k, Elsewhere.canon, Elsewhere.host, b, p.sent)]
  BY <1>2, <1>4, <1>5, <1>6, Altered
<1>8. x.try = p.try /\ x.sent = p.sent /\ x.msg = Delivery(u, k, Elsewhere.canon, Elsewhere.host, b, p.sent)
  BY <1>7
<1>9. /\ x.msg.sig = [key |-> k, names |-> HeaderOrder, text |-> Text(u, p.sent)]
      /\ x.msg.target = Elsewhere.canon /\ x.msg.host = Elsewhere.host /\ x.msg.body = b
  BY <1>8 DEF Delivery
<1>10. x.msg.sig.key = k
  BY <1>9
<1>11. Carries(x)'
  BY <1>1, <1>2, <1>3, <1>5, <1>6, <1>8, <1>9, <1>10, OnItsWay DEF Carries, ByFile
<1>12. x = [try |-> x.try, sent |-> x.sent, msg |-> x.msg]
  BY <1>7, <1>8
<1>13. job = [at |-> job.at, tries |-> job.tries] /\ job.at \in {"ready", "waiting", "done", "refused"}
       /\ now \in Nat /\ key \in 1 .. 2
  BY <1>2 DEF Sent
<1>14. Sent'
  BY <1>1, <1>2, <1>3, <1>4, <1>11, <1>12, <1>13, StillSent
<1>15. /\ AcceptedAsSigned /\ RefusedForCause
       /\ \A r \in refused : r.why \in Whys
  BY DEF Delivering
<1>16. AcceptedAsSigned' /\ RefusedForCause' /\ \A r \in refused' : r.why \in Whys
  BY <1>1, <1>3, <1>15, StillJudged
<1>17. QED
  BY <1>14, <1>16 DEF Delivering

LEMMA GarbleDelivering ==
  ASSUME Delivering, NEW p \in net, Garble(p)
  PROVE  Delivering'
<1>1. UNCHANGED <<policy, search, fetched, dialled, plan, now, key, job, found, accepted, refused>>
  BY DEF Garble, Others, fetchVars
<1>2. Sent /\ search.at = "found" /\ Carries(p) /\ p = [try |-> p.try, sent |-> p.sent, msg |-> p.msg]
  BY DEF Delivering, Sent
<1>3. wrong' = wrong \cup {[try |-> p.try, what |-> "garble"]}
  BY DEF Garble
<1>4. PICK x : /\ x = Garbled(p, "garbled")
               /\ net' = (net \ {p}) \cup {x}
  BY DEF Garble, Garbled
<1>5. PICK k, t, h : k = p.msg.sig.key /\ t = p.msg.target /\ h = p.msg.host
                  /\ p.msg = Delivery(search.ref, k, t, h, p.msg.body, p.sent)
  BY <1>2, OnItsWay
<1>6. PICK u : u = search.ref
  OBVIOUS
<1>7. x = [try |-> p.try, sent |-> p.sent, msg |-> Delivery(u, k, t, h, "garbled", p.sent)]
  BY <1>2, <1>4, <1>5, <1>6, Altered
<1>8. x.try = p.try /\ x.sent = p.sent /\ x.msg = Delivery(u, k, t, h, "garbled", p.sent)
  BY <1>7
<1>9. /\ x.msg.sig = [key |-> k, names |-> HeaderOrder, text |-> Text(u, p.sent)]
      /\ x.msg.target = t /\ x.msg.host = h /\ x.msg.body = "garbled"
  BY <1>8 DEF Delivery
<1>10. x.msg.sig.key = k
  BY <1>9
<1>11. Carries(x)'
  BY <1>1, <1>2, <1>3, <1>5, <1>6, <1>8, <1>9, <1>10, OnItsWay DEF Carries, ByFile
<1>12. x = [try |-> x.try, sent |-> x.sent, msg |-> x.msg]
  BY <1>7, <1>8
<1>13. job = [at |-> job.at, tries |-> job.tries] /\ job.at \in {"ready", "waiting", "done", "refused"}
       /\ now \in Nat /\ key \in 1 .. 2
  BY <1>2 DEF Sent
<1>14. Sent'
  BY <1>1, <1>2, <1>3, <1>4, <1>11, <1>12, <1>13, StillSent
<1>15. /\ AcceptedAsSigned /\ RefusedForCause
       /\ \A r \in refused : r.why \in Whys
  BY DEF Delivering
<1>16. AcceptedAsSigned' /\ RefusedForCause' /\ \A r \in refused' : r.why \in Whys
  BY <1>1, <1>3, <1>15, StillJudged
<1>17. QED
  BY <1>14, <1>16 DEF Delivering

\* A 401 for a cause.
LEMMA RefuseForCause ==
  ASSUME Delivering, UNCHANGED <<plan, key, wrong, accepted, search>>, NEW p, NEW why, Refuse(p, why),
         \/ why = "no key"
         \/ why = "other actor" /\ plan.actor # Signer
         \/ why = "other key" /\ (key > 1 \/ ByFile(p.try))
         \/ why = "changed" /\ \E w \in wrong : w.try = p.try /\ w.what \in {"redirect", "garble"}
         \/ why = "late" /\ now + plan.offset - p.sent \notin -MaxSkew .. MaxSkew
  PROVE  /\ AcceptedAsSigned' /\ RefusedForCause'
         /\ \A r \in refused' : r.why \in Whys
         /\ job' = [at |-> job'.at, tries |-> job.tries] /\ job'.at \in {"ready", "waiting", "done", "refused"}
<1>1. PICK x : x = [try |-> p.try, why |-> why, sent |-> p.sent, at |-> now] /\ refused' = refused \cup {x}
  BY DEF Refuse
<1>2. x.try = p.try /\ x.why = why /\ x.sent = p.sent /\ x.at = now
  BY <1>1
<1>3. /\ Sent /\ AcceptedAsSigned /\ RefusedForCause
      /\ \A r \in refused : r.why \in Whys
  BY DEF Delivering
<1>4. /\ job' = [at |-> job'.at, tries |-> job.tries] /\ job'.at \in {job.at, "refused"}
      /\ job' = job \/ job'.at = "refused"
  BY <1>3, AnsweredJob DEF Refuse
<1>5. \A r \in refused' : r.why \in Whys
  BY <1>1, <1>2, <1>3 DEF Whys
<1>6. RefusedForCause'
  <2>1. ASSUME NEW r \in refused'
        PROVE  CASE r.why = "no key"      -> TRUE
                 [] r.why = "other actor" -> plan.actor # Signer
                 [] r.why = "other key"   -> key > 1 \/ [try |-> r.try, what |-> "key file"] \in wrong
                 [] r.why = "changed"     -> \E w \in wrong : w.try = r.try /\ w.what \in {"redirect", "garble"}
                 [] OTHER                 -> r.at + plan.offset - r.sent \notin -MaxSkew .. MaxSkew
    <3>1. CASE r \in refused
      BY <1>3, <3>1 DEF RefusedForCause
    <3>2. CASE r = x /\ (why = "no key" \/ (why = "other actor" /\ plan.actor # Signer))
      BY <1>2, <3>2
    <3>3. CASE r = x /\ why = "other key" /\ (key > 1 \/ ByFile(p.try))
      BY <1>2, <3>3 DEF ByFile
    <3>4. CASE r = x /\ why = "changed" /\ \E w \in wrong : w.try = p.try /\ w.what \in {"redirect", "garble"}
      BY <1>2, <3>4
    <3>5. CASE r = x /\ why = "late" /\ now + plan.offset - p.sent \notin -MaxSkew .. MaxSkew
      BY <1>2, <3>5
    <3>6. QED
      BY <1>1, <2>1, <3>1, <3>2, <3>3, <3>4, <3>5
  <2>2. QED
    BY <2>1 DEF RefusedForCause
<1>7. AcceptedAsSigned'
  BY <1>3, <1>4 DEF AcceptedAsSigned
<1>8. QED
  BY <1>3, <1>4, <1>5, <1>6, <1>7 DEF Sent

\* The key of now is found, or none.
LEMMA LookUpDelivering ==
  ASSUME Delivering, NEW p \in net, LookUpKey(p)
  PROVE  Delivering'
<1>1. UNCHANGED <<policy, search, fetched, dialled, plan, now, key, accepted>> /\ net' = net \ {p}
  BY DEF LookUpKey, Others, fetchVars
<1>2. Sent /\ search.at = "found" /\ Carries(p)
  BY DEF Delivering, Sent
<1>3. job = [at |-> job.at, tries |-> job.tries] /\ job.at \in {"ready", "waiting", "done", "refused"}
       /\ now \in Nat /\ key \in 1 .. 2
  BY <1>2 DEF Sent
<1>4. /\ AcceptedAsSigned /\ RefusedForCause
      /\ \A r \in refused : r.why \in Whys
  BY DEF Delivering
<1>5. ASSUME NEW k \in KeysRead, Met(p.try, k), UNCHANGED <<job, refused>>,
             found' = found \cup {[req |-> p, pub |-> PublicKeyForKeyID(ActorDocument(k), KeyId)]}
      PROVE  Delivering'
  <2>1. k \in 0 .. 2 /\ wrong \subseteq wrong' /\ (k = key \/ ByFile(p.try)')
    <3>1. wrong \subseteq wrong' /\ (k = FileKey => ByFile(p.try)')
      BY <1>5, MetIsKept
    <3>2. k = key \/ k = FileKey
      BY DEF KeysRead
    <3>3. k \in 0 .. 2
      BY <1>3, <3>2 DEF FileKey
    <3>4. QED
      BY <3>1, <3>2, <3>3
  <2>2. PICK f : f = [req |-> p, pub |-> k] /\ found' = found \cup {f}
    BY <1>5, <2>1, KeyFound
  <2>3. f.req = p /\ f.pub = k
    BY <2>2
  <2>4. Carries(p)'
    BY <1>1, <1>2, <1>3, <1>5, <2>1, StillCarries DEF Sent
  <2>5. Fitting(f)'
    <3>1. p.msg.sig.key \in 1 .. key \/ ByFile(p.try)'
      BY <1>2, <2>1 DEF Carries, ByFile
    <3>2. QED
      BY <1>1, <1>3, <2>1, <2>3, <3>1 DEF Fitting
  <2>6. (\A q \in net' : q \in net) /\ key' >= key
    BY <1>1, <1>3
  <2>7. Sent'
    BY <1>1, <1>2, <1>3, <1>5, <2>1, <2>2, <2>3, <2>4, <2>5, <2>6, StillSent
  <2>8. AcceptedAsSigned' /\ RefusedForCause' /\ \A r \in refused' : r.why \in Whys
    BY <1>1, <1>4, <1>5, <2>1, StillJudged
  <2>9. QED
    BY <2>7, <2>8 DEF Delivering
<1>6. CASE Refuse(p, "no key") /\ UNCHANGED <<found, wrong>>
  <2>1. /\ AcceptedAsSigned' /\ RefusedForCause'
        /\ \A r \in refused' : r.why \in Whys
        /\ job' = [at |-> job'.at, tries |-> job.tries] /\ job'.at \in {"ready", "waiting", "done", "refused"}
    BY <1>1, <1>6, RefuseForCause
  <2>2. key' \in 1 .. 2 /\ now' \in Nat /\ wrong \subseteq wrong' /\ key' = key
    BY <1>1, <1>3, <1>6
  <2>6. key' >= key
    BY <1>3, <2>2
  <2>3. (\A q \in net' : q \in net) /\ (\A f \in found' : f \in found)
    BY <1>1, <1>6
  <2>4. Sent'
    BY <1>1, <1>2, <2>1, <2>2, <2>3, <2>6, StillSent
  <2>5. QED
    BY <2>1, <2>4 DEF Delivering
<1>7. QED
  BY <1>5, <1>6 DEF LookUpKey

\* A 303 is written down for the attempt, which is then done.
LEMMA GetDelivering ==
  ASSUME Delivering, NEW p \in net, RedirectToGet(p)
  PROVE  Delivering'
<1>1. /\ UNCHANGED <<policy, search, fetched, dialled, plan, now, key, found, accepted, refused>> /\ net' = net \ {p}
      /\ wrong' = wrong \cup {[try |-> p.try, what |-> "see other"]}
  BY DEF RedirectToGet, Others, fetchVars
<1>2. Sent /\ search.at = "found" /\ AcceptedAsSigned /\ RefusedForCause
      /\ \A r \in refused : r.why \in Whys
  BY DEF Delivering, Sent
<1>3. /\ job' = [at |-> job'.at, tries |-> job.tries] /\ job'.tries = job.tries /\ job'.at \in {job.at, "done"}
      /\ job' = job \/ (job'.at = "done" /\ p.try = job.tries)
  BY <1>2, AnsweredJob DEF RedirectToGet
<1>4. now \in Nat /\ key \in 1 .. 2 /\ job'.at \in {"ready", "waiting", "done", "refused"}
  BY <1>2, <1>3 DEF Sent
<1>5. Sent'
  <2>1. key' \in 1 .. 2 /\ now' \in Nat /\ wrong \subseteq wrong'
    BY <1>1, <1>4
  <2>2. key' = key
    BY <1>1
  <2>3. key' >= key
    <3>1. key \in 1 .. 2
      BY <1>4
    <3>2. QED
      BY <2>2, <3>1
  <2>4. (\A q \in net' : q \in net) /\ (\A f \in found' : f \in found)
    BY <1>1
  <2>5. QED
    BY <1>1, <1>2, <1>3, <1>4, <2>1, <2>3, <2>4, StillSent
<1>6. AcceptedAsSigned'
  BY <1>1, <1>2, <1>3 DEF AcceptedAsSigned
<1>7. RefusedForCause'
  <2>1. ASSUME NEW r \in refused
        PROVE  CASE r.why = "no key"      -> TRUE
                 [] r.why = "other actor" -> plan.actor # Signer
                 [] r.why = "other key"   -> key > 1 \/ [try |-> r.try, what |-> "key file"] \in wrong'
                 [] r.why = "changed"     -> \E w \in wrong' : w.try = r.try /\ w.what \in {"redirect", "garble"}
                 [] OTHER                 -> r.at + plan.offset - r.sent \notin -MaxSkew .. MaxSkew
    BY <1>1, <1>2 DEF RefusedForCause
  <2>2. QED
    BY <1>1, <2>1 DEF RefusedForCause
<1>8. QED
  BY <1>1, <1>2, <1>5, <1>6, <1>7 DEF Delivering

\* The signature says what was sent, so that what was changed is found out; an unaltered
\* request fails for its key or its date.
LEMMA VerifyDelivering ==
  ASSUME Seeking, Delivering, NEW f \in found, Verify(f)
  PROVE  Delivering'
<1>1. UNCHANGED <<policy, search, fetched, dialled, plan, now, key, net, wrong>> /\ found' = found \ {f}
  BY DEF Verify, Others, fetchVars
<1>2. /\ Sent /\ search.at = "found" /\ Carries(f.req) /\ Fitting(f)
      /\ AcceptedAsSigned /\ RefusedForCause
      /\ \A r \in refused : r.why \in Whys
  BY DEF Delivering, Sent
<1>3. search.ref.canon # Nothing /\ search.ref.host # Nothing
  BY <1>2 DEF Seeking, PreDialCheck
<1>4. PICK p, m, t, o : p = f.req /\ m = p.msg /\ t = now + plan.offset /\ o = plan.offset
  OBVIOUS
<1>5. /\ p.try \in 1 .. job.tries /\ p.sent \in Nat /\ key \in 1 .. 2
      /\ m.sig.key \in 1 .. key \/ (m.sig.key = FileKey /\ ByFile(p.try))
      /\ m = Delivery(search.ref, m.sig.key, m.target, m.host, m.body, p.sent)
      /\ m.body = "activity" \/ [try |-> p.try, what |-> "garble"] \in wrong
      /\ (m.target = search.ref.canon /\ m.host = search.ref.host) \/ [try |-> p.try, what |-> "redirect"] \in wrong
  BY <1>2, <1>4, OnItsWay
<1>6. o \in Int /\ t \in Int /\ now \in Nat
  <2>1. plan \in Plans /\ now \in Nat
    BY <1>2 DEF Sent
  <2>2. plan.offset \in Int
    BY <2>1, WireAssumption
  <2>3. o \in Int
    BY <1>4, <2>2
  <2>4. t = now + o
    BY <1>4
  <2>5. QED
    BY <2>1, <2>3, <2>4
<1>7. /\ verifyDateHeader(m, t) <=> t - p.sent \in -MaxSkew .. MaxSkew
      /\ VerifyRequest(m, f.pub, t) => m.body = "activity" /\ m.target = search.ref.canon /\ verifyDateHeader(m, t)
      /\ verifyDateHeader(m, t) /\ f.pub = m.sig.key /\ m.body = "activity" /\ m.target = search.ref.canon
           /\ m.host = search.ref.host => VerifyRequest(m, f.pub, t)
  <2>1. PICK u, n : u = search.ref /\ n = p.sent
    OBVIOUS
  <2>2. m = Delivery(u, m.sig.key, m.target, m.host, m.body, n) /\ n \in Nat /\ u.canon # Nothing /\ u.host # Nothing
    BY <1>3, <1>5, <2>1
  <2>3. /\ verifyDateHeader(m, t) <=> t - n \in -MaxSkew .. MaxSkew
        /\ VerifyRequest(m, f.pub, t) => (m.body = "activity" /\ m.target = u.canon /\ verifyDateHeader(m, t))
        /\ (verifyDateHeader(m, t) /\ f.pub = m.sig.key /\ m.body = "activity" /\ m.target = u.canon
              /\ m.host = u.host) => VerifyRequest(m, f.pub, t)
    BY <1>6, <2>2, VerifiedDelivery
  <2>4. QED
    BY <2>1, <2>3
<1>8. (\A q \in net' : q \in net) /\ (\A g \in found' : g \in found) /\ now' \in Nat /\ key' \in 1 .. 2
  BY <1>1, <1>5, <1>6
<1>9. key' >= key
  <2>1. key' = key
    BY <1>1
  <2>2. key \in 1 .. 2
    BY <1>5
  <2>3. QED
    BY <2>1, <2>2
<1>10. CASE VerifyRequest(m, f.pub, t) /\ signingActorMatchesKeyID
  <2>1. /\ accepted' = accepted \cup {[req |-> p, at |-> now]} /\ Answered(p, "done") /\ refused' = refused
    BY <1>4, <1>10 DEF Verify
  <2>2. PICK x : x = [req |-> p, at |-> now] /\ accepted' = accepted \cup {x}
    BY <2>1
  <2>3. x.req = p /\ x.at = now
    BY <2>2
  <2>4. /\ job' = [at |-> job'.at, tries |-> job.tries] /\ job'.tries = job.tries /\ job'.at \in {job.at, "done"}
        /\ job' = job \/ (job'.at = "done" /\ p.try = job.tries)
    BY <1>2, <2>1, AnsweredJob
  <2>5. job'.at \in {"ready", "waiting", "done", "refused"}
    BY <1>2, <2>4 DEF Sent
  <2>6. Sent'
    BY <1>1, <1>2, <1>8, <1>9, <2>4, <2>5, StillSent
  <2>7. \A a \in accepted' : /\ a.req.msg.body = "activity" /\ a.req.msg.target = search.ref.canon
                             /\ a.at + plan.offset - a.req.sent \in -MaxSkew .. MaxSkew
    <3>1. x.req.msg.body = "activity" /\ x.req.msg.target = search.ref.canon
      BY <1>4, <1>7, <1>10, <2>3
    <3>2. t - p.sent \in -MaxSkew .. MaxSkew
      BY <1>7, <1>10
    <3>3. x.at + plan.offset - x.req.sent \in -MaxSkew .. MaxSkew
      BY <1>4, <1>5, <1>6, <2>3, <3>2, SignatureAssumption
    <3>4. QED
      BY <1>2, <2>2, <3>1, <3>3 DEF AcceptedAsSigned
  <2>8. job'.at = "done" => \/ \E a \in accepted' : a.req.try = job'.tries
                            \/ [try |-> job'.tries, what |-> "see other"] \in wrong
    BY <1>2, <2>2, <2>3, <2>4 DEF AcceptedAsSigned
  <2>9. AcceptedAsSigned'
    BY <1>1, <1>10, <2>7, <2>8 DEF AcceptedAsSigned, signingActorMatchesKeyID
  <2>10. RefusedForCause'
    BY <1>1, <1>2, <2>1 DEF RefusedForCause
  <2>11. QED
    BY <1>2, <2>1, <2>6, <2>9, <2>10 DEF Delivering
<1>11. CASE ~ (VerifyRequest(m, f.pub, t) /\ signingActorMatchesKeyID)
  <2>1. PICK why : /\ why = IF VerifyRequest(m, f.pub, t) THEN "other actor" ELSE IF f.pub # m.sig.key THEN "other key"
                            ELSE IF verifyDateHeader(m, t) THEN "changed" ELSE "late"
                   /\ Refuse(p, why) /\ accepted' = accepted
    BY <1>4, <1>11 DEF Verify
  <2>2. \/ why = "no key"
        \/ why = "other actor" /\ plan.actor # Signer
        \/ why = "other key" /\ (key > 1 \/ ByFile(p.try))
        \/ why = "changed" /\ \E w \in wrong : w.try = p.try /\ w.what \in {"redirect", "garble"}
        \/ why = "late" /\ now + plan.offset - p.sent \notin -MaxSkew .. MaxSkew
    <3>5. CASE VerifyRequest(m, f.pub, t)
      BY <1>11, <2>1, <3>5 DEF signingActorMatchesKeyID
    <3>1. CASE ~VerifyRequest(m, f.pub, t) /\ f.pub # m.sig.key
      <4>1. f.pub \in m.sig.key .. key \/ ByFile(p.try)
        BY <1>2, <1>4 DEF Fitting
      <4>2. key > 1 \/ ByFile(p.try)
        BY <1>5, <3>1, <4>1
      <4>3. QED
        BY <2>1, <3>1, <4>2
    <3>2. CASE ~VerifyRequest(m, f.pub, t) /\ f.pub = m.sig.key /\ verifyDateHeader(m, t)
      <4>1. \/ [try |-> p.try, what |-> "garble"] \in wrong
            \/ [try |-> p.try, what |-> "redirect"] \in wrong
        BY <1>5, <1>7, <3>2
      <4>2. \E w \in wrong : w.try = p.try /\ w.what \in {"redirect", "garble"}
        BY <4>1
      <4>3. QED
        BY <2>1, <3>2, <4>2
    <3>3. CASE ~VerifyRequest(m, f.pub, t) /\ f.pub = m.sig.key /\ ~ verifyDateHeader(m, t)
      <4>1. now + plan.offset - p.sent \notin -MaxSkew .. MaxSkew
        BY <1>4, <1>5, <1>6, <1>7, <3>3, SignatureAssumption
      <4>2. QED
        BY <2>1, <3>3, <4>1
    <3>4. QED
      BY <3>1, <3>2, <3>3, <3>5
  <2>3. /\ AcceptedAsSigned' /\ RefusedForCause'
        /\ \A r \in refused' : r.why \in Whys
        /\ job' = [at |-> job'.at, tries |-> job.tries] /\ job'.at \in {"ready", "waiting", "done", "refused"}
    BY <1>1, <2>1, <2>2, RefuseForCause
  <2>4. Sent'
    BY <1>1, <1>2, <1>8, <1>9, <2>1, <2>3, StillSent
  <2>5. QED
    BY <2>3, <2>4 DEF Delivering
<1>12. QED
  BY <1>10, <1>11

\* The clock, the key and the worker go on without touching what is on its way.
LEMMA OnwardDelivering ==
  ASSUME Delivering, UNCHANGED <<search, plan, net, found, accepted, refused, wrong>>, now' \in Nat,
         key' \in 1 .. 2, key' >= key, key > 1 => key' > 1,
         job' = job \/ (job' = [at |-> job'.at, tries |-> job.tries] /\ job'.at = "ready")
  PROVE  Delivering'
<1>1. /\ Sent /\ AcceptedAsSigned /\ RefusedForCause
      /\ \A r \in refused : r.why \in Whys
  BY DEF Delivering
<1>2. job' = [at |-> job'.at, tries |-> job.tries] /\ job'.at \in {"ready", "waiting", "done", "refused"}
  BY <1>1 DEF Sent
<1>3. (net' # {} \/ found' # {} \/ accepted' # {}) => search.at = "found"
  BY <1>1 DEF Sent
<1>4. Sent'
  BY <1>1, <1>2, <1>3, StillSent
<1>5. AcceptedAsSigned' /\ RefusedForCause' /\ \A r \in refused' : r.why \in Whys
  BY <1>1, StillJudged
<1>6. QED
  BY <1>4, <1>5 DEF Delivering

\* Nothing is on its way while the inbox is still searched for.
LEMMA SearchDelivering ==
  ASSUME Delivering, FetchNext, UNCHANGED wireVars
  PROVE  Delivering'
<1>1. UNCHANGED <<plan, now, key, job, net, found, accepted, refused, wrong>>
  BY DEF wireVars
<1>2. search.at # "found"
  BY DEF FetchNext, inboxURLFromReference, fetchActorInbox
<1>3. Sent /\ net = {} /\ found = {} /\ accepted = {}
  BY <1>2 DEF Delivering, Sent
<1>4. Sent'
  BY <1>1, <1>3 DEF Sent
<1>5. AcceptedAsSigned'
  BY <1>1, <1>3 DEF Delivering, AcceptedAsSigned
<1>6. RefusedForCause' /\ \A r \in refused' : r.why \in Whys
  BY <1>1 DEF Delivering, RefusedForCause
<1>7. QED
  BY <1>4, <1>5, <1>6 DEF Delivering

LEMMA NextDelivering ==
  ASSUME Seeking, Delivering, [Next]_vars
  PROVE  Delivering'
<1>1. now \in Nat /\ key \in 1 .. 2 /\ job = [at |-> job.at, tries |-> job.tries]
  BY DEF Delivering, Sent
<1>2. ASSUME UNCHANGED <<fetchVars, wireVars>>
      PROVE  Delivering'
  <2>1. UNCHANGED <<search, plan, now, key, job, net, found, accepted, refused, wrong>>
    BY <1>2 DEF fetchVars, wireVars
  <2>2. key' >= key /\ (key > 1 => key' > 1)
    BY <1>1, <2>1
  <2>3. QED
    BY <1>1, <2>1, <2>2, OnwardDelivering
<1>3. CASE FetchNext /\ UNCHANGED <<wireVars, pagingVars>>
  BY <1>3, SearchDelivering
<1>4. CASE Tick
  <2>1. UNCHANGED <<search, plan, key, job, net, found, accepted, refused, wrong>> /\ now' = now + 1
    BY <1>4 DEF Tick, Others, fetchVars
  <2>2. key' >= key /\ (key > 1 => key' > 1) /\ now' \in Nat
    BY <1>1, <2>1
  <2>3. QED
    BY <1>1, <2>1, <2>2, OnwardDelivering
<1>5. CASE Rotate
  <2>1. UNCHANGED <<search, plan, now, job, net, found, accepted, refused, wrong>> /\ key' = key + 1 /\ key < 2
    BY <1>5 DEF Rotate, Others, fetchVars
  <2>2. key' \in 1 .. 2 /\ key' >= key /\ (key > 1 => key' > 1)
    BY <1>1, <2>1
  <2>3. QED
    BY <1>1, <2>1, <2>2, OnwardDelivering
<1>6. CASE GiveUpWaiting
  <2>1. UNCHANGED <<search, plan, now, key, net, found, accepted, refused, wrong>> /\ job' = [job EXCEPT !.at = "ready"]
    BY <1>6 DEF GiveUpWaiting, Others, fetchVars
  <2>2. job' = [at |-> "ready", tries |-> job.tries]
    BY <1>1, <2>1
  <2>3. job'.at = "ready"
    BY <2>2
  <2>4. key' >= key /\ (key > 1 => key' > 1)
    BY <1>1, <2>1
  <2>5. QED
    BY <1>1, <2>1, <2>2, <2>3, <2>4, OnwardDelivering
<1>7. CASE DeliverActivity
  BY <1>7, DeliverDelivering
<1>8. ASSUME NEW p \in net, Redirect(p) \/ Garble(p) \/ RedirectToGet(p) \/ LookUpKey(p)
      PROVE  Delivering'
  BY <1>8, RedirectDelivering, GarbleDelivering, GetDelivering, LookUpDelivering
<1>9. ASSUME NEW f \in found, Verify(f)
      PROVE  Delivering'
  BY <1>9, VerifyDelivering
<1>10. CASE Unauthorized \/ Read
  BY <1>2, <1>10 DEF Unauthorized, Read
<1>11. CASE UNCHANGED <<wireVars, fetchVars>>
  BY <1>2, <1>11
<1>12. CASE UNCHANGED vars
  BY <1>2, <1>12 DEF vars
<1>13. QED
  BY <1>3, <1>4, <1>5, <1>6, <1>7, <1>8, <1>9, <1>10, <1>11, <1>12 DEF Next

\* The search and the delivery together: a delivery goes to the inbox that was found.
LEMMA DeliveryInvariance == Spec => [](Seeking /\ Delivering)
<1>1. Init => Seeking /\ Delivering
  BY InitSeeking, InitDelivering
<1>2. Seeking /\ Delivering /\ [Next]_vars => (Seeking /\ Delivering)'
  BY NextSeeking, NextDelivering
<1>3. QED
  BY <1>1, <1>2, PTL DEF Spec

\* SharedInbox takes what VerifyRequest finds good: that is what DeliverActivity signed, for
\* the inbox it came to, at a time within maxClockSkew; and the worker takes for done only an
\* attempt that was taken so, or that a 301, 302 or 303 led away.
THEOREM TakenAsSigned == Spec => []AcceptedAsSigned
<1>1. Delivering => AcceptedAsSigned
  BY DEF Delivering
<1>2. QED
  BY <1>1, DeliveryInvariance, PTL

\* SharedInbox answers 401, which ends a delivery, when the key is not found or is another
\* one by then (replaced, or the key file's on either side), when the activity is of another
\* actor, when something on the way changed the request, or when the clocks say so.
THEOREM RefusedWithCause == Spec => []RefusedForCause
<1>1. Delivering => RefusedForCause
  BY DEF Delivering
<1>2. QED
  BY <1>1, DeliveryInvariance, PTL
=================================================================================
