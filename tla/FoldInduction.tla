--------------------------- MODULE FoldInduction ---------------------------
(* Induction over folds and recursive functions.  A library theorem about  *)
(* a fold would quantify over the operator that is folded; this module has *)
(* it as a CONSTANT, so that an INSTANCE WITH states the lemma of one      *)
(* fold.  A folded operator takes a context x, y: the values it mentions   *)
(* besides what it has and the element.  An invariant takes a value z that *)
(* it compares with what the fold has.                                     *)
(*                                                                         *)
(* Every INSTANCE repeats what this module extends, so it extends little:  *)
(* that the naturals are well-ordered is a hypothesis of its lemmas,       *)
(* which the module of the INSTANCE proves once.                           *)
EXTENDS Integers, Folds, TLAPS

CONSTANTS
  Op(_, _, _, _), \* what a fold does: its context, what it has, element
  Inv(_, _, _)    \* what holds: of what, elements done, what it has

\* Induction from 0 to n.
LEMMA Induction ==
  ASSUME \A S \in SUBSET Nat : S # {} => \E m \in S : \A k \in S : m <= k,
         NEW z, NEW a, NEW n \in Nat, Inv(z, 0, a),
         \A k \in 0..(n - 1) : Inv(z, k, a) => Inv(z, k + 1, a)
  PROVE  \A k \in 0..n : Inv(z, k, a)
<1> DEFINE Bad == {k \in Nat : k \in 0..n /\ ~Inv(z, k, a)}
<1> SUFFICES ASSUME Bad # {} PROVE FALSE
  OBVIOUS
<1>1. PICK m \in Bad : \A k \in Bad : m <= k
  OBVIOUS
<1>2. m # 0 /\ m \in 0..n /\ m - 1 \in 0..(n - 1) /\ ~(m <= m - 1) /\ m = (m - 1) + 1
  BY <1>1
<1>3. m - 1 \notin Bad
  <2> HIDE DEF Bad
  <2> QED
    BY <1>1, <1>2
<1> QED
  BY <1>1, <1>2, <1>3
-----------------------------------------------------------------------------
(* Folds.  The library defines FoldLeft by taking the largest index away   *)
(* from the domain: a function on the subsets of the domain, which exists. *)
Largest(t) == CHOOSE m \in t : \A k \in t : m >= k
Fold(x, y, b, s) ==
  MapThenFoldSet(LAMBDA e, a : Op(x, y, a, e), b, LAMBDA k : s[k], LAMBDA t : Largest(t), DOMAIN s)

Without(t) == t \ {Largest(t)}
IsIteration(x, y, b, s, g) ==
  g = [t \in SUBSET DOMAIN s |-> IF t = {} THEN b ELSE Op(x, y, g[Without(t)], s[Largest(t)])]

\* The largest of a set of naturals up to k that has k.
LEMMA LargestIsLast ==
  ASSUME NEW k \in Nat \ {0}, NEW t \in SUBSET (1..k), k \in t
  PROVE  Largest(t) = k /\ Without(t) \in SUBSET (1..(k - 1)) /\ t # {}
<1>1. \A m \in t : k >= m
  OBVIOUS
<1>2. Largest(t) \in t /\ \A m \in t : Largest(t) >= m
  BY <1>1 DEF Largest
<1>3. Largest(t) = k
  <2>1. PICK m : m = Largest(t)
    OBVIOUS
  <2>2. m \in t /\ m >= k
    BY <1>2, <2>1
  <2>3. m \in 1..k
    BY <2>2
  <2> QED
    BY <2>1, <2>2, <2>3
<1>4. Without(t) = t \ {k}
  BY <1>3 DEF Without
<1> QED
  BY <1>3, <1>4

\* There is such a function.
LEMMA IterationExists ==
  ASSUME \A S \in SUBSET Nat : S # {} => \E m \in S : \A k \in S : m <= k,
         NEW x, NEW y, NEW b, NEW s, NEW n \in Nat, DOMAIN s = 1..n
  PROVE  \E g : IsIteration(x, y, b, s, g)
<1> DEFINE Next(g, t) == IF t = {} THEN b ELSE Op(x, y, g[Without(t)], s[Largest(t)])
           To(k) == \E g : \A t \in SUBSET (1..k) : g[t] = Next(g, t)
           Bad == {k \in Nat : k \in 0..n /\ ~To(k)}
<1>1. Bad = {}
  <2> SUFFICES ASSUME Bad # {} PROVE FALSE
    OBVIOUS
  <2>1. PICK k \in Bad : \A m \in Bad : k <= m
    OBVIOUS
  <2> HIDE DEF To
  <2>2. k \in 0..n /\ ~To(k)
    OBVIOUS
  <2>3. To(0)
    <3> DEFINE g == [t \in SUBSET (1..0) |-> b]
    <3>1. ASSUME NEW t \in SUBSET (1..0) PROVE g[t] = Next(g, t)
      <4>1. t = {}
        OBVIOUS
      <4> QED
        BY <4>1
    <3> HIDE DEF g, Next
    <3> QED
      BY <3>1 DEF To
  <2>4. k # 0 /\ k - 1 \in 0..n /\ ~(k <= k - 1) /\ k \in Nat \ {0} /\ k - 1 \in Nat
    BY <2>2, <2>3
  <2>5. To(k - 1)
    <3> HIDE DEF Bad
    <3>1. k - 1 \notin Bad
      BY <2>1, <2>4
    <3> QED
      BY <2>4, <3>1 DEF Bad
  <2>6. PICK g : \A t \in SUBSET (1..(k - 1)) : g[t] = Next(g, t)
    BY <2>5 DEF To
  <2> DEFINE h == [t \in SUBSET (1..k) |-> IF k \in t THEN Next(g, t) ELSE g[t]]
  <2>7. ASSUME NEW t \in SUBSET (1..k) PROVE h[t] = Next(h, t)
    <3>1. CASE k \in t
      <4>1. Without(t) \in SUBSET (1..(k - 1)) /\ t # {}
        BY <2>4, <3>1, LargestIsLast
      <4>2. Without(t) \in SUBSET (1..k) /\ k \notin Without(t)
        BY <2>4, <4>1
      <4>3. h[Without(t)] = g[Without(t)]
        BY <4>2
      <4>4. h[t] = Next(g, t)
        BY <3>1
      <4> HIDE DEF h
      <4> QED
        BY <4>3, <4>4
    <3>2. CASE k \notin t
      <4>1. t \in SUBSET (1..(k - 1))
        BY <2>4, <3>2
      <4>2. h[t] = g[t] /\ g[t] = Next(g, t)
        BY <2>6, <3>2, <4>1
      <4>3. CASE t = {}
        BY <4>2, <4>3
      <4>4. CASE t # {}
        <5>1. Without(t) \in SUBSET (1..(k - 1))
          BY <4>1 DEF Without
        <5>2. Without(t) \in SUBSET (1..k) /\ k \notin Without(t)
          BY <2>4, <5>1
        <5>3. h[Without(t)] = g[Without(t)]
          BY <5>2
        <5> HIDE DEF h
        <5> QED
          BY <4>2, <5>3
      <4> QED
        BY <4>3, <4>4
    <3> QED
      BY <3>1, <3>2
  <2> HIDE DEF h, Next
  <2>8. To(k)
    BY <2>7 DEF To
  <2> QED
    BY <2>2, <2>8
<1>2. To(n)
  <2> HIDE DEF To
  <2> QED
    BY <1>1
<1>3. PICK g : \A t \in SUBSET (1..n) : g[t] = Next(g, t)
  BY <1>2
<1> DEFINE h == [t \in SUBSET (1..n) |-> g[t]]
<1>4. ASSUME NEW t \in SUBSET (1..n) PROVE h[t] = Next(h, t)
  <2>1. CASE t = {}
    BY <1>3, <2>1
  <2>2. CASE t # {}
    <3>1. Without(t) \in SUBSET (1..n)
      BY DEF Without
    <3>2. h[Without(t)] = g[Without(t)] /\ h[t] = g[t]
      BY <3>1
    <3>3. g[t] = Next(g, t)
      BY <1>3
    <3> HIDE DEF h
    <3> QED
      BY <2>2, <3>2, <3>3
  <2> QED
    BY <2>1, <2>2
<1>5. h = [t \in SUBSET (1..n) |-> Next(h, t)]
  <2> HIDE DEF Next
  <2> QED
    BY <1>4
<1> QED
  BY <1>5 DEF IsIteration

\* A fold is the value of that function at the whole domain.
LEMMA FoldIsIteration ==
  ASSUME NEW x, NEW y, NEW b, NEW s
  PROVE  Fold(x, y, b, s) = (CHOOSE g : IsIteration(x, y, b, s, g))[DOMAIN s]
BY DEF Fold, MapThenFoldSet, IsIteration, Without

\* What holds before the first element, and is kept by each, holds at the end.
LEMMA FoldInvariant ==
  ASSUME \A S \in SUBSET Nat : S # {} => \E m \in S : \A k \in S : m <= k,
         NEW x, NEW y, NEW z, NEW b, NEW s, NEW n \in Nat, DOMAIN s = 1..n,
         Inv(z, 0, b),
         \A k \in 1..n : \A a : Inv(z, k - 1, a) => Inv(z, k, Op(x, y, a, s[k]))
  PROVE  Inv(z, n, Fold(x, y, b, s))
<1>1. PICK g : g = CHOOSE h : IsIteration(x, y, b, s, h)
  OBVIOUS
<1>2. IsIteration(x, y, b, s, g)
  BY <1>1, IterationExists
<1>3. Fold(x, y, b, s) = g[DOMAIN s]
  BY <1>1, FoldIsIteration
<1>4. g[{}] = b
  BY <1>2 DEF IsIteration
<1>5. ASSUME NEW k \in 1..n PROVE g[1..k] = Op(x, y, g[1..(k - 1)], s[k])
  <2>1. k \in Nat \ {0} /\ (1..k) \in SUBSET (1..k) /\ k \in 1..k
    OBVIOUS
  <2>2. Largest(1..k) = k /\ (1..k) # {}
    BY <2>1, LargestIsLast
  <2>3. Without(1..k) = 1..(k - 1)
    BY <2>1, <2>2 DEF Without
  <2>4. (1..k) \in SUBSET DOMAIN s
    OBVIOUS
  <2>5. g[1..k] = Op(x, y, g[Without(1..k)], s[Largest(1..k)])
    BY <1>2, <2>2, <2>4 DEF IsIteration
  <2> QED
    BY <2>2, <2>3, <2>5
<1> DEFINE Bad == {k \in Nat : k \in 0..n /\ ~Inv(z, k, g[1..k])}
<1>6. Bad = {}
  <2> SUFFICES ASSUME Bad # {} PROVE FALSE
    OBVIOUS
  <2>1. PICK k \in Bad : \A m \in Bad : k <= m
    OBVIOUS
  <2>2. k \in 0..n /\ ~Inv(z, k, g[1..k])
    OBVIOUS
  <2>3. 1..0 = {}
    OBVIOUS
  <2>4. k # 0
    BY <1>4, <2>2, <2>3
  <2>5. k \in 1..n /\ k - 1 \in 0..n /\ ~(k <= k - 1)
    BY <2>2, <2>4
  <2>6. Inv(z, k - 1, g[1..(k - 1)])
    <3> HIDE DEF Bad
    <3>1. k - 1 \notin Bad
      BY <2>1, <2>5
    <3> QED
      BY <2>5, <3>1 DEF Bad
  <2> QED
    BY <1>5, <2>2, <2>5, <2>6
<1>7. Inv(z, n, g[1..n])
  BY <1>6
<1> QED
  BY <1>3, <1>7
-----------------------------------------------------------------------------
(* Recursive functions on 0..n.                                            *)
Recursive(x, y, b, n) == LET f[k \in 0..n] == IF k = 0 THEN b ELSE Op(x, y, f[k - 1], k) IN f

IsRecursive(x, y, b, n, g) == g = [k \in 0..n |-> IF k = 0 THEN b ELSE Op(x, y, g[k - 1], k)]

\* There is such a function.
LEMMA RecursionExists ==
  ASSUME \A S \in SUBSET Nat : S # {} => \E m \in S : \A k \in S : m <= k,
         NEW x, NEW y, NEW b, NEW n \in Nat
  PROVE  \E g : IsRecursive(x, y, b, n, g)
<1> DEFINE Bad == {k \in Nat : k \in 0..n /\ ~\E g : IsRecursive(x, y, b, k, g)}
<1> SUFFICES Bad = {}
  OBVIOUS
<1> SUFFICES ASSUME Bad # {} PROVE FALSE
  OBVIOUS
<1>1. PICK k \in Bad : \A m \in Bad : k <= m
  OBVIOUS
<1>2. k \in 0..n /\ ~\E g : IsRecursive(x, y, b, k, g)
  OBVIOUS
<1>3. k # 0
  <2>1. IsRecursive(x, y, b, 0, [m \in 0..0 |-> b])
    BY DEF IsRecursive
  <2> QED
    BY <1>2, <2>1
<1>4. k - 1 \in 0..n /\ ~(k <= k - 1)
  BY <1>2, <1>3
<1>5. \E g : IsRecursive(x, y, b, k - 1, g)
  <2> HIDE DEF Bad
  <2>1. k - 1 \notin Bad
    BY <1>1, <1>4
  <2> QED
    BY <1>4, <2>1 DEF Bad
<1>6. PICK g : IsRecursive(x, y, b, k - 1, g)
  BY <1>5
<1> DEFINE h == [m \in 0..k |-> IF m = k THEN Op(x, y, g[k - 1], k) ELSE g[m]]
<1>7. ASSUME NEW m \in 0..k PROVE h[m] = IF m = 0 THEN b ELSE Op(x, y, h[m - 1], m)
  <2>1. CASE m = k
    BY <1>2, <1>3, <2>1
  <2>2. CASE m # k
    <3>1. m \in 0..(k - 1) /\ (m # 0 => m - 1 \in 0..(k - 1) /\ m - 1 # k)
      BY <1>2, <2>2
    <3>2. h[m] = g[m] /\ (m # 0 => h[m - 1] = g[m - 1])
      BY <1>2, <2>2, <3>1
    <3>3. g[m] = IF m = 0 THEN b ELSE Op(x, y, g[m - 1], m)
      BY <1>6, <3>1 DEF IsRecursive
    <3> HIDE DEF h
    <3> QED
      BY <3>2, <3>3
  <2> QED
    BY <2>1, <2>2
<1>8. h = [m \in 0..k |-> IF m = 0 THEN b ELSE Op(x, y, h[m - 1], m)]
  BY <1>7
<1>9. IsRecursive(x, y, b, k, h)
  BY <1>8 DEF IsRecursive
<1> QED
  BY <1>2, <1>9

\* What the definition computes.
LEMMA RecursiveValues ==
  ASSUME \A S \in SUBSET Nat : S # {} => \E m \in S : \A k \in S : m <= k,
         NEW x, NEW y, NEW b, NEW n \in Nat
  PROVE  /\ Recursive(x, y, b, n)[0] = b
         /\ \A k \in 1..n : Recursive(x, y, b, n)[k] = Op(x, y, Recursive(x, y, b, n)[k - 1], k)
<1>1. Recursive(x, y, b, n) = CHOOSE g : IsRecursive(x, y, b, n, g)
  BY DEF Recursive, IsRecursive
<1>2. PICK g : g = Recursive(x, y, b, n)
  OBVIOUS
<1>3. IsRecursive(x, y, b, n, g)
  BY <1>1, <1>2, RecursionExists
<1>4. /\ g[0] = b
      /\ \A k \in 1..n : g[k] = Op(x, y, g[k - 1], k)
  BY <1>3 DEF IsRecursive
<1> QED
  BY <1>2, <1>4
=============================================================================
