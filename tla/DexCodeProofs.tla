--------------------------- MODULE DexCodeProofs ---------------------------
(* What slicer's code IR does to the instructions of a method, for any     *)
(* method and any transformations queued for it: from the bytecode to the  *)
(* list, through the merge and the transformations, to the encoded bytes,  *)
(* every original instruction is there once and in its place, payloads are *)
(* aligned and calls covered by outs_count, and the basic blocks of the    *)
(* list are entered at the top and left at the end.                        *)
(*                                                                         *)
(* d names the nodes of a list by their places 1..m, with the sentinel at  *)
(* m + 1.  Folds and recursive functions are proved about by instances of  *)
(* FoldInduction.                                                          *)
EXTENDS DexCode, FiniteSetTheorems, SequenceTheorems, TLAPS

Lir(r) ==
  r \in [ok : {r.ok}, begin : {r.begin}, next : {r.next}, prev : {r.prev}, node : {r.node},
         reg : {r.reg}, label : {r.label}, switches : {r.switches}, begins : {r.begins},
         ends : {r.ends}, dbgs : {r.dbgs}]

\* d holds the m nodes of the list of r, and the sentinel after them.
IsList(r, d, m) ==
  /\ m \in Nat /\ d \in [1..(m + 1) -> Nat] /\ d[m + 1] = 0
  /\ \A i, j \in 1..(m + 1) : d[i] = d[j] => i = j
  /\ \A i \in 1..m : d[i] \in DOMAIN r.node
  /\ r.begin = d[1]
  /\ DOMAIN r.next = {d[i] : i \in 1..(m + 1)}
  /\ DOMAIN r.prev = {d[i] : i \in 1..(m + 1)}
  /\ \A i \in 1..m : r.next[d[i]] = d[i + 1] /\ r.prev[d[i + 1]] = d[i]

Put(d, m, j, p) == [i \in 1..(m + 2) |-> IF i < j THEN d[i] ELSE IF i = j THEN p ELSE d[i - 1]]

\* What InsertBefore leaves alone.
LEMMA InsertKeeps ==
  ASSUME NEW r, Lir(r), NEW pos, NEW p
  PROVE  LET s == InsertBefore(r, pos, p) IN
         /\ Lir(s) /\ s.ok = r.ok /\ s.node = r.node /\ s.reg = r.reg /\ s.label = r.label
         /\ s.switches = r.switches /\ s.begins = r.begins /\ s.ends = r.ends /\ s.dbgs = r.dbgs
BY DEF Lir, InsertBefore

\* What it does to the links.
LEMMA InsertLinks ==
  ASSUME NEW r, Lir(r), NEW pos, NEW p
  PROVE  LET s == InsertBefore(r, pos, p)
             q == r.prev[pos] IN
         /\ s.prev = With(With(r.prev, pos, p), p, q)
         /\ s.next = With(IF pos = r.begin THEN r.next ELSE With(r.next, q, p), p, pos)
         /\ s.begin = IF pos = r.begin THEN p ELSE r.begin
BY DEF Lir, InsertBefore

\* An insertion puts the node where it says.
LEMMA InsertInList ==
  ASSUME NEW r, Lir(r), NEW m, NEW d, IsList(r, d, m), NEW j \in 1..(m + 1),
         NEW p \in DOMAIN r.node, p \in Nat, \A i \in 1..(m + 1) : d[i] # p
  PROVE  IsList(InsertBefore(r, d[j], p), Put(d, m, j, p), m + 1)
<1> DEFINE s == InsertBefore(r, d[j], p)
           q == r.prev[d[j]]
           e == Put(d, m, j, p)
<1>1. m \in Nat /\ d \in [1..(m + 1) -> Nat] /\ d[m + 1] = 0
  BY DEF IsList
<1>2. /\ s.prev = With(With(r.prev, d[j], p), p, q)
      /\ s.next = With(IF d[j] = r.begin THEN r.next ELSE With(r.next, q, p), p, d[j])
      /\ s.begin = IF d[j] = r.begin THEN p ELSE r.begin
      /\ s.node = r.node
  BY InsertLinks, InsertKeeps
<1>3. /\ e \in [1..(m + 2) -> Nat]
      /\ \A i \in 1..(m + 2) : /\ i < j => e[i] = d[i] /\ i \in 1..(m + 1)
                               /\ i = j => e[i] = p
                               /\ i > j => e[i] = d[i - 1] /\ i - 1 \in 1..(m + 1)
  <2>1. \A i \in 1..(m + 2) : /\ i < j => i \in 1..(m + 1)
                              /\ i > j => i - 1 \in 1..(m + 1)
                              /\ i < j \/ i = j \/ i > j
    BY <1>1
  <2> QED
    BY <1>1, <2>1 DEF Put
<1>4. d[j] = r.begin <=> j = 1
  BY <1>1 DEF IsList
<1>5. j # 1 => q = d[j - 1] /\ j - 1 \in 1..m
  BY <1>1 DEF IsList
<1> HIDE DEF s, q, e
<1>6. \A i, k \in 1..(m + 2) : e[i] = e[k] => i = k
  <2>1. \A l \in 1..(m + 1) : d[l] # p
    OBVIOUS
  <2>2. \A a, b \in 1..(m + 1) : d[a] = d[b] => a = b
    BY DEF IsList
  <2>3. ASSUME NEW i \in 1..(m + 2), NEW k \in 1..(m + 2), i < k PROVE e[i] # e[k]
    <3>1. CASE k < j
      BY <1>1, <1>3, <2>2, <2>3, <3>1
    <3>2. CASE k = j
      BY <1>1, <1>3, <2>1, <2>3, <3>2
    <3>3. CASE k > j /\ i < j
      <4>1. e[i] = d[i] /\ e[k] = d[k - 1] /\ i \in 1..(m + 1) /\ k - 1 \in 1..(m + 1) /\ i # k - 1
        BY <1>1, <1>3, <3>3
      <4> QED
        BY <2>2, <4>1
    <3>4. CASE k > j /\ i = j
      BY <1>1, <1>3, <2>1, <2>3, <3>4
    <3>5. CASE i > j
      <4>1. /\ e[i] = d[i - 1] /\ e[k] = d[k - 1] /\ i - 1 \in 1..(m + 1)
            /\ k - 1 \in 1..(m + 1) /\ i - 1 # k - 1
        BY <1>1, <1>3, <2>3, <3>5
      <4> QED
        BY <2>2, <4>1
    <3> QED
      BY <1>1, <2>3, <3>1, <3>2, <3>3, <3>4, <3>5
  <2> TAKE i, k \in 1..(m + 2)
  <2>4. i < k \/ i = k \/ k < i
    BY <1>1
  <2> QED
    BY <2>3, <2>4
<1>7. {e[i] : i \in 1..(m + 2)} = {p} \cup {d[i] : i \in 1..(m + 1)}
  <2>1. ASSUME NEW i \in 1..(m + 2) PROVE e[i] \in {p} \cup {d[k] : k \in 1..(m + 1)}
    <3>1. i < j \/ i = j \/ i > j
      BY <1>1
    <3> QED
      BY <1>3, <3>1
  <2>2. \A i \in 1..(m + 1) : \E k \in 1..(m + 2) : e[k] = d[i]
    <3> TAKE i \in 1..(m + 1)
    <3>1. CASE i < j
      BY <1>1, <1>3, <3>1
    <3>2. CASE i >= j
      <4>1. i + 1 \in 1..(m + 2) /\ e[i + 1] = d[i]
        BY <1>1, <1>3, <3>2
      <4> QED
        BY <4>1
    <3> QED
      BY <1>1, <3>1, <3>2
  <2>3. e[j] = p /\ j \in 1..(m + 2)
    BY <1>1, <1>3
  <2> QED
    BY <2>1, <2>2, <2>3
<1>8. DOMAIN s.prev = {e[i] : i \in 1..(m + 2)}
  <2>1. DOMAIN s.prev = {p} \cup (DOMAIN r.prev \cup {d[j]})
    BY <1>2 DEF With
  <2>2. d[j] \in DOMAIN r.prev /\ DOMAIN r.prev = {d[i] : i \in 1..(m + 1)}
    BY DEF IsList
  <2> QED
    BY <1>7, <2>1, <2>2
<1>9. DOMAIN s.next = {e[i] : i \in 1..(m + 2)}
  <2>1. /\ d[j] = r.begin => DOMAIN s.next = {p} \cup DOMAIN r.next
        /\ d[j] # r.begin => DOMAIN s.next = {p} \cup (DOMAIN r.next \cup {q})
    BY <1>2 DEF With
  <2>2. DOMAIN r.next = {d[i] : i \in 1..(m + 1)} /\ (j # 1 => q \in DOMAIN r.next)
    BY <1>1, <1>5 DEF IsList
  <2> QED
    BY <1>4, <1>7, <2>1, <2>2
<1>10. s.begin = e[1]
  <2>1. 1 \in 1..(m + 2) /\ (j = 1 \/ 1 < j) /\ r.begin = d[1]
    BY <1>1 DEF IsList
  <2> QED
    BY <1>2, <1>3, <1>4, <2>1
<1>11. ASSUME NEW i \in 1..(m + 1) PROVE s.next[e[i]] = e[i + 1] /\ s.prev[e[i + 1]] = e[i]
  <2>1. \A a, b \in 1..(m + 1) : d[a] = d[b] => a = b
    BY DEF IsList
  <2>2. CASE i = j
    <3>1. e[i] = p /\ e[i + 1] = d[j] /\ i + 1 \in 1..(m + 2)
      BY <1>1, <1>3, <2>2
    <3>2. s.next[p] = d[j]
      BY <1>2 DEF With
    <3>3. s.prev[d[j]] = p
      BY <1>2 DEF With
    <3> QED
      BY <3>1, <3>2, <3>3
  <2>3. CASE i = j - 1
    <3>1. e[i] = d[i] /\ e[i + 1] = p /\ i \in 1..(m + 1) /\ q = d[i] /\ j # 1
      BY <1>1, <1>3, <1>5, <2>3
    <3>2. s.next[d[i]] = p
      BY <1>2, <1>4, <3>1 DEF With
    <3>3. s.prev[p] = q
      BY <1>2 DEF With
    <3> QED
      BY <3>1, <3>2, <3>3
  <2>4. CASE i < j - 1
    <3>1. e[i] = d[i] /\ e[i + 1] = d[i + 1] /\ i \in 1..m /\ i + 1 \in 1..(m + 1) /\ j # 1
      BY <1>1, <1>3, <2>4
    <3>2. d[i] # p /\ d[i] # q /\ d[i + 1] # p /\ d[i + 1] # d[j]
      BY <1>1, <1>5, <2>1, <2>4, <3>1
    <3>3. r.next[d[i]] = d[i + 1] /\ r.prev[d[i + 1]] = d[i]
      BY <3>1 DEF IsList
    <3>4. d[i] \in DOMAIN r.next /\ d[i + 1] \in DOMAIN r.prev
      BY <1>1, <3>1 DEF IsList
    <3>5. s.next[d[i]] = r.next[d[i]]
      BY <1>2, <3>2, <3>4 DEF With
    <3>6. s.prev[d[i + 1]] = r.prev[d[i + 1]]
      BY <1>2, <3>2, <3>4 DEF With
    <3> QED
      BY <3>1, <3>3, <3>5, <3>6
  <2>5. CASE i > j
    <3>0. i \in 1..(m + 2) /\ i + 1 \in 1..(m + 2) /\ i + 1 > j /\ i - 1 \in 1..m /\ i + 1 - 1 = i
      BY <1>1, <2>5
    <3>1. e[i] = d[i - 1] /\ e[i + 1] = d[i] /\ i - 1 \in 1..m /\ i \in 1..(m + 1)
      BY <1>3, <2>5, <3>0
    <3>2. d[i - 1] # p /\ (j # 1 => d[i - 1] # q) /\ d[i] # p /\ d[i] # d[j]
      BY <1>1, <1>5, <2>1, <2>5, <3>1
    <3>3. r.next[d[i - 1]] = d[i] /\ r.prev[d[i]] = d[i - 1]
      BY <1>1, <3>1 DEF IsList
    <3>4. d[i - 1] \in DOMAIN r.next /\ d[i] \in DOMAIN r.prev
      BY <1>1, <3>1 DEF IsList
    <3>5. s.next[d[i - 1]] = r.next[d[i - 1]]
      BY <1>2, <1>4, <3>2, <3>4 DEF With
    <3>6. s.prev[d[i]] = r.prev[d[i]]
      BY <1>2, <3>2, <3>4 DEF With
    <3> QED
      BY <3>1, <3>3, <3>5, <3>6
  <2> QED
    BY <1>1, <2>2, <2>3, <2>4, <2>5
<1>12. \A i \in 1..(m + 1) : e[i] \in DOMAIN s.node
  <2>1. \A i \in 1..m : d[i] \in DOMAIN r.node
    BY DEF IsList
  <2> TAKE i \in 1..(m + 1)
  <2>2. i \in 1..(m + 2) /\ (i < j => i \in 1..m) /\ (i > j => i - 1 \in 1..m)
        /\ (i < j \/ i = j \/ i > j)
    BY <1>1
  <2> QED
    BY <1>2, <1>3, <2>1, <2>2
<1>13. e[m + 2] = 0
  BY <1>1, <1>3
<1>14. m + 1 + 1 = m + 2 /\ m + 1 \in Nat
  BY <1>1
<1> HIDE DEF IsList
<1>15. IsList(s, e, m + 1)
  BY <1>3, <1>6, <1>8, <1>9, <1>10, <1>11, <1>12, <1>13, <1>14 DEF IsList
<1> QED
  BY <1>15 DEF s, e

\* A function on 1..n is a sequence of that length.
LEMMA FunctionIsSeq ==
  ASSUME NEW S, NEW n \in Nat, NEW s \in [1..n -> S]
  PROVE  s \in Seq(S) /\ Len(s) = n
<1>1. s \in Seq(S)
  BY SeqDef
<1>2. Len(s) \in Nat /\ DOMAIN s = 1..Len(s)
  BY <1>1, LenProperties
<1> QED
  BY <1>1, <1>2

\* Every set of naturals that is not empty has a smallest element.
LEMMA Smallest == \A S \in SUBSET Nat : S # {} => \E m \in S : \A k \in S : m <= k
<1> SUFFICES ASSUME NEW S \in SUBSET Nat, S # {}
             PROVE  \E m \in S : \A k \in S : m <= k
  OBVIOUS
<1> DEFINE R == {ss \in Nat \X Nat : ss[1] < ss[2]}
<1>1. R = OpToRel(<, Nat)
  BY DEF OpToRel
<1>2. IsWellFoundedOn(R, Nat)
  BY <1>1, NatLessThanWellFounded
<1> HIDE DEF R
<1>3. PICK m \in S : \A k \in S : ~(<<k, m>> \in R)
  BY <1>2, WFMin
<1>4. ASSUME NEW k \in S PROVE m <= k
  <2>1. k < m => <<k, m>> \in R
    BY DEF R
  <2> QED
    BY <1>3, <2>1
<1> QED
  BY <1>3, <1>4

\* The nodes from place k on.
Rest(d, m, k) == [i \in 1..(m + 1 - k) |-> d[k + i - 1]]

IsWalk(r, f) == f = [n \in DOMAIN r.next |-> IF n = 0 THEN <<>> ELSE <<n>> \o f[r.next[n]]]

Ignore(x, y, a, e) == a
WalkTo(z, k, f) == f[z.d[z.m + 1 - k]] = Rest(z.d, z.m, z.m + 1 - k)
OnWalk == INSTANCE FoldInduction WITH Op <- Ignore, Inv <- WalkTo

\* The rest from place k is its node and the rest after it.
LEMMA RestGrows ==
  ASSUME NEW m \in Nat, NEW d \in [1..(m + 1) -> Nat], NEW k \in 1..m
  PROVE  Rest(d, m, k) = <<d[k]>> \o Rest(d, m, k + 1)
<1> DEFINE s == Rest(d, m, k + 1)
<1>1. s \in Seq(Nat) /\ Len(s) = m - k
  <2>1. m + 1 - (k + 1) = m - k /\ m - k \in Nat
    OBVIOUS
  <2>2. s = [i \in 1..(m - k) |-> d[k + 1 + i - 1]]
    BY <2>1 DEF Rest
  <2>3. \A i \in 1..(m - k) : k + 1 + i - 1 \in 1..(m + 1)
    OBVIOUS
  <2>4. s \in [1..(m - k) -> Nat]
    BY <2>2, <2>3
  <2> HIDE DEF s
  <2> QED
    BY <2>1, <2>4, FunctionIsSeq
<1>2. \A i \in 1..(m - k) : s[i] = d[k + i]
  BY DEF Rest
<1> HIDE DEF s
<1>3. PICK t : t = <<d[k]>>
  OBVIOUS
<1>4. t \in Seq(Nat) /\ Len(t) = 1 /\ t[1] = d[k]
  BY <1>3
<1>5. PICK u : u = t \o s
  OBVIOUS
<1>6. /\ u \in Seq(Nat) /\ Len(u) = Len(t) + Len(s)
      /\ \A i \in 1..(Len(t) + Len(s)) : u[i] = IF i <= Len(t) THEN t[i] ELSE s[i - Len(t)]
  BY <1>1, <1>4, <1>5, ConcatProperties
<1>7. Len(t) + Len(s) = m + 1 - k
  BY <1>1, <1>4
<1>8. u \in [1..(m + 1 - k) -> Nat]
  BY <1>6, <1>7, LenProperties
<1>9. ASSUME NEW i \in 1..(m + 1 - k) PROVE u[i] = d[k + i - 1]
  <2>1. CASE i = 1
    BY <1>4, <1>6, <1>7, <2>1
  <2>2. CASE i # 1
    <3>1. i - 1 \in 1..(m - k) /\ k + (i - 1) = k + i - 1 /\ ~(i <= 1)
      BY <2>2
    <3>2. u[i] = s[i - 1]
      BY <1>4, <1>6, <1>7, <3>1
    <3> QED
      BY <1>2, <3>1, <3>2
  <2> QED
    BY <2>1, <2>2
<1>10. u = [i \in 1..(m + 1 - k) |-> d[k + i - 1]]
  BY <1>8, <1>9
<1> QED
  BY <1>3, <1>5, <1>10 DEF s, Rest

\* The recursion of Walk has a solution on a list.
LEMMA WalkExists ==
  ASSUME NEW r, NEW m, NEW d, IsList(r, d, m)
  PROVE  \E f : IsWalk(r, f)
<1> DEFINE Of(n) == CHOOSE k \in 1..(m + 1) : d[k] = n
           f == [n \in DOMAIN r.next |-> Rest(d, m, Of(n))]
<1>1. m \in Nat /\ d \in [1..(m + 1) -> Nat] /\ d[m + 1] = 0
  BY DEF IsList
<1>2. \A k \in 1..(m + 1) : Of(d[k]) = k
  BY DEF IsList
<1> HIDE DEF Of
<1>3. \A k \in 1..(m + 1) : d[k] \in DOMAIN r.next /\ f[d[k]] = Rest(d, m, k)
  BY <1>2 DEF IsList
<1>4. ASSUME NEW n \in DOMAIN r.next
      PROVE  f[n] = IF n = 0 THEN <<>> ELSE <<n>> \o f[r.next[n]]
  <2>1. PICK k \in 1..(m + 1) : n = d[k]
    BY DEF IsList
  <2>2. CASE k = m + 1
    <3>1. Rest(d, m, m + 1) = <<>>
      BY <1>1 DEF Rest
    <3> HIDE DEF f
    <3> QED
      BY <1>1, <1>3, <2>1, <2>2, <3>1
  <2>3. CASE k # m + 1
    <3>1. k \in 1..m /\ k + 1 \in 1..(m + 1)
      BY <1>1, <2>3
    <3>2. n # 0 /\ r.next[n] = d[k + 1]
      BY <1>1, <2>1, <2>3, <3>1 DEF IsList
    <3>3. Rest(d, m, k) = <<d[k]>> \o Rest(d, m, k + 1)
      BY <1>1, <3>1, RestGrows
    <3> HIDE DEF f
    <3> QED
      BY <1>3, <2>1, <3>1, <3>2, <3>3
  <2> QED
    BY <2>2, <2>3
<1>5. f = [n \in DOMAIN r.next |-> IF n = 0 THEN <<>> ELSE <<n>> \o f[r.next[n]]]
  BY <1>4
<1> QED
  BY <1>5 DEF IsWalk

\* From place k, Walk gives the nodes from there to the end.
LEMMA WalkIs ==
  ASSUME NEW r, NEW m, NEW d, IsList(r, d, m), NEW k \in 1..(m + 1)
  PROVE  Walk(r, d[k]) = Rest(d, m, k)
<1>1. m \in Nat /\ d \in [1..(m + 1) -> Nat] /\ d[m + 1] = 0
  BY DEF IsList
<1>2. PICK f : f = CHOOSE g : IsWalk(r, g)
  OBVIOUS
<1>3. IsWalk(r, f)
  BY <1>2, WalkExists
<1>4. \A n : Walk(r, n) = f[n]
  BY <1>2 DEF Walk, IsWalk
<1>5. \A i \in 1..m : f[d[i]] = <<d[i]>> \o f[d[i + 1]]
  <2> TAKE i \in 1..m
  <2>1. i \in 1..(m + 1) /\ m + 1 \in 1..(m + 1) /\ i # m + 1
    BY <1>1
  <2>2. d[i] \in DOMAIN r.next /\ d[i] # 0 /\ r.next[d[i]] = d[i + 1]
    BY <1>1, <2>1 DEF IsList
  <2> QED
    BY <1>3, <2>2 DEF IsWalk
<1>6. f[d[m + 1]] = <<>>
  <2>1. d[m + 1] \in DOMAIN r.next
    BY <1>1 DEF IsList
  <2> QED
    BY <1>1, <1>3, <2>1 DEF IsWalk
<1> DEFINE z == [d |-> d, m |-> m]
<1>7. WalkTo(z, 0, f)
  <2>1. Rest(d, m, m + 1) = <<>> /\ m + 1 - 0 = m + 1
    BY <1>1 DEF Rest
  <2> QED
    BY <1>6, <2>1 DEF WalkTo
<1>8. ASSUME NEW i \in 0..(m - 1), WalkTo(z, i, f) PROVE WalkTo(z, i + 1, f)
  <2> DEFINE p == m + 1 - (i + 1)
  <2>1. p \in 1..m /\ p + 1 = m + 1 - i
    BY <1>1
  <2>2. f[d[p + 1]] = Rest(d, m, p + 1)
    BY <1>8, <2>1 DEF WalkTo
  <2> HIDE DEF p
  <2>3. f[d[p]] = Rest(d, m, p)
    BY <1>1, <1>5, <2>1, <2>2, RestGrows
  <2> QED
    BY <2>3 DEF p, WalkTo
<1> HIDE DEF z
<1>9. \A i \in 0..m : WalkTo(z, i, f)
  BY <1>1, <1>7, <1>8, OnWalk!Induction, Smallest
<1>10. m + 1 - k \in 0..m /\ m + 1 - (m + 1 - k) = k
  BY <1>1
<1>11. WalkTo(z, m + 1 - k, f)
  BY <1>9, <1>10
<1>12. f[d[k]] = Rest(d, m, k)
  BY <1>10, <1>11 DEF WalkTo, z
<1> QED
  BY <1>4, <1>12

\* The list is what its iterator goes through.
LEMMA ChainIs ==
  ASSUME NEW r, NEW m, NEW d, IsList(r, d, m)
  PROVE  Chain(r) = [i \in 1..m |-> d[i]]
<1>1. m \in Nat /\ r.begin = d[1] /\ 1 \in 1..(m + 1)
  BY DEF IsList
<1>2. Rest(d, m, 1) = [i \in 1..m |-> d[i]]
  BY <1>1 DEF Rest
<1> QED
  BY <1>1, <1>2, WalkIs DEF Chain
-----------------------------------------------------------------------------
(* The nodes of a code IR.                                                 *)
IsSeq(s) == \E S : s \in Seq(S)
Instructions == {"code", "packed", "sparse", "array"}

\* A node after which execution does not go on, or that is not executed.
Stops(nd) == nd.kind \in {"packed", "sparse", "array"} \/ (nd.kind = "code" /\ Leaves(nd.op))

\* A call has its arguments in a list or a range, as its format has them.
Calling(op, args) ==
  "invoke" \in Flags(op) =>
    /\ Len(args) = 2
    /\ IF Ops[op].fmt = "kFmt3rc" THEN \E b : \E c \in Nat : args[1] = <<"range", <<b, c>>>>
       ELSE \E t : IsSeq(t) /\ args[1] = <<"regs", t>>

GoodNode(nd) ==
  /\ {"kind", "off", "org"} \subseteq DOMAIN nd
  /\ nd.org \in Nat
  /\ nd.kind \notin Instructions => nd.org = 0
  /\ nd.kind = "code" => nd.op \in DOMAIN Ops /\ Calling(nd.op, nd.args)
  /\ nd.kind \in {"code", "dbg"} => {"op", "args"} \subseteq DOMAIN nd /\ IsSeq(nd.args)
  /\ nd.kind \in {"packed", "sparse"} => "to" \in DOMAIN nd /\ IsSeq(nd.to)
  /\ nd.kind = "array" => "keys" \in DOMAIN nd /\ nd.keys[1] \in Nat

Nodes(r) == Lir(r) /\ IsSeq(r.node) /\ \A n \in DOMAIN r.node : GoodNode(r.node[n])

\* What later steps leave of a node.
Same(nd, md) ==
  /\ md.kind = nd.kind /\ md.org = nd.org /\ md.off = nd.off
  /\ Stops(nd) => Stops(md)

\* s has the nodes of r, the same list of them, and maybe other nodes.
Extends(r, s) ==
  /\ s.next = r.next /\ s.prev = r.prev /\ s.begin = r.begin
  /\ DOMAIN r.node \subseteq DOMAIN s.node
  /\ \A n \in DOMAIN r.node : Same(r.node[n], s.node[n])

\* The nodes that are to be merged, of a kind.
Queue(r, q, kind) ==
  /\ q \in Seq(DOMAIN r.node)
  /\ \A k \in 1..Len(q) : r.node[q[k]].kind = kind
  /\ \A j, k \in 1..Len(q) : q[j] = q[k] => j = k

Labels(r) ==
  /\ IsFiniteSet(DOMAIN r.label) /\ DOMAIN r.label \subseteq Int
  /\ \A o \in DOMAIN r.label : /\ r.label[o] \in DOMAIN r.node
                               /\ r.node[r.label[o]].kind = "label"
                               /\ r.node[r.label[o]].off = o

\* Every slot is at a payload.
PayloadAt(o) == \E j \in DOMAIN method.insns : /\ OffsetOf(method.insns, j) = o
                                               /\ method.insns[j].op \in Payloads

GoodSlot(v) == v \in [instr : {v.instr}, base : Int]

Slots(r) ==
  /\ r.switches \in [packed : {r.switches.packed}, sparse : {r.switches.sparse}]
  /\ \A k \in {"packed", "sparse"} :
       /\ IsFiniteSet(DOMAIN r.switches[k]) /\ DOMAIN r.switches[k] \subseteq Int
       /\ \A o \in DOMAIN r.switches[k] : PayloadAt(o) /\ GoodSlot(r.switches[k][o])

Raised(r) ==
  /\ Nodes(r) /\ Labels(r) /\ Slots(r)
  /\ Queue(r, r.dbgs, "dbg") /\ Queue(r, r.begins, "try_begin") /\ Queue(r, r.ends, "try_end")

\* What is a sequence of anything has a length, and Append makes it longer.
LEMMA SeqFacts ==
  ASSUME NEW s, IsSeq(s)
  PROVE  /\ Len(s) \in Nat /\ DOMAIN s = 1..Len(s)
         /\ \A e : /\ IsSeq(Append(s, e)) /\ Len(Append(s, e)) = Len(s) + 1
                   /\ Append(s, e)[Len(s) + 1] = e
                   /\ \A i \in 1..Len(s) : Append(s, e)[i] = s[i]
<1>1. PICK S : s \in Seq(S)
  BY DEF IsSeq
<1>2. Len(s) \in Nat /\ DOMAIN s = 1..Len(s)
  BY <1>1
<1>3. ASSUME NEW e
      PROVE  /\ Append(s, e) \in Seq(S \cup {e}) /\ Len(Append(s, e)) = Len(s) + 1
             /\ Append(s, e)[Len(s) + 1] = e
             /\ \A i \in 1..Len(s) : Append(s, e)[i] = s[i]
  <2>1. s \in Seq(S \cup {e})
    BY <1>1, SeqMonotonic
  <2> QED
    BY <2>1
<1> QED
  BY <1>2, <1>3 DEF IsSeq

\* Short sequences.
LEMMA ShortSeqs ==
  /\ IsSeq(<<>>)
  /\ \A e : IsSeq(<<e>>)
  /\ \A e, f : IsSeq(<<e, f>>)
  /\ \A s : \A e : IsSeq(s) => IsSeq(<<e>> \o s)
<1>1. <<>> \in Seq({})
  OBVIOUS
<1>2. ASSUME NEW e PROVE IsSeq(<<e>>)
  <2>1. <<e>> \in Seq({e})
    OBVIOUS
  <2> QED
    BY <2>1 DEF IsSeq
<1>4. ASSUME NEW e, NEW f PROVE IsSeq(<<e, f>>)
  <2>1. <<e, f>> \in Seq({e, f})
    OBVIOUS
  <2> QED
    BY <2>1 DEF IsSeq
<1>3. ASSUME NEW s, NEW e, IsSeq(s) PROVE IsSeq(<<e>> \o s)
  <2>1. PICK S : s \in Seq(S)
    BY <1>3 DEF IsSeq
  <2>2. s \in Seq(S \cup {e}) /\ <<e>> \in Seq(S \cup {e})
    BY <2>1, SeqMonotonic
  <2>3. <<e>> \o s \in Seq(S \cup {e})
    BY <2>2, ConcatProperties
  <2> QED
    BY <2>3 DEF IsSeq
<1> QED
  BY <1>1, <1>2, <1>3, <1>4 DEF IsSeq

\* A node is the same as itself.
LEMMA SameReflexive == ASSUME NEW nd PROVE Same(nd, nd)
BY DEF Same

\* A code IR extends itself.
LEMMA ExtendsReflexive == ASSUME NEW r PROVE Extends(r, r)
BY SameReflexive DEF Extends

\* Steps that extend a code IR extend it together.
LEMMA ExtendsTransitive ==
  ASSUME NEW r, NEW s, NEW t, Extends(r, s), Extends(s, t)
  PROVE  Extends(r, t)
<1>1. ASSUME NEW n \in DOMAIN r.node PROVE Same(r.node[n], t.node[n])
  BY DEF Extends, Same
<1> QED
  BY <1>1 DEF Extends

\* The queues, labels and slots survive what keeps the nodes.
LEMMA QueueKept ==
  ASSUME NEW r, NEW s, Extends(r, s), NEW q, NEW kind, Queue(r, q, kind)
  PROVE  Queue(s, q, kind)
<1>1. q \in Seq(DOMAIN s.node)
  BY SeqMonotonic DEF Extends, Queue
<1>2. \A k \in 1..Len(q) : q[k] \in DOMAIN r.node
  BY ElementOfSeq DEF Queue
<1> QED
  BY <1>1, <1>2 DEF Extends, Queue, Same

\* Labels are kept by what extends the nodes and leaves the table.
LEMMA LabelsKept ==
  ASSUME NEW r, NEW s, Extends(r, s), Labels(r), s.label = r.label
  PROVE  Labels(s)
BY DEF Extends, Labels, Same

\* Raised is kept by what changes none of its parts for the worse.
LEMMA RaisedKept ==
  ASSUME NEW r, NEW s, Raised(r), Extends(r, s), Nodes(s), s.label = r.label,
         s.switches = r.switches, s.dbgs = r.dbgs, s.begins = r.begins, s.ends = r.ends
  PROVE  Raised(s)
<1>1. Labels(s) /\ Slots(s)
  BY LabelsKept DEF Raised, Slots
<1>2. /\ Queue(s, s.dbgs, "dbg") /\ Queue(s, s.begins, "try_begin")
      /\ Queue(s, s.ends, "try_end")
  BY QueueKept DEF Raised
<1> QED
  BY <1>1, <1>2 DEF Raised

\* A new node.
LEMMA AllocNode ==
  ASSUME NEW r, Nodes(r), NEW nd, GoodNode(nd)
  PROVE  LET s == Alloc(r, nd) IN
         /\ Nodes(s) /\ Extends(r, s)
         /\ Newest(s) \in DOMAIN s.node /\ Newest(s) \notin DOMAIN r.node /\ Newest(s) \in Nat \ {0}
         /\ s.node[Newest(s)] = nd
         /\ s.ok = r.ok /\ s.reg = r.reg /\ s.label = r.label /\ s.switches = r.switches
         /\ s.begins = r.begins /\ s.ends = r.ends /\ s.dbgs = r.dbgs
<1> DEFINE s == Alloc(r, nd)
<1>1. /\ Lir(s) /\ s.node = Append(r.node, nd)
      /\ s.next = r.next /\ s.prev = r.prev /\ s.begin = r.begin
      /\ s.ok = r.ok /\ s.reg = r.reg /\ s.label = r.label /\ s.switches = r.switches
      /\ s.begins = r.begins /\ s.ends = r.ends /\ s.dbgs = r.dbgs
  BY DEF Nodes, Lir, Alloc
<1> HIDE DEF s
<1>2. PICK l : l = Len(r.node)
  OBVIOUS
<1>3. l \in Nat /\ DOMAIN r.node = 1..l
  BY <1>2, SeqFacts DEF Nodes
<1>4. /\ IsSeq(s.node) /\ Len(s.node) = l + 1 /\ s.node[l + 1] = nd
      /\ \A i \in 1..l : s.node[i] = r.node[i]
  BY <1>1, <1>2, SeqFacts DEF Nodes
<1>5. DOMAIN s.node = 1..(l + 1)
  BY <1>4, SeqFacts
<1>6. \A n \in DOMAIN s.node : GoodNode(s.node[n])
  <2> TAKE n \in DOMAIN s.node
  <2>1. n \in 1..l \/ n = l + 1
    BY <1>3, <1>5
  <2> QED
    BY <1>3, <1>4, <2>1 DEF Nodes
<1>7. Nodes(s)
  BY <1>1, <1>4, <1>6 DEF Nodes
<1>8. Extends(r, s)
  BY <1>1, <1>3, <1>4, <1>5, SameReflexive DEF Extends
<1>9. Newest(s) = l + 1
  BY <1>4 DEF Newest
<1> QED
  BY <1>1, <1>3, <1>4, <1>5, <1>7, <1>8, <1>9 DEF s

\* The same, for a code IR that is being raised.
LEMMA AllocRaised ==
  ASSUME NEW r, Raised(r), NEW nd, GoodNode(nd)
  PROVE  LET s == Alloc(r, nd) IN
         /\ Raised(s) /\ Extends(r, s)
         /\ Newest(s) \in DOMAIN s.node /\ Newest(s) \notin DOMAIN r.node /\ Newest(s) \in Nat \ {0}
         /\ s.node[Newest(s)] = nd
         /\ s.ok = r.ok /\ s.reg = r.reg /\ s.label = r.label /\ s.switches = r.switches
         /\ s.begins = r.begins /\ s.ends = r.ends /\ s.dbgs = r.dbgs
<1>1. Nodes(r)
  BY DEF Raised
<1> QED
  BY <1>1, AllocNode, RaisedKept

\* A changed node.
LEMMA UpdateNode ==
  ASSUME NEW r, Nodes(r), NEW n \in DOMAIN r.node, NEW md, GoodNode(md), Same(r.node[n], md)
  PROVE  LET s == [r EXCEPT !.node[n] = md] IN
         /\ Nodes(s) /\ Extends(r, s) /\ DOMAIN s.node = DOMAIN r.node
         /\ s.node[n] = md
         /\ s.ok = r.ok /\ s.reg = r.reg /\ s.label = r.label /\ s.switches = r.switches
         /\ s.begins = r.begins /\ s.ends = r.ends /\ s.dbgs = r.dbgs
<1> DEFINE s == [r EXCEPT !.node[n] = md]
<1>1. /\ Lir(s) /\ s.node = [r.node EXCEPT ![n] = md]
      /\ s.next = r.next /\ s.prev = r.prev /\ s.begin = r.begin
      /\ s.ok = r.ok /\ s.reg = r.reg /\ s.label = r.label /\ s.switches = r.switches
      /\ s.begins = r.begins /\ s.ends = r.ends /\ s.dbgs = r.dbgs
  BY DEF Nodes, Lir
<1> HIDE DEF s
<1>2. PICK S : r.node \in Seq(S)
  BY DEF Nodes, IsSeq
<1>3. s.node \in Seq(S \cup {md})
  BY <1>1, <1>2, SeqMonotonic, ExceptSeq
<1>4. /\ DOMAIN s.node = DOMAIN r.node
      /\ \A j \in DOMAIN r.node : s.node[j] = IF j = n THEN md ELSE r.node[j]
  BY <1>1, <1>2
<1>5. Nodes(s)
  BY <1>1, <1>3, <1>4 DEF Nodes, IsSeq
<1>6. Extends(r, s)
  BY <1>1, <1>4, SameReflexive DEF Extends
<1> QED
  BY <1>1, <1>4, <1>5, <1>6 DEF s

\* Changes of other fields.
LEMMA CheckedRaised ==
  ASSUME NEW r, Raised(r), NEW c
  PROVE  LET s == Checked(r, c) IN
         /\ Raised(s) /\ Extends(r, s) /\ s.node = r.node /\ s.label = r.label
         /\ s.switches = r.switches /\ s.begins = r.begins /\ s.ends = r.ends /\ s.dbgs = r.dbgs
<1> DEFINE s == Checked(r, c)
<1>1. /\ Lir(s) /\ s.node = r.node
      /\ s.next = r.next /\ s.prev = r.prev /\ s.begin = r.begin
      /\ s.label = r.label /\ s.switches = r.switches
      /\ s.begins = r.begins /\ s.ends = r.ends /\ s.dbgs = r.dbgs
  BY DEF Raised, Nodes, Lir, Checked
<1> HIDE DEF s
<1>2. Extends(r, s)
  BY <1>1, SameReflexive DEF Extends
<1>3. Nodes(s)
  BY <1>1 DEF Raised, Nodes
<1> QED
  BY <1>1, <1>2, <1>3, RaisedKept DEF s

\* A virtual register more.
LEMMA VRegRaised ==
  ASSUME NEW r, Raised(r), NEW v
  PROVE  LET s == VReg(r, v) IN Raised(s) /\ Extends(r, s) /\ s.node = r.node
<1> DEFINE s == VReg(r, v)
<1>1. /\ Lir(s) /\ s.node = r.node
      /\ s.next = r.next /\ s.prev = r.prev /\ s.begin = r.begin
      /\ s.label = r.label /\ s.switches = r.switches
      /\ s.begins = r.begins /\ s.ends = r.ends /\ s.dbgs = r.dbgs
  BY DEF Raised, Nodes, Lir, VReg
<1> HIDE DEF s
<1>2. Extends(r, s)
  BY <1>1, SameReflexive DEF Extends
<1>3. Nodes(s)
  BY <1>1 DEF Raised, Nodes
<1> QED
  BY <1>1, <1>2, <1>3, RaisedKept DEF s

\* A label, found or made.
LEMMA GetLabelRaised ==
  ASSUME NEW r, Raised(r), NEW o \in Int
  PROVE  LET s == GetLabel(r, o) IN
         /\ Raised(s) /\ Extends(r, s) /\ o \in DOMAIN s.label
         /\ s.switches = r.switches /\ s.begins = r.begins /\ s.ends = r.ends /\ s.dbgs = r.dbgs
<1> DEFINE s == GetLabel(r, o)
<1>1. CASE o \in DOMAIN r.label
  BY <1>1, ExtendsReflexive DEF GetLabel
<1>2. CASE o \notin DOMAIN r.label
  <2> DEFINE nd == [kind |-> "label", off |-> o, aligned |-> FALSE, org |-> 0]
             a == Alloc(r, nd)
             b == [a EXCEPT !.label = With(@, o, Newest(a))]
  <2>1. s = b
    BY <1>2 DEF GetLabel
  <2>2. GoodNode(nd)
    BY DEF GoodNode, Instructions
  <2>3. nd.kind = "label" /\ nd.off = o
    OBVIOUS
  <2> HIDE DEF nd
  <2>4. /\ Raised(a) /\ Extends(r, a) /\ a.node[Newest(a)] = nd
        /\ Newest(a) \in DOMAIN a.node /\ a.label = r.label /\ a.switches = r.switches
        /\ a.begins = r.begins /\ a.ends = r.ends /\ a.dbgs = r.dbgs
    BY <2>2, AllocRaised
  <2> HIDE DEF a
  <2>5. /\ Lir(b) /\ b.node = a.node
        /\ b.next = a.next /\ b.prev = a.prev /\ b.begin = a.begin
        /\ b.label = With(a.label, o, Newest(a)) /\ b.switches = a.switches
        /\ b.begins = a.begins /\ b.ends = a.ends /\ b.dbgs = a.dbgs
    BY <2>4 DEF Raised, Nodes, Lir
  <2> HIDE DEF b
  <2>6. Extends(a, b)
    BY <2>5, SameReflexive DEF Extends
  <2>7. Nodes(b)
    BY <2>4, <2>5 DEF Raised, Nodes
  <2>8. /\ DOMAIN b.label = DOMAIN a.label \cup {o}
        /\ \A x \in DOMAIN b.label : b.label[x] = IF x = o THEN Newest(a) ELSE a.label[x]
    BY <2>5 DEF With
  <2>9. Labels(a)
    BY <2>4 DEF Raised
  <2>10. IsFiniteSet(DOMAIN b.label) /\ DOMAIN b.label \subseteq Int
    BY <2>8, <2>9, FS_AddElement DEF Labels
  <2>11. Labels(b)
    BY <2>3, <2>4, <2>5, <2>8, <2>9, <2>10 DEF Labels
  <2>12. Slots(b)
    BY <2>4, <2>5 DEF Raised, Slots
  <2>13. /\ Queue(b, b.dbgs, "dbg") /\ Queue(b, b.begins, "try_begin")
         /\ Queue(b, b.ends, "try_end")
    BY <2>4, <2>5, <2>6, QueueKept DEF Raised
  <2>14. Raised(b)
    BY <2>7, <2>11, <2>12, <2>13 DEF Raised
  <2>15. Extends(r, b)
    BY <2>4, <2>6, ExtendsTransitive
  <2> QED
    BY <2>1, <2>4, <2>5, <2>8, <2>14, <2>15
<1> QED
  BY <1>1, <1>2
-----------------------------------------------------------------------------
(* Raising the bytecode.                                                   *)
Formats == {"kFmt10x", "kFmt11x", "kFmt12x", "kFmt22x", "kFmt32x", "kFmt11n", "kFmt21s", "kFmt31i",
            "kFmt51l", "kFmt21h", "kFmt23x", "kFmt22b", "kFmt22s", "kFmt22c", "kFmt21c", "kFmt31c",
            "kFmt35c", "kFmt3rc", "kFmt10t", "kFmt20t", "kFmt30t", "kFmt21t", "kFmt31t", "kFmt22t"}
FieldKinds == {"reg", "const", "high", "index", "regs", "range", "branch"}

Words == FieldKinds \X (Nat \ {0})

\* Every format has a sequence of known fields of known widths.
LEMMA FieldsAre ==
  ASSUME NEW fmt \in Formats
  PROVE  /\ IsSeq(Fields(fmt)) /\ Len(Fields(fmt)) \in 0..3
         /\ \A k \in 1..Len(Fields(fmt)) : /\ Fields(fmt)[k][1] \in FieldKinds
                                           /\ Fields(fmt)[k][2] \in Nat \ {0}
<1>1. Bits4 \in Nat \ {0} /\ Bits8 \in Nat \ {0} /\ Bits16 \in Nat \ {0}
  BY WidthAssumption
<1>2. {Bits4, Bits8, Bits16, Bits32, Bits64} \subseteq Nat \ {0}
  BY <1>1 DEF Bits32, Bits64
<1>3. /\ Fields("kFmt10x") \in Seq(Words)
      /\ Fields("kFmt11x") \in Seq(Words)
      /\ Fields("kFmt12x") \in Seq(Words)
      /\ Fields("kFmt22x") \in Seq(Words)
      /\ Fields("kFmt32x") \in Seq(Words)
      /\ Fields("kFmt11n") \in Seq(Words)
      /\ Fields("kFmt21s") \in Seq(Words)
      /\ Fields("kFmt31i") \in Seq(Words)
  BY <1>2, SMTT(60) DEF Fields, FieldKinds, Words
<1>4. /\ Fields("kFmt51l") \in Seq(Words)
      /\ Fields("kFmt21h") \in Seq(Words)
      /\ Fields("kFmt23x") \in Seq(Words)
      /\ Fields("kFmt22b") \in Seq(Words)
      /\ Fields("kFmt22s") \in Seq(Words)
      /\ Fields("kFmt22c") \in Seq(Words)
      /\ Fields("kFmt21c") \in Seq(Words)
      /\ Fields("kFmt31c") \in Seq(Words)
  BY <1>2, SMTT(60) DEF Fields, FieldKinds, Words
<1>5. /\ Fields("kFmt35c") \in Seq(Words)
      /\ Fields("kFmt3rc") \in Seq(Words)
      /\ Fields("kFmt10t") \in Seq(Words)
      /\ Fields("kFmt20t") \in Seq(Words)
      /\ Fields("kFmt30t") \in Seq(Words)
      /\ Fields("kFmt21t") \in Seq(Words)
      /\ Fields("kFmt31t") \in Seq(Words)
      /\ Fields("kFmt22t") \in Seq(Words)
  BY <1>2, SMTT(60) DEF Fields, FieldKinds, Words
<1>6. Fields(fmt) \in Seq(Words)
  BY <1>3, <1>4, <1>5 DEF Formats
<1>7. Len(Fields(fmt)) \in 0..3
  BY <1>2, SMTT(60) DEF Fields, Formats
<1>8. \A k \in 1..Len(Fields(fmt)) : Fields(fmt)[k] \in Words
  BY <1>6, ElementOfSeq
<1> QED
  BY <1>6, <1>7, <1>8 DEF IsSeq, Words

\* Every opcode has one of the formats.
LEMMA FormatsAre ==
  ASSUME NEW op \in DOMAIN Ops
  PROVE  /\ Ops[op].fmt \in Formats
         /\ "switch" \in Flags(op) => op \in DOMAIN PayloadOf
         /\ op \in DOMAIN PayloadOf => Ops[op].fmt = "kFmt31t"
<1>1. Ops[op].fmt \in Formats
  BY SMTT(60) DEF Ops, Row, Formats
<1>2. "switch" \in Ops[op].flags => op \in {"packed_switch", "sparse_switch"}
  BY SMTT(60) DEF Ops, Row, Go, May
<1>3. Ops["packed_switch"].fmt = "kFmt31t" /\ Ops["sparse_switch"].fmt = "kFmt31t"
  BY SMTT(60) DEF Ops, Row
<1>4. DOMAIN PayloadOf = {"packed_switch", "sparse_switch"}
  BY DEF PayloadOf
<1> QED
  BY <1>1, <1>2, <1>3, <1>4 DEF Flags

\* The opcodes that call.
LEMMA CallOps ==
  ASSUME NEW op \in DOMAIN Ops, "invoke" \in Flags(op)
  PROVE  /\ op \in {"invoke_virtual", "invoke_static", "invoke_virtual_range", "invoke_static_range"}
         /\ Ops[op].fmt = IF op \in {"invoke_virtual", "invoke_static"} THEN "kFmt35c" ELSE "kFmt3rc"
<1>1. op \in {"invoke_virtual", "invoke_static", "invoke_virtual_range", "invoke_static_range"}
  BY SMTT(60) DEF Ops, Row, Go, May, Flags
<1>2. /\ Ops["invoke_virtual"].fmt = "kFmt35c" /\ Ops["invoke_static"].fmt = "kFmt35c"
      /\ Ops["invoke_virtual_range"].fmt = "kFmt3rc" /\ Ops["invoke_static_range"].fmt = "kFmt3rc"
  BY SMTT(60) DEF Ops, Row
<1> QED
  BY <1>1, <1>2

\* A payload is not an opcode.
LEMMA PayloadsApart == Payloads \cap DOMAIN Ops = {}
BY SMTT(60) DEF Payloads, Ops, Row

\* The operands of an instruction of the method.
LEMMA OperandsAre ==
  ASSUME NEW i, OperandsOK(i), NEW k \in 1..Len(i.f)
  PROVE  LET fd == Fields(Ops[i.op].fmt)[k] IN
         /\ fd[1] \in FieldKinds /\ fd[2] \in Nat \ {0}
         /\ fd[1] \notin {"regs", "range"} => i.f[k] \in Nat /\ Signed(i.f[k], fd[2]) \in Int
<1> DEFINE fs == Fields(Ops[i.op].fmt)
<1>1. i.op \in DOMAIN Ops /\ Len(i.f) = Len(fs)
  BY DEF OperandsOK
<1>2. IsSeq(fs) /\ \A j \in 1..Len(fs) : fs[j][1] \in FieldKinds /\ fs[j][2] \in Nat \ {0}
  BY <1>1, FormatsAre, FieldsAre
<1>3. k \in DOMAIN fs
  BY <1>1, <1>2, SeqFacts
<1>4. fs[k][1] \notin {"regs", "range"} => i.f[k] \in 0..(2 ^ fs[k][2] - 1)
  BY <1>3 DEF OperandsOK
<1> HIDE DEF fs
<1>5. fs[k][1] \in FieldKinds /\ fs[k][2] \in Nat \ {0}
  BY <1>1, <1>2
<1>6. PICK b : b = fs[k][2]
  OBVIOUS
<1>7. b \in Nat /\ b - 1 \in Nat
  BY <1>5, <1>6
<1>8. 2 ^ b \in Int /\ 2 ^ (b - 1) \in Int
  BY <1>7
<1>9. \A v \in Nat : Signed(v, b) \in Int
  BY <1>8 DEF Signed
<1> QED
  BY <1>4, <1>5, <1>6, <1>9 DEF fs

\* A slot for the payload at o.
LEMMA SlotRaised ==
  ASSUME NEW r, Raised(r), NEW k \in {"packed", "sparse"}, NEW o \in Int, PayloadAt(o), NEW v,
         GoodSlot(v)
  PROVE  LET s == [r EXCEPT !.switches[k] = With(@, o, v)] IN
         Raised(s) /\ Extends(r, s) /\ s.node = r.node
<1> DEFINE s == [r EXCEPT !.switches[k] = With(@, o, v)]
<1>1. /\ Lir(s) /\ s.node = r.node
      /\ s.next = r.next /\ s.prev = r.prev /\ s.begin = r.begin
      /\ s.label = r.label /\ s.switches = [r.switches EXCEPT ![k] = With(@, o, v)]
      /\ s.begins = r.begins /\ s.ends = r.ends /\ s.dbgs = r.dbgs
  BY DEF Raised, Nodes, Lir
<1> HIDE DEF s
<1>2. Extends(r, s)
  BY <1>1, SameReflexive DEF Extends
<1>3. Nodes(s)
  BY <1>1 DEF Raised, Nodes
<1>4. r.switches \in [packed : {r.switches.packed}, sparse : {r.switches.sparse}]
  BY DEF Raised, Slots
<1>5. s.switches \in [packed : {s.switches.packed}, sparse : {s.switches.sparse}]
  BY <1>1, <1>4
<1>6. \A j \in {"packed", "sparse"} :
        s.switches[j] = IF j = k THEN With(r.switches[k], o, v) ELSE r.switches[j]
  BY <1>1, <1>4
<1>7. \A j \in {"packed", "sparse"} :
        DOMAIN s.switches[j] = IF j = k THEN DOMAIN r.switches[j] \cup {o} ELSE DOMAIN r.switches[j]
  BY <1>6 DEF With
<1>8. \A j \in {"packed", "sparse"} :
        /\ IsFiniteSet(DOMAIN r.switches[j]) /\ DOMAIN r.switches[j] \subseteq Int
        /\ \A x \in DOMAIN r.switches[j] : PayloadAt(x) /\ GoodSlot(r.switches[j][x])
  BY DEF Raised, Slots
<1>9. Slots(s)
  <2>1. ASSUME NEW j \in {"packed", "sparse"}, NEW x \in DOMAIN s.switches[j]
        PROVE  PayloadAt(x) /\ GoodSlot(s.switches[j][x])
    <3>1. j = k /\ x = o => s.switches[j][x] = v
      BY <1>6 DEF With
    <3>2. ~(j = k /\ x = o) => x \in DOMAIN r.switches[j] /\ s.switches[j][x] = r.switches[j][x]
      BY <1>6, <1>7 DEF With
    <3> QED
      BY <1>8, <3>1, <3>2
  <2> QED
    BY <1>5, <1>7, <1>8, <2>1, FS_AddElement DEF Slots
<1>10. Labels(s)
  BY <1>1, <1>2, LabelsKept DEF Raised
<1>11. /\ Queue(s, s.dbgs, "dbg") /\ Queue(s, s.begins, "try_begin")
       /\ Queue(s, s.ends, "try_end")
  BY <1>1, <1>2, QueueKept DEF Raised
<1> QED
  BY <1>1, <1>2, <1>3, <1>9, <1>10, <1>11 DEF s, Raised

\* Labels become aligned when a 31t instruction refers to them.
LEMMA AlignedRaised ==
  ASSUME NEW r, Raised(r), NEW l \in DOMAIN r.node
  PROVE  LET s == [r EXCEPT !.node[l].aligned = TRUE] IN
         /\ Raised(s) /\ Extends(r, s) /\ s.label = r.label /\ s.switches = r.switches
<1> DEFINE md == [r.node[l] EXCEPT !.aligned = TRUE]
<1>1. Nodes(r) /\ GoodNode(r.node[l])
  BY DEF Raised, Nodes
<1>2. GoodNode(md) /\ Same(r.node[l], md)
  BY <1>1 DEF GoodNode, Same, Stops
<1> HIDE DEF md
<1>3. LET s == [r EXCEPT !.node[l] = md] IN
      /\ Nodes(s) /\ Extends(r, s) /\ s.label = r.label /\ s.switches = r.switches
      /\ s.begins = r.begins /\ s.ends = r.ends /\ s.dbgs = r.dbgs
  BY <1>1, <1>2, UpdateNode
<1>4. [r EXCEPT !.node[l].aligned = TRUE] = [r EXCEPT !.node[l] = md]
  BY DEF md
<1> QED
  BY <1>3, <1>4, RaisedKept

\* A branch raises its label, and a switch the slot of its payload.
LEMMA BranchRaised ==
  ASSUME NEW r, Raised(r), NEW op \in DOMAIN Ops, NEW off \in Int, NEW rel, off + rel \in Int,
         op \in DOMAIN PayloadOf => PayloadAt(off + rel)
  PROVE  Raised(RaiseBranch(r, op, off, rel)) /\ Extends(r, RaiseBranch(r, op, off, rel))
<1> DEFINE to == off + rel
           a == GetLabel(r, to)
           l == a.label[to]
           b == IF Ops[op].fmt = "kFmt31t" THEN [a EXCEPT !.node[l].aligned = TRUE] ELSE a
           k == SwitchKind(op)
           c == Checked(b, Slot(b, k, to).base = Invalid)
           v == [Slot(b, k, to) EXCEPT !.base = off]
           e == [c EXCEPT !.switches[k] = With(@, to, v)]
<1>0. to \in Int
  OBVIOUS
<1> HIDE DEF to
<1>1. Raised(a) /\ Extends(r, a) /\ to \in DOMAIN a.label
  BY <1>0, GetLabelRaised
<1> HIDE DEF a
<1>2. l \in DOMAIN a.node
  BY <1>1 DEF Raised, Labels
<1> HIDE DEF l
<1>3. Raised(b) /\ Extends(a, b)
  BY <1>1, <1>2, AlignedRaised, ExtendsReflexive
<1>4. Extends(r, b)
  BY <1>1, <1>3, ExtendsTransitive
<1> HIDE DEF b
<1>5. CASE "switch" \notin Flags(op)
  <2>1. RaiseBranch(r, op, off, rel) = b
    BY <1>5 DEF RaiseBranch, a, b, l, to
  <2> QED
    BY <1>3, <1>4, <2>1
<1>6. CASE "switch" \in Flags(op)
  <2>1. op \in DOMAIN PayloadOf
    BY <1>6, FormatsAre
  <2>2. k \in {"packed", "sparse"}
    BY <2>1 DEF PayloadOf, SwitchKind
  <2>3. PayloadAt(to)
    BY <2>1 DEF to
  <2>4. Raised(c) /\ Extends(b, c) /\ c.switches = b.switches
    BY <1>3, CheckedRaised
  <2>5. RaiseBranch(r, op, off, rel) = e
    BY <1>6 DEF RaiseBranch, a, b, l, to
  <2>8. GoodSlot(Slot(b, k, to))
    BY <1>3, <2>2 DEF Raised, Slots, Slot, GoodSlot, Invalid
  <2>9. GoodSlot(v)
    BY <2>8 DEF GoodSlot
  <2> HIDE DEF c, v, k
  <2>6. Raised(e) /\ Extends(c, e)
    BY <1>0, <2>2, <2>3, <2>4, <2>9, SlotRaised
  <2> HIDE DEF e
  <2>7. Extends(r, e)
    BY <1>4, <2>4, <2>6, ExtendsTransitive
  <2> QED
    BY <2>5, <2>6, <2>7
<1> QED
  BY <1>5, <1>6

\* One operand.
LEMMA OperandRaised ==
  ASSUME NEW r, Raised(r), NEW i, OperandsOK(i), NEW off \in Int, NEW k \in 1..Len(i.f),
         i.op \in DOMAIN PayloadOf => PayloadAt(off + Signed(i.f[2], Bits32))
  PROVE  Raised(RaiseOperand(r, i, off, k).r) /\ Extends(r, RaiseOperand(r, i, off, k).r)
<1> DEFINE fd == Fields(Ops[i.op].fmt)[k]
           raw == i.f[k]
<1>1. fd[1] \in FieldKinds /\ fd[2] \in Nat \ {0}
      /\ (fd[1] \notin {"regs", "range"} => Signed(raw, fd[2]) \in Int)
  BY OperandsAre
<1>2. i.op \in DOMAIN Ops /\ Len(i.f) = Len(Fields(Ops[i.op].fmt))
  BY DEF OperandsOK
<1>3. CASE fd[1] = "reg"
  BY <1>3, VRegRaised DEF RaiseOperand
<1>4. CASE fd[1] \in {"const", "high", "index", "range"}
  <2>1. RaiseOperand(r, i, off, k).r = r
    BY <1>4 DEF RaiseOperand
  <2> QED
    BY <2>1, ExtendsReflexive
<1>5. CASE fd[1] = "regs"
  <2>1. RaiseOperand(r, i, off, k).r = Checked(r, Len(raw) <= 5)
    BY <1>5 DEF RaiseOperand
  <2> QED
    BY <2>1, CheckedRaised
<1>6. CASE fd[1] = "branch"
  <2>1. RaiseOperand(r, i, off, k).r = RaiseBranch(r, i.op, off, Signed(raw, fd[2]))
    BY <1>6 DEF RaiseOperand
  <2>2. Signed(raw, fd[2]) \in Int
    BY <1>1, <1>6
  <2>3. i.op \in DOMAIN PayloadOf => k = 2 /\ fd[2] = Bits32
    <3>1. ASSUME i.op \in DOMAIN PayloadOf PROVE k = 2 /\ fd[2] = Bits32
      <4>1. Fields(Ops[i.op].fmt) = <<<<"reg", Bits8>>, <<"branch", Bits32>>>>
        BY <1>2, <3>1, FormatsAre DEF Fields
      <4>2. k \in 1..2
        BY <1>2, <4>1
      <4> QED
        BY <1>6, <4>1, <4>2
    <3> QED
      BY <3>1
  <2>4. off + Signed(raw, fd[2]) \in Int
    BY <2>2
  <2> QED
    BY <1>2, <2>1, <2>3, <2>4, BranchRaised
<1> QED
  BY <1>1, <1>3, <1>4, <1>5, <1>6 DEF FieldKinds

\* The node of an instruction of the method.
Original(nd, j) ==
  /\ nd.org = j /\ nd.kind \in Instructions
  /\ method.insns[j].op \in Payloads \/ Leaves(method.insns[j].op) => Stops(nd)

\* The arguments of a call are raised as they are.
Passes1(i, arg) ==
  LET kind == Fields(Ops[i.op].fmt)[1][1] IN kind \in {"regs", "range"} => arg = <<kind, i.f[1]>>

\* The node of a call of the method is a call.
LEMMA CallRaised ==
  ASSUME NEW i, OperandsOK(i), NEW args, Len(args) = Len(i.f), Len(i.f) >= 1 => Passes1(i, args[1])
  PROVE  Calling(i.op, args)
<1> SUFFICES ASSUME "invoke" \in Flags(i.op)
             PROVE  /\ Len(args) = 2
                    /\ IF Ops[i.op].fmt = "kFmt3rc"
                       THEN \E b : \E c \in Nat : args[1] = <<"range", <<b, c>>>>
                       ELSE \E t : IsSeq(t) /\ args[1] = <<"regs", t>>
  BY DEF Calling
<1> DEFINE fs == Fields(Ops[i.op].fmt)
<1>1. i.op \in DOMAIN Ops /\ Len(i.f) = Len(fs)
  BY DEF OperandsOK
<1>2. CASE Ops[i.op].fmt = "kFmt35c"
  <2>1. fs = <<<<"regs", Bits4>>, <<"index", Bits16>>>>
    BY <1>2 DEF Fields
  <2>2. i.f[1] \in Seq(Nat)
    BY <2>1 DEF OperandsOK
  <2>3. Len(args) = 2 /\ args[1] = <<"regs", i.f[1]>>
    BY <1>1, <2>1 DEF Passes1
  <2> QED
    BY <1>2, <2>2, <2>3 DEF IsSeq
<1>3. CASE Ops[i.op].fmt = "kFmt3rc"
  <2>1. fs = <<<<"range", Bits16>>, <<"index", Bits16>>>>
    BY <1>3 DEF Fields
  <2>2. i.f[1] \in Nat \X Nat
    BY <2>1 DEF OperandsOK
  <2>3. Len(args) = 2 /\ args[1] = <<"range", i.f[1]>>
    BY <1>1, <2>1 DEF Passes1
  <2> QED
    BY <1>3, <2>2, <2>3
<1> QED
  BY <1>1, <1>2, <1>3, CallOps

\* Operands are raised one by one.
Decoding(z, k, a) ==
  /\ Raised(a.r) /\ Extends(z.r, a.r) /\ IsSeq(a.args) /\ Len(a.args) = k
  /\ k >= 1 => Passes1(z.i, a.args[1])
OnOperands == INSTANCE FoldInduction WITH Op <- AddOperand, Inv <- Decoding

\* A switch refers to a payload.
Refers(i, off) == i.op \in DOMAIN PayloadOf => PayloadAt(off + Signed(i.f[2], Bits32))

\* DecodeBytecode gives one new node, for its instruction.
LEMMA DecodeBytecodeRaised ==
  ASSUME NEW r, Raised(r), NEW i, OperandsOK(i), i.org \in Nat, NEW off \in Int,
         Refers(i, off)
  PROVE  LET s == DecodeBytecode(r, i, off)
             nd == s.node[Newest(s)] IN
         /\ Raised(s) /\ Extends(r, s)
         /\ Newest(s) \in DOMAIN s.node /\ Newest(s) \notin DOMAIN r.node /\ Newest(s) \in Nat
         /\ nd.kind = "code" /\ nd.op = i.op /\ nd.org = i.org
<1> DEFINE b == [r |-> r, args |-> <<>>]
           ks == [k \in 1..Len(i.f) |-> k]
           all == OnOperands!Fold(i, off, b, ks)
           nd == CodeNode(i.op, all.args, off, i.org)
           z == [r |-> r, i |-> i]
<1>1. Len(i.f) \in Nat /\ DOMAIN ks = 1..Len(i.f) /\ i.op \in DOMAIN Ops
  BY DEF OperandsOK, IsSequence
<1>2. Decoding(z, 0, b)
  <2>1. <<>> \in Seq({})
    OBVIOUS
  <2> QED
    BY <2>1, ExtendsReflexive DEF Decoding, IsSeq
<1>3. ASSUME NEW k \in 1..Len(i.f), NEW a, Decoding(z, k - 1, a)
      PROVE  Decoding(z, k, AddOperand(i, off, a, ks[k]))
  <2> DEFINE o == RaiseOperand(a.r, i, off, k)
  <2>1. /\ Raised(a.r) /\ Extends(r, a.r) /\ IsSeq(a.args) /\ Len(a.args) = k - 1
        /\ k - 1 >= 1 => Passes1(i, a.args[1])
    BY <1>3 DEF Decoding
  <2>7. k = 1 => Passes1(i, o.arg)
    <3> DEFINE fd == Fields(Ops[i.op].fmt)[k]
    <3>1. fd[1] = "regs" => o.arg = <<"regs", i.f[k]>>
      BY DEF RaiseOperand
    <3>2. fd[1] = "range" => o.arg = <<"range", i.f[k]>>
      BY DEF RaiseOperand
    <3> HIDE DEF o
    <3> QED
      BY <3>1, <3>2 DEF Passes1
  <2>2. Raised(o.r) /\ Extends(a.r, o.r)
    BY <2>1, OperandRaised DEF Refers
  <2>3. AddOperand(i, off, a, ks[k]) = [r |-> o.r, args |-> Append(a.args, o.arg)]
    BY DEF AddOperand
  <2> HIDE DEF o
  <2>4. Extends(r, o.r) /\ IsSeq(Append(a.args, o.arg))
    BY <2>1, <2>2, ExtendsTransitive, SeqFacts
  <2>5. PICK t : t = AddOperand(i, off, a, ks[k])
    OBVIOUS
  <2>6. t.r = o.r /\ t.args = Append(a.args, o.arg)
    BY <2>3, <2>5
  <2>8. Len(t.args) = k /\ t.args[k] = o.arg /\ (k - 1 >= 1 => t.args[1] = a.args[1])
    BY <1>1, <2>1, <2>6, SeqFacts
  <2>9. k >= 1 => Passes1(i, t.args[1])
    BY <1>1, <2>1, <2>7, <2>8
  <2> QED
    BY <2>2, <2>4, <2>5, <2>6, <2>8, <2>9 DEF Decoding
<1>4. DecodeBytecode(r, i, off) = Alloc(all.r, nd)
  BY DEF DecodeBytecode, OnOperands!Fold, FoldLeft, MapThenFoldSet, Max,
        OnOperands!MapThenFoldSet, OnOperands!Largest
<1> HIDE DEF b, ks
<1>5. Decoding(z, Len(i.f), all)
  BY <1>1, <1>2, <1>3, OnOperands!FoldInvariant, Smallest
<1> HIDE DEF all
<1>6. /\ Raised(all.r) /\ Extends(r, all.r) /\ IsSeq(all.args)
      /\ Len(all.args) = Len(i.f) /\ (Len(i.f) >= 1 => Passes1(i, all.args[1]))
  BY <1>5 DEF Decoding
<1>11. Calling(i.op, all.args)
  BY <1>6, CallRaised
<1>7. GoodNode(nd) /\ nd.kind = "code" /\ nd.op = i.op /\ nd.org = i.org
  BY <1>1, <1>6, <1>11 DEF GoodNode, CodeNode, Instructions
<1> HIDE DEF nd
<1> DEFINE s == Alloc(all.r, nd)
<1>8. /\ Raised(s) /\ Extends(all.r, s)
      /\ Newest(s) \in DOMAIN s.node /\ Newest(s) \notin DOMAIN all.r.node /\ Newest(s) \in Nat
      /\ s.node[Newest(s)] = nd
  BY <1>6, <1>7, AllocRaised
<1> HIDE DEF s
<1>9. Extends(r, s)
  BY <1>6, <1>8, ExtendsTransitive
<1>10. Newest(s) \notin DOMAIN r.node
  BY <1>6, <1>8 DEF Extends
<1> QED
  BY <1>4, <1>7, <1>8, <1>9, <1>10 DEF s

\* DecodeArrayData gives one new node, for its payload.
LEMMA DecodeArrayDataRaised ==
  ASSUME NEW r, Raised(r), NEW i, i.org \in Nat, i.keys[1] \in Nat, NEW off
  PROVE  LET s == DecodeArrayData(r, i, off)
             nd == s.node[Newest(s)] IN
         /\ Raised(s) /\ Extends(r, s)
         /\ Newest(s) \in DOMAIN s.node /\ Newest(s) \notin DOMAIN r.node /\ Newest(s) \in Nat
         /\ nd.kind = "array" /\ nd.org = i.org
<1> DEFINE c == Checked(r, off % 2 = 0)
           nd == [kind |-> "array", keys |-> i.keys, off |-> off, org |-> i.org]
           s == Alloc(c, nd)
<1>1. Raised(c) /\ Extends(r, c) /\ c.node = r.node
  BY CheckedRaised
<1>2. GoodNode(nd) /\ nd.kind = "array" /\ nd.org = i.org
  BY DEF GoodNode, Instructions
<1>3. s = DecodeArrayData(r, i, off)
  BY DEF DecodeArrayData
<1> HIDE DEF c, nd
<1>4. /\ Raised(s) /\ Extends(c, s)
      /\ Newest(s) \in DOMAIN s.node /\ Newest(s) \notin DOMAIN c.node /\ Newest(s) \in Nat
      /\ s.node[Newest(s)] = nd
  BY <1>1, <1>2, AllocRaised
<1> HIDE DEF s
<1>5. Extends(r, s)
  BY <1>1, <1>4, ExtendsTransitive
<1> QED
  BY <1>1, <1>2, <1>3, <1>4, <1>5

\* DecodeSwitch gives one new node, for its payload.
LEMMA DecodeSwitchRaised ==
  ASSUME NEW r, Raised(r), NEW i, i.org \in Nat, NEW off \in Int, PayloadAt(off),
         i.op \in {"packed_payload", "sparse_payload"}
  PROVE  LET s == DecodeSwitch(r, i, off)
             nd == s.node[Newest(s)] IN
         /\ Raised(s) /\ Extends(r, s)
         /\ Newest(s) \in DOMAIN s.node /\ Newest(s) \notin DOMAIN r.node /\ Newest(s) \in Nat
         /\ nd.kind \in {"packed", "sparse"} /\ nd.org = i.org
<1> DEFINE k == SwitchKind(i.op)
           sl == Slot(r, k, off)
           c == Checked(r, off % 2 = 0 /\ sl.instr = Nil)
           nd == [kind |-> k, keys |-> i.keys, to |-> <<>>, off |-> off, org |-> i.org]
           a == Alloc(c, nd)
           v == [sl EXCEPT !.instr = Newest(a)]
           s == [a EXCEPT !.switches[k] = With(@, off, v)]
<1>1. s = DecodeSwitch(r, i, off)
  BY DEF DecodeSwitch
<1>2. k \in {"packed", "sparse"}
  BY DEF SwitchKind
<1>3. GoodSlot(sl)
  BY <1>2 DEF Raised, Slots, Slot, GoodSlot, Invalid
<1> HIDE DEF k, sl
<1>4. Raised(c) /\ Extends(r, c) /\ c.node = r.node
  BY CheckedRaised
<1>5. GoodNode(nd) /\ nd.kind = k /\ nd.org = i.org
  BY <1>2, ShortSeqs DEF GoodNode, Instructions
<1> HIDE DEF c, nd
<1>6. /\ Raised(a) /\ Extends(c, a)
      /\ Newest(a) \in DOMAIN a.node /\ Newest(a) \notin DOMAIN c.node /\ Newest(a) \in Nat
      /\ a.node[Newest(a)] = nd
  BY <1>4, <1>5, AllocRaised
<1> HIDE DEF a
<1>7. GoodSlot(v)
  BY <1>3 DEF GoodSlot
<1> HIDE DEF v
<1>8. Raised(s) /\ Extends(a, s) /\ s.node = a.node
  BY <1>2, <1>6, <1>7, SlotRaised
<1> HIDE DEF s
<1>9. Extends(r, a)
  BY <1>4, <1>6, ExtendsTransitive
<1>10. Extends(r, s)
  BY <1>8, <1>9, ExtendsTransitive
<1>11. Newest(s) = Newest(a)
  BY <1>8 DEF Newest
<1> QED
  BY <1>1, <1>2, <1>4, <1>5, <1>6, <1>8, <1>10, <1>11

\* Offsets are sums of widths.
AddWidth(x, y, a, e) == a + Width(x[e])
IsOffset(z, k, s) == OffsetOf(s, k + 1) \in Nat
OnOffsets == INSTANCE FoldInduction WITH Op <- AddWidth, Inv <- IsOffset
SameOffset(z, k, s) == OffsetOf(s, k + 1) = OffsetOf(z, k + 1)
OnEqualWidths == INSTANCE FoldInduction WITH Op <- AddWidth, Inv <- SameOffset

\* The offset of the first instruction, and of the one after each.
LEMMA OffsetsGrow ==
  ASSUME NEW insns, Len(insns) \in Nat
  PROVE  /\ OffsetOf(insns, 1) = 0
         /\ \A i \in 1..Len(insns) : OffsetOf(insns, i + 1) = OffsetOf(insns, i) + Width(insns[i])
<1>1. PICK f : f = OnOffsets!Recursive(insns, insns, 0, Len(insns))
  OBVIOUS
<1>2. \A i : OffsetOf(insns, i) = f[i - 1]
  BY <1>1 DEF OffsetOf, OnOffsets!Recursive, AddWidth
<1>3. f[0] = 0 /\ \A k \in 1..Len(insns) : f[k] = AddWidth(insns, insns, f[k - 1], k)
  BY <1>1, OnOffsets!RecursiveValues, Smallest
<1>4. \A k \in 1..Len(insns) : f[k] = f[k - 1] + Width(insns[k])
  BY <1>3 DEF AddWidth
<1>5. \A i \in 1..Len(insns) : i + 1 - 1 = i
  OBVIOUS
<1> QED
  BY <1>2, <1>3, <1>4, <1>5

\* Sequences of equal widths have equal offsets.
LEMMA OffsetsAgree ==
  ASSUME NEW s, NEW t, Len(s) \in Nat, Len(t) \in Nat, Len(s) <= Len(t),
         \A k \in 1..Len(s) : Width(t[k]) = Width(s[k])
  PROVE  \A i \in 1..(Len(s) + 1) : OffsetOf(t, i) = OffsetOf(s, i)
<1>1. SameOffset(s, 0, t)
  BY OffsetsGrow DEF SameOffset
<1>2. ASSUME NEW k \in 0..(Len(s) - 1), SameOffset(s, k, t) PROVE SameOffset(s, k + 1, t)
  <2>1. k + 1 \in 1..Len(s) /\ k + 1 \in 1..Len(t)
    OBVIOUS
  <2>2. /\ OffsetOf(s, k + 1 + 1) = OffsetOf(s, k + 1) + Width(s[k + 1])
        /\ OffsetOf(t, k + 1 + 1) = OffsetOf(t, k + 1) + Width(t[k + 1])
    BY <2>1, OffsetsGrow
  <2> QED
    BY <1>2, <2>1, <2>2 DEF SameOffset
<1>3. \A k \in 0..Len(s) : SameOffset(s, k, t)
  BY <1>1, <1>2, OnEqualWidths!Induction, Smallest
<1>4. \A i \in 1..(Len(s) + 1) : i - 1 \in 0..Len(s) /\ i - 1 + 1 = i
  OBVIOUS
<1> QED
  BY <1>3, <1>4 DEF SameOffset

\* An instruction has a width.
LEMMA WidthPositive ==
  ASSUME NEW i, IF i.op \in Payloads THEN PayloadOK(i) ELSE OperandsOK(i)
  PROVE  Width(i) \in Nat \ {0}
<1>1. CASE i.op \in Payloads
  <2>1. Len(i.to) \in Nat
    BY <1>1 DEF PayloadOK
  <2>2. i.op = "array_payload" => i.keys[1] \in Nat
    BY <1>1 DEF PayloadOK
  <2>3. \A v \in Nat : 4 + (v + 1) \div 2 \in Nat \ {0}
    OBVIOUS
  <2>4. \A v \in Nat : 4 + 2 * v \in Nat \ {0} /\ 2 + 4 * v \in Nat \ {0}
    OBVIOUS
  <2> QED
    BY <1>1, <2>1, <2>2, <2>3, <2>4 DEF Width, Payloads
<1>2. CASE i.op \notin Payloads
  <2>1. Width(i) = WidthOf(Ops[i.op].fmt)
    BY <1>2 DEF Width, Payloads
  <2>2. PICK f : f = Ops[i.op].fmt
    OBVIOUS
  <2>3. WidthOf(f) \in {1, 2, 3, 5}
    BY DEF WidthOf
  <2> QED
    BY <2>1, <2>2, <2>3
<1> QED
  BY <1>1, <1>2

\* The offset of the first instruction, and of the one after each.
LEMMA OffsetsAre ==
  ASSUME NEW insns, InstructionsOK(insns)
  PROVE  /\ OffsetOf(insns, 1) = 0
         /\ \A i \in 1..Len(insns) : OffsetOf(insns, i + 1) = OffsetOf(insns, i) + Width(insns[i])
         /\ \A i \in 1..(Len(insns) + 1) : OffsetOf(insns, i) \in Nat
<1>1. Len(insns) \in Nat /\ DOMAIN insns = 1..Len(insns)
  BY DEF InstructionsOK, IsSequence
<1>2. /\ OffsetOf(insns, 1) = 0
      /\ \A i \in 1..Len(insns) : OffsetOf(insns, i + 1) = OffsetOf(insns, i) + Width(insns[i])
  BY <1>1, OffsetsGrow
<1>3. \A k \in 1..Len(insns) : Width(insns[k]) \in Nat
  BY <1>1, WidthPositive DEF InstructionsOK
<1>4. IsOffset(0, 0, insns)
  BY <1>2 DEF IsOffset
<1>5. ASSUME NEW k \in 0..(Len(insns) - 1), IsOffset(0, k, insns)
      PROVE  IsOffset(0, k + 1, insns)
  <2>1. k + 1 \in 1..Len(insns)
    BY <1>1
  <2>2. OffsetOf(insns, k + 1 + 1) = OffsetOf(insns, k + 1) + Width(insns[k + 1])
    BY <1>2, <2>1
  <2> QED
    BY <1>3, <1>5, <2>1, <2>2 DEF IsOffset
<1>6. \A k \in 0..Len(insns) : IsOffset(0, k, insns)
  BY <1>1, <1>4, <1>5, OnOffsets!Induction, Smallest
<1>7. \A i \in 1..(Len(insns) + 1) : i - 1 \in 0..Len(insns) /\ i - 1 + 1 = i
  BY <1>1
<1> QED
  BY <1>2, <1>6, <1>7 DEF IsOffset

Given == \E j \in Jobs : method = j.method /\ plan = j.plan

\* What the assumption on Jobs says of the method in hand.
LEMMA GivenOK ==
  ASSUME Given
  PROVE  /\ InstructionsOK(method.insns) /\ TriesOK(method) /\ DebugOK(method.debug)
         /\ method.params \in Seq({"wide", "reference", "scalar"}) /\ method.ins \in Nat
BY JobsAssumption DEF Given

\* d holds the nodes of the first k instructions of the method.
Raw(r, d, k) == IsList(r, d, k) /\ \A i \in 1..k : Original(r.node[d[i]], i)

\* The same links are the same list.
LEMMA ListKept ==
  ASSUME NEW r, NEW s, Extends(r, s), NEW d, NEW m, IsList(r, d, m)
  PROVE  IsList(s, d, m)
BY DEF Extends, IsList

\* What only extends the code IR leaves the raised list.
LEMMA RawKept ==
  ASSUME NEW r, NEW s, Extends(r, s), NEW d, NEW m, Raw(r, d, m)
  PROVE  Raw(s, d, m)
<1>1. IsList(s, d, m)
  BY ListKept DEF Raw
<1>2. \A i \in 1..m : Same(r.node[d[i]], s.node[d[i]])
  BY DEF Raw, IsList, Extends
<1>3. \A i \in 1..m : Original(s.node[d[i]], i)
  BY <1>2 DEF Raw, Original, Same
<1> QED
  BY <1>1, <1>3 DEF Raw

\* An insertion into the list leaves the rest raised.
LEMMA InsertRaised ==
  ASSUME NEW r, Raised(r), NEW pos, NEW p
  PROVE  Raised(InsertBefore(r, pos, p))
<1> DEFINE s == InsertBefore(r, pos, p)
<1>1. /\ Lir(s) /\ s.node = r.node /\ s.label = r.label
      /\ s.switches = r.switches /\ s.begins = r.begins /\ s.ends = r.ends /\ s.dbgs = r.dbgs
  BY InsertKeeps DEF Raised, Nodes
<1> HIDE DEF s
<1>2. Nodes(s) /\ Labels(s) /\ Slots(s)
  BY <1>1 DEF Raised, Nodes, Labels, Slots
<1>3. /\ Queue(s, s.dbgs, "dbg") /\ Queue(s, s.begins, "try_begin")
      /\ Queue(s, s.ends, "try_end")
  BY <1>1 DEF Raised, Queue
<1> QED
  BY <1>2, <1>3 DEF s, Raised

Decoded(r, i, off) ==
  CASE i.op \in {"packed_payload", "sparse_payload"} -> DecodeSwitch(r, i, off)
    [] i.op = "array_payload" -> DecodeArrayData(r, i, off)
    [] OTHER -> DecodeBytecode(r, i, off)

\* Raising instruction k adds its node at the end.
LEMMA DecodedRaw ==
  ASSUME Given, NEW k \in 1..Len(method.insns), NEW r, Raised(r), NEW d, Raw(r, d, k - 1)
  PROVE  LET a == Decoded(r, method.insns[k], OffsetOf(method.insns, k))
             s == InsertBefore(a, 0, Newest(a))
         IN Raised(s) /\ \E e : Raw(s, e, k)
<1> DEFINE i == method.insns[k]
           off == OffsetOf(method.insns, k)
           a == Decoded(r, i, off)
           p == Newest(a)
           s == InsertBefore(a, 0, p)
           e == Put(d, k - 1, k, p)
<1>1. /\ IsSequence(method.insns) /\ k \in DOMAIN method.insns
      /\ DOMAIN method.insns = 1..Len(method.insns) /\ Len(method.insns) \in Nat
  BY GivenOK DEF InstructionsOK, IsSequence
<1>2. /\ i.org = k
      /\ IF i.op \in Payloads THEN PayloadOK(i) ELSE OperandsOK(i)
      /\ i.op \in DOMAIN PayloadOf =>
           \E l \in DOMAIN method.insns :
             /\ method.insns[l].op = PayloadOf[i.op]
             /\ OffsetOf(method.insns, l) = off + Signed(i.f[2], Bits32)
  BY <1>1, GivenOK DEF InstructionsOK
<1>3. off \in Nat /\ k \in Nat
  BY <1>1, GivenOK, OffsetsAre
<1>4. i.op \in Payloads => PayloadAt(off)
  BY <1>1 DEF PayloadAt
<1>5. Refers(i, off)
  <2>1. \A op \in DOMAIN PayloadOf : PayloadOf[op] \in Payloads
    BY DEF PayloadOf, Payloads
  <2> QED
    BY <1>2, <2>1 DEF PayloadAt, Refers
<1>6. /\ Raised(a) /\ Extends(r, a)
      /\ p \in DOMAIN a.node /\ p \notin DOMAIN r.node /\ p \in Nat
      /\ Original(a.node[p], k)
  <2> HIDE DEF off
  <2>1. CASE i.op \in {"packed_payload", "sparse_payload"}
    <3>1. a = DecodeSwitch(r, i, off)
      BY <2>1 DEF Decoded
    <3> QED
      BY <1>2, <1>3, <1>4, <2>1, <3>1, DecodeSwitchRaised
      DEF Original, Instructions, Stops, Payloads
  <2>2. CASE i.op = "array_payload"
    <3>1. a = DecodeArrayData(r, i, off)
      BY <2>2 DEF Decoded
    <3> QED
      <4>1. /\ Raised(a) /\ Extends(r, a)
            /\ p \in DOMAIN a.node /\ p \notin DOMAIN r.node /\ p \in Nat
            /\ a.node[p].kind = "array" /\ a.node[p].org = i.org
        <5>1. i.keys[1] \in Nat /\ i.org \in Nat
          BY <1>2, <1>3, <2>2 DEF Payloads, PayloadOK
        <5> HIDE DEF i
        <5> QED
          BY <1>3, <3>1, <5>1, DecodeArrayDataRaised
      <4> HIDE DEF a, p, i
      <4> QED
        BY <1>2, <4>1 DEF Original, Instructions, Stops
  <2>3. CASE i.op \notin Payloads
    <3>1. a = DecodeBytecode(r, i, off)
      BY <2>3 DEF Decoded, Payloads
    <3>2. i.org \in Nat /\ off \in Int /\ OperandsOK(i)
      BY <1>2, <1>3, <2>3
    <3>3. /\ Raised(a) /\ Extends(r, a)
          /\ p \in DOMAIN a.node /\ p \notin DOMAIN r.node /\ p \in Nat
          /\ a.node[p].kind = "code" /\ a.node[p].op = i.op /\ a.node[p].org = i.org
      <4> HIDE DEF i, a
      <4> DEFINE b == DecodeBytecode(r, i, off)
      <4>1. /\ Raised(b) /\ Extends(r, b)
            /\ Newest(b) \in DOMAIN b.node /\ Newest(b) \notin DOMAIN r.node /\ Newest(b) \in Nat
            /\ b.node[Newest(b)].kind = "code" /\ b.node[Newest(b)].op = i.op
            /\ b.node[Newest(b)].org = i.org
        BY <1>5, <3>2, DecodeBytecodeRaised
      <4> QED
        BY <3>1, <4>1
    <3> QED
      BY <1>2, <2>3, <3>3 DEF Original, Instructions, Stops
  <2> QED
    BY <2>1, <2>2, <2>3 DEF Payloads
<1> HIDE DEF a, p, i, off
<1>7. Raw(a, d, k - 1)
  BY <1>6, RawKept
<1>8. IsList(a, d, k - 1) /\ d[k] = 0 /\ k - 1 \in Nat /\ k - 1 + 1 = k /\ k \in 1..(k - 1 + 1)
  BY <1>3, <1>7 DEF Raw, IsList
<1>9. \A j \in 1..(k - 1 + 1) : d[j] # p
  <2>0. 0 \notin DOMAIN a.node
    BY <1>6, SeqFacts DEF Raised, Nodes
  <2> TAKE j \in 1..(k - 1 + 1)
  <2>1. j = k \/ j \in 1..(k - 1)
    BY <1>3
  <2>2. j \in 1..(k - 1) => d[j] \in DOMAIN r.node
    BY DEF Raw, IsList
  <2> QED
    BY <1>6, <1>8, <2>0, <2>1, <2>2
<1>10. Lir(a)
  BY <1>6 DEF Raised, Nodes
<1>11. IsList(s, e, k)
  <2>1. IsList(InsertBefore(a, d[k], p), Put(d, k - 1, k, p), k - 1 + 1)
    BY <1>6, <1>8, <1>9, <1>10, InsertInList
  <2> QED
    BY <1>8, <2>1
<1>12. Raised(s) /\ s.node = a.node
  BY <1>6, <1>10, InsertRaised, InsertKeeps
<1>13. \A j \in 1..k : Original(s.node[e[j]], j)
  <2> TAKE j \in 1..k
  <2>1. j \in 1..(k - 1 + 2) /\ (j < k \/ j = k)
    BY <1>3
  <2>2. e[j] = IF j < k THEN d[j] ELSE p
    BY <2>1 DEF Put
  <2>3. j < k => j \in 1..(k - 1)
    BY <1>3
  <2> HIDE DEF e, s
  <2> QED
    BY <1>6, <1>7, <1>12, <2>1, <2>2, <2>3 DEF Raw
<1>14. Raw(s, e, k)
  BY <1>11, <1>13 DEF Raw
<1> QED
  BY <1>12, <1>14 DEF a, p, i, off

-----------------------------------------------------------------------------
(* Raising the try blocks and the debug events.                            *)

\* A node joins a queue.
LEMMA QueueAppend ==
  ASSUME NEW r, NEW s, NEW q, NEW kind, Queue(r, q, kind), Extends(r, s),
         NEW p \in DOMAIN s.node, p \notin DOMAIN r.node, s.node[p].kind = kind
  PROVE  Queue(s, Append(q, p), kind)
<1>1. Queue(s, q, kind)
  BY QueueKept
<1>2. q \in Seq(DOMAIN s.node) /\ q \in Seq(DOMAIN r.node) /\ Len(q) \in Nat
  BY <1>1 DEF Queue
<1>3. \A k \in 1..Len(q) : q[k] # p
  BY <1>2, ElementOfSeq
<1>4. PICK t : t = Append(q, p)
  OBVIOUS
<1>5. /\ t \in Seq(DOMAIN s.node) /\ Len(t) = Len(q) + 1 /\ t[Len(q) + 1] = p
      /\ \A i \in 1..Len(q) : t[i] = q[i]
  BY <1>2, <1>4
<1>6. \A i \in 1..(Len(q) + 1) : i \in 1..Len(q) \/ i = Len(q) + 1
  BY <1>2
<1>7. \A i \in 1..Len(t) : s.node[t[i]].kind = kind
  BY <1>1, <1>5, <1>6 DEF Queue
<1>8. \A i, j \in 1..Len(t) : t[i] = t[j] => i = j
  BY <1>1, <1>3, <1>5, <1>6 DEF Queue
<1> QED
  BY <1>4, <1>5, <1>7, <1>8 DEF Queue

\* The queues of r.
SameQueues(r, s) == s.begins = r.begins /\ s.ends = r.ends /\ s.dbgs = r.dbgs

HandlerStep(x, y, a, e) == AddHandler(a, e)
RaisingHandlers(z, k, a) == Raised(a.r) /\ Extends(z, a.r) /\ SameQueues(z, a.r)
OnHandlers == INSTANCE FoldInduction WITH Op <- HandlerStep, Inv <- RaisingHandlers

\* The handlers of a try block.
LEMMA HandlersRaised ==
  ASSUME NEW r, Raised(r), NEW hs, IsSequence(hs), \A h \in DOMAIN hs : hs[h][2] \in Int
  PROVE  LET s == RaiseHandlers(r, hs).r IN Raised(s) /\ Extends(r, s) /\ SameQueues(r, s)
<1> DEFINE b == [r |-> r, hs |-> <<>>]
           all == OnHandlers!Fold(0, 0, b, hs)
<1>1. RaiseHandlers(r, hs) = all
  BY DEF RaiseHandlers, HandlerStep, OnHandlers!Fold, FoldLeft, MapThenFoldSet, Max,
         OnHandlers!MapThenFoldSet, OnHandlers!Largest
<1>2. Len(hs) \in Nat /\ DOMAIN hs = 1..Len(hs)
  BY DEF IsSequence
<1>3. RaisingHandlers(r, 0, b)
  BY ExtendsReflexive DEF RaisingHandlers, SameQueues
<1>4. ASSUME NEW k \in 1..Len(hs), NEW a, RaisingHandlers(r, k - 1, a)
      PROVE  RaisingHandlers(r, k, HandlerStep(0, 0, a, hs[k]))
  <2> DEFINE g == GetLabel(a.r, hs[k][2])
  <2>1. HandlerStep(0, 0, a, hs[k]).r = g
    BY DEF HandlerStep, AddHandler
  <2>2. Raised(a.r) /\ Extends(r, a.r) /\ SameQueues(r, a.r) /\ hs[k][2] \in Int
    BY <1>2, <1>4 DEF RaisingHandlers
  <2>3. Raised(g) /\ Extends(a.r, g) /\ SameQueues(a.r, g)
    BY <2>2, GetLabelRaised DEF SameQueues
  <2> HIDE DEF g
  <2>4. Extends(r, g)
    BY <2>2, <2>3, ExtendsTransitive
  <2> QED
    BY <2>1, <2>2, <2>3, <2>4 DEF RaisingHandlers, SameQueues
<1> HIDE DEF b
<1>5. RaisingHandlers(r, Len(hs), all)
  BY <1>2, <1>3, <1>4, OnHandlers!FoldInvariant, Smallest
<1> QED
  BY <1>1, <1>5 DEF RaisingHandlers

\* One try block.
LEMMA TryRaised ==
  ASSUME NEW r, Raised(r), NEW t, t.start \in Nat, t.count \in Nat \ {0}, t.all \in Int,
         IsSequence(t.handlers), \A h \in DOMAIN t.handlers : t.handlers[h][2] \in Int
  PROVE  Raised(RaiseTry(r, t)) /\ Extends(r, RaiseTry(r, t))
<1> DEFINE nb == [kind |-> "try_begin", off |-> t.start, org |-> 0]
           b == Alloc(r, nb)
           h == RaiseHandlers(b, t.handlers)
           c == IF t.all = Invalid THEN h.r ELSE GetLabel(h.r, t.all)
           f == Checked(c, t.handlers # <<>> \/ t.all # Invalid)
           ne == [kind |-> "try_end", off |-> t.start + t.count, begin |-> Newest(b), org |-> 0,
                  handlers |-> h.hs, all |-> IF t.all = Invalid THEN Nil ELSE c.label[t.all]]
           e == Alloc(f, ne)
           s == [e EXCEPT !.begins = Append(@, Newest(b)), !.ends = Append(@, Newest(e))]
<1>1. RaiseTry(r, t) = s
  BY DEF RaiseTry
<1>2. GoodNode(nb) /\ nb.kind = "try_begin"
  BY DEF GoodNode, Instructions
<1>3. GoodNode(ne) /\ ne.kind = "try_end"
  BY DEF GoodNode, Instructions
<1> HIDE DEF nb, ne
<1>4. /\ Raised(b) /\ Extends(r, b) /\ SameQueues(r, b) /\ b.node[Newest(b)] = nb
      /\ Newest(b) \in DOMAIN b.node /\ Newest(b) \notin DOMAIN r.node
  BY <1>2, AllocRaised DEF SameQueues
<1> HIDE DEF b
<1>5. Raised(h.r) /\ Extends(b, h.r) /\ SameQueues(b, h.r)
  BY <1>4, HandlersRaised
<1> HIDE DEF h
<1>6. Raised(c) /\ Extends(h.r, c) /\ SameQueues(h.r, c)
  BY <1>5, GetLabelRaised, ExtendsReflexive DEF SameQueues
<1> HIDE DEF c
<1>7. Raised(f) /\ Extends(c, f) /\ SameQueues(c, f)
  BY <1>6, CheckedRaised DEF SameQueues
<1> HIDE DEF f
<1>8. /\ Raised(e) /\ Extends(f, e) /\ SameQueues(f, e) /\ e.node[Newest(e)] = ne
      /\ Newest(e) \in DOMAIN e.node /\ Newest(e) \notin DOMAIN f.node
  BY <1>3, <1>7, AllocRaised DEF SameQueues
<1> HIDE DEF e
<1>9. Extends(b, f)
  BY <1>5, <1>6, <1>7, ExtendsTransitive
<1>10. Extends(r, f) /\ Extends(b, e)
  BY <1>4, <1>8, <1>9, ExtendsTransitive
<1>11. Extends(r, e)
  BY <1>8, <1>10, ExtendsTransitive
<1>12. e.begins = r.begins /\ e.ends = r.ends /\ e.dbgs = r.dbgs
  BY <1>4, <1>5, <1>6, <1>7, <1>8 DEF SameQueues
<1>13. /\ Lir(s) /\ s.node = e.node /\ s.next = e.next /\ s.prev = e.prev /\ s.begin = e.begin
       /\ s.label = e.label /\ s.switches = e.switches /\ s.dbgs = e.dbgs
       /\ s.begins = Append(e.begins, Newest(b)) /\ s.ends = Append(e.ends, Newest(e))
  BY <1>8 DEF Raised, Nodes, Lir
<1> HIDE DEF s
<1>14. Extends(e, s)
  BY <1>13, SameReflexive DEF Extends
<1>15. Extends(r, s)
  BY <1>11, <1>14, ExtendsTransitive
<1>16. Nodes(s) /\ Labels(s) /\ Slots(s)
  BY <1>8, <1>13 DEF Raised, Nodes, Labels, Slots
<1>17. Queue(s, s.dbgs, "dbg")
  BY <1>8, <1>13, <1>14, QueueKept DEF Raised
<1>18. Queue(s, s.begins, "try_begin")
  <2>1. Newest(b) \in DOMAIN e.node /\ e.node[Newest(b)].kind = "try_begin"
    BY <1>2, <1>4, <1>10 DEF Extends, Same
  <2>2. Queue(e, Append(r.begins, Newest(b)), "try_begin")
    BY <1>4, <1>11, <2>1, QueueAppend DEF Raised
  <2> QED
    BY <1>12, <1>13, <1>14, <2>2, QueueKept
<1>19. Queue(s, s.ends, "try_end")
  <2>1. Newest(e) \notin DOMAIN r.node
    BY <1>8, <1>10 DEF Extends
  <2>2. Queue(e, Append(r.ends, Newest(e)), "try_end")
    BY <1>3, <1>8, <1>11, <2>1, QueueAppend DEF Raised
  <2> QED
    BY <1>12, <1>13, <1>14, <2>2, QueueKept
<1> QED
  BY <1>1, <1>15, <1>16, <1>17, <1>18, <1>19 DEF Raised

TryStep(x, y, a, e) == RaiseTry(a, e)
Growing(z, k, a) == Raised(a) /\ Extends(z, a)
OnTries == INSTANCE FoldInduction WITH Op <- TryStep, Inv <- Growing

\* DissasembleTryBlocks.
LEMMA TriesRaised ==
  ASSUME Given, NEW r, Raised(r)
  PROVE  LET s == FoldLeft(RaiseTry, r, method.tries) IN Raised(s) /\ Extends(r, s)
<1> DEFINE ts == method.tries
           s == OnTries!Fold(0, 0, r, ts)
<1>1. FoldLeft(RaiseTry, r, ts) = s
  BY DEF TryStep, OnTries!Fold, FoldLeft, MapThenFoldSet, Max,
         OnTries!MapThenFoldSet, OnTries!Largest
<1>2. /\ Len(ts) \in Nat /\ DOMAIN ts = 1..Len(ts)
      /\ \A k \in DOMAIN ts :
           /\ ts[k].start \in Nat /\ ts[k].count \in Nat \ {0} /\ ts[k].all \in Int
           /\ IsSequence(ts[k].handlers)
           /\ \A h \in DOMAIN ts[k].handlers : ts[k].handlers[h][2] \in Int
  BY GivenOK DEF TriesOK, IsSequence
<1> HIDE DEF ts
<1>3. Growing(r, 0, r)
  BY ExtendsReflexive DEF Growing
<1>4. ASSUME NEW k \in 1..Len(ts), NEW a, Growing(r, k - 1, a)
      PROVE  Growing(r, k, TryStep(0, 0, a, ts[k]))
  <2>1. Raised(a) /\ Extends(r, a)
    BY <1>4 DEF Growing
  <2>2. Raised(RaiseTry(a, ts[k])) /\ Extends(a, RaiseTry(a, ts[k]))
    BY <1>2, <2>1, TryRaised
  <2> QED
    BY <2>1, <2>2, ExtendsTransitive DEF Growing, TryStep
<1>5. Growing(r, Len(ts), s)
  BY <1>2, <1>3, <1>4, OnTries!FoldInvariant, Smallest
<1> QED
  BY <1>1, <1>5 DEF Growing, ts

\* A debug annotation joins its queue.
LEMMA DbgRaised ==
  ASSUME NEW r, Raised(r), NEW op, NEW args, IsSeq(args), NEW off
  PROVE  LET s == DbgNode(r, op, args, off) IN Raised(s) /\ Extends(r, s)
<1> DEFINE nd == [kind |-> "dbg", op |-> op, args |-> args, off |-> off, org |-> 0]
           a == Alloc(r, nd)
           s == [a EXCEPT !.dbgs = Append(@, Newest(a))]
<1>1. DbgNode(r, op, args, off) = s
  BY DEF DbgNode
<1>2. GoodNode(nd) /\ nd.kind = "dbg"
  BY DEF GoodNode, Instructions
<1> HIDE DEF nd
<1>3. /\ Raised(a) /\ Extends(r, a) /\ a.dbgs = r.dbgs /\ a.node[Newest(a)] = nd
      /\ Newest(a) \in DOMAIN a.node /\ Newest(a) \notin DOMAIN r.node
  BY <1>2, AllocRaised
<1> HIDE DEF a
<1>4. /\ Lir(s) /\ s.node = a.node /\ s.next = a.next /\ s.prev = a.prev /\ s.begin = a.begin
      /\ s.label = a.label /\ s.switches = a.switches /\ s.dbgs = Append(r.dbgs, Newest(a))
      /\ s.begins = a.begins /\ s.ends = a.ends
  BY <1>3 DEF Raised, Nodes, Lir
<1> HIDE DEF s
<1>5. Extends(a, s)
  BY <1>4, SameReflexive DEF Extends
<1>6. Extends(r, s)
  BY <1>3, <1>5, ExtendsTransitive
<1>7. Nodes(s) /\ Labels(s) /\ Slots(s)
  BY <1>3, <1>4 DEF Raised, Nodes, Labels, Slots
<1>8. Queue(s, s.begins, "try_begin") /\ Queue(s, s.ends, "try_end")
  BY <1>3, <1>4, <1>5, QueueKept DEF Raised
<1>9. Queue(a, Append(r.dbgs, Newest(a)), "dbg")
  BY <1>2, <1>3, QueueAppend DEF Raised
<1>10. Queue(s, s.dbgs, "dbg")
  BY <1>4, <1>5, <1>9, QueueKept
<1> QED
  BY <1>1, <1>6, <1>7, <1>8, <1>10 DEF Raised

DebugStep(x, y, a, e) == RaiseDebug(a, e)
RaisingDebug(z, k, a) ==
  a \in [r : {a.r}, addr : {a.addr}, line : {a.line}] /\ Raised(a.r) /\ Extends(z, a.r)
OnDebug == INSTANCE FoldInduction WITH Op <- DebugStep, Inv <- RaisingDebug

\* A function on 1..n is a sequence, whatever the integer n.
LEMMA IntervalSeq ==
  ASSUME NEW n \in Int, NEW f, f = [k \in 1..n |-> f[k]]
  PROVE  IsSeq(f)
<1>1. CASE n \in Nat
  <2>1. f \in [1..n -> {f[k] : k \in 1..n}]
    OBVIOUS
  <2>2. f \in Seq({f[k] : k \in 1..n})
    BY <1>1, <2>1, FunctionIsSeq
  <2> QED
    BY <2>2 DEF IsSeq
<1>2. CASE n \notin Nat
  <2>1. 1..n = {}
    BY <1>2
  <2>2. f = <<>>
    BY <2>1
  <2> QED
    BY <2>2, ShortSeqs
<1> QED
  BY <1>1, <1>2

\* One event of the debug state machine.
LEMMA EventRaised ==
  ASSUME NEW z, NEW s, RaisingDebug(z, 0, s), NEW e, IsSequence(e), e[1] \in DebugEvents
  PROVE  RaisingDebug(z, 0, RaiseDebug(s, e))
<1> DEFINE regs == VReg(s.r, e[2])
           reg == <<"reg", Len(regs.reg)>>
           more == [k \in 1..(Len(e) - 2) |-> <<"index", e[k + 2]>>]
           t == RaiseDebug(s, e)
<1>1. /\ s \in [r : {s.r}, addr : {s.addr}, line : {s.line}]
      /\ Raised(s.r) /\ Extends(z, s.r)
  BY DEF RaisingDebug
<1>2. ASSUME NEW op, NEW args, IsSeq(args), NEW off, NEW r, Raised(r), Extends(z, r)
      PROVE  Raised(DbgNode(r, op, args, off)) /\ Extends(z, DbgNode(r, op, args, off))
  <2>1. Raised(DbgNode(r, op, args, off)) /\ Extends(r, DbgNode(r, op, args, off))
    BY <1>2, DbgRaised
  <2> QED
    BY <1>2, <2>1, ExtendsTransitive
<1>3. CASE e[1] \in {"advance_pc", "advance_line"}
  <2>1. t \in [r : {t.r}, addr : {t.addr}, line : {t.line}] /\ t.r = s.r
    BY <1>1, <1>3 DEF RaiseDebug
  <2> QED
    BY <1>1, <2>1 DEF RaisingDebug
<1>4. CASE e[1] \in LocalEvents
  <2>1. t = [s EXCEPT !.r = DbgNode(regs, e[1], <<reg>> \o more, s.addr)]
    BY <1>4 DEF RaiseDebug, LocalEvents
  <2>2. Raised(regs) /\ Extends(s.r, regs)
    BY <1>1, VRegRaised
  <2>3. IsSeq(more)
    <3>1. Len(e) - 2 \in Int
      BY DEF IsSequence
    <3>2. more = [k \in 1..(Len(e) - 2) |-> more[k]]
      OBVIOUS
    <3> HIDE DEF more
    <3> QED
      BY <3>1, <3>2, IntervalSeq
  <2> HIDE DEF regs, more, reg
  <2>4. IsSeq(<<reg>> \o more)
    BY <2>3, ShortSeqs
  <2>5. Extends(z, regs)
    BY <1>1, <2>2, ExtendsTransitive
  <2> DEFINE u == DbgNode(regs, e[1], <<reg>> \o more, s.addr)
  <2>6. Raised(u) /\ Extends(z, u)
    BY <1>2, <2>2, <2>4, <2>5
  <2>7. t = [s EXCEPT !.r = u]
    BY <2>1
  <2> HIDE DEF u, t
  <2> QED
    BY <1>1, <2>6, <2>7 DEF RaisingDebug, t
<1>5. CASE e[1] \in {"prologue_end", "epilogue_begin"}
  <2> DEFINE u == DbgNode(s.r, e[1], <<>>, s.addr)
  <2>1. t = [s EXCEPT !.r = u]
    BY <1>5 DEF RaiseDebug
  <2>2. Raised(u) /\ Extends(z, u)
    BY <1>1, <1>2, ShortSeqs
  <2> HIDE DEF u, t
  <2> QED
    BY <1>1, <2>1, <2>2 DEF RaisingDebug, t
<1>6. CASE e[1] = "file"
  <2> DEFINE u == DbgNode(s.r, "file", <<<<"index", e[2]>>>>, s.addr)
  <2>1. t = [s EXCEPT !.r = u]
    BY <1>6 DEF RaiseDebug
  <2>2. Raised(u) /\ Extends(z, u)
    BY <1>1, <1>2, ShortSeqs
  <2> HIDE DEF u, t
  <2> QED
    BY <1>1, <2>1, <2>2 DEF RaisingDebug, t
<1>7. CASE e[1] = "special"
  <2> DEFINE line == s.line + LineBase + (e[2] % LineRange)
             addr == s.addr + (e[2] \div LineRange)
             u == DbgNode(s.r, "advance_line", <<<<"line", line>>>>, addr)
  <2>1. t = [r |-> u, addr |-> addr, line |-> line]
    BY <1>7 DEF RaiseDebug
  <2> HIDE DEF line, addr
  <2>2. Raised(u) /\ Extends(z, u)
    BY <1>1, <1>2, ShortSeqs
  <2> HIDE DEF u, t
  <2> QED
    BY <2>1, <2>2 DEF RaisingDebug, t
<1> QED
  BY <1>3, <1>4, <1>5, <1>6, <1>7 DEF DebugEvents

\* DissasembleDebugInfo.
LEMMA DebugRaised ==
  ASSUME Given, NEW r, Raised(r), NEW d, d = method.debug, d # <<>>
  PROVE  LET names == IF d.names = <<>> THEN r
                      ELSE DbgNode(r, "header", <<<<"names", d.names>>>>, 0)
             first == DbgNode(DbgNode(names, "file", <<<<"index", method.file>>>>, 0),
                              "advance_line", <<<<"line", d.line>>>>, 0)
             s == FoldLeft(RaiseDebug, [r |-> first, addr |-> 0, line |-> d.line], d.data).r
         IN Raised(s) /\ Extends(r, s)
<1> DEFINE nb == DbgNode(r, "header", <<<<"names", d.names>>>>, 0)
           names == IF d.names = <<>> THEN r ELSE nb
           file == DbgNode(names, "file", <<<<"index", method.file>>>>, 0)
           first == DbgNode(file, "advance_line", <<<<"line", d.line>>>>, 0)
           b == [r |-> first, addr |-> 0, line |-> d.line]
           all == OnDebug!Fold(0, 0, b, d.data)
<1>1. FoldLeft(RaiseDebug, b, d.data) = all
  BY DEF DebugStep, OnDebug!Fold, FoldLeft, MapThenFoldSet, Max,
         OnDebug!MapThenFoldSet, OnDebug!Largest
<1>2. Raised(nb) /\ Extends(r, nb)
  BY DbgRaised, ShortSeqs
<1>3. Raised(names) /\ Extends(r, names)
  BY <1>2, ExtendsReflexive
<1> HIDE DEF names
<1>4. Raised(file) /\ Extends(names, file)
  BY <1>3, DbgRaised, ShortSeqs
<1> HIDE DEF file
<1>5. Raised(first) /\ Extends(file, first)
  BY <1>4, DbgRaised, ShortSeqs
<1> HIDE DEF first
<1>6. Extends(r, file)
  BY <1>3, <1>4, ExtendsTransitive
<1>7. Extends(r, first)
  BY <1>5, <1>6, ExtendsTransitive
<1>8. RaisingDebug(r, 0, b)
  BY <1>5, <1>7 DEF RaisingDebug
<1> HIDE DEF b
<1>9. /\ Len(d.data) \in Nat /\ DOMAIN d.data = 1..Len(d.data)
      /\ \A k \in DOMAIN d.data : IsSequence(d.data[k]) /\ d.data[k][1] \in DebugEvents
  BY GivenOK DEF DebugOK, IsSequence
<1>10. ASSUME NEW k \in 1..Len(d.data), NEW a, RaisingDebug(r, k - 1, a)
       PROVE  RaisingDebug(r, k, DebugStep(0, 0, a, d.data[k]))
  BY <1>9, <1>10, EventRaised DEF RaisingDebug, DebugStep
<1>11. RaisingDebug(r, Len(d.data), all)
  BY <1>8, <1>9, <1>10, OnDebug!FoldInvariant, Smallest
<1> QED
  BY <1>1, <1>11 DEF RaisingDebug, b, first, file, names

-----------------------------------------------------------------------------
(* Merging.                                                                *)

\* Ordered goes through a finite set of integers, every element once.
LEMMA OrderedIs ==
  ASSUME NEW S, IsFiniteSet(S), S \subseteq Int
  PROVE  LET n == Cardinality(S) IN
         /\ n \in Nat /\ Ordered(S) \in [1..n -> S]
         /\ \A j, k \in 1..n : Ordered(S)[j] = Ordered(S)[k] => j = k
<1> DEFINE n == Cardinality(S)
           Below(x) == {y \in S : y < x}
           rank == [x \in S |-> Cardinality(Below(x))]
<1>1. n \in Nat
  BY FS_CardinalityType
<1>2. \A x \in S : IsFiniteSet(Below(x)) /\ Cardinality(Below(x)) \in Nat
  BY FS_Subset, FS_CardinalityType
<1>3. ASSUME NEW x \in S, NEW T, IsFiniteSet(T), T \subseteq S, Below(x) \subseteq T, x \in T
      PROVE  Cardinality(Below(x)) < Cardinality(T)
  <2>1. x \notin Below(x)
    OBVIOUS
  <2>2. Cardinality(Below(x)) <= Cardinality(T) /\ Cardinality(Below(x)) # Cardinality(T)
    <3> HIDE DEF Below
    <3> QED
      BY <1>3, <2>1, FS_Subset
  <2>3. Cardinality(T) \in Nat
    BY <1>3, FS_CardinalityType
  <2> HIDE DEF Below
  <2> QED
    BY <1>2, <2>2, <2>3
<1>4. \A x \in S : rank[x] \in 0..(n - 1)
  <2> TAKE x \in S
  <2>1. Below(x) \subseteq S /\ x \in S
    OBVIOUS
  <2>2. Cardinality(Below(x)) < n
    <3> HIDE DEF Below
    <3> QED
      BY <1>3, <2>1
  <2> HIDE DEF Below
  <2> QED
    BY <1>1, <1>2, <2>2
<1>5. \A x, y \in S : x < y => rank[x] # rank[y]
  <2> SUFFICES ASSUME NEW x \in S, NEW y \in S, x < y PROVE rank[x] # rank[y]
    OBVIOUS
  <2>0. \A z \in S : z < x => z < y
    <3> TAKE z \in S
    <3>1. x \in Int /\ y \in Int /\ z \in Int
      OBVIOUS
    <3> QED
      BY <3>1
  <2>1. Below(x) \subseteq Below(y) /\ x \in Below(y) /\ Below(y) \subseteq S
    BY <2>0
  <2> HIDE DEF Below
  <2>2. Cardinality(Below(x)) < Cardinality(Below(y))
    BY <1>2, <1>3, <2>1
  <2>3. rank[x] = Cardinality(Below(x)) /\ rank[y] = Cardinality(Below(y))
    OBVIOUS
  <2>4. Cardinality(Below(x)) \in Nat /\ Cardinality(Below(y)) \in Nat
    BY <1>2
  <2> HIDE DEF rank
  <2> QED
    BY <2>2, <2>3, <2>4
<1>6. \A x, y \in S : x < y \/ x = y \/ y < x
  OBVIOUS
<1>7. rank \in Injection(S, 0..(n - 1))
  <2>1. rank \in [S -> 0..(n - 1)]
    BY <1>4
  <2>2. \A x, y \in S : rank[x] = rank[y] => x = y
    BY <1>5, <1>6
  <2> HIDE DEF rank
  <2> QED
    BY <2>1, <2>2 DEF Injection, IsInjective
<1>8. IsFiniteSet(0..(n - 1)) /\ Cardinality(0..(n - 1)) = n
  <2>1. n - 1 \in Int /\ 0 \in Int
    BY <1>1
  <2>2. IsFiniteSet(0..(n - 1)) /\ Cardinality(0..(n - 1)) = IF 0 > n - 1 THEN 0 ELSE n - 1 - 0 + 1
    BY <2>1, FS_Interval
  <2> QED
    BY <1>1, <2>2
<1>9. rank \in Surjection(S, 0..(n - 1))
  <2> HIDE DEF rank
  <2> QED
    BY <1>7, <1>8, FS_Injection
<1>10. \A k \in 1..n : \E x \in S : Cardinality(Below(x)) = k - 1
  <2> TAKE k \in 1..n
  <2>1. k - 1 \in 0..(n - 1)
    BY <1>1
  <2> QED
    BY <1>9, <2>1 DEF Surjection
<1>11. Ordered(S) = [k \in 1..n |-> CHOOSE x \in S : Cardinality(Below(x)) = k - 1]
  BY DEF Ordered
<1> HIDE DEF Below, n
<1>12. \A k \in 1..n : Ordered(S)[k] \in S /\ Cardinality(Below(Ordered(S)[k])) = k - 1
  BY <1>10, <1>11
<1>13. \A j, k \in 1..n : Ordered(S)[j] = Ordered(S)[k] => j = k
  <2> SUFFICES ASSUME NEW j \in 1..n, NEW k \in 1..n, Ordered(S)[j] = Ordered(S)[k] PROVE j = k
    OBVIOUS
  <2>1. j - 1 = k - 1
    BY <1>12
  <2> QED
    BY <1>1, <2>1
<1>14. Ordered(S) \in [1..n -> S]
  BY <1>11, <1>12
<1> QED
  BY <1>1, <1>13, <1>14 DEF n

\* The targets of a payload.
TargetStep(x, y, a, e) == AddTarget(x, a, e)
RaisingTargets(z, k, a) ==
  Raised(a.r) /\ Extends(z, a.r) /\ a.r.switches = z.switches /\ IsSeq(a.to)
OnTargets == INSTANCE FoldInduction WITH Op <- TargetStep, Inv <- RaisingTargets

\* The targets of a switch.
LEMMA TargetsRaised ==
  ASSUME NEW r, Raised(r), NEW base \in Int, NEW to \in Seq(Int)
  PROVE  LET b == [r |-> r, to |-> <<>>]
             f == FoldLeft(LAMBDA acc, rel : AddTarget(base, acc, rel), b, to)
             s == f.r
         IN Raised(s) /\ Extends(r, s) /\ s.switches = r.switches /\ IsSeq(f.to)
<1> DEFINE b == [r |-> r, to |-> <<>>]
           all == OnTargets!Fold(base, 0, b, to)
<1>1. FoldLeft(LAMBDA acc, rel : AddTarget(base, acc, rel), b, to) = all
  BY DEF TargetStep, OnTargets!Fold, FoldLeft, MapThenFoldSet, Max,
         OnTargets!MapThenFoldSet, OnTargets!Largest
<1>2. Len(to) \in Nat /\ DOMAIN to = 1..Len(to) /\ \A k \in 1..Len(to) : to[k] \in Int
  BY ElementOfSeq
<1>3. RaisingTargets(r, 0, b)
  BY ExtendsReflexive, ShortSeqs DEF RaisingTargets
<1>4. ASSUME NEW k \in 1..Len(to), NEW a, RaisingTargets(r, k - 1, a)
      PROVE  RaisingTargets(r, k, TargetStep(base, 0, a, to[k]))
  <2> DEFINE g == GetLabel(a.r, base + to[k])
  <2>1. /\ TargetStep(base, 0, a, to[k]).r = g
        /\ TargetStep(base, 0, a, to[k]).to = Append(a.to, g.label[base + to[k]])
    BY DEF TargetStep, AddTarget
  <2>2. /\ Raised(a.r) /\ Extends(r, a.r) /\ a.r.switches = r.switches /\ IsSeq(a.to)
        /\ base + to[k] \in Int
    BY <1>2, <1>4 DEF RaisingTargets
  <2>3. Raised(g) /\ Extends(a.r, g) /\ g.switches = a.r.switches
    BY <2>2, GetLabelRaised
  <2> HIDE DEF g
  <2>4. Extends(r, g)
    BY <2>2, <2>3, ExtendsTransitive
  <2>5. PICK t : t = TargetStep(base, 0, a, to[k])
    OBVIOUS
  <2>7. PICK v : v = g.label[base + to[k]]
    OBVIOUS
  <2>8. t.r = g /\ t.to = Append(a.to, v)
    BY <2>1, <2>5, <2>7
  <2>9. IsSeq(Append(a.to, v))
    BY <2>2, SeqFacts
  <2>6. t.r = g /\ IsSeq(t.to)
    BY <2>8, <2>9
  <2> QED
    BY <2>2, <2>3, <2>4, <2>5, <2>6 DEF RaisingTargets
<1> HIDE DEF b
<1>5. RaisingTargets(r, Len(to), all)
  BY <1>2, <1>3, <1>4, OnTargets!FoldInvariant, Smallest
<1> QED
  BY <1>1, <1>5 DEF RaisingTargets, b

\* FixupSwitch, at a slot that has a payload.
LEMMA FixupSwitchRaised ==
  ASSUME Given, NEW r, Raised(r), NEW k \in {"packed", "sparse"}, NEW off \in DOMAIN r.switches[k]
  PROVE  LET s == FixupSwitch(r, k, off) IN
         Raised(s) /\ Extends(r, s) /\ s.switches = r.switches
<1> DEFINE sl == r.switches[k][off]
           j == CHOOSE l \in DOMAIN method.insns :
                  OffsetOf(method.insns, l) = off /\ method.insns[l].op \in Payloads
           to == method.insns[j].to
           all == FoldLeft(LAMBDA acc, rel : AddTarget(sl.base, acc, rel), [r |-> r, to |-> <<>>], to)
           n == sl.instr
           s == [all.r EXCEPT !.node[n].to = all.to]
<1>1. FixupSwitch(r, k, off) = s
  BY DEF FixupSwitch
<1>2. PayloadAt(off) /\ GoodSlot(sl)
  BY DEF Raised, Slots
<1>3. j \in DOMAIN method.insns /\ method.insns[j].op \in Payloads
  BY <1>2 DEF PayloadAt
<1>4. to \in Seq(Int) /\ sl.base \in Int
  BY <1>2, <1>3, GivenOK DEF InstructionsOK, PayloadOK, GoodSlot
<1> HIDE DEF sl, to
<1>5. /\ Raised(all.r) /\ Extends(r, all.r) /\ all.r.switches = r.switches
      /\ IsSeq(all.to)
  BY <1>4, TargetsRaised
<1> HIDE DEF all
<1> DEFINE a == all.r
<1>6. Nodes(a) /\ IsSeq(a.node)
  BY <1>5 DEF Raised, Nodes
<1>7. Raised(s) /\ Extends(a, s) /\ s.switches = a.switches
  <2>1. CASE n \in DOMAIN a.node
    <3> DEFINE md == [a.node[n] EXCEPT !.to = all.to]
               u == [a EXCEPT !.node[n] = md]
    <3>1. GoodNode(a.node[n])
      BY <1>6, <2>1 DEF Nodes
    <3>2. GoodNode(md) /\ Same(a.node[n], md)
      <4>1. /\ DOMAIN md = DOMAIN a.node[n]
            /\ md.kind = a.node[n].kind /\ md.org = a.node[n].org /\ md.off = a.node[n].off
            /\ {"op", "args"} \subseteq DOMAIN md => /\ md.op = a.node[n].op
                                                   /\ md.args = a.node[n].args
            /\ "keys" \in DOMAIN md => md.keys = a.node[n].keys
            /\ "to" \in DOMAIN md => md.to = all.to
        BY <3>1 DEF GoodNode
      <4> HIDE DEF md
      <4> QED
        BY <1>5, <3>1, <4>1 DEF GoodNode, Same, Stops
    <3>3. s = u
      OBVIOUS
    <3> HIDE DEF md
    <3>4. /\ Nodes(u) /\ Extends(a, u) /\ u.label = a.label /\ u.switches = a.switches
          /\ u.begins = a.begins /\ u.ends = a.ends /\ u.dbgs = a.dbgs
      BY <1>6, <2>1, <3>2, UpdateNode
    <3> HIDE DEF u, s
    <3> QED
      BY <1>5, <3>3, <3>4, RaisedKept
  <2>2. CASE n \notin DOMAIN a.node
    <3>1. s.node = [a.node EXCEPT ![n].to = all.to]
      BY <1>6 DEF Nodes, Lir
    <3>2. PICK S : a.node \in Seq(S)
      BY <1>6 DEF IsSeq
    <3>3. a.node \in [1..Len(a.node) -> S] /\ DOMAIN a.node = 1..Len(a.node)
      BY <3>2
    <3>4. s.node = a.node
      BY <2>2, <3>1, <3>3
    <3>5. /\ Lir(s) /\ s.next = a.next /\ s.prev = a.prev /\ s.begin = a.begin
          /\ s.label = a.label /\ s.switches = a.switches /\ s.dbgs = a.dbgs
          /\ s.begins = a.begins /\ s.ends = a.ends
      BY <1>6 DEF Nodes, Lir
    <3> HIDE DEF s, a
    <3>6. Extends(a, s) /\ Nodes(s)
      BY <1>6, <3>4, <3>5, SameReflexive DEF Extends, Nodes
    <3> QED
      BY <1>5, <3>5, <3>6, RaisedKept DEF a
  <2> QED
    BY <2>1, <2>2
<1> HIDE DEF s
<1>8. Extends(r, s)
  BY <1>5, <1>7, ExtendsTransitive
<1> QED
  BY <1>1, <1>5, <1>7, <1>8

SwitchStep(x, y, a, e) == FixupSwitch(a, x, e)
FixingSwitches(z, k, a) == Raised(a) /\ Extends(z, a) /\ a.switches = z.switches
OnSwitches == INSTANCE FoldInduction WITH Op <- SwitchStep, Inv <- FixingSwitches

\* All the switches of a kind.
LEMMA FixupKindRaised ==
  ASSUME Given, NEW r, Raised(r), NEW k \in {"packed", "sparse"},
         NEW os, NEW n \in Nat, os \in [1..n -> DOMAIN r.switches[k]]
  PROVE  FixingSwitches(r, 0, FoldLeft(LAMBDA a, off : FixupSwitch(a, k, off), r, os))
<1> DEFINE all == OnSwitches!Fold(k, 0, r, os)
<1>1. FoldLeft(LAMBDA a, off : FixupSwitch(a, k, off), r, os) = all
  BY DEF SwitchStep, OnSwitches!Fold, FoldLeft, MapThenFoldSet, Max,
         OnSwitches!MapThenFoldSet, OnSwitches!Largest
<1>2. FixingSwitches(r, 0, r)
  BY ExtendsReflexive DEF FixingSwitches
<1>3. ASSUME NEW i \in 1..n, NEW a, FixingSwitches(r, i - 1, a)
      PROVE  FixingSwitches(r, i, SwitchStep(k, 0, a, os[i]))
  <2> DEFINE s == FixupSwitch(a, k, os[i])
  <2>1. Raised(a) /\ Extends(r, a) /\ a.switches = r.switches /\ os[i] \in DOMAIN a.switches[k]
    BY <1>3 DEF FixingSwitches
  <2>2. Raised(s) /\ Extends(a, s) /\ s.switches = a.switches
    BY <2>1, FixupSwitchRaised
  <2>3. SwitchStep(k, 0, a, os[i]) = s
    BY DEF SwitchStep
  <2> HIDE DEF s
  <2>4. Extends(r, s)
    BY <2>1, <2>2, ExtendsTransitive
  <2> QED
    BY <2>1, <2>2, <2>3, <2>4 DEF FixingSwitches
<1>4. DOMAIN os = 1..n
  OBVIOUS
<1>5. FixingSwitches(r, n, all)
  BY <1>2, <1>3, <1>4, OnSwitches!FoldInvariant, Smallest
<1> QED
  BY <1>1, <1>5 DEF FixingSwitches

\* FixupSwitches.
LEMMA FixupsRaised ==
  ASSUME Given, NEW r, Raised(r)
  PROVE  Raised(FixupSwitches(r)) /\ Extends(r, FixupSwitches(r))
<1> DEFINE P == DOMAIN r.switches.packed
           Q == DOMAIN r.switches.sparse
           a == FoldLeft(LAMBDA x, off : FixupSwitch(x, "packed", off), r, Ordered(P))
           b == FoldLeft(LAMBDA x, off : FixupSwitch(x, "sparse", off), a, Ordered(Q))
<1>1. FixupSwitches(r) = b
  BY DEF FixupSwitches
<1>2. /\ IsFiniteSet(P) /\ P \subseteq Int /\ P = DOMAIN r.switches["packed"]
      /\ IsFiniteSet(Q) /\ Q \subseteq Int /\ Q = DOMAIN r.switches["sparse"]
  BY DEF Raised, Slots
<1> HIDE DEF P, Q
<1>3. /\ Cardinality(P) \in Nat /\ Ordered(P) \in [1..Cardinality(P) -> P]
      /\ Cardinality(Q) \in Nat /\ Ordered(Q) \in [1..Cardinality(Q) -> Q]
  BY <1>2, OrderedIs
<1>4. Raised(a) /\ Extends(r, a) /\ a.switches = r.switches
  BY <1>2, <1>3, FixupKindRaised DEF FixingSwitches
<1> HIDE DEF a
<1>5. Raised(b) /\ Extends(a, b)
  BY <1>2, <1>3, <1>4, FixupKindRaised DEF FixingSwitches
<1> HIDE DEF b
<1> QED
  BY <1>1, <1>4, <1>5, ExtendsTransitive

\* The n original instructions are in the list, once, in order; the last of
\* them stops, and no instruction comes after it.
InPlace(r, d, m, n) ==
  /\ n \in Nat \ {0} /\ Nodes(r) /\ IsList(r, d, m)
  /\ \A i \in 1..m : r.node[d[i]].org \in 0..n
  /\ \A o \in 1..n : \E i \in 1..m : r.node[d[i]].org = o
  /\ \A i, j \in 1..m : i < j /\ r.node[d[i]].org # 0 /\ r.node[d[j]].org # 0
                          => r.node[d[i]].org < r.node[d[j]].org
  /\ \A i \in 1..m : r.node[d[i]].org = n =>
       /\ Stops(r.node[d[i]])
       /\ \A j \in (i + 1)..m : r.node[d[j]].kind \notin Instructions

\* The method, raised.
LEMMA RawInPlace ==
  ASSUME Given, method.insns # <<>>, NEW r, Nodes(r), NEW d, Raw(r, d, Len(method.insns))
  PROVE  InPlace(r, d, Len(method.insns), Len(method.insns))
<1> DEFINE n == Len(method.insns)
<1>1. n \in Nat /\ DOMAIN method.insns = 1..n /\ method.insns = [k \in 1..n |-> method.insns[k]]
  BY GivenOK DEF InstructionsOK, IsSequence
<1>2. n # 0
  <2> SUFFICES ASSUME n = 0 PROVE FALSE
    OBVIOUS
  <2>1. 1..n = {}
    OBVIOUS
  <2> HIDE DEF n
  <2> QED
    BY <1>1, <2>1
<1>3. \A i \in 1..n : r.node[d[i]].org = i
  BY DEF Raw, Original
<1>4. Stops(r.node[d[n]])
  <2>1. method.insns[n].op \in Payloads \/ Leaves(method.insns[n].op)
    BY GivenOK DEF InstructionsOK
  <2>2. n \in 1..n
    BY <1>1, <1>2
  <2> QED
    BY <2>1, <2>2 DEF Raw, Original
<1>5. IsList(r, d, n)
  BY DEF Raw
<1> HIDE DEF n
<1>6. \A i \in 1..n : i = n => (i + 1)..n = {}
  BY <1>1
<1> QED
  BY <1>1, <1>2, <1>3, <1>4, <1>5, <1>6 DEF InPlace, n

\* What only extends the code IR leaves the list in place.
LEMMA InPlaceKept ==
  ASSUME NEW r, NEW s, Extends(r, s), Nodes(s), NEW d, NEW m, NEW n, InPlace(r, d, m, n)
  PROVE  InPlace(s, d, m, n)
<1>1. IsList(s, d, m) /\ n \in Nat \ {0}
  BY ListKept DEF InPlace
<1>2. \A i \in 1..m : Same(r.node[d[i]], s.node[d[i]])
  BY DEF InPlace, IsList, Extends
<1>3. \A i \in 1..m : /\ s.node[d[i]].org = r.node[d[i]].org
                      /\ s.node[d[i]].kind = r.node[d[i]].kind
                      /\ Stops(r.node[d[i]]) => Stops(s.node[d[i]])
  BY <1>2 DEF Same
<1>4. \A i \in 1..m : \A j \in (i + 1)..m : j \in 1..m
  BY <1>1 DEF IsList
<1> QED
  BY <1>1, <1>3, <1>4 DEF InPlace

\* What the library adds disturbs nothing.
LEMMA InsertInPlace ==
  ASSUME NEW r, NEW d, NEW m, NEW n, InPlace(r, d, m, n), NEW j \in 1..(m + 1),
         NEW p \in DOMAIN r.node, \A i \in 1..m : d[i] # p, r.node[p].org = 0,
         \/ r.node[p].kind \notin Instructions
         \/ \A i \in 1..(j - 1) : r.node[d[i]].org # n
         \/ j \in 1..m /\ r.node[d[j]].kind \in Instructions
  PROVE  InPlace(InsertBefore(r, d[j], p), Put(d, m, j, p), m + 1, n)
<1> DEFINE s == InsertBefore(r, d[j], p)
           e == Put(d, m, j, p)
           org(x) == r.node[x].org
           kind(x) == r.node[x].kind
<1>1. n \in Nat \ {0} /\ m \in Nat /\ Nodes(r) /\ IsList(r, d, m) /\ d[m + 1] = 0
  BY DEF InPlace, IsList
<1>2. Lir(r) /\ 0 \notin DOMAIN r.node /\ p \in Nat
  <2>1. DOMAIN r.node = 1..Len(r.node) /\ Len(r.node) \in Nat
    BY <1>1, SeqFacts DEF Nodes
  <2> QED
    BY <1>1, <2>1 DEF Nodes
<1>3. \A i \in 1..(m + 1) : d[i] # p
  <2>1. \A i \in 1..(m + 1) : i \in 1..m \/ i = m + 1
    BY <1>1
  <2> QED
    BY <1>1, <1>2, <2>1
<1>4. IsList(s, e, m + 1)
  BY <1>1, <1>2, <1>3, InsertInList
<1>5. s.node = r.node /\ Nodes(s)
  BY <1>1, <1>2, InsertKeeps DEF Nodes
<1>6. \A i \in 1..(m + 1) : /\ i < j => e[i] = d[i] /\ i \in 1..m
                            /\ i = j => e[i] = p
                            /\ i > j => e[i] = d[i - 1] /\ i - 1 \in 1..m
                            /\ i < j \/ i = j \/ i > j
  <2> TAKE i \in 1..(m + 1)
  <2>1. i \in 1..(m + 2) /\ (i < j => i \in 1..m) /\ (i > j => i - 1 \in 1..m)
        /\ (i < j \/ i = j \/ i > j)
    BY <1>1
  <2> QED
    BY <2>1 DEF Put
<1>7. \A i \in 1..m : \E k \in 1..(m + 1) : e[k] = d[i]
  <2> TAKE i \in 1..m
  <2>1. CASE i < j
    <3>1. i \in 1..(m + 1)
      BY <1>1
    <3> QED
      BY <1>6, <2>1, <3>1
  <2>2. CASE i >= j
    <3>1. i + 1 \in 1..(m + 1) /\ i + 1 > j /\ i + 1 - 1 = i
      BY <1>1, <2>2
    <3>2. e[i + 1] = d[i]
      BY <1>6, <3>1
    <3> QED
      BY <3>1, <3>2
  <2> QED
    BY <1>1, <2>1, <2>2
<1> HIDE DEF s, e
<1>8. /\ \A i \in 1..m : org(d[i]) \in 0..n
      /\ \A o \in 1..n : \E i \in 1..m : org(d[i]) = o
      /\ \A i, k \in 1..m : i < k /\ org(d[i]) # 0 /\ org(d[k]) # 0 => org(d[i]) < org(d[k])
      /\ \A i \in 1..m : org(d[i]) = n =>
           /\ Stops(r.node[d[i]])
           /\ \A k \in (i + 1)..m : kind(d[k]) \notin Instructions
  BY DEF InPlace
<1>9. \A i \in 1..(m + 1) : org(e[i]) \in 0..n
  <2>1. org(p) = 0 /\ 0 \in 0..n
    BY <1>1
  <2> QED
    BY <1>6, <1>8, <2>1
<1>10. \A o \in 1..n : \E i \in 1..(m + 1) : org(e[i]) = o
  BY <1>7, <1>8
<1>11. ASSUME NEW i \in 1..(m + 1), NEW k \in 1..(m + 1), i < k, org(e[i]) # 0, org(e[k]) # 0
       PROVE  org(e[i]) < org(e[k])
  <2>1. i # j /\ k # j
    BY <1>6, <1>11
  <2>2. PICK a \in 1..m : e[i] = d[a] /\ a = IF i < j THEN i ELSE i - 1
    BY <1>6, <2>1
  <2>3. PICK b \in 1..m : e[k] = d[b] /\ b = IF k < j THEN k ELSE k - 1
    BY <1>6, <2>1
  <2>4. a < b
    BY <1>1, <1>11, <2>1, <2>2, <2>3
  <2> QED
    BY <1>8, <1>11, <2>2, <2>3, <2>4
<1>12. ASSUME NEW i \in 1..(m + 1), org(e[i]) = n
       PROVE  /\ Stops(r.node[e[i]])
              /\ \A k \in (i + 1)..(m + 1) : kind(e[k]) \notin Instructions
  <2>1. i # j
    BY <1>1, <1>6, <1>12
  <2>2. PICK a \in 1..m : e[i] = d[a] /\ a = IF i < j THEN i ELSE i - 1
    BY <1>6, <2>1
  <2>3. Stops(r.node[d[a]]) /\ \A k \in (a + 1)..m : kind(d[k]) \notin Instructions
    BY <1>8, <1>12, <2>2
  <2>4. ASSUME NEW k \in (i + 1)..(m + 1) PROVE kind(e[k]) \notin Instructions
    <3>1. CASE k = j
      <4>1. e[k] = p /\ i \in 1..(j - 1) /\ org(d[i]) = n
        BY <1>1, <1>6, <1>12, <3>1
      <4>2. j \in 1..m => j \in (a + 1)..m
        BY <1>1, <2>2, <3>1
      <4> QED
        BY <2>3, <4>1, <4>2
    <3>2. CASE k # j
      <4>1. k \in 1..(m + 1) /\ i < k
        BY <1>1
      <4>2. PICK b \in 1..m : e[k] = d[b] /\ b = IF k < j THEN k ELSE k - 1
        BY <1>6, <3>2, <4>1
      <4>3. b \in (a + 1)..m
        BY <1>1, <2>1, <2>2, <3>2, <4>1, <4>2
      <4> QED
        BY <2>3, <4>2, <4>3
    <3> QED
      BY <3>1, <3>2
  <2> QED
    BY <2>2, <2>3, <2>4
<1>13. InPlace(s, e, m + 1, n)
  BY <1>1, <1>4, <1>5, <1>9, <1>10, <1>11, <1>12 DEF InPlace
<1> QED
  BY <1>13 DEF s, e

\* The first node that has an offset is in the list, or its end.
LEMMA SeekIs ==
  ASSUME NEW r, NEW d, NEW m, IsList(r, d, m), NEW j \in 1..(m + 1), NEW off
  PROVE  \E k \in 1..(m + 1) : Seek(r, d[j], off) = d[k]
<1> DEFINE rest == Walk(r, d[j])
           I == {i \in 1..Len(rest) : r.node[rest[i]].off = off}
<1>1. m \in Nat /\ d \in [1..(m + 1) -> Nat] /\ d[m + 1] = 0
  BY DEF IsList
<1>2. rest = Rest(d, m, j)
  BY WalkIs
<1>3. Len(rest) = m + 1 - j /\ \A i \in 1..(m + 1 - j) : rest[i] = d[j + i - 1]
  <2>1. m + 1 - j \in Nat /\ \A i \in 1..(m + 1 - j) : j + i - 1 \in 1..(m + 1)
    BY <1>1
  <2>2. rest \in [1..(m + 1 - j) -> Nat]
    BY <1>1, <1>2, <2>1 DEF Rest
  <2> HIDE DEF rest
  <2>3. Len(rest) = m + 1 - j
    BY <2>1, <2>2, FunctionIsSeq
  <2> QED
    BY <1>2, <2>3 DEF Rest
<1>4. Seek(r, d[j], off) = IF I = {} THEN 0 ELSE IF Min(I) = 0 THEN 0 ELSE rest[Min(I)]
  BY DEF Seek, SelectInSeq
<1> HIDE DEF rest
<1>5. CASE I = {}
  <2>1. m + 1 \in 1..(m + 1)
    BY <1>1
  <2> QED
    BY <1>1, <1>4, <1>5, <2>1
<1>6. CASE I # {}
  <2>1. I \in SUBSET Nat
    BY <1>1, <1>3
  <2> HIDE DEF I
  <2>2. \E i \in I : \A k \in I : i <= k
    BY <1>6, <2>1, Smallest
  <2>3. Min(I) \in I
    BY <2>2 DEF Min
  <2>4. PICK i : i = Min(I)
    OBVIOUS
  <2>5. i \in 1..(m + 1 - j) /\ i # 0 /\ j + i - 1 \in 1..(m + 1)
    BY <1>1, <1>3, <2>3, <2>4 DEF I
  <2> QED
    BY <1>3, <1>4, <1>6, <2>4, <2>5
<1> QED
  BY <1>5, <1>6

\* The nodes of the list that are of no kind in z.kinds are the first k of
\* the queue z.q, and the iterator is in the list.
MergeStep(x, y, a, e) == MergeOne(a, e)
Merging(z, k, a) ==
  /\ a.r.node = z.r.node
  /\ \E d, m : /\ InPlace(a.r, d, m, z.n)
               /\ \E j \in 1..(m + 1) : a.it = d[j]
               /\ \A i \in 1..m : \/ a.r.node[d[i]].kind \in z.kinds
                                  \/ \E l \in 1..k : d[i] = z.q[l]
OnMerge == INSTANCE FoldInduction WITH Op <- MergeStep, Inv <- Merging

\* One node is merged, wherever the search stops.
LEMMA MergeOneKeeps ==
  ASSUME NEW z, NEW kind, Queue(z.r, z.q, kind), kind \notin z.kinds, kind \notin Instructions,
         NEW k \in 1..Len(z.q), NEW a, Merging(z, k - 1, a)
  PROVE  Merging(z, k, MergeOne(a, z.q[k]))
<1> DEFINE p == z.q[k]
           it == Seek(a.r, a.it, a.r.node[p].off)
           s == InsertBefore(a.r, it, p)
           node == z.r.node
<1>1. MergeOne(a, p) = [r |-> s, it |-> it]
  BY DEF MergeOne
<1>2. /\ Len(z.q) \in Nat /\ k \in Nat /\ \A l \in 1..Len(z.q) : z.q[l] \in DOMAIN node
      /\ \A l \in 1..Len(z.q) : node[z.q[l]].kind = kind
      /\ \A i, l \in 1..Len(z.q) : z.q[i] = z.q[l] => i = l
  BY ElementOfSeq DEF Queue
<1>3. PICK d, m : /\ InPlace(a.r, d, m, z.n)
                  /\ \E j \in 1..(m + 1) : a.it = d[j]
                  /\ \A i \in 1..m : \/ a.r.node[d[i]].kind \in z.kinds
                                     \/ \E l \in 1..(k - 1) : d[i] = z.q[l]
  BY DEF Merging
<1>4. a.r.node = node
  BY DEF Merging
<1>5. IsList(a.r, d, m) /\ m \in Nat /\ Nodes(a.r)
  BY <1>3 DEF InPlace, IsList
<1>6. PICK j \in 1..(m + 1) : it = d[j]
  BY <1>3, <1>5, SeekIs
<1> HIDE DEF p, it, node
<1>7. /\ p \in DOMAIN node /\ node[p].kind = kind
      /\ \A l \in 1..(k - 1) : z.q[l] # p
  <2>1. \A l \in 1..(k - 1) : l \in 1..Len(z.q) /\ l # k
    BY <1>2
  <2> QED
    BY <1>2, <2>1 DEF p
<1>8. \A i \in 1..m : d[i] # p
  BY <1>3, <1>4, <1>7
<1>9. GoodNode(node[p])
  BY <1>4, <1>5, <1>7 DEF Nodes
<1>10. node[p].org = 0
  BY <1>7, <1>9 DEF GoodNode
<1>11. InPlace(InsertBefore(a.r, d[j], p), Put(d, m, j, p), m + 1, z.n)
  BY <1>3, <1>4, <1>7, <1>8, <1>10, InsertInPlace
<1>12. s.node = node
  <2>1. Lir(a.r)
    BY <1>5 DEF Nodes
  <2> QED
    BY <1>4, <2>1, InsertKeeps
<1>13. InPlace(s, Put(d, m, j, p), m + 1, z.n)
  BY <1>6, <1>11
<1> HIDE DEF s
<1> DEFINE e == Put(d, m, j, p)
<1>14. j + 1 \in 1..(m + 1 + 1) /\ it = e[j + 1]
  <2>1. j + 1 \in 1..(m + 2) /\ ~(j + 1 < j) /\ j + 1 # j /\ j + 1 - 1 = j /\ j + 1 \in 1..(m + 1 + 1)
    BY <1>5
  <2> QED
    BY <1>6, <2>1 DEF Put
<1>15. ASSUME NEW i \in 1..(m + 1)
       PROVE  node[e[i]].kind \in z.kinds \/ \E l \in 1..k : e[i] = z.q[l]
  <2>1. i \in 1..(m + 2) /\ (i < j => i \in 1..m) /\ (i > j => i - 1 \in 1..m)
        /\ (i < j \/ i = j \/ i > j)
    BY <1>5
  <2>2. i # j => \E b \in 1..m : e[i] = d[b]
    BY <2>1 DEF Put
  <2>3. i = j => e[i] = z.q[k]
    BY <2>1 DEF Put, p
  <2>4. k \in 1..k /\ \A l \in 1..(k - 1) : l \in 1..k
    BY <1>2
  <2> HIDE DEF e
  <2> QED
    BY <1>3, <1>4, <2>2, <2>3, <2>4
<1> HIDE DEF e
<1>16. PICK t : t = MergeOne(a, p)
  OBVIOUS
<1>17. t.r = s /\ t.it = it
  BY <1>1, <1>16
<1>18. Merging(z, k, t)
  BY <1>12, <1>13, <1>14, <1>15, <1>17 DEF Merging, e, node
<1> QED
  BY <1>16, <1>18 DEF p

\* A code IR with every instruction in place and nodes of some kinds.
Holds(r, n, kinds) ==
  \E d, m : InPlace(r, d, m, n) /\ \A i \in 1..m : r.node[d[i]].kind \in kinds

\* One queue of nodes is merged.
LEMMA MergeInstructionsKeeps ==
  ASSUME NEW r, NEW n, NEW kinds, Holds(r, n, kinds), NEW q, NEW kind, Queue(r, q, kind),
         kind \notin kinds, kind \notin Instructions
  PROVE  LET s == MergeInstructions(r, q) IN
         s.node = r.node /\ Holds(s, n, kinds \cup {kind})
<1> DEFINE sorted == \A i \in 1..(Len(q) - 1) : r.node[q[i]].off <= r.node[q[i + 1]].off
           c == Checked(r, sorted)
           b == [r |-> c, it |-> r.begin]
           z == [r |-> r, q |-> q, n |-> n, kinds |-> kinds]
           all == OnMerge!Fold(0, 0, b, q)
<1>1. MergeInstructions(r, q) = all.r
  BY DEF MergeInstructions, MergeStep, OnMerge!Fold, FoldLeft, MapThenFoldSet, Max,
         OnMerge!MapThenFoldSet, OnMerge!Largest
<1>2. PICK d, m : InPlace(r, d, m, n) /\ \A i \in 1..m : r.node[d[i]].kind \in kinds
  BY DEF Holds
<1>3. Lir(r) /\ Nodes(r) /\ r.begin = d[1] /\ m \in Nat
  BY <1>2 DEF InPlace, Nodes, IsList
<1>4. /\ Lir(c) /\ c.node = r.node
      /\ c.next = r.next /\ c.prev = r.prev /\ c.begin = r.begin
  BY <1>3 DEF Lir, Checked
<1> HIDE DEF c
<1>5. Extends(r, c) /\ Nodes(c)
  BY <1>3, <1>4, SameReflexive DEF Extends, Nodes
<1>6. InPlace(c, d, m, n)
  BY <1>2, <1>5, InPlaceKept
<1>7. Merging(z, 0, b)
  <2>1. b.r = c /\ b.it = d[1] /\ z.r = r /\ z.n = n /\ z.kinds = kinds /\ 1 \in 1..(m + 1)
    BY <1>3
  <2> HIDE DEF b, z
  <2> QED
    BY <1>2, <1>4, <1>6, <2>1 DEF Merging
<1>8. z.r = r /\ z.q = q /\ z.n = n /\ z.kinds = kinds
  OBVIOUS
<1> HIDE DEF b, z
<1>9. Len(q) \in Nat /\ DOMAIN q = 1..Len(q)
  BY DEF Queue
<1>10. ASSUME NEW k \in 1..Len(q), NEW a, Merging(z, k - 1, a)
       PROVE  Merging(z, k, MergeStep(0, 0, a, q[k]))
  BY <1>8, <1>10, MergeOneKeeps DEF MergeStep
<1>11. Merging(z, Len(q), all)
  BY <1>7, <1>9, <1>10, OnMerge!FoldInvariant, Smallest
<1> HIDE DEF all
<1>12. all.r.node = r.node
  BY <1>8, <1>11 DEF Merging
<1>13. PICK e, l : /\ InPlace(all.r, e, l, n)
                   /\ \A i \in 1..l : \/ all.r.node[e[i]].kind \in kinds
                                      \/ \E x \in 1..Len(q) : e[i] = q[x]
  BY <1>8, <1>11 DEF Merging
<1>14. \A x \in 1..Len(q) : r.node[q[x]].kind = kind
  BY DEF Queue
<1>15. \A i \in 1..l : all.r.node[e[i]].kind \in kinds \cup {kind}
  BY <1>12, <1>13, <1>14
<1>16. Holds(all.r, n, kinds \cup {kind})
  BY <1>13, <1>15 DEF Holds
<1> QED
  BY <1>1, <1>12, <1>16

\* The kinds of nodes that are merged, in order.
Passes == <<"dbg", "try_begin", "label", "try_end">>
MergeKinds(k) == Instructions \cup {Passes[i] : i \in 1..k}

PassStep(x, y, a, e) == MergeInstructions(a, e)
Passed(z, k, a) == a.node = z.f.node /\ Holds(a, z.n, MergeKinds(k))
OnPasses == INSTANCE FoldInduction WITH Op <- PassStep, Inv <- Passed

\* The four passes of Merge.
LEMMA PassesKeep ==
  ASSUME NEW f, NEW n, Holds(f, n, Instructions), Raised(f),
         NEW labels, Queue(f, labels, "label")
  PROVE  LET s == FoldLeft(MergeInstructions, f, <<f.dbgs, f.begins, labels, f.ends>>) IN
         s.node = f.node /\ Holds(s, n, MergeKinds(4))
<1> DEFINE q == <<f.dbgs, f.begins, labels, f.ends>>
           z == [f |-> f, n |-> n]
           all == OnPasses!Fold(0, 0, f, q)
<1>1. FoldLeft(MergeInstructions, f, q) = all
  BY DEF PassStep, OnPasses!Fold, FoldLeft, MapThenFoldSet, Max,
         OnPasses!MapThenFoldSet, OnPasses!Largest
<1>2. \A k \in 1..4 : Queue(f, q[k], Passes[k])
  BY DEF Raised, Passes
<1>3. \A k \in 1..4 : Passes[k] \notin Instructions /\ \A i \in 1..(k - 1) : Passes[k] # Passes[i]
  BY DEF Passes, Instructions
<1>4. \A k \in 1..4 : Passes[k] \notin MergeKinds(k - 1)
  BY <1>3 DEF MergeKinds
<1>5. \A k \in 1..4 : MergeKinds(k) = MergeKinds(k - 1) \cup {Passes[k]}
  <2> TAKE k \in 1..4
  <2>1. 1..k = 1..(k - 1) \cup {k}
    OBVIOUS
  <2> QED
    BY <2>1 DEF MergeKinds
<1>6. DOMAIN q = 1..4 /\ z.f = f /\ z.n = n
  OBVIOUS
<1> HIDE DEF q, z
<1>7. Passed(z, 0, f)
  <2>1. MergeKinds(0) = Instructions
    BY DEF MergeKinds
  <2> QED
    BY <1>6, <2>1 DEF Passed
<1>8. ASSUME NEW k \in 1..4, NEW a, Passed(z, k - 1, a)
      PROVE  Passed(z, k, PassStep(0, 0, a, q[k]))
  <2>1. a.node = f.node /\ Holds(a, n, MergeKinds(k - 1))
    BY <1>6, <1>8 DEF Passed
  <2>2. Queue(a, q[k], Passes[k])
    BY <1>2, <2>1 DEF Queue
  <2> DEFINE s == MergeInstructions(a, q[k])
  <2>3. s.node = a.node /\ Holds(s, n, MergeKinds(k - 1) \cup {Passes[k]})
    BY <1>3, <1>4, <2>1, <2>2, MergeInstructionsKeeps
  <2> HIDE DEF s
  <2>4. Passed(z, k, s)
    BY <1>5, <1>6, <2>1, <2>3 DEF Passed
  <2> QED
    BY <2>4 DEF s, PassStep
<1>9. 4 \in Nat
  OBVIOUS
<1>10. Passed(z, 4, all)
  BY <1>6, <1>7, <1>8, <1>9, OnPasses!FoldInvariant, Smallest
<1> QED
  BY <1>1, <1>6, <1>10 DEF Passed, q

\* Merge.
LEMMA MergeKeeps ==
  ASSUME Given, method.insns # <<>>, NEW r, Raised(r), NEW d, Raw(r, d, Len(method.insns))
  PROVE  LET f == FixupSwitches(r)
             labels == [k \in 1..Cardinality(DOMAIN f.label) |-> f.label[Ordered(DOMAIN f.label)[k]]]
             s == FoldLeft(MergeInstructions, f, <<f.dbgs, f.begins, labels, f.ends>>)
         IN Holds(s, Len(method.insns), MergeKinds(4))
<1> DEFINE n == Len(method.insns)
           f == FixupSwitches(r)
           L == DOMAIN f.label
           labels == [k \in 1..Cardinality(L) |-> f.label[Ordered(L)[k]]]
<1>1. Raised(f) /\ Extends(r, f)
  BY FixupsRaised
<1> HIDE DEF f
<1>2. Raw(f, d, n)
  BY <1>1, RawKept
<1>3. InPlace(f, d, n, n)
  BY <1>1, <1>2, RawInPlace DEF Raised
<1>4. Holds(f, n, Instructions)
  <2>1. \A i \in 1..n : f.node[d[i]].kind \in Instructions
    BY <1>2 DEF Raw, Original
  <2> HIDE DEF n
  <2> QED
    BY <1>3, <2>1 DEF Holds
<1>5. /\ IsFiniteSet(L) /\ L \subseteq Int
      /\ \A o \in L : /\ f.label[o] \in DOMAIN f.node /\ f.node[f.label[o]].kind = "label"
                      /\ f.node[f.label[o]].off = o
  BY <1>1 DEF Raised, Labels
<1> HIDE DEF L
<1>6. PICK c : c = Cardinality(L)
  OBVIOUS
<1>7. /\ c \in Nat /\ Ordered(L) \in [1..c -> L]
      /\ \A j, k \in 1..c : Ordered(L)[j] = Ordered(L)[k] => j = k
  BY <1>5, <1>6, OrderedIs
<1>8. Queue(f, labels, "label")
  <2>1. labels = [k \in 1..c |-> f.label[Ordered(L)[k]]]
    BY <1>6
  <2>2. \A k \in 1..c : Ordered(L)[k] \in L
    BY <1>7
  <2> HIDE DEF labels
  <2>3. labels \in [1..c -> DOMAIN f.node]
    BY <1>5, <2>1, <2>2
  <2>4. labels \in Seq(DOMAIN f.node) /\ Len(labels) = c
    BY <1>7, <2>3, FunctionIsSeq
  <2>5. \A k \in 1..c : f.node[labels[k]].kind = "label" /\ f.node[labels[k]].off = Ordered(L)[k]
    BY <1>5, <2>1, <2>2
  <2>6. \A j, k \in 1..c : labels[j] = labels[k] => j = k
    BY <1>7, <2>5
  <2> QED
    BY <2>4, <2>5, <2>6 DEF Queue
<1> HIDE DEF labels
<1>9. Holds(FoldLeft(MergeInstructions, f, <<f.dbgs, f.begins, labels, f.ends>>), n, MergeKinds(4))
  BY <1>1, <1>4, <1>8, PassesKeep
<1> QED
  BY <1>9 DEF labels, L, f

-----------------------------------------------------------------------------
(* Transformations.                                                        *)

\* A node of the library, inserted at place j.
LEMMA AddedInPlace ==
  ASSUME NEW r, NEW d, NEW m, NEW n, InPlace(r, d, m, n), NEW j \in 1..(m + 1),
         \/ \A i \in 1..(j - 1) : r.node[d[i]].org # n
         \/ j \in 1..m /\ r.node[d[j]].kind \in Instructions,
         NEW op \in DOMAIN Ops, NEW args, IsSeq(args), Calling(op, args)
  PROVE  LET s == Added(r, d[j], op, args) IN
         \E e : /\ InPlace(s, e, m + 1, n)
                /\ e[j + 1] = d[j] /\ s.node[e[j]].org = 0
                /\ \A i \in 1..(j - 1) : e[i] = d[i]
                /\ \A i \in 1..m : \E k \in 1..(m + 1) : e[k] = d[i]
                /\ \A x \in DOMAIN r.node : x \in DOMAIN s.node /\ s.node[x] = r.node[x]
<1> DEFINE nd == CodeNode(op, args, Invalid, 0)
           a == Alloc(r, nd)
           p == Newest(a)
           s == InsertBefore(a, d[j], p)
           e == Put(d, m, j, p)
<1>1. Added(r, d[j], op, args) = s
  BY DEF Added
<1>2. GoodNode(nd) /\ nd.kind = "code" /\ nd.org = 0
  BY DEF GoodNode, CodeNode, Instructions
<1>3. Nodes(r) /\ IsList(r, d, m) /\ m \in Nat
  BY DEF InPlace, IsList
<1> HIDE DEF nd
<1>4. /\ Nodes(a) /\ Extends(r, a) /\ p \in DOMAIN a.node /\ p \notin DOMAIN r.node
      /\ a.node[p] = nd
  BY <1>2, <1>3, AllocNode
<1>5. \A x \in DOMAIN r.node : x \in DOMAIN a.node /\ a.node[x] = r.node[x]
  <2>1. a.node = Append(r.node, nd)
    BY <1>3 DEF Nodes, Lir, Alloc
  <2>2. /\ DOMAIN r.node = 1..Len(r.node) /\ DOMAIN a.node = 1..(Len(r.node) + 1)
        /\ \A x \in 1..Len(r.node) : a.node[x] = r.node[x]
    <3>1. IsSeq(a.node) /\ Len(a.node) = Len(r.node) + 1
      BY <1>3, <2>1, SeqFacts DEF Nodes
    <3> QED
      BY <1>3, <2>1, <3>1, SeqFacts DEF Nodes
  <2>3. Len(r.node) \in Nat
    BY <1>3, SeqFacts DEF Nodes
  <2> HIDE DEF a
  <2> QED
    BY <2>2, <2>3
<1> HIDE DEF a, p
<1>6. InPlace(a, d, m, n)
  BY <1>4, InPlaceKept
<1>7. \A i \in 1..m : d[i] \in DOMAIN r.node /\ d[i] # p
  BY <1>3, <1>4 DEF IsList
<1>8. \/ \A i \in 1..(j - 1) : a.node[d[i]].org # n
      \/ j \in 1..m /\ a.node[d[j]].kind \in Instructions
  <2>1. \A i \in 1..(j - 1) : i \in 1..m
    BY <1>3
  <2> QED
    BY <1>5, <1>7, <2>1
<1>9. InPlace(s, e, m + 1, n)
  BY <1>2, <1>4, <1>6, <1>7, <1>8, InsertInPlace
<1>10. s.node = a.node
  BY <1>4, InsertKeeps DEF Nodes
<1>11. /\ e[j + 1] = d[j] /\ e[j] = p
       /\ \A i \in 1..(j - 1) : e[i] = d[i]
  <2>1. j \in 1..(m + 2) /\ j + 1 \in 1..(m + 2) /\ j + 1 - 1 = j /\ ~(j + 1 < j) /\ j + 1 # j /\ ~(j < j)
    BY <1>3
  <2>2. \A i \in 1..(j - 1) : i \in 1..(m + 2) /\ i < j
    BY <1>3
  <2> QED
    BY <2>1, <2>2 DEF Put
<1>12. \A i \in 1..m : \E k \in 1..(m + 1) : e[k] = d[i]
  <2> TAKE i \in 1..m
  <2>1. CASE i < j
    <3>1. i \in 1..(m + 1) /\ i \in 1..(m + 2)
      BY <1>3
    <3> QED
      BY <2>1, <3>1 DEF Put
  <2>2. CASE i >= j
    <3>1. i + 1 \in 1..(m + 1) /\ i + 1 \in 1..(m + 2) /\ ~(i + 1 < j) /\ i + 1 # j /\ i + 1 - 1 = i
      BY <1>3, <2>2
    <3>2. e[i + 1] = d[i]
      BY <3>1 DEF Put
    <3> QED
      BY <3>1, <3>2
  <2> QED
    BY <1>3, <2>1, <2>2
<1> HIDE DEF s, e
<1>13. s.node[e[j]].org = 0
  BY <1>2, <1>4, <1>10, <1>11
<1> QED
  BY <1>1, <1>5, <1>9, <1>10, <1>11, <1>12, <1>13

\* Every node of d is in the list still, and of its kind.
Keeps(d, m, n, r, s) ==
  \E e, l : /\ InPlace(s, e, l, n)
            /\ \A i \in 1..m : /\ \E j \in 1..l : e[j] = d[i]
                               /\ s.node[d[i]].kind = r.node[d[i]].kind

\* A change of what a node holds.
LEMMA KeepsExtended ==
  ASSUME NEW d, NEW m, NEW n, NEW r, NEW s, Keeps(d, m, n, r, s),
         NEW t, Nodes(t), Extends(s, t)
  PROVE  Keeps(d, m, n, r, t)
<1>1. PICK e, l : /\ InPlace(s, e, l, n)
                  /\ \A i \in 1..m : /\ \E j \in 1..l : e[j] = d[i]
                                     /\ s.node[d[i]].kind = r.node[d[i]].kind
  BY DEF Keeps
<1>2. InPlace(t, e, l, n)
  BY <1>1, InPlaceKept
<1>3. \A j \in 1..l : e[j] \in DOMAIN s.node
  BY <1>1 DEF InPlace, IsList
<1>4. \A i \in 1..m : t.node[d[i]].kind = r.node[d[i]].kind
  BY <1>1, <1>3 DEF Extends, Same
<1> QED
  BY <1>1, <1>2, <1>4 DEF Keeps

\* Nothing done keeps the list.
LEMMA KeepsItself ==
  ASSUME NEW d, NEW m, NEW n, NEW r, InPlace(r, d, m, n)
  PROVE  Keeps(d, m, n, r, r)
<1>1. \A i \in 1..m : \E j \in 1..m : d[j] = d[i]
  OBVIOUS
<1>2. \E e, l : /\ InPlace(r, e, l, n)
                /\ \A i \in 1..m : /\ \E j \in 1..l : e[j] = d[i]
                                   /\ r.node[d[i]].kind = r.node[d[i]].kind
  <2> WITNESS d, m
  <2> QED
    BY <1>1
<1> QED
  BY <1>2 DEF Keeps

\* A node of the library before a node of the method.
LEMMA KeepsAdded ==
  ASSUME NEW d, NEW m, NEW n, NEW r, NEW s, Keeps(d, m, n, r, s), NEW i \in 1..m,
         r.node[d[i]].kind \in Instructions,
         NEW op \in DOMAIN Ops, NEW args, IsSeq(args), Calling(op, args)
  PROVE  Keeps(d, m, n, r, Added(s, d[i], op, args))
<1> DEFINE t == Added(s, d[i], op, args)
<1>1. PICK e, l : /\ InPlace(s, e, l, n)
                  /\ \A k \in 1..m : /\ \E j \in 1..l : e[j] = d[k]
                                     /\ s.node[d[k]].kind = r.node[d[k]].kind
  BY DEF Keeps
<1>2. PICK j \in 1..l : e[j] = d[i]
  BY <1>1
<1>3. l \in Nat /\ j \in 1..(l + 1) /\ s.node[e[j]].kind \in Instructions
  <2>1. l \in Nat
    BY <1>1 DEF InPlace, IsList
  <2>2. s.node[d[i]].kind = r.node[d[i]].kind
    BY <1>1
  <2> QED
    BY <1>2, <2>1, <2>2
<1>4. PICK u : /\ InPlace(Added(s, e[j], op, args), u, l + 1, n)
               /\ \A k \in 1..l : \E x \in 1..(l + 1) : u[x] = e[k]
               /\ \A x \in DOMAIN s.node : /\ x \in DOMAIN Added(s, e[j], op, args).node
                                           /\ Added(s, e[j], op, args).node[x] = s.node[x]
  <2>2. InPlace(s, e, l, n) /\ j \in 1..(l + 1) /\ j \in 1..l /\ s.node[e[j]].kind \in Instructions
    BY <1>1, <1>2, <1>3
  <2>3. \E u : /\ InPlace(Added(s, e[j], op, args), u, l + 1, n)
               /\ \A k \in 1..l : \E x \in 1..(l + 1) : u[x] = e[k]
               /\ \A x \in DOMAIN s.node : /\ x \in DOMAIN Added(s, e[j], op, args).node
                                           /\ Added(s, e[j], op, args).node[x] = s.node[x]
    BY <2>2, AddedInPlace, SMTT(40)
  <2> QED
    BY <2>3
<1>5. InPlace(t, u, l + 1, n) /\ \A x \in DOMAIN s.node : t.node[x] = s.node[x]
  BY <1>2, <1>4
<1> HIDE DEF t
<1>6. \A k \in 1..l : e[k] \in DOMAIN s.node
  BY <1>1 DEF InPlace, IsList
<1>7. ASSUME NEW k \in 1..m
      PROVE  (\E x \in 1..(l + 1) : u[x] = d[k]) /\ t.node[d[k]].kind = r.node[d[k]].kind
  <2>1. PICK y \in 1..l : e[y] = d[k]
    BY <1>1
  <2> QED
    BY <1>1, <1>4, <1>5, <1>6, <2>1
<1>8. Keeps(d, m, n, r, t)
  BY <1>5, <1>7 DEF Keeps
<1> QED
  BY <1>8 DEF t

\* A changed element leaves a sequence one.
LEMMA ExceptIsSeq ==
  ASSUME NEW s, IsSeq(s), NEW k, NEW v
  PROVE  IsSeq([s EXCEPT ![k] = v])
<1>1. PICK S : s \in Seq(S)
  BY DEF IsSeq
<1>2. CASE k \in DOMAIN s
  <2>1. s \in Seq(S \cup {v})
    BY <1>1, SeqMonotonic
  <2>2. [s EXCEPT ![k] = v] \in Seq(S \cup {v})
    BY <1>2, <2>1, ExceptSeq
  <2> QED
    BY <2>2 DEF IsSeq
<1>3. CASE k \notin DOMAIN s
  <2>1. s \in [1..Len(s) -> S] /\ DOMAIN s = 1..Len(s)
    BY <1>1
  <2>2. [s EXCEPT ![k] = v] = s
    BY <1>3, <2>1
  <2> QED
    BY <2>2
<1> QED
  BY <1>2, <1>3

\* The list is in place after what adds a check or registers.
LEMMA CheckedNodes ==
  ASSUME NEW r, Nodes(r), NEW c
  PROVE  LET s == Checked(r, c) IN Nodes(s) /\ Extends(r, s) /\ s.node = r.node /\ s.reg = r.reg
<1> DEFINE s == Checked(r, c)
<1>1. /\ Lir(s) /\ s.node = r.node /\ s.reg = r.reg
      /\ s.next = r.next /\ s.prev = r.prev /\ s.begin = r.begin
  BY DEF Nodes, Lir, Checked
<1> HIDE DEF s
<1>2. Extends(r, s) /\ Nodes(s)
  BY <1>1, SameReflexive DEF Extends, Nodes
<1> QED
  BY <1>1, <1>2 DEF s

\* A virtual register more leaves the nodes.
LEMMA VRegNodes ==
  ASSUME NEW r, Nodes(r), NEW v
  PROVE  LET s == VReg(r, v) IN Nodes(s) /\ Extends(r, s) /\ s.node = r.node
<1> DEFINE s == VReg(r, v)
<1>1. /\ Lir(s) /\ s.node = r.node
      /\ s.next = r.next /\ s.prev = r.prev /\ s.begin = r.begin
  BY DEF Nodes, Lir, VReg
<1> HIDE DEF s
<1>2. Extends(r, s) /\ Nodes(s)
  BY <1>1, SameReflexive DEF Extends, Nodes
<1> QED
  BY <1>1, <1>2 DEF s

\* Places of an instruction list that are as they were.
OnList(r, n) == \E d, m : InPlace(r, d, m, n)

\* What only extends the code IR leaves its instructions on the list.
LEMMA OnListKept ==
  ASSUME NEW r, NEW s, Extends(r, s), Nodes(s), NEW n, OnList(r, n)
  PROVE  OnList(s, n)
BY InPlaceKept DEF OnList

\* The first bytecode is in the list.
LEMMA FirstBytecodeIs ==
  ASSUME NEW r, NEW d, NEW m, IsList(r, d, m)
  PROVE  \/ FirstBytecode(r) = Nil
         \/ \E k \in 1..m : FirstBytecode(r) = d[k] /\ r.node[d[k]].kind = "code"
<1> DEFINE c == Chain(r)
           I == {i \in 1..Len(c) : r.node[c[i]].kind = "code"}
<1>1. m \in Nat /\ d \in [1..(m + 1) -> Nat] /\ c = [i \in 1..m |-> d[i]]
  <2>1. m \in Nat /\ d \in [1..(m + 1) -> Nat]
    BY DEF IsList
  <2>2. c = [i \in 1..m |-> d[i]]
    BY ChainIs
  <2> QED
    BY <2>1, <2>2
<1>2. FirstBytecode(r) = IF I = {} THEN Nil ELSE IF Min(I) = 0 THEN Nil ELSE c[Min(I)]
  BY DEF FirstBytecode, SelectInSeq, IsCode
<1> HIDE DEF c
<1>3. Len(c) = m /\ \A i \in 1..m : c[i] = d[i]
  <2>1. c \in [1..m -> Nat]
    BY <1>1
  <2> QED
    BY <1>1, <2>1, FunctionIsSeq
<1>4. CASE I # {}
  <2>1. I \in SUBSET Nat
    BY <1>1, <1>3
  <2> HIDE DEF I
  <2>2. \E i \in I : \A k \in I : i <= k
    BY <1>4, <2>1, Smallest
  <2>3. Min(I) \in I
    BY <2>2 DEF Min
  <2>4. PICK i : i = Min(I)
    OBVIOUS
  <2>5. i \in 1..m /\ i # 0 /\ r.node[d[i]].kind = "code"
    <3>1. i \in 1..Len(c) /\ r.node[c[i]].kind = "code"
      BY <2>3, <2>4 DEF I
    <3>2. i \in 1..m
      BY <1>3, <3>1
    <3> QED
      BY <1>1, <1>3, <3>1, <3>2
  <2> QED
    BY <1>2, <1>3, <1>4, <2>4, <2>5
<1> QED
  BY <1>2, <1>4

\* Any operand list of the hooks.
LEMMA HookOps ==
  /\ {"invoke_static_range", "invoke_static", "move_wide_16", "move_object_16", "move_16",
      "move_object", "const_string", "move_result", "move_result_object", "move_result_wide"}
       \subseteq DOMAIN Ops
  /\ \A op \in DOMAIN Ops : "return" \in Flags(op) =>
       op \in {"return_void", "return", "return_object", "return_wide"}
  /\ \A op \in {"return", "return_object", "return_wide"} : MoveResult[op] \in DOMAIN Ops
<1>1. {"invoke_static_range", "invoke_static", "move_wide_16", "move_object_16", "move_16",
       "move_object", "const_string", "move_result", "move_result_object", "move_result_wide"}
        \subseteq DOMAIN Ops
  BY SMTT(60) DEF Ops
<1>2. \A op \in DOMAIN Ops : "return" \in Ops[op].flags =>
       op \in {"return_void", "return", "return_object", "return_wide"}
  BY SMTT(60) DEF Ops, Row, Go, May
<1>3. \A op \in {"return", "return_object", "return_wide"} :
        MoveResult[op] \in {"move_result", "move_result_object", "move_result_wide"}
  BY DEF MoveResult
<1> QED
  BY <1>1, <1>2, <1>3 DEF Flags

\* The calls of the hooks are calls, and their moves are not.
LEMMA HookCalls ==
  /\ \A b, x : \A c \in Nat : Calling("invoke_static_range", <<RegRange(b, c), x>>)
  /\ \A t, x : IsSeq(t) => Calling("invoke_static", <<<<"regs", t>>, x>>)
  /\ \A op \in {"move_wide_16", "move_object_16", "move_16", "move_object", "const_string",
                 "move_result", "move_result_object", "move_result_wide"} :
       \A args : Calling(op, args)
<1>1. Ops["invoke_static_range"].fmt = "kFmt3rc" /\ Ops["invoke_static"].fmt = "kFmt35c"
  BY SMTT(60) DEF Ops, Row
<1>2. ASSUME NEW b, NEW x, NEW c \in Nat
      PROVE  Calling("invoke_static_range", <<RegRange(b, c), x>>)
  <2>1. <<RegRange(b, c), x>>[1] = <<"range", <<b, c>>>> /\ Len(<<RegRange(b, c), x>>) = 2
    BY DEF RegRange
  <2> QED
    BY <1>1, <2>1 DEF Calling
<1>3. ASSUME NEW t, NEW x, IsSeq(t) PROVE Calling("invoke_static", <<<<"regs", t>>, x>>)
  BY <1>1, <1>3 DEF Calling
<1>4. ASSUME NEW op \in {"move_wide_16", "move_object_16", "move_16", "move_object", "const_string",
                        "move_result", "move_result_object", "move_result_wide"}, NEW args
      PROVE  Calling(op, args)
  <2>1. op \in DOMAIN Ops
    BY HookOps
  <2>2. "invoke" \notin Flags(op)
    BY <2>1, CallOps
  <2> QED
    BY <2>2 DEF Calling
<1> QED
  BY <1>2, <1>3, <1>4

\* EntryHook.
LEMMA EntryHookKeeps ==
  ASSUME code.ins \in Nat, NEW r, NEW n, OnList(r, n)
  PROVE  OnList(EntryHook(r), n)
<1>1. PICK d, m : InPlace(r, d, m, n)
  BY DEF OnList
<1>2. IsList(r, d, m) /\ m \in Nat
  BY <1>1 DEF InPlace, IsList
<1>3. CASE FirstBytecode(r) = Nil
  BY <1>3 DEF EntryHook
<1>4. CASE FirstBytecode(r) # Nil
  <2>1. PICK k \in 1..m : FirstBytecode(r) = d[k] /\ r.node[d[k]].kind = "code"
    BY <1>2, <1>4, FirstBytecodeIs
  <2> DEFINE op == "invoke_static_range"
             args == <<RegRange(code.regs - code.ins, code.ins), Index(EntryHookMethod)>>
  <2>2. op \in DOMAIN Ops /\ IsSeq(args) /\ Calling(op, args)
    BY HookOps, HookCalls, ShortSeqs
  <2>3. EntryHook(r) = Added(r, d[k], op, args)
    BY <1>4, <2>1 DEF EntryHook
  <2> HIDE DEF op, args
  <2>4. k \in 1..(m + 1) /\ r.node[d[k]].kind \in Instructions
    BY <1>2, <2>1 DEF Instructions
  <2>5. \E e : InPlace(Added(r, d[k], op, args), e, m + 1, n)
    BY <1>1, <2>1, <2>2, <2>4, AddedInPlace
  <2> QED
    BY <2>3, <2>5 DEF OnList
<1> QED
  BY <1>3, <1>4

\* The exit hook at one node of the list.
LEMMA HookReturnKeeps ==
  ASSUME NEW r, NEW d, NEW m, NEW n, NEW s, Keeps(d, m, n, r, s), NEW i \in 1..m
  PROVE  Keeps(d, m, n, r, HookReturn(s, d[i]))
<1> DEFINE nd == s.node[d[i]]
           inv == "invoke_static_range"
           v == <<RegRange(0, 0), Index(ExitHookMethod)>>
           cv == Checked(s, method.ret = "void")
           reg == nd.args[1]
           w == <<RegRange(s.reg[reg[2]], IF nd.op = "return_wide" THEN 2 ELSE 1),
                  Index(ExitHookMethod)>>
           cw == Checked(s, method.ret # "void")
           call == Added(cw, d[i], inv, w)
<1>1. PICK e, l : /\ InPlace(s, e, l, n)
                  /\ \A k \in 1..m : /\ \E j \in 1..l : e[j] = d[k]
                                     /\ s.node[d[k]].kind = r.node[d[k]].kind
  BY DEF Keeps
<1>2. Nodes(s) /\ d[i] \in DOMAIN s.node /\ nd.kind = r.node[d[i]].kind
  <2>1. Nodes(s) /\ \A j \in 1..l : e[j] \in DOMAIN s.node
    BY <1>1 DEF InPlace, IsList
  <2> QED
    BY <1>1, <2>1
<1>3. GoodNode(nd)
  BY <1>2 DEF Nodes
<1>4. inv \in DOMAIN Ops /\ IsSeq(v) /\ IsSeq(w) /\ IsSeq(<<reg>>)
      /\ Calling(inv, v) /\ Calling(inv, w)
  BY HookOps, HookCalls, ShortSeqs
<1>5. CASE nd.kind # "code" \/ "return" \notin Flags(nd.op)
  BY <1>5 DEF HookReturn, IsCode
<1>6. CASE nd.kind = "code" /\ nd.op = "return_void" /\ "return" \in Flags(nd.op)
  <2>1. HookReturn(s, d[i]) = Added(cv, d[i], inv, v)
    BY <1>6 DEF HookReturn, IsCode
  <2>2. Keeps(d, m, n, r, cv)
    BY <1>2, CheckedNodes, KeepsExtended
  <2>3. r.node[d[i]].kind \in Instructions
    BY <1>2, <1>6 DEF Instructions
  <2> HIDE DEF cv, v, inv
  <2> QED
    BY <1>4, <2>1, <2>2, <2>3, KeepsAdded
<1>7. CASE nd.kind = "code" /\ nd.op # "return_void" /\ "return" \in Flags(nd.op)
  <2>1. HookReturn(s, d[i]) = Added(call, d[i], MoveResult[nd.op], <<reg>>)
    BY <1>7 DEF HookReturn, IsCode
  <2>2. Keeps(d, m, n, r, cw)
    BY <1>2, CheckedNodes, KeepsExtended
  <2>3. r.node[d[i]].kind \in Instructions
    BY <1>2, <1>7 DEF Instructions
  <2>4. MoveResult[nd.op] \in DOMAIN Ops /\ Calling(MoveResult[nd.op], <<reg>>)
    <3>1. nd.op \in {"return", "return_object", "return_wide"}
      BY <1>3, <1>7, HookOps DEF GoodNode
    <3>2. MoveResult[nd.op] \in {"move_result", "move_result_object", "move_result_wide"}
      BY <3>1 DEF MoveResult
    <3> QED
      BY <3>2, HookOps, HookCalls
  <2> HIDE DEF cw, w, inv, reg, nd
  <2>5. Keeps(d, m, n, r, call)
    BY <1>4, <2>2, <2>3, KeepsAdded
  <2> HIDE DEF call
  <2> QED
    BY <1>4, <2>1, <2>3, <2>4, <2>5, KeepsAdded
<1> QED
  BY <1>5, <1>6, <1>7

HookStep(x, y, a, e) == HookReturn(a, e)
Hooking(z, k, a) == Keeps(z.d, z.m, z.n, z.r, a)
OnHooks == INSTANCE FoldInduction WITH Op <- HookStep, Inv <- Hooking

\* ExitHook.
LEMMA ExitHookKeeps ==
  ASSUME NEW r, NEW n, OnList(r, n)
  PROVE  OnList(ExitHook(r), n)
<1>1. PICK d, m : InPlace(r, d, m, n)
  BY DEF OnList
<1>2. IsList(r, d, m) /\ m \in Nat
  BY <1>1 DEF InPlace, IsList
<1> DEFINE c == [i \in 1..m |-> d[i]]
           z == [d |-> d, m |-> m, n |-> n, r |-> r]
           all == OnHooks!Fold(0, 0, r, c)
<1>3. Chain(r) = c /\ DOMAIN c = 1..m
  BY <1>2, ChainIs
<1>4. FoldLeft(HookReturn, r, c) = all
  BY DEF HookStep, OnHooks!Fold, FoldLeft, MapThenFoldSet, Max,
         OnHooks!MapThenFoldSet, OnHooks!Largest
<1>5. ExitHook(r) = all
  <2> HIDE DEF c, all
  <2> QED
    BY <1>3, <1>4 DEF ExitHook
<1>6. z.d = d /\ z.m = m /\ z.n = n /\ z.r = r
  OBVIOUS
<1>7. \A k \in 1..m : c[k] = d[k]
  OBVIOUS
<1> HIDE DEF c, z
<1>8. Hooking(z, 0, r)
  BY <1>1, <1>6, KeepsItself DEF Hooking
<1>9. ASSUME NEW k \in 1..m, NEW a, Hooking(z, k - 1, a)
      PROVE  Hooking(z, k, HookStep(0, 0, a, c[k]))
  BY <1>6, <1>7, <1>9, HookReturnKeeps DEF Hooking, HookStep
<1>10. Hooking(z, m, all)
  BY <1>2, <1>3, <1>8, <1>9, OnHooks!FoldInvariant, Smallest
<1> QED
  BY <1>5, <1>6, <1>10 DEF Hooking, Keeps, OnList

\* A fold over nodes of what keeps them.
Grown(z, k, a) == Nodes(a) /\ Extends(z, a)

\* The detour at one node.
LEMMA DetourKeeps ==
  ASSUME NEW r, Nodes(r), NEW n \in DOMAIN r.node
  PROVE  Grown(r, 0, Detour(r, n))
<1> DEFINE nd == r.node[n]
           op == Detoured[nd.op]
           md == [nd EXCEPT !.op = op, !.args[2] = Index(DetourMethod)]
           s == [r EXCEPT !.node[n] = md]
<1>1. GoodNode(nd)
  BY DEF Nodes
<1>2. CASE IsCode(r, n) /\ nd.op \in DOMAIN Detoured /\ nd.args[2] = Index(DetouredMethod)
  <2>1. Detour(r, n) = s
    <3>1. Detour(r, n) = [r EXCEPT !.node[n].op = op, !.node[n].args[2] = Index(DetourMethod)]
      BY <1>2 DEF Detour
    <3> QED
      BY <3>1
  <2>2. nd.op \in {"invoke_virtual", "invoke_virtual_range"} /\ op \in {"invoke_static", "invoke_static_range"}
    BY <1>2 DEF Detoured
  <2>3. ~Leaves(nd.op)
    <3>1. /\ Ops["invoke_virtual"].flags = May \cup {"invoke"}
          /\ Ops["invoke_virtual_range"].flags = May \cup {"invoke"}
      BY SMTT(60) DEF Ops, Row
    <3>2. Flags(nd.op) = {"continue", "throw", "invoke"}
      BY <2>2, <3>1 DEF Flags, May
    <3> HIDE DEF nd
    <3> QED
      BY <2>2, <3>2 DEF Leaves
  <2>4. op \in DOMAIN Ops
    BY <2>2, HookOps
  <2>5. /\ md.kind = nd.kind /\ md.org = nd.org /\ md.off = nd.off /\ md.op = op
        /\ md.args = [nd.args EXCEPT ![2] = Index(DetourMethod)]
        /\ {"kind", "off", "org", "op", "args"} \subseteq DOMAIN md
    BY <1>1, <1>2 DEF GoodNode, IsCode
  <2>6. IsSeq(md.args)
    BY <1>1, <1>2, <2>5, ExceptIsSeq DEF GoodNode, IsCode
  <2>10. Calling(op, md.args)
    <3>1. /\ nd.op \in DOMAIN Ops /\ "invoke" \in Flags(nd.op) /\ Calling(nd.op, nd.args)
          /\ IsSeq(nd.args) /\ Ops[op].fmt = Ops[nd.op].fmt
      <4>1. /\ Ops["invoke_virtual"].fmt = "kFmt35c" /\ Ops["invoke_static"].fmt = "kFmt35c"
            /\ Ops["invoke_virtual_range"].fmt = "kFmt3rc" /\ Ops["invoke_static_range"].fmt = "kFmt3rc"
        BY SMTT(60) DEF Ops, Row
      <4>2. /\ Ops["invoke_virtual"].flags = May \cup {"invoke"}
            /\ Ops["invoke_virtual_range"].flags = May \cup {"invoke"}
        BY SMTT(60) DEF Ops, Row
      <4>3. /\ nd.op = "invoke_virtual" => op = "invoke_static"
            /\ nd.op = "invoke_virtual_range" => op = "invoke_static_range"
        BY DEF Detoured
      <4>4. nd.op \in DOMAIN Ops /\ Calling(nd.op, nd.args) /\ IsSeq(nd.args)
        BY <1>1, <1>2 DEF GoodNode, IsCode
      <4> HIDE DEF nd, op
      <4> QED
        BY <2>2, <4>1, <4>2, <4>3, <4>4 DEF Flags
    <3>2. Len(md.args) = Len(nd.args) /\ (1 \in DOMAIN nd.args => md.args[1] = nd.args[1])
      <4>1. PICK S : nd.args \in Seq(S)
        BY <3>1 DEF IsSeq
      <4> HIDE DEF nd, md
      <4> QED
        BY <2>5, <4>1
    <3>3. Len(nd.args) = 2 /\ 1 \in DOMAIN nd.args
      BY <3>1, SeqFacts DEF Calling
    <3> HIDE DEF nd, md, op
    <3> QED
      BY <3>1, <3>2, <3>3 DEF Calling
  <2> HIDE DEF md, op
  <2>7. GoodNode(md)
    BY <1>1, <1>2, <2>4, <2>5, <2>6, <2>10 DEF GoodNode, IsCode
  <2>8. Same(nd, md)
    BY <1>2, <2>3, <2>5 DEF Same, Stops, IsCode
  <2> HIDE DEF nd
  <2>9. Nodes(s) /\ Extends(r, s)
    BY <2>7, <2>8, UpdateNode DEF nd
  <2> QED
    BY <2>1, <2>9 DEF Grown
<1>3. CASE ~(IsCode(r, n) /\ nd.op \in DOMAIN Detoured /\ nd.args[2] = Index(DetouredMethod))
  BY <1>3, ExtendsReflexive DEF Detour, Grown
<1> QED
  BY <1>2, <1>3

DetourStep(x, y, a, e) == Detour(a, e)
OnDetours == INSTANCE FoldInduction WITH Op <- DetourStep, Inv <- Grown

\* DetourVirtualInvoke.
LEMMA DetourInPlace ==
  ASSUME NEW r, NEW n, OnList(r, n)
  PROVE  OnList(DetourVirtualInvoke(r), n)
<1>1. PICK d, m : InPlace(r, d, m, n)
  BY DEF OnList
<1>2. IsList(r, d, m) /\ m \in Nat /\ Nodes(r) /\ \A i \in 1..m : d[i] \in DOMAIN r.node
  BY <1>1 DEF InPlace, IsList
<1> DEFINE c == [i \in 1..m |-> d[i]]
           all == OnDetours!Fold(0, 0, r, c)
<1>3. Chain(r) = c /\ DOMAIN c = 1..m
  BY <1>2, ChainIs
<1>4. FoldLeft(Detour, r, c) = all
  BY DEF DetourStep, OnDetours!Fold, FoldLeft, MapThenFoldSet, Max,
         OnDetours!MapThenFoldSet, OnDetours!Largest
<1>5. DetourVirtualInvoke(r) = all
  <2> HIDE DEF c, all
  <2> QED
    BY <1>3, <1>4 DEF DetourVirtualInvoke
<1>6. \A k \in 1..m : c[k] \in DOMAIN r.node
  BY <1>2
<1> HIDE DEF c
<1>7. Grown(r, 0, r)
  BY <1>2, ExtendsReflexive DEF Grown
<1>8. ASSUME NEW k \in 1..m, NEW a, Grown(r, k - 1, a)
      PROVE  Grown(r, k, DetourStep(0, 0, a, c[k]))
  <2>1. Nodes(a) /\ Extends(r, a) /\ c[k] \in DOMAIN a.node
    BY <1>6, <1>8 DEF Grown, Extends
  <2>2. Grown(a, 0, Detour(a, c[k]))
    BY <2>1, DetourKeeps
  <2> QED
    BY <2>1, <2>2, ExtendsTransitive DEF Grown, DetourStep
<1>9. Grown(r, m, all)
  BY <1>2, <1>3, <1>7, <1>8, OnDetours!FoldInvariant, Smallest
<1> HIDE DEF all
<1> QED
  BY <1>5, <1>9, OnListKept DEF Grown

\* RegsRenumberVisitor, at one operand.
LEMMA RenumberArgKeeps ==
  ASSUME NEW r, Nodes(r), NEW n \in DOMAIN r.node, r.node[n].kind \in {"code", "dbg"},
         NEW k, NEW shift
  PROVE  Grown(r, 0, RenumberArg(r, n, k, shift))
<1> DEFINE nd == r.node[n]
           a == nd.args[k]
           regs == [j \in DOMAIN a[2] |-> a[2][j] + shift]
           u == [nd.args EXCEPT ![k] = [a EXCEPT ![2] = regs]]
           v == [nd.args EXCEPT ![k] = [a EXCEPT ![2] = [a[2] EXCEPT ![1] = a[2][1] + shift]]]
           s(x) == [r EXCEPT !.node[n] = [nd EXCEPT !.args = x]]
<1>1. GoodNode(nd) /\ IsSeq(nd.args) /\ "args" \in DOMAIN nd
  BY DEF Nodes, GoodNode
<1>2. IsSeq(u) /\ IsSeq(v)
  BY <1>1, ExceptIsSeq
<1>8. Calling(nd.op, nd.args) =>
        /\ a[1] = "regs" => Calling(nd.op, u)
        /\ a[1] = "range" => Calling(nd.op, v)
  <2> SUFFICES ASSUME Calling(nd.op, nd.args), "invoke" \in Flags(nd.op)
               PROVE  /\ a[1] = "regs" => Calling(nd.op, u)
                      /\ a[1] = "range" => Calling(nd.op, v)
    BY DEF Calling
  <2>1. PICK S : nd.args \in Seq(S)
    BY <1>1 DEF IsSeq
  <2>2. Len(nd.args) = 2 /\ DOMAIN nd.args = 1..2
    BY <2>1 DEF Calling
  <2>3. ASSUME NEW x PROVE LET y == [nd.args EXCEPT ![k] = x] IN
                           Len(y) = 2 /\ y[1] = IF k = 1 THEN x ELSE nd.args[1]
    BY <2>1, <2>2
  <2>4. CASE k # 1
    BY <2>3, <2>4 DEF Calling
  <2>5. CASE k = 1 /\ Ops[nd.op].fmt = "kFmt3rc"
    <3>1. PICK b : \E c \in Nat : a = <<"range", <<b, c>>>>
      BY <2>5 DEF Calling
    <3>2. PICK c \in Nat : a = <<"range", <<b, c>>>>
      BY <3>1
    <3>3. v[1] = <<"range", <<b + shift, c>>>> /\ Len(v) = 2
      BY <2>3, <2>5, <3>2
    <3> QED
      BY <2>5, <3>2, <3>3 DEF Calling
  <2>6. CASE k = 1 /\ Ops[nd.op].fmt # "kFmt3rc"
    <3>1. PICK t : IsSeq(t) /\ a = <<"regs", t>>
      BY <2>6 DEF Calling
    <3>2. IsSeq(regs)
      <4>1. DOMAIN t = 1..Len(t) /\ Len(t) \in Int
        BY <3>1, SeqFacts
      <4>2. regs = [j \in 1..Len(t) |-> regs[j]]
        BY <3>1, <4>1
      <4> HIDE DEF regs
      <4> QED
        BY <4>1, <4>2, IntervalSeq
    <3>3. u[1] = <<"regs", regs>> /\ Len(u) = 2
      <4> HIDE DEF regs
      <4> QED
        BY <2>3, <2>6, <3>1
    <3> HIDE DEF regs
    <3> QED
      BY <2>6, <3>1, <3>2, <3>3 DEF Calling
  <2> QED
    BY <2>4, <2>5, <2>6
<1>3. ASSUME NEW x, IsSeq(x), Calling(nd.op, nd.args) => Calling(nd.op, x) PROVE Grown(r, 0, s(x))
  <2> DEFINE md == [nd EXCEPT !.args = x]
  <2>1. /\ DOMAIN md = DOMAIN nd /\ md.args = x
        /\ md.kind = nd.kind /\ md.org = nd.org /\ md.off = nd.off /\ md.op = nd.op
        /\ md.kind \in {"code", "dbg"}
    BY <1>1 DEF GoodNode
  <2>2. s(x) = [r EXCEPT !.node[n] = md]
    OBVIOUS
  <2> HIDE DEF md
  <2>3. GoodNode(md)
    BY <1>1, <1>3, <2>1 DEF GoodNode
  <2>4. Same(nd, md)
    BY <2>1 DEF Same, Stops
  <2> HIDE DEF nd
  <2>5. Nodes([r EXCEPT !.node[n] = md]) /\ Extends(r, [r EXCEPT !.node[n] = md])
    BY <2>3, <2>4, UpdateNode DEF nd
  <2> QED
    BY <2>2, <2>5 DEF Grown
<1>4. CASE a[1] \in {"reg", "pair"}
  <2> DEFINE t == [r EXCEPT !.reg[a[2]] = @ + shift]
  <2>1. RenumberArg(r, n, k, shift) = t
    BY <1>4 DEF RenumberArg
  <2>2. Lir(t) /\ t.node = r.node /\ t.next = r.next /\ t.prev = r.prev /\ t.begin = r.begin
    BY DEF Nodes, Lir
  <2> HIDE DEF t
  <2> QED
    BY <2>1, <2>2, SameReflexive DEF Grown, Extends, Nodes
<1>5. CASE a[1] = "regs"
  <2>1. RenumberArg(r, n, k, shift) = [r EXCEPT !.node[n].args[k][2] = regs]
    BY <1>5 DEF RenumberArg
  <2>2. [r EXCEPT !.node[n].args[k][2] = regs] = s(u)
    OBVIOUS
  <2> HIDE DEF s, u, regs
  <2>3. Calling(nd.op, nd.args) => Calling(nd.op, u)
    BY <1>5, <1>8
  <2> HIDE DEF nd
  <2> QED
    BY <1>2, <1>3, <2>1, <2>2, <2>3
<1>6. CASE a[1] = "range"
  <2>1. RenumberArg(r, n, k, shift) = [r EXCEPT !.node[n].args[k][2][1] = @ + shift]
    BY <1>6 DEF RenumberArg
  <2>2. [r EXCEPT !.node[n].args[k][2][1] = @ + shift] = s(v)
    OBVIOUS
  <2>3. Calling(nd.op, nd.args) => Calling(nd.op, v)
    BY <1>6, <1>8
  <2> HIDE DEF s, v, nd
  <2> QED
    BY <1>2, <1>3, <2>1, <2>2, <2>3
<1>7. CASE a[1] \notin {"reg", "pair", "regs", "range"}
  BY <1>7, ExtendsReflexive DEF RenumberArg, Grown
<1> QED
  BY <1>4, <1>5, <1>6, <1>7

ArgStep(x, y, a, e) == RenumberArg(a, x, e, y)
OnArgs == INSTANCE FoldInduction WITH Op <- ArgStep, Inv <- Grown

\* RegsRenumberVisitor, at one node.
LEMMA RenumberNodeKeeps ==
  ASSUME NEW r, Nodes(r), NEW n \in DOMAIN r.node, NEW shift
  PROVE  Grown(r, 0, RenumberNode(r, n, shift))
<1> DEFINE args == r.node[n].args
           ks == [k \in 1..Len(args) |-> k]
           all == OnArgs!Fold(n, shift, r, ks)
<1>1. CASE r.node[n].kind \notin {"code", "dbg"}
  BY <1>1, ExtendsReflexive DEF RenumberNode, Grown
<1>2. CASE r.node[n].kind \in {"code", "dbg"}
  <2>1. FoldLeft(LAMBDA b, k : RenumberArg(b, n, k, shift), r, ks) = all
    BY DEF ArgStep, OnArgs!Fold, FoldLeft, MapThenFoldSet, Max,
           OnArgs!MapThenFoldSet, OnArgs!Largest
  <2>2. RenumberNode(r, n, shift) = all
    <3> HIDE DEF all
    <3> QED
      BY <1>2, <2>1 DEF RenumberNode
  <2>3. Len(args) \in Nat /\ DOMAIN ks = 1..Len(args)
    BY <1>2, SeqFacts DEF Nodes, GoodNode
  <2>4. Grown(r, 0, r)
    BY ExtendsReflexive DEF Grown
  <2> HIDE DEF ks
  <2>5. ASSUME NEW k \in 1..Len(args), NEW a, Grown(r, k - 1, a)
        PROVE  Grown(r, k, ArgStep(n, shift, a, ks[k]))
    <3>1. Nodes(a) /\ Extends(r, a) /\ n \in DOMAIN a.node /\ a.node[n].kind \in {"code", "dbg"}
      BY <1>2, <2>5 DEF Grown, Extends, Same
    <3>2. Grown(a, 0, RenumberArg(a, n, ks[k], shift))
      BY <3>1, RenumberArgKeeps
    <3> QED
      BY <3>1, <3>2, ExtendsTransitive DEF Grown, ArgStep
  <2>6. Grown(r, Len(args), all)
    BY <2>3, <2>4, <2>5, OnArgs!FoldInvariant, Smallest
  <2> HIDE DEF all
  <2> QED
    BY <2>2, <2>6 DEF Grown
<1> QED
  BY <1>1, <1>2

RenumberStep(x, y, a, e) == RenumberNode(a, e, x)
OnRenumber == INSTANCE FoldInduction WITH Op <- RenumberStep, Inv <- Grown

\* Renumbering changes no place.
LEMMA RenumberKeeps ==
  ASSUME NEW r, NEW n, OnList(r, n), NEW shift
  PROVE  Grown(r, 0, Renumber(r, shift))
<1>1. PICK d, m : InPlace(r, d, m, n)
  BY DEF OnList
<1>2. IsList(r, d, m) /\ m \in Nat /\ Nodes(r) /\ \A i \in 1..m : d[i] \in DOMAIN r.node
  BY <1>1 DEF InPlace, IsList
<1> DEFINE c == [i \in 1..m |-> d[i]]
           all == OnRenumber!Fold(shift, 0, r, c)
<1>3. Chain(r) = c /\ DOMAIN c = 1..m
  BY <1>2, ChainIs
<1>4. FoldLeft(LAMBDA b, x : RenumberNode(b, x, shift), r, c) = all
  BY DEF RenumberStep, OnRenumber!Fold, FoldLeft, MapThenFoldSet, Max,
         OnRenumber!MapThenFoldSet, OnRenumber!Largest
<1>5. Renumber(r, shift) = all
  <2> HIDE DEF c, all
  <2> QED
    BY <1>3, <1>4 DEF Renumber
<1>6. \A k \in 1..m : c[k] \in DOMAIN r.node
  BY <1>2
<1> HIDE DEF c
<1>7. Grown(r, 0, r)
  BY <1>2, ExtendsReflexive DEF Grown
<1>8. ASSUME NEW k \in 1..m, NEW a, Grown(r, k - 1, a)
      PROVE  Grown(r, k, RenumberStep(shift, 0, a, c[k]))
  <2>1. Nodes(a) /\ Extends(r, a) /\ c[k] \in DOMAIN a.node
    BY <1>6, <1>8 DEF Grown, Extends
  <2>2. Grown(a, 0, RenumberNode(a, c[k], shift))
    BY <2>1, RenumberNodeKeeps
  <2> QED
    BY <2>1, <2>2, ExtendsTransitive DEF Grown, RenumberStep
<1>9. Grown(r, m, all)
  BY <1>2, <1>3, <1>7, <1>8, OnRenumber!FoldInvariant, Smallest
<1> HIDE DEF all
<1> QED
  BY <1>5, <1>9 DEF Grown

\* No original instruction is before the node `first`.
AtFront(r, first, n) ==
  \E d, m, j : /\ InPlace(r, d, m, n) /\ j \in 1..(m + 1) /\ d[j] = first
               /\ \A i \in 1..(j - 1) : r.node[d[i]].org = 0

\* At first the front is the first node.
LEMMA FrontBegin ==
  ASSUME NEW r, NEW n, OnList(r, n)
  PROVE  AtFront(r, r.begin, n)
<1>1. PICK d, m : InPlace(r, d, m, n)
  BY DEF OnList
<1>2. m \in Nat /\ d[1] = r.begin
  BY <1>1 DEF InPlace, IsList
<1>3. 1 \in 1..(m + 1) /\ \A i \in 1..(1 - 1) : r.node[d[i]].org = 0
  BY <1>2
<1> QED
  BY <1>1, <1>2, <1>3 DEF AtFront

\* What leaves the links leaves the front.
LEMMA FrontKept ==
  ASSUME NEW r, NEW first, NEW n, AtFront(r, first, n), NEW s, Nodes(s), Extends(r, s)
  PROVE  AtFront(s, first, n)
<1>1. PICK d, m, j : /\ InPlace(r, d, m, n) /\ j \in 1..(m + 1) /\ d[j] = first
                     /\ \A i \in 1..(j - 1) : r.node[d[i]].org = 0
  BY DEF AtFront
<1>2. InPlace(s, d, m, n)
  BY <1>1, InPlaceKept
<1>3. m \in Nat /\ \A i \in 1..m : d[i] \in DOMAIN r.node
  BY <1>1 DEF InPlace, IsList
<1>4. \A i \in 1..(j - 1) : i \in 1..m
  BY <1>1, <1>3
<1>5. \A i \in 1..(j - 1) : s.node[d[i]].org = 0
  BY <1>1, <1>3, <1>4 DEF Extends, Same
<1> QED
  BY <1>1, <1>2, <1>5 DEF AtFront

\* An instruction of the library is put before the front.
LEMMA FrontAdded ==
  ASSUME NEW r, NEW first, NEW n, AtFront(r, first, n),
         NEW op \in DOMAIN Ops, NEW args, IsSeq(args), Calling(op, args)
  PROVE  AtFront(Added(r, first, op, args), first, n)
<1> DEFINE s == Added(r, first, op, args)
<1>1. PICK d, m, j : /\ InPlace(r, d, m, n) /\ j \in 1..(m + 1) /\ d[j] = first
                     /\ \A i \in 1..(j - 1) : r.node[d[i]].org = 0
  BY DEF AtFront
<1>2. m \in Nat /\ n \in Nat \ {0} /\ j \in Nat /\ \A i \in 1..m : d[i] \in DOMAIN r.node
  BY <1>1 DEF InPlace, IsList
<1>3. \A i \in 1..(j - 1) : r.node[d[i]].org # n
  BY <1>1, <1>2
<1>4. PICK e : /\ InPlace(Added(r, d[j], op, args), e, m + 1, n)
               /\ e[j + 1] = d[j] /\ Added(r, d[j], op, args).node[e[j]].org = 0
               /\ \A i \in 1..(j - 1) : e[i] = d[i]
               /\ \A x \in DOMAIN r.node : Added(r, d[j], op, args).node[x] = r.node[x]
  BY <1>1, <1>3, AddedInPlace
<1>5. /\ InPlace(s, e, m + 1, n) /\ e[j + 1] = first /\ s.node[e[j]].org = 0
      /\ \A i \in 1..(j - 1) : e[i] = d[i]
      /\ \A x \in DOMAIN r.node : s.node[x] = r.node[x]
  BY <1>1, <1>4
<1> HIDE DEF s
<1>6. PICK k, l : k = j + 1 /\ l = m + 1
  OBVIOUS
<1>7. ASSUME NEW i \in 1..(k - 1) PROVE s.node[e[i]].org = 0
  <2>1. i = j \/ (i \in 1..(j - 1) /\ i \in 1..m)
    BY <1>1, <1>2, <1>6
  <2>2. i \in 1..(j - 1) /\ i \in 1..m => e[i] = d[i] /\ d[i] \in DOMAIN r.node /\ r.node[d[i]].org = 0
    BY <1>1, <1>2, <1>5
  <2> QED
    BY <1>5, <2>1, <2>2
<1>8. AtFront(s, first, n)
  <2>1. k \in 1..(l + 1)
    BY <1>1, <1>2, <1>6
  <2>2. InPlace(s, e, l, n) /\ e[k] = first
    BY <1>5, <1>6
  <2> QED
    BY <1>7, <2>1, <2>2 DEF AtFront
<1> QED
  BY <1>8 DEF s

\* With a front, the instructions are on the list.
LEMMA FrontOnList ==
  ASSUME NEW r, NEW first, NEW n, AtFront(r, first, n)
  PROVE  OnList(r, n)
BY DEF AtFront, OnList

\* A virtual register more leaves the front.
LEMMA FrontVReg ==
  ASSUME NEW r, NEW first, NEW n, AtFront(r, first, n), NEW v
  PROVE  AtFront(VReg(r, v), first, n)
<1>1. Nodes(r)
  BY DEF AtFront, InPlace
<1> QED
  BY <1>1, VRegNodes, FrontKept

ShiftStep(x, y, a, e) == ShiftParam(x, y, a, e)
Shifting(z, k, a) == AtFront(a.r, z.first, z.n)
OnShift == INSTANCE FoldInduction WITH Op <- ShiftStep, Inv <- Shifting

\* The move of one parameter.
LEMMA ShiftParamKeeps ==
  ASSUME NEW m, NEW first, NEW n, AtFront(m.r, first, n), NEW shift,
         NEW type \in {"wide", "reference", "scalar"}
  PROVE  AtFront(ShiftParam(first, shift, m, type).r, first, n)
<1> DEFINE tag == IF type = "wide" THEN "pair" ELSE "reg"
           one == VReg(m.r, m.reg - shift)
           vs == VReg(one, m.reg)
           k == Len(m.r.reg)
           op == CASE type = "wide" -> "move_wide_16"
                   [] type = "reference" -> "move_object_16"
                   [] type = "scalar" -> "move_16"
           args == <<<<tag, k + 1>>, <<tag, k + 2>>>>
<1>1. ShiftParam(first, shift, m, type).r = Added(vs, first, op, args)
  BY DEF ShiftParam
<1>2. op \in DOMAIN Ops /\ IsSeq(args) /\ Calling(op, args)
  <2>1. op \in {"move_wide_16", "move_object_16", "move_16"}
    OBVIOUS
  <2> HIDE DEF op
  <2>2. op \in DOMAIN Ops /\ Calling(op, args)
    BY <2>1, HookOps, HookCalls
  <2> QED
    BY <2>2, ShortSeqs
<1> HIDE DEF op, args
<1>3. AtFront(one, first, n)
  BY FrontVReg
<1> HIDE DEF one
<1>4. AtFront(vs, first, n)
  BY <1>3, FrontVReg
<1> HIDE DEF vs
<1> QED
  BY <1>1, <1>2, <1>4, FrontAdded

\* ShiftParams.
LEMMA ShiftParamsKeeps ==
  ASSUME Given, NEW r, NEW n, OnList(r, n), NEW regs, NEW shift
  PROVE  OnList(ShiftParams(r, regs, shift), n)
<1> DEFINE c == Checked(r, regs >= code.ins)
           b == [r |-> c, reg |-> regs - code.ins]
           ts == method.params
           z == [first |-> r.begin, n |-> n]
           all == OnShift!Fold(r.begin, shift, b, ts)
<1>1. ShiftParams(r, regs, shift) = all.r
  <2>1. FoldLeft(LAMBDA m, type : ShiftParam(r.begin, shift, m, type), b, ts) = all
    BY DEF ShiftStep, OnShift!Fold, FoldLeft, MapThenFoldSet, Max,
           OnShift!MapThenFoldSet, OnShift!Largest
  <2> HIDE DEF all
  <2> QED
    BY <2>1 DEF ShiftParams
<1>2. ts \in Seq({"wide", "reference", "scalar"})
  BY GivenOK
<1>3. Nodes(r)
  BY DEF OnList, InPlace
<1>4. AtFront(c, r.begin, n)
  BY <1>3, CheckedNodes, FrontBegin, FrontKept
<1>5. b.r = c /\ z.first = r.begin /\ z.n = n
  OBVIOUS
<1> HIDE DEF b, c, z, ts
<1>6. Len(ts) \in Nat /\ DOMAIN ts = 1..Len(ts)
      /\ \A k \in 1..Len(ts) : ts[k] \in {"wide", "reference", "scalar"}
  <2>1. Len(ts) \in Nat /\ DOMAIN ts = 1..Len(ts)
    BY <1>2
  <2> QED
    BY <1>2, <2>1, ElementOfSeq
<1>7. Shifting(z, 0, b)
  BY <1>4, <1>5 DEF Shifting
<1>8. ASSUME NEW k \in 1..Len(ts), NEW a, Shifting(z, k - 1, a)
      PROVE  Shifting(z, k, ShiftStep(r.begin, shift, a, ts[k]))
  BY <1>5, <1>6, <1>8, ShiftParamKeeps DEF Shifting, ShiftStep
<1>9. Shifting(z, Len(ts), all)
  BY <1>6, <1>7, <1>8, OnShift!FoldInvariant, Smallest
<1> HIDE DEF all
<1> QED
  BY <1>1, <1>5, <1>9, FrontOnList DEF Shifting

\* AllocateScratchRegs.
LEMMA AllocateInPlace ==
  ASSUME Given, NEW r, NEW n, OnList(r, n), NEW t, NEW c
  PROVE  OnList(Checked(AllocateScratchRegs(r, t), c), n)
<1> DEFINE delta == Renumbered(t)
           low == IF delta = 0 THEN r ELSE Renumber(r, delta)
           all == AllocateScratchRegs(r, t)
<1>1. OnList(low, n)
  <2>1. Grown(r, 0, Renumber(r, delta))
    BY RenumberKeeps
  <2>2. OnList(Renumber(r, delta), n)
    BY <2>1, OnListKept DEF Grown
  <2> QED
    BY <2>2
<1>2. all = IF code.ins = 0 \/ delta = t.count THEN low
            ELSE ShiftParams(low, code.regs + t.count, t.count - delta)
  BY DEF AllocateScratchRegs
<1> HIDE DEF all, low
<1>3. OnList(all, n)
  BY <1>1, <1>2, ShiftParamsKeeps
<1>4. Nodes(all)
  BY <1>3 DEF OnList, InPlace
<1>5. OnList(Checked(all, c), n)
  BY <1>3, <1>4, CheckedNodes, OnListKept
<1> QED
  BY <1>5 DEF all

\* What ClassTransform adds.
Probed(r, this) ==
  LET k == Len(r.reg)
      vs == VReg(VReg(VReg(r, 0), 1), this)
      moved == Added(vs, r.begin, "move_object", <<<<"reg", k + 1>>, <<"reg", k + 3>>>>)
      named == Added(moved, r.begin, "const_string", <<<<"reg", k + 2>>, Index(MethodDescString)>>)
  IN Added(named, r.begin, "invoke_static", <<<<"regs", <<0, 1>>>>, Index(PrintEnter)>>)

\* ApplyProbe.
LEMMA ProbeInPlace ==
  ASSUME NEW r, NEW n, OnList(r, n), NEW this
  PROVE  OnList(Probed(r, this), n)
<1> DEFINE k == Len(r.reg)
           v1 == VReg(r, 0)
           v2 == VReg(v1, 1)
           v3 == VReg(v2, this)
           m1 == <<<<"reg", k + 1>>, <<"reg", k + 3>>>>
           m2 == <<<<"reg", k + 2>>, Index(MethodDescString)>>
           m3 == <<<<"regs", <<0, 1>>>>, Index(PrintEnter)>>
           moved == Added(v3, r.begin, "move_object", m1)
           named == Added(moved, r.begin, "const_string", m2)
           all == Added(named, r.begin, "invoke_static", m3)
<1>1. Probed(r, this) = all
  BY DEF Probed
<1>2. IsSeq(m1) /\ IsSeq(m2) /\ IsSeq(m3)
  BY ShortSeqs
<1>3. "move_object" \in DOMAIN Ops /\ "const_string" \in DOMAIN Ops /\ "invoke_static" \in DOMAIN Ops
  BY HookOps
<1>11. /\ Calling("move_object", m1) /\ Calling("const_string", m2)
       /\ Calling("invoke_static", m3)
  BY HookCalls, ShortSeqs
<1> HIDE DEF m1, m2, m3
<1>4. AtFront(r, r.begin, n)
  BY FrontBegin
<1>5. AtFront(v1, r.begin, n)
  BY <1>4, FrontVReg
<1> HIDE DEF v1
<1>6. AtFront(v2, r.begin, n)
  BY <1>5, FrontVReg
<1> HIDE DEF v2
<1>7. AtFront(v3, r.begin, n)
  BY <1>6, FrontVReg
<1> HIDE DEF v3
<1>8. AtFront(moved, r.begin, n)
  BY <1>2, <1>3, <1>7, <1>11, FrontAdded
<1> HIDE DEF moved
<1>9. AtFront(named, r.begin, n)
  BY <1>2, <1>3, <1>8, <1>11, FrontAdded
<1> HIDE DEF named
<1>10. AtFront(all, r.begin, n)
  BY <1>2, <1>3, <1>9, <1>11, FrontAdded
<1> HIDE DEF all
<1> QED
  BY <1>1, <1>10, FrontOnList

-----------------------------------------------------------------------------
(* Encoding.                                                               *)

\* The n original instructions are in the list, once, in order.
Placed(r, d, m, n) ==
  /\ n \in Nat /\ m \in Nat /\ Lir(r) /\ IsList(r, d, m)
  /\ \A i \in 1..m : /\ r.node[d[i]].org \in 0..n
                     /\ r.node[d[i]].kind \notin Instructions => r.node[d[i]].org = 0
                     /\ r.node[d[i]].kind = "code" => r.node[d[i]].op \in DOMAIN Ops
  /\ \A o \in 1..n : \E i \in 1..m : r.node[d[i]].org = o
  /\ \A i, j \in 1..m : i < j /\ r.node[d[i]].org # 0 /\ r.node[d[j]].org # 0
                          => r.node[d[i]].org < r.node[d[j]].org

\* A list in place has its instructions placed.
LEMMA InPlacePlaced ==
  ASSUME NEW r, NEW d, NEW m, NEW n, InPlace(r, d, m, n)
  PROVE  Placed(r, d, m, n)
<1>1. IsList(r, d, m) /\ Nodes(r) /\ n \in Nat
  BY DEF InPlace
<1>2. m \in Nat /\ \A i \in 1..m : d[i] \in DOMAIN r.node
  BY <1>1 DEF IsList
<1>3. \A i \in 1..m : GoodNode(r.node[d[i]])
  BY <1>1, <1>2 DEF Nodes
<1>4. \A i \in 1..m : /\ r.node[d[i]].kind \notin Instructions => r.node[d[i]].org = 0
                      /\ r.node[d[i]].kind = "code" => r.node[d[i]].op \in DOMAIN Ops
  BY <1>3 DEF GoodNode
<1>5. Lir(r)
  BY <1>1 DEF Nodes
<1> QED
  BY <1>1, <1>2, <1>4, <1>5 DEF InPlace, Placed

\* The offsets of nodes do not matter.
LEMMA PlacedKept ==
  ASSUME NEW r, NEW d, NEW m, NEW n, Placed(r, d, m, n), NEW s, Lir(s),
         s.next = r.next, s.prev = r.prev, s.begin = r.begin, DOMAIN s.node = DOMAIN r.node,
         \A x \in DOMAIN r.node : /\ s.node[x].kind = r.node[x].kind
                                  /\ s.node[x].org = r.node[x].org
                                  /\ s.node[x].kind = "code" => s.node[x].op = r.node[x].op
  PROVE  Placed(s, d, m, n)
<1>1. \A i \in 1..m : d[i] \in DOMAIN r.node
  BY DEF Placed, IsList
<1>2. IsList(s, d, m)
  BY DEF Placed, IsList
<1>3. \A i \in 1..m : /\ s.node[d[i]].kind = r.node[d[i]].kind
                      /\ s.node[d[i]].org = r.node[d[i]].org
                      /\ s.node[d[i]].kind = "code" => s.node[d[i]].op = r.node[d[i]].op
  BY <1>1
<1> QED
  BY <1>2, <1>3 DEF Placed

IsCall(i) == i.op \notin Payloads /\ "invoke" \in Flags(i.op)
SwitchPayloads == {"packed_payload", "sparse_payload"}

\* An encoded instruction has what its width and its arguments are read from.
Sized(i) ==
  /\ {"op", "org"} \subseteq DOMAIN i /\ i.org \in Nat
  /\ i.op \in SwitchPayloads => "to" \in DOMAIN i /\ IsSeq(i.to)
  /\ i.op = "array_payload" => "keys" \in DOMAIN i
  /\ IsCall(i) => "f" \in DOMAIN i /\ IsSeq(i.f) /\ Len(i.f) = 2 /\ ArgWords(i) \in Nat

\* The encoder's state: instructions that know their place.
Encoder(e) ==
  /\ e \in [ok : {e.ok}, off : {e.off}, insns : {e.insns}, outs : {e.outs}, fixups : {e.fixups},
            switches : {e.switches}]
  /\ IsSeq(e.insns) /\ IsSeq(e.fixups)
  /\ \A x \in 1..Len(e.insns) : Sized(e.insns[x])

\* The original instructions among the nodes before place k are encoded, in order.
Emitted(r, d, e, k) ==
  /\ \A x \in 1..Len(e.insns) : e.insns[x].org # 0 =>
       \E i \in 1..(k - 1) : r.node[d[i]].org = e.insns[x].org
  /\ \A i \in 1..(k - 1) : r.node[d[i]].org # 0 =>
       \E x \in 1..Len(e.insns) : e.insns[x].org = r.node[d[i]].org
  /\ \A x, y \in 1..Len(e.insns) : x < y /\ e.insns[x].org # 0 /\ e.insns[y].org # 0
                                     => e.insns[x].org < e.insns[y].org

\* An encoded node.
LEMMA EmitAppends ==
  ASSUME NEW r, NEW d, NEW m, NEW n, Placed(r, d, m, n), NEW k \in 1..m,
         NEW e, Encoder(e), Emitted(r, d, e, k), NEW f, NEW i, f.insns = Append(e.insns, i),
         i.org = r.node[d[k]].org
  PROVE  Emitted(r, d, f, k + 1)
<1> DEFINE L == Len(e.insns)
           org(x) == r.node[d[x]].org
<1>1. /\ m \in Nat /\ n \in Nat /\ k \in Nat /\ \A x \in 1..m : org(x) \in 0..n
      /\ \A x, y \in 1..m : x < y /\ org(x) # 0 /\ org(y) # 0 => org(x) < org(y)
  <2>1. m \in Nat /\ n \in Nat /\ \A x \in 1..m : r.node[d[x]].org \in 0..n
    BY DEF Placed
  <2>2. \A x, y \in 1..m : x < y /\ org(x) # 0 /\ org(y) # 0 => org(x) < org(y)
    BY DEF Placed
  <2>3. k \in Nat
    BY <2>1
  <2> QED
    BY <2>1, <2>2, <2>3
<1>2. /\ L \in Nat /\ Len(f.insns) = L + 1 /\ f.insns[L + 1] = i
      /\ \A x \in 1..L : f.insns[x] = e.insns[x]
  BY SeqFacts DEF Encoder
<1>3. /\ \A x \in 1..L : e.insns[x].org # 0 => \E y \in 1..(k - 1) : org(y) = e.insns[x].org
      /\ \A y \in 1..(k - 1) : org(y) # 0 => \E x \in 1..L : e.insns[x].org = org(y)
      /\ \A x, y \in 1..L : x < y /\ e.insns[x].org # 0 /\ e.insns[y].org # 0
                              => e.insns[x].org < e.insns[y].org
  BY DEF Emitted
<1>4. \A x \in 1..(k + 1 - 1) : x = k \/ x \in 1..(k - 1)
  BY <1>1
<1>5. \A x \in 1..(k - 1) : x \in 1..(k + 1 - 1) /\ x \in 1..m /\ x < k
  BY <1>1
<1>6. \A x \in 1..(L + 1) : x = L + 1 \/ x \in 1..L
  BY <1>2
<1>7. k \in 1..(k + 1 - 1) /\ L + 1 \in 1..(L + 1) /\ \A x \in 1..L : x \in 1..(L + 1) /\ x < L + 1
  BY <1>1, <1>2
<1>8. i.org = org(k)
  OBVIOUS
<1> HIDE DEF L, org
<1>9. \A x \in 1..(L + 1) : f.insns[x].org # 0 => \E y \in 1..(k + 1 - 1) : org(y) = f.insns[x].org
  BY <1>2, <1>3, <1>5, <1>6, <1>7, <1>8
<1>10. \A y \in 1..(k + 1 - 1) : org(y) # 0 => \E x \in 1..(L + 1) : f.insns[x].org = org(y)
  BY <1>2, <1>3, <1>4, <1>7, <1>8
<1>11. ASSUME NEW x \in 1..(L + 1), NEW y \in 1..(L + 1), x < y,
              f.insns[x].org # 0, f.insns[y].org # 0
       PROVE  f.insns[x].org < f.insns[y].org
  <2>1. x \in 1..L
    BY <1>2, <1>11
  <2>2. CASE y \in 1..L
    BY <1>2, <1>3, <1>11, <2>1, <2>2
  <2>3. CASE y = L + 1
    <3>1. PICK z \in 1..(k - 1) : org(z) = e.insns[x].org
      BY <1>2, <1>3, <1>11, <2>1
    <3>2. org(z) < org(k)
      BY <1>1, <1>2, <1>5, <1>8, <1>11, <2>1, <2>3, <3>1
    <3> QED
      BY <1>2, <1>8, <2>1, <2>3, <3>1, <3>2
  <2> QED
    BY <1>6, <2>2, <2>3
<1> QED
  BY <1>2, <1>9, <1>10, <1>11, SMTT(30) DEF Emitted, L, org

\* What is put in for alignment.
LEMMA EmitPads ==
  ASSUME NEW r, NEW d, NEW k, NEW e, Encoder(e), Emitted(r, d, e, k),
         NEW f, NEW i, f.insns = Append(e.insns, i), i.org = 0
  PROVE  Emitted(r, d, f, k)
<1> DEFINE L == Len(e.insns)
<1>1. /\ L \in Nat /\ Len(f.insns) = L + 1 /\ f.insns[L + 1] = i
      /\ \A x \in 1..L : f.insns[x] = e.insns[x]
  BY SeqFacts DEF Encoder
<1>2. \A x \in 1..(L + 1) : f.insns[x].org # 0 => x \in 1..L
  <2>1. \A x \in 1..(L + 1) : x = L + 1 \/ x \in 1..L
    BY <1>1
  <2> QED
    BY <1>1, <2>1
<1>3. \A x \in 1..L : x \in 1..(L + 1)
  BY <1>1
<1> QED
  BY <1>1, <1>2, <1>3 DEF Emitted

\* A node that is not encoded.
LEMMA EmitSkips ==
  ASSUME NEW r, NEW d, NEW m, NEW n, Placed(r, d, m, n), NEW k \in 1..m,
         NEW e, Emitted(r, d, e, k), r.node[d[k]].org = 0
  PROVE  Emitted(r, d, e, k + 1)
<1>1. k \in Nat
  BY DEF Placed
<1>2. \A x \in 1..(k + 1 - 1) : x = k \/ x \in 1..(k - 1)
  BY <1>1
<1>3. \A x \in 1..(k - 1) : x \in 1..(k + 1 - 1)
  BY <1>1
<1> QED
  BY <1>2, <1>3 DEF Emitted

\* What an encoder step leaves an encoder.
LEMMA EncoderAppends ==
  ASSUME NEW e, Encoder(e), NEW f, f \in [ok : {f.ok}, off : {f.off}, insns : {f.insns},
           outs : {f.outs}, fixups : {f.fixups}, switches : {f.switches}],
         NEW i, Sized(i), f.insns = Append(e.insns, i), IsSeq(f.fixups)
  PROVE  Encoder(f)
<1>1. /\ Len(e.insns) \in Nat /\ Len(f.insns) = Len(e.insns) + 1 /\ IsSeq(f.insns)
      /\ f.insns[Len(e.insns) + 1] = i
      /\ \A x \in 1..Len(e.insns) : f.insns[x] = e.insns[x]
  BY SeqFacts DEF Encoder
<1>2. \A x \in 1..Len(f.insns) : x = Len(e.insns) + 1 \/ x \in 1..Len(e.insns)
  BY <1>1
<1> QED
  BY <1>1, <1>2 DEF Encoder

\* Two sequences make one.
LEMMA ConcatIsSeq ==
  ASSUME NEW s, IsSeq(s), NEW t, IsSeq(t)
  PROVE  IsSeq(s \o t)
<1>1. PICK S, T : s \in Seq(S) /\ t \in Seq(T)
  BY DEF IsSeq
<1>2. s \in Seq(S \cup T) /\ t \in Seq(S \cup T)
  BY <1>1, SeqMonotonic
<1>3. s \o t \in Seq(S \cup T)
  BY <1>2
<1> QED
  BY <1>3 DEF IsSeq

\* f has instruction i more than e, counted and aligned.
Grows(e, f, i) ==
  /\ f.insns = Append(e.insns, i) /\ f.off = e.off + Width(i)
  /\ f.ok /\ i.op \in Payloads => e.off % 2 = 0
  /\ e.outs \in Nat => f.outs \in Nat /\ f.outs >= e.outs
  /\ e.outs \in Nat /\ IsCall(i) => ArgWords(i) <= f.outs

\* f has a new entry v at o.
NewEntry(e, f, kind, o, v) == f.switches = [e.switches EXCEPT ![kind] = With(@, o, v)]

\* f has one more instruction than e, for the original instruction org.
Emits(e, f, org) == Encoder(f) /\ \E i : Grows(e, f, i) /\ i.org = org

\* The call that is encoded for one of the code IR passes as many words.
LEMMA LoweredCall ==
  ASSUME NEW r, NEW e, NEW nd, nd.op \in DOMAIN Ops, Calling(nd.op, nd.args), IsSeq(nd.args),
         NEW op, op = IF nd.op = "goto" THEN "goto_16" ELSE nd.op, "invoke" \in Flags(op),
         NEW i, i.op = op, 1 \in DOMAIN nd.args => i.f[1] = LowerOperand(r, e, op, nd.args[1], 1).f
  PROVE  /\ Len(nd.args) = 2 /\ ArgCount(nd.args[1]) \in Nat /\ ArgWords(i) = ArgCount(nd.args[1])
<1> DEFINE a == nd.args[1]
<1>1. nd.op = op
  <2>1. CASE nd.op = "goto"
    <3>1. op = "goto_16" /\ "goto_16" \in DOMAIN Ops
      BY <2>1, SMTT(60) DEF Ops
    <3> QED
      BY <3>1, CallOps
  <2> QED
    BY <2>1
<1>2. Len(nd.args) = 2 /\ DOMAIN nd.args = 1..2
  BY <1>1, SeqFacts DEF Calling
<1>3. i.f[1] = LowerOperand(r, e, op, a, 1).f
  BY <1>2
<1>4. Ops[op].fmt = "kFmt35c" \/ Ops[op].fmt = "kFmt3rc"
  BY <1>1, CallOps, SMTT(30)
<1>5. Fields(Ops[op].fmt)[1][1] \in {"regs", "range"}
  BY <1>4, ZenonT(30) DEF Fields
<1>6. LowerOperand(r, e, op, a, 1) = LowerArgs(a)
  BY <1>5 DEF LowerOperand
<1>7. i.f[1] = a[2]
  BY <1>3, <1>6 DEF LowerArgs
<1>8. CASE Ops[op].fmt = "kFmt3rc"
  <2>1. PICK b : \E c \in Nat : a = <<"range", <<b, c>>>>
    BY <1>1, <1>8 DEF Calling
  <2>2. PICK c \in Nat : a = <<"range", <<b, c>>>>
    BY <2>1
  <2> QED
    BY <1>2, <1>7, <1>8, <2>2 DEF ArgCount, ArgWords
<1>9. CASE Ops[op].fmt # "kFmt3rc"
  <2>1. PICK t : IsSeq(t) /\ a = <<"regs", t>>
    BY <1>1, <1>9 DEF Calling
  <2>2. Len(t) \in Nat
    BY <2>1, SeqFacts
  <2> QED
    BY <1>2, <1>7, <1>9, <2>1, <2>2 DEF ArgCount, ArgWords
<1> QED
  BY <1>8, <1>9

\* Visit(Bytecode*).
LEMMA EncodeBytecodeIs ==
  ASSUME NEW r, NEW e, Encoder(e), NEW n, r.node[n].org \in Nat, r.node[n].op \in DOMAIN Ops,
         Calling(r.node[n].op, r.node[n].args), IsSeq(r.node[n].args)
  PROVE  /\ Emits(e, EncodeBytecode(r, e, n), r.node[n].org)
         /\ EncodeBytecode(r, e, n).switches = e.switches
<1> DEFINE nd == r.node[n]
           op == IF nd.op = "goto" THEN "goto_16" ELSE nd.op
           fs == Fields(Ops[op].fmt)
           low == [k \in DOMAIN nd.args |-> LowerOperand(r, e, op, nd.args[k], k)]
           open == {k \in DOMAIN fs : fs[k][1] = "branch" /\ r.node[nd.args[k][2]].off = Invalid}
           more == [k \in 1..Cardinality(open) |->
                     [at |-> Len(e.insns) + 1, off |-> e.off, label |-> nd.args[Len(fs)][2],
                      short |-> fs[Len(fs)][2] = Bits16]]
           i == [op |-> op, f |-> [k \in DOMAIN low |-> low[k].f], org |-> nd.org]
           f == EncodeBytecode(r, e, n)
<1>1. op \in DOMAIN Ops
  BY SMTT(60) DEF Ops
<1>2. IsFiniteSet(open) /\ Cardinality(open) \in Nat
  <2> HIDE DEF op
  <2>1. IsSeq(fs)
    BY <1>1, FormatsAre, FieldsAre
  <2>2. DOMAIN fs = 1..Len(fs) /\ Len(fs) \in Nat
    BY <2>1, SeqFacts
  <2> HIDE DEF fs
  <2>3. IsFiniteSet(DOMAIN fs)
    BY <2>2, FS_Interval
  <2>4. open \subseteq DOMAIN fs
    OBVIOUS
  <2> HIDE DEF open
  <2> QED
    BY <2>3, <2>4, FS_Subset, FS_CardinalityType
<1>3. IsSeq(more)
  <2> HIDE DEF open, fs
  <2>1. more = [k \in 1..Cardinality(open) |-> more[k]] /\ Cardinality(open) \in Int
    BY <1>2, SMTT(30)
  <2> HIDE DEF more
  <2> QED
    BY <2>1, IntervalSeq
<1>4. /\ f \in [ok : {f.ok}, off : {f.off}, insns : {f.insns},
                outs : {f.outs}, fixups : {f.fixups}, switches : {f.switches}]
      /\ f.insns = Append(e.insns, i) /\ f.fixups = e.fixups \o more
      /\ f.off = e.off + WidthOf(Ops[op].fmt) /\ f.switches = e.switches
      /\ f.outs = IF "invoke" \in Flags(op) /\ ArgCount(nd.args[1]) > e.outs
                  THEN ArgCount(nd.args[1]) ELSE e.outs
  <2> HIDE DEF low, open, more, fs, op, i
  <2>1. f = [e EXCEPT !.ok = @ /\ Len(nd.args) = Len(fs) /\ \A k \in DOMAIN low : low[k].ok,
               !.insns = Append(@, i),
               !.off = @ + WidthOf(Ops[op].fmt),
               !.fixups = @ \o more,
               !.outs = IF "invoke" \in Flags(op) /\ ArgCount(nd.args[1]) > @
                        THEN ArgCount(nd.args[1]) ELSE @]
    BY DEF EncodeBytecode, low, open, more, fs, op, i
  <2> HIDE DEF f
  <2> QED
    BY <2>1 DEF Encoder
<1>5. {"op", "org", "f"} = DOMAIN i /\ i.org = nd.org /\ i.op = op
      /\ i.f = [k \in DOMAIN low |-> low[k].f]
  OBVIOUS
<1>8. "invoke" \in Flags(op) => /\ IsSeq(i.f) /\ Len(i.f) = 2
                               /\ ArgCount(nd.args[1]) \in Nat
                               /\ ArgWords(i) = ArgCount(nd.args[1])
  <2> SUFFICES ASSUME "invoke" \in Flags(op)
               PROVE  /\ IsSeq(i.f) /\ Len(i.f) = 2 /\ ArgCount(nd.args[1]) \in Nat
                      /\ ArgWords(i) = ArgCount(nd.args[1])
    OBVIOUS
  <2>1. PICK md, o, v : md = nd /\ o = op /\ v = i.f
    OBVIOUS
  <2>2. o = (IF md.op = "goto" THEN "goto_16" ELSE md.op) /\ "invoke" \in Flags(o) /\ i.op = o
    BY <2>1, SMTT(30)
  <2>3. md.op \in DOMAIN Ops /\ Calling(md.op, md.args) /\ IsSeq(md.args)
    BY <2>1, SMTT(30)
  <2>4. /\ DOMAIN v = DOMAIN md.args
        /\ 1 \in DOMAIN md.args => i.f[1] = LowerOperand(r, e, o, md.args[1], 1).f
    BY <2>1
  <2>5. v = [k \in DOMAIN low |-> v[k]]
    BY <2>1, SMTT(30)
  <2>6. v = [k \in DOMAIN md.args |-> v[k]]
    BY <2>1, <2>5
  <2> HIDE DEF nd, op, low, i
  <2>7. /\ Len(md.args) = 2 /\ ArgCount(md.args[1]) \in Nat
        /\ ArgWords(i) = ArgCount(md.args[1])
    BY <2>2, <2>3, <2>4, LoweredCall
  <2>8. IsSeq(v) /\ Len(v) = 2
    <3>1. PICK n2 \in Int : n2 = 2
      OBVIOUS
    <3>2. DOMAIN md.args = 1..n2
      BY <2>3, <2>7, <3>1, SeqFacts
    <3>3. v = [k \in 1..n2 |-> v[k]] /\ DOMAIN v = 1..n2
      BY <2>4, <2>6, <3>2
    <3>4. IsSeq(v)
      BY <3>3, IntervalSeq
    <3> QED
      BY <3>1, <3>3, <3>4, SeqFacts
  <2> QED
    BY <2>1, <2>7, <2>8, SMTT(30)
<1>9. i.op \notin Payloads
  BY <1>1, <1>5, PayloadsApart
<1> HIDE DEF f, i, more, low
<1>10. Sized(i)
  BY <1>5, <1>8, <1>9 DEF Sized, IsCall, SwitchPayloads, Payloads
<1>11. Width(i) = WidthOf(Ops[op].fmt)
  BY <1>5, <1>9 DEF Width, Payloads
<1>6. IsSeq(f.fixups)
  BY <1>3, <1>4, ConcatIsSeq DEF Encoder
<1>7. Encoder(f)
  BY <1>4, <1>6, <1>10, EncoderAppends
<1>12. Grows(e, f, i)
  <2> HIDE DEF op, nd
  <2>1. PICK c, w : c = ArgCount(nd.args[1]) /\ w = ArgWords(i)
    OBVIOUS
  <2>2. IsCall(i) => "invoke" \in Flags(op)
    BY <1>5 DEF IsCall
  <2>3. "invoke" \in Flags(op) => c \in Nat /\ w = c
    BY <1>8, <2>1
  <2>4. f.outs = IF "invoke" \in Flags(op) /\ c > e.outs THEN c ELSE e.outs
    BY <1>4, <2>1
  <2>5. e.outs \in Nat => f.outs \in Nat /\ f.outs >= e.outs
    BY <2>3, <2>4
  <2>6. e.outs \in Nat /\ IsCall(i) => w <= f.outs
    BY <2>2, <2>3, <2>4
  <2> QED
    BY <1>4, <1>9, <1>11, <2>1, <2>5, <2>6 DEF Grows
<1> QED
  BY <1>4, <1>5, <1>7, <1>12 DEF f, Emits

\* Visit of a switch payload.
LEMMA EncodeSwitchIs ==
  ASSUME NEW r, NEW e, Encoder(e), NEW n, r.node[n].org \in Nat, r.node[n].kind \in {"packed", "sparse"},
         IsSeq(r.node[n].to), e.switches \in [packed : {e.switches.packed}, sparse : {e.switches.sparse}]
  PROVE  LET f == EncodeSwitch(r, e, n)
             L == Len(e.insns)
         IN /\ Emits(e, f, r.node[n].org)
            /\ f.insns[L + 1].op \in SwitchPayloads
            /\ Len(f.insns[L + 1].to) = Len(r.node[n].to)
            /\ \E v : v.node = n /\ v.at = L + 1 /\ NewEntry(e, f, r.node[n].kind, e.off, v)
<1> DEFINE nd == r.node[n]
           i == [op |-> IF nd.kind = "packed" THEN "packed_payload" ELSE "sparse_payload",
                 keys |-> nd.keys, to |-> [k \in DOMAIN nd.to |-> 0], org |-> nd.org]
           f == EncodeSwitch(r, e, n)
<1>1. {"op", "org", "to"} \subseteq DOMAIN i /\ i.org = nd.org /\ i.op \in SwitchPayloads
      /\ i.to = [k \in DOMAIN nd.to |-> 0]
  BY DEF SwitchPayloads
<1>5. IsSeq(i.to) /\ Len(i.to) = Len(nd.to)
  <2> HIDE DEF i
  <2>1. DOMAIN nd.to = 1..Len(nd.to) /\ Len(nd.to) \in Nat
    BY SeqFacts
  <2>2. i.to = [k \in 1..Len(nd.to) |-> 0]
    BY <1>1, <2>1
  <2> HIDE DEF nd
  <2> QED
    BY <2>1, <2>2, IntervalSeq
<1>6. i.op \in Payloads /\ i.op # "array_payload"
  <2> HIDE DEF i
  <2> QED
    BY <1>1 DEF SwitchPayloads, Payloads
<1>2. /\ f \in [ok : {f.ok}, off : {f.off}, insns : {f.insns},
                outs : {f.outs}, fixups : {f.fixups}, switches : {f.switches}]
      /\ f.insns = Append(e.insns, i) /\ f.fixups = e.fixups
      /\ f.off = e.off + Width(i) /\ f.outs = e.outs /\ (f.ok => e.off % 2 = 0)
      /\ f.switches = [e.switches EXCEPT ![nd.kind] = With(@, e.off, [node |-> n, at |-> Len(e.insns) + 1])]
  <2>1. f = [e EXCEPT !.ok = @ /\ e.off % 2 = 0 /\ e.off \notin DOMAIN e.switches[nd.kind],
               !.switches[nd.kind] = With(@, e.off, [node |-> n, at |-> Len(e.insns) + 1]),
               !.insns = Append(@, i),
               !.off = @ + Width(i)]
    BY DEF EncodeSwitch
  <2> HIDE DEF f, i, nd
  <2>2. PICK v : v = [node |-> n, at |-> Len(e.insns) + 1]
    OBVIOUS
  <2>3. DOMAIN e = {"ok", "off", "insns", "outs", "fixups", "switches"}
    BY DEF Encoder
  <2> QED
    BY <2>1, <2>2, <2>3
<1> HIDE DEF f, i, nd
<1>7. Sized(i)
  BY <1>1, <1>5, <1>6 DEF Sized, IsCall, nd
<1>3. IsSeq(f.fixups)
  BY <1>2 DEF Encoder
<1>4. Encoder(f)
  BY <1>2, <1>3, <1>7, EncoderAppends
<1>8. Grows(e, f, i)
  BY <1>2, <1>6 DEF Grows, IsCall
<1>9. f.insns[Len(e.insns) + 1] = i
  BY <1>2, SeqFacts DEF Encoder
<1>10. \E v : v.node = n /\ v.at = Len(e.insns) + 1 /\ NewEntry(e, f, nd.kind, e.off, v)
  <2>1. PICK v : v = [node |-> n, at |-> Len(e.insns) + 1]
    OBVIOUS
  <2>2. v.node = n /\ v.at = Len(e.insns) + 1
    BY <2>1
  <2> QED
    BY <1>2, <2>1, <2>2 DEF NewEntry
<1>11. Emits(e, f, nd.org)
  BY <1>1, <1>4, <1>8 DEF Emits
<1> QED
  BY <1>1, <1>5, <1>9, <1>10, <1>11 DEF f, nd

\* Visit(ArrayData*).
LEMMA EncodeArrayDataIs ==
  ASSUME NEW r, NEW e, Encoder(e), NEW n, r.node[n].org \in Nat
  PROVE  /\ Emits(e, EncodeArrayData(r, e, n), r.node[n].org)
         /\ EncodeArrayData(r, e, n).switches = e.switches
<1> DEFINE i == [op |-> "array_payload", keys |-> r.node[n].keys, org |-> r.node[n].org]
           f == EncodeArrayData(r, e, n)
<1>1. {"op", "org", "keys"} = DOMAIN i /\ i.org = r.node[n].org /\ i.op = "array_payload"
  OBVIOUS
<1>2. /\ f \in [ok : {f.ok}, off : {f.off}, insns : {f.insns},
                outs : {f.outs}, fixups : {f.fixups}, switches : {f.switches}]
      /\ f.insns = Append(e.insns, i) /\ f.fixups = e.fixups
      /\ f.off = e.off + Width(i) /\ f.outs = e.outs /\ (f.ok => e.off % 2 = 0)
      /\ f.switches = e.switches
  BY DEF EncodeArrayData, Encoder
<1> HIDE DEF f, i
<1>5. Sized(i) /\ i.op \in Payloads
  BY <1>1 DEF Sized, IsCall, SwitchPayloads, Payloads
<1>3. IsSeq(f.fixups)
  BY <1>2 DEF Encoder
<1>4. Encoder(f)
  BY <1>2, <1>3, <1>5, EncoderAppends
<1>6. Grows(e, f, i)
  BY <1>2, <1>5 DEF Grows, IsCall
<1> QED
  BY <1>1, <1>2, <1>4, <1>6 DEF f, Emits

\* The padding before an aligned label.
LEMMA PadForIs ==
  ASSUME NEW nd, NEW e, Encoder(e)
  PROVE  LET f == PadFor(nd, e) IN
         /\ Encoder(f) /\ f.switches = e.switches
         /\ f = e \/ \E i : Grows(e, f, i) /\ i.org = 0
<1> DEFINE i == [op |-> "nop", f |-> <<>>, org |-> 0]
           f == [e EXCEPT !.insns = Append(@, i), !.off = @ + 1]
<1>1. CASE nd.aligned /\ e.off % 2 = 1
  <2>1. PadFor(nd, e) = f
    BY <1>1 DEF PadFor
  <2>2. {"op", "org", "f"} = DOMAIN i /\ i.org = 0 /\ i.op = "nop"
    OBVIOUS
  <2>6. i.op \notin Payloads /\ "invoke" \notin Flags("nop") /\ WidthOf(Ops["nop"].fmt) = 1
    BY SMTT(60) DEF Payloads, Flags, Ops, Row, Go, WidthOf
  <2> HIDE DEF i
  <2>7. Sized(i) /\ ~IsCall(i) /\ Width(i) = 1
    BY <2>2, <2>6 DEF Sized, IsCall, Width, SwitchPayloads, Payloads
  <2>3. /\ f \in [ok : {f.ok}, off : {f.off}, insns : {f.insns},
                  outs : {f.outs}, fixups : {f.fixups}, switches : {f.switches}]
        /\ f.insns = Append(e.insns, i) /\ f.fixups = e.fixups
        /\ f.off = e.off + 1 /\ f.outs = e.outs /\ f.switches = e.switches
    BY DEF Encoder
  <2> HIDE DEF f
  <2>4. IsSeq(f.fixups)
    BY <2>3 DEF Encoder
  <2>5. Encoder(f)
    BY <2>3, <2>4, <2>7, EncoderAppends
  <2>8. Grows(e, f, i)
    BY <2>3, <2>6, <2>7 DEF Grows
  <2> QED
    BY <2>1, <2>2, <2>3, <2>5, <2>8
<1>2. CASE ~(nd.aligned /\ e.off % 2 = 1)
  BY <1>2 DEF PadFor
<1> QED
  BY <1>1, <1>2

\* The entry of a switch payload names it, and the node that it is encoded from.
Entry(r, e, s) ==
  /\ s.at \in 1..Len(e.insns) /\ e.insns[s.at].op \in SwitchPayloads
  /\ s.node \in DOMAIN r.node /\ r.node[s.node].kind \in {"packed", "sparse"}
  /\ IsSeq(r.node[s.node].to) /\ Len(e.insns[s.at].to) = Len(r.node[s.node].to)

Listed(r, e) ==
  /\ e.switches \in [packed : {e.switches.packed}, sparse : {e.switches.sparse}]
  /\ \A k \in {"packed", "sparse"} :
       \A o \in DOMAIN e.switches[k] : Entry(r, e, e.switches[k][o])

\* The encoder counts what it has encoded, aligns payloads, and covers calls.
Measured(e) ==
  /\ e.off = Size(e.insns) /\ e.outs \in Nat
  /\ e.ok => PayloadsAligned(e.insns)
  /\ OutsCover(e.insns, e.outs)

\* One instruction more.
LEMMA GrownMeasured ==
  ASSUME NEW e, Encoder(e), e.ok, Measured(e), NEW f, NEW i, Grows(e, f, i)
  PROVE  Measured(f)
<1>1. PICK s, t, L : s = e.insns /\ t = f.insns /\ L = Len(s)
  OBVIOUS
<1>2. t = Append(s, i) /\ IsSeq(s)
  BY <1>1 DEF Grows, Encoder
<1>3. /\ L \in Nat /\ Len(t) = L + 1 /\ DOMAIN s = 1..L /\ DOMAIN t = 1..(L + 1)
      /\ t[L + 1] = i /\ \A x \in 1..L : t[x] = s[x]
  <2>1. IsSeq(Append(s, i))
    BY <1>2, SeqFacts
  <2> QED
    BY <1>1, <1>2, <2>1, SeqFacts
<1>4. \A x \in 1..(L + 1) : OffsetOf(t, x) = OffsetOf(s, x)
  <2>1. \A x \in 1..L : Width(t[x]) = Width(s[x])
    BY <1>3
  <2>2. /\ Len(s) \in Nat /\ Len(t) \in Nat /\ Len(s) <= Len(t)
        /\ \A x \in 1..Len(s) : Width(t[x]) = Width(s[x])
    BY <1>1, <1>3, <2>1
  <2>3. \A x \in 1..(Len(s) + 1) : OffsetOf(t, x) = OffsetOf(s, x)
    BY <2>2, OffsetsAgree
  <2> QED
    BY <1>1, <2>3
<1>5. \A x \in 1..(L + 1) : x = L + 1 \/ x \in 1..L
  BY <1>3
<1>6. e.off = OffsetOf(s, L + 1) /\ e.outs \in Nat
  BY <1>1 DEF Measured, Size
<1>7. f.off = Size(t)
  <2>1. L + 1 \in 1..Len(t) /\ L + 1 \in 1..(L + 1)
    BY <1>3
  <2>2. OffsetOf(t, L + 1 + 1) = OffsetOf(t, L + 1) + Width(t[L + 1])
    BY <1>3, <2>1, OffsetsGrow
  <2>3. f.off = e.off + Width(i)
    BY DEF Grows
  <2> QED
    BY <1>3, <1>4, <1>6, <2>1, <2>2, <2>3 DEF Size
<1>8. f.outs \in Nat /\ f.outs >= e.outs
  BY <1>6 DEF Grows
<1>9. f.ok => PayloadsAligned(t)
  <2> SUFFICES ASSUME f.ok, NEW j \in 1..(L + 1), t[j].op \in Payloads
               PROVE  OffsetOf(t, j) % 2 = 0
    BY <1>3 DEF PayloadsAligned
  <2>1. CASE j = L + 1
    <3>1. e.off % 2 = 0
      BY <1>3, <2>1 DEF Grows
    <3> QED
      BY <1>4, <1>6, <2>1, <3>1
  <2>2. CASE j \in 1..L
    <3>1. PayloadsAligned(s)
      BY <1>1 DEF Measured
    <3>2. OffsetOf(s, j) % 2 = 0
      BY <1>3, <2>2, <3>1 DEF PayloadsAligned
    <3> QED
      BY <1>4, <3>2
  <2> QED
    BY <1>5, <2>1, <2>2
<1>10. OutsCover(t, f.outs)
  <2> SUFFICES ASSUME NEW j \in 1..(L + 1), IsCall(t[j])
               PROVE  ArgWords(t[j]) <= f.outs
    BY <1>3 DEF OutsCover, IsCall
  <2>1. CASE j = L + 1
    BY <1>3, <1>6, <2>1 DEF Grows
  <2>2. CASE j \in 1..L
    <3>1. OutsCover(s, e.outs)
      BY <1>1 DEF Measured
    <3>2. IsCall(s[j])
      BY <1>3, <2>2
    <3>3. ArgWords(s[j]) <= e.outs
      BY <1>3, <2>2, <3>1, <3>2 DEF OutsCover, IsCall
    <3>4. ArgWords(s[j]) \in Nat
      BY <1>1, <2>2, <3>2 DEF Encoder, Sized
    <3> QED
      BY <1>3, <1>6, <1>8, <2>2, <3>3, <3>4
  <2> QED
    BY <1>5, <2>1, <2>2
<1> QED
  BY <1>1, <1>7, <1>8, <1>9, <1>10 DEF Measured

\* The entries stay good when instructions are added.
LEMMA GrownListed ==
  ASSUME NEW r, NEW e, Encoder(e), Listed(r, e), NEW f, NEW i, Grows(e, f, i),
         f.switches = e.switches
  PROVE  Listed(r, f)
<1>1. \A x \in 1..Len(e.insns) : x \in 1..Len(f.insns) /\ f.insns[x] = e.insns[x]
  BY SeqFacts DEF Encoder, Grows
<1>2. ASSUME NEW s, Entry(r, e, s) PROVE Entry(r, f, s)
  BY <1>1, <1>2 DEF Entry
<1> QED
  BY <1>2 DEF Listed

\* The entry of a new switch payload is good.
LEMMA SwitchListed ==
  ASSUME NEW r, NEW e, Encoder(e), Listed(r, e), NEW n \in DOMAIN r.node,
         NEW kind \in {"packed", "sparse"}, r.node[n].kind = kind, IsSeq(r.node[n].to),
         NEW f, NEW i, Grows(e, f, i), i.op \in SwitchPayloads, Len(i.to) = Len(r.node[n].to),
         NEW v, v.node = n, v.at = Len(e.insns) + 1, NEW o, NewEntry(e, f, kind, o, v)
  PROVE  Listed(r, f)
<1>1. /\ Len(e.insns) \in Nat /\ Len(f.insns) = Len(e.insns) + 1
      /\ f.insns[Len(e.insns) + 1] = i
      /\ \A x \in 1..Len(e.insns) : x \in 1..Len(f.insns) /\ f.insns[x] = e.insns[x]
  BY SeqFacts DEF Encoder, Grows
<1>2. ASSUME NEW s, Entry(r, e, s) PROVE Entry(r, f, s)
  BY <1>1, <1>2 DEF Entry
<1>3. Entry(r, f, v)
  BY <1>1 DEF Entry
<1>4. PICK g : g = f.switches
  OBVIOUS
<1>5. /\ g \in [packed : {g.packed}, sparse : {g.sparse}]
      /\ g[kind] = With(e.switches[kind], o, v)
      /\ \A k \in {"packed", "sparse"} : k # kind => g[k] = e.switches[k]
  BY <1>4 DEF Listed, NewEntry
<1>6. ASSUME NEW k \in {"packed", "sparse"}, NEW x \in DOMAIN g[k] PROVE Entry(r, f, g[k][x])
  <2>1. \A y \in DOMAIN e.switches[k] : Entry(r, f, e.switches[k][y])
    BY <1>2 DEF Listed
  <2>2. CASE k # kind
    BY <1>5, <1>6, <2>1, <2>2
  <2>3. CASE k = kind
    <3>1. g[k] = With(e.switches[k], o, v)
      BY <1>5, <2>3
    <3>2. /\ x \in DOMAIN e.switches[k] \cup {o}
          /\ g[k][x] = IF x = o THEN v ELSE e.switches[k][x]
      BY <1>6, <3>1 DEF With
    <3> QED
      BY <1>3, <2>1, <3>2
  <2> QED
    BY <2>2, <2>3
<1> QED
  BY <1>4, <1>5, <1>6 DEF Listed

Encoded(r, e, n) ==
  LET nd == r.node[n] IN
  CASE nd.kind = "code" -> EncodeBytecode(r, e, n)
    [] nd.kind \in {"packed", "sparse"} -> EncodeSwitch(r, e, n)
    [] nd.kind = "array" -> EncodeArrayData(r, e, n)
    [] nd.kind = "label" -> PadFor(nd, e)
    [] OTHER -> e

\* One node of the list is encoded.
LEMMA EncodedKeeps ==
  ASSUME NEW r, NEW d, NEW m, NEW n, Placed(r, d, m, n), NEW k \in 1..m,
         NEW e, Encoder(e), Emitted(r, d, e, k), Nodes(r), Listed(r, e), Measured(e), e.ok
  PROVE  LET f == Encoded(r, e, d[k]) IN
         /\ Encoder(f) /\ Emitted(r, d, f, k + 1) /\ Listed(r, f) /\ Measured(f)
<1> DEFINE nd == r.node[d[k]]
           f == Encoded(r, e, d[k])
<1>1. /\ nd.org \in Nat /\ (nd.kind = "code" => nd.op \in DOMAIN Ops)
      /\ nd.kind \notin Instructions => nd.org = 0
  BY DEF Placed
<1>5. d[k] \in DOMAIN r.node /\ GoodNode(nd)
  BY DEF Placed, IsList, Nodes
<1>2. CASE nd.kind \in Instructions
  <2>1. Emits(e, f, nd.org) /\ Listed(r, f)
    <3>1. CASE nd.kind = "code"
      <4>1. f = EncodeBytecode(r, e, d[k])
        BY <3>1 DEF Encoded
      <4> QED
        <5>1. Emits(e, f, nd.org) /\ f.switches = e.switches
          <6>1. nd.op \in DOMAIN Ops /\ Calling(nd.op, nd.args) /\ IsSeq(nd.args)
            BY <1>5, <3>1 DEF GoodNode
          <6>2. PICK x : x = d[k]
            OBVIOUS
          <6>3. /\ r.node[x].org \in Nat /\ r.node[x].op \in DOMAIN Ops
                /\ Calling(r.node[x].op, r.node[x].args) /\ IsSeq(r.node[x].args)
            BY <1>1, <6>1, <6>2
          <6>4. /\ Emits(e, EncodeBytecode(r, e, x), r.node[x].org)
                /\ EncodeBytecode(r, e, x).switches = e.switches
            BY <6>3, EncodeBytecodeIs
          <6> QED
            BY <4>1, <6>2, <6>4
        <5> HIDE DEF f, nd
        <5> QED
          BY <5>1, GrownListed DEF Emits
    <3>2. CASE nd.kind \in {"packed", "sparse"}
      <4>1. f = EncodeSwitch(r, e, d[k])
        BY <3>2 DEF Encoded
      <4> QED
        <5>1. IsSeq(nd.to)
          BY <1>5, <3>2 DEF GoodNode
        <5>2. e.switches \in [packed : {e.switches.packed}, sparse : {e.switches.sparse}]
          BY DEF Listed
        <5>3. /\ Emits(e, f, nd.org)
              /\ f.insns[Len(e.insns) + 1].op \in SwitchPayloads
              /\ Len(f.insns[Len(e.insns) + 1].to) = Len(nd.to)
              /\ \E v : /\ v.node = d[k] /\ v.at = Len(e.insns) + 1
                       /\ NewEntry(e, f, nd.kind, e.off, v)
          BY <1>1, <3>2, <4>1, <5>1, <5>2, EncodeSwitchIs
        <5> HIDE DEF f
        <5>8. PICK v : /\ v.node = d[k] /\ v.at = Len(e.insns) + 1
                       /\ NewEntry(e, f, nd.kind, e.off, v)
          BY <5>3
        <5>4. PICK i : Grows(e, f, i) /\ i.org = nd.org
          BY <5>3 DEF Emits
        <5>5. f.insns[Len(e.insns) + 1] = i
          BY <5>4, SeqFacts DEF Grows, Encoder
        <5>6. i.op \in SwitchPayloads /\ Len(i.to) = Len(nd.to)
          BY <5>3, <5>5
        <5>7. Listed(r, f)
          BY <1>5, <3>2, <5>1, <5>4, <5>6, <5>8, SwitchListed
        <5> QED
          BY <5>3, <5>7
    <3>3. CASE nd.kind = "array"
      <4>1. f = EncodeArrayData(r, e, d[k])
        BY <3>3 DEF Encoded
      <4> QED
        <5>1. Emits(e, f, nd.org) /\ f.switches = e.switches
          BY <1>1, <4>1, EncodeArrayDataIs
        <5> HIDE DEF f, nd
        <5> QED
          BY <5>1, GrownListed DEF Emits
    <3> QED
      BY <1>2, <3>1, <3>2, <3>3 DEF Instructions
  <2> HIDE DEF f
  <2>2. PICK i : Grows(e, f, i) /\ i.org = nd.org
    BY <2>1 DEF Emits
  <2>3. Emitted(r, d, f, k + 1)
    BY <2>2, EmitAppends DEF Grows
  <2>4. Measured(f)
    BY <2>2, GrownMeasured
  <2> QED
    BY <2>1, <2>3, <2>4 DEF f, Emits
<1>3. CASE nd.kind = "label"
  <2> DEFINE g == PadFor(nd, e)
  <2>1. f = g /\ nd.org = 0
    BY <1>1, <1>3 DEF Encoded, Instructions
  <2>2. Encoder(g) /\ g.switches = e.switches
        /\ (g = e \/ \E i : Grows(e, g, i) /\ i.org = 0)
    BY PadForIs
  <2> HIDE DEF f, g, nd
  <2>3. Emitted(r, d, g, k) /\ Listed(r, g) /\ Measured(g)
    <3>1. CASE g = e
      BY <3>1
    <3>2. CASE g # e
      <4>1. PICK i : Grows(e, g, i) /\ i.org = 0
        BY <2>2, <3>2
      <4>2. Emitted(r, d, g, k)
        BY <4>1, EmitPads DEF Grows
      <4> QED
        BY <2>2, <4>1, <4>2, GrownListed, GrownMeasured
    <3> QED
      BY <3>1, <3>2
  <2>4. Emitted(r, d, g, k + 1)
    BY <2>1, <2>3, EmitSkips DEF nd
  <2> QED
    BY <2>1, <2>2, <2>3, <2>4 DEF f
<1>4. CASE nd.kind \notin Instructions \cup {"label"}
  <2>1. f = e /\ nd.org = 0
    BY <1>1, <1>4 DEF Encoded, Instructions
  <2> QED
    BY <2>1, EmitSkips
<1> QED
  BY <1>2, <1>3, <1>4

\* What the fixups leave of an instruction: its place, its width, its arguments.
Alike(i, j) ==
  /\ j.op = i.op /\ j.org = i.org /\ Width(j) = Width(i)
  /\ i.op \in SwitchPayloads => Len(j.to) = Len(i.to)
  /\ IsCall(i) => ArgWords(j) = ArgWords(i)

SameOrgs(z, k, a) ==
  /\ Encoder(a) /\ a.outs = z.outs /\ a.switches = z.switches
  /\ Len(a.insns) = Len(z.insns)
  /\ \A x \in 1..Len(z.insns) : Alike(z.insns[x], a.insns[x])

\* A branch is given its distance.
LEMMA PatchedField ==
  ASSUME NEW j, Sized(j), NEW v, NEW i, i = [j EXCEPT !.f[Len(j.f)] = v]
  PROVE  Sized(i) /\ Alike(j, i)
<1>1. DOMAIN i = DOMAIN j /\ \A x \in DOMAIN j : x # "f" => i[x] = j[x]
  OBVIOUS
<1>2. i.op = j.op /\ i.org = j.org
  BY <1>1 DEF Sized
<1>3. j.op \in SwitchPayloads => i.to = j.to
  BY <1>1 DEF Sized
<1>4. j.op = "array_payload" => i.keys = j.keys
  BY <1>1 DEF Sized
<1>5. Width(i) = Width(j)
  BY <1>2, <1>3, <1>4 DEF Width, SwitchPayloads
<1>6. IsCall(j) => /\ "f" \in DOMAIN i /\ IsSeq(i.f) /\ Len(i.f) = 2
                   /\ i.f[1] = j.f[1] /\ ArgWords(j) \in Nat
  <2> SUFFICES ASSUME IsCall(j)
               PROVE  /\ "f" \in DOMAIN i /\ IsSeq(i.f) /\ Len(i.f) = 2
                      /\ i.f[1] = j.f[1] /\ ArgWords(j) \in Nat
    OBVIOUS
  <2>1. PICK s : s = j.f
    OBVIOUS
  <2>2. "f" \in DOMAIN j /\ IsSeq(s) /\ Len(s) = 2 /\ ArgWords(j) \in Nat
    BY <2>1 DEF Sized
  <2>3. i.f = [s EXCEPT ![2] = v]
    BY <2>1, <2>2
  <2>4. DOMAIN s = 1..2
    BY <2>2, SeqFacts
  <2>5. PICK t : t = [s EXCEPT ![2] = v]
    OBVIOUS
  <2>6. DOMAIN t = 1..2 /\ t[1] = s[1]
    BY <2>4, <2>5
  <2>7. IsSeq(t)
    BY <2>2, <2>5, ExceptIsSeq
  <2>8. Len(t) = 2
    BY <2>6, <2>7, SeqFacts
  <2> QED
    BY <1>1, <2>1, <2>2, <2>3, <2>5, <2>6, <2>7, <2>8
<1>7. IsCall(i) = IsCall(j)
  BY <1>2 DEF IsCall
<1>8. IsCall(j) => ArgWords(i) = ArgWords(j)
  BY <1>2, <1>6 DEF ArgWords
<1>9. Sized(i)
  BY <1>1, <1>2, <1>3, <1>4, <1>6, <1>7, <1>8 DEF Sized
<1> QED
  BY <1>2, <1>3, <1>5, <1>8, <1>9 DEF Alike

\* A switch is given its targets.
LEMMA PatchedTargets ==
  ASSUME NEW j, Sized(j), j.op \in SwitchPayloads, NEW to, IsSeq(to), Len(to) = Len(j.to),
         NEW i, i = [j EXCEPT !.to = to]
  PROVE  Sized(i) /\ Alike(j, i)
<1>1. DOMAIN i = DOMAIN j /\ \A x \in DOMAIN j : x # "to" => i[x] = j[x]
  OBVIOUS
<1>2. i.op = j.op /\ i.org = j.org /\ i.to = to /\ j.org \in Nat
  BY <1>1 DEF Sized
<1>3. ~IsCall(j) /\ ~IsCall(i) /\ i.op # "array_payload"
  BY <1>2 DEF IsCall, SwitchPayloads, Payloads
<1>4. Width(i) = Width(j)
  BY <1>2 DEF Width, SwitchPayloads
<1>5. Sized(i)
  BY <1>1, <1>2, <1>3 DEF Sized
<1> QED
  BY <1>2, <1>3, <1>4, <1>5 DEF Alike

\* The fixups leave the entries good.
LEMMA FixedListed ==
  ASSUME NEW r, NEW e, Listed(r, e), NEW f, SameOrgs(e, 0, f)
  PROVE  Listed(r, f)
<1>1. ASSUME NEW s, Entry(r, e, s) PROVE Entry(r, f, s)
  <2>1. Alike(e.insns[s.at], f.insns[s.at]) /\ Len(f.insns) = Len(e.insns)
    BY <1>1 DEF Entry, SameOrgs
  <2> QED
    BY <1>1, <2>1 DEF Entry, Alike
<1> QED
  BY <1>1 DEF Listed, SameOrgs

\* And what is encoded aligned and covered.
LEMMA FixedMeasured ==
  ASSUME NEW e, Encoder(e), e.ok, Measured(e), NEW f, SameOrgs(e, 0, f)
  PROVE  PayloadsAligned(f.insns) /\ OutsCover(f.insns, f.outs)
<1>1. PICK s, t : s = e.insns /\ t = f.insns
  OBVIOUS
<1>2. /\ Len(s) \in Nat /\ Len(t) = Len(s) /\ DOMAIN s = 1..Len(s) /\ DOMAIN t = 1..Len(s)
      /\ \A x \in 1..Len(s) : Alike(s[x], t[x])
  <2>1. IsSeq(s) /\ IsSeq(t) /\ Len(t) = Len(s) /\ \A x \in 1..Len(s) : Alike(s[x], t[x])
    BY <1>1 DEF SameOrgs, Encoder
  <2> QED
    BY <2>1, SeqFacts
<1>3. \A x \in 1..Len(s) : OffsetOf(t, x) = OffsetOf(s, x)
  <2>1. \A x \in 1..Len(s) : Width(t[x]) = Width(s[x])
    BY <1>2 DEF Alike
  <2>2. Len(t) \in Nat /\ Len(s) <= Len(t)
    BY <1>2
  <2>3. \A x \in 1..(Len(s) + 1) : OffsetOf(t, x) = OffsetOf(s, x)
    BY <1>2, <2>1, <2>2, OffsetsAgree
  <2>4. \A x \in 1..Len(s) : x \in 1..(Len(s) + 1)
    BY <1>2
  <2> QED
    BY <2>3, <2>4
<1>4. PayloadsAligned(t)
  <2>1. PayloadsAligned(s)
    BY <1>1 DEF Measured
  <2>2. \A j \in 1..Len(s) : t[j].op = s[j].op
    BY <1>2 DEF Alike
  <2> QED
    BY <1>2, <1>3, <2>1, <2>2 DEF PayloadsAligned
<1>5. OutsCover(t, f.outs)
  <2>1. OutsCover(s, f.outs)
    BY <1>1 DEF Measured, SameOrgs
  <2> SUFFICES ASSUME NEW j \in 1..Len(s), IsCall(t[j])
               PROVE  ArgWords(t[j]) <= f.outs
    BY <1>2 DEF OutsCover, IsCall
  <2>2. Alike(s[j], t[j])
    BY <1>2
  <2>3. IsCall(s[j])
    BY <2>2 DEF Alike, IsCall
  <2>4. ArgWords(s[j]) <= f.outs
    BY <1>2, <2>1, <2>3 DEF OutsCover, IsCall
  <2> QED
    BY <2>2, <2>3, <2>4 DEF Alike
<1> QED
  BY <1>1, <1>4, <1>5

\* An instruction changed, but for its place.
LEMMA UpdateInsn ==
  ASSUME NEW e, Encoder(e), NEW f,
         f \in [ok : {f.ok}, off : {f.off}, insns : {f.insns}, outs : {f.outs},
                fixups : {f.fixups}, switches : {f.switches}],
         NEW y, NEW i, y \in 1..Len(e.insns) => Sized(i) /\ Alike(e.insns[y], i),
         f.insns = [e.insns EXCEPT ![y] = i], f.fixups = e.fixups,
         f.outs = e.outs, f.switches = e.switches
  PROVE  SameOrgs(e, 0, f)
<1>1. IsSeq(e.insns) /\ IsSeq(f.insns) /\ IsSeq(f.fixups)
  <2>1. IsSeq(e.insns) /\ IsSeq(e.fixups)
    BY DEF Encoder
  <2>2. IsSeq([e.insns EXCEPT ![y] = i])
    BY <2>1, ExceptIsSeq
  <2> QED
    BY <2>1, <2>2
<1>2. DOMAIN e.insns = 1..Len(e.insns) /\ DOMAIN f.insns = 1..Len(f.insns)
      /\ DOMAIN f.insns = DOMAIN e.insns /\ Len(e.insns) \in Nat /\ Len(f.insns) \in Nat
  BY <1>1, SeqFacts
<1>3. Len(f.insns) = Len(e.insns)
  BY <1>2
<1>4. \A x \in 1..Len(e.insns) : f.insns[x] = IF x = y THEN i ELSE e.insns[x]
  BY <1>2
<1>5. \A x \in 1..Len(e.insns) : Sized(f.insns[x]) /\ Alike(e.insns[x], f.insns[x])
  <2>1. \A j : Alike(j, j)
    BY DEF Alike
  <2> QED
    BY <1>4, <2>1 DEF Encoder
<1> QED
  BY <1>1, <1>3, <1>5 DEF Encoder, SameOrgs

\* A fixup to a label.
LEMMA FixupLabelKeeps ==
  ASSUME NEW e, Encoder(e), NEW fx
  PROVE  SameOrgs(e, 0, FixupLabel(e, fx))
<1> DEFINE rel == (lir.node[fx.label].off - fx.off) % 2 ^ Bits32
           k == Len(e.insns[fx.at].f)
           i == [e.insns[fx.at] EXCEPT !.f[k] = rel]
           f == FixupLabel(e, fx)
<1>1. f = [e EXCEPT !.ok = @ /\ rel # 0 /\ (fx.short => Fits(rel, Bits16)),
                    !.insns = [@ EXCEPT ![fx.at] = i]]
  BY DEF FixupLabel
<1>2. fx.at \in 1..Len(e.insns) => Sized(i) /\ Alike(e.insns[fx.at], i)
  <2> SUFFICES ASSUME fx.at \in 1..Len(e.insns) PROVE Sized(i) /\ Alike(e.insns[fx.at], i)
    OBVIOUS
  <2>1. PICK j, v : j = e.insns[fx.at] /\ v = rel
    OBVIOUS
  <2>2. Sized(j) /\ i = [j EXCEPT !.f[Len(j.f)] = v]
    BY <2>1 DEF Encoder
  <2> HIDE DEF i, rel, k
  <2>3. Sized(i) /\ Alike(j, i)
    BY <2>2, PatchedField
  <2> QED
    BY <2>1, <2>3
<1> HIDE DEF f, i, rel
<1>3. /\ f \in [ok : {f.ok}, off : {f.off}, insns : {f.insns}, outs : {f.outs},
                fixups : {f.fixups}, switches : {f.switches}]
      /\ f.insns = [e.insns EXCEPT ![fx.at] = i] /\ f.fixups = e.fixups
      /\ f.outs = e.outs /\ f.switches = e.switches
  BY <1>1 DEF Encoder
<1>4. SameOrgs(e, 0, f)
  BY <1>2, <1>3, UpdateInsn
<1> QED
  BY <1>4 DEF f

\* A fixup of the targets of a switch.
LEMMA FixupSwitchOffsetKeeps ==
  ASSUME NEW e, Encoder(e), Listed(lir, e), NEW j
  PROVE  SameOrgs(e, 0, FixupSwitchOffset(e, j))
<1> DEFINE off == OffsetOf(e.insns, j)
           k == SwitchKind(e.insns[j].op)
           there == off + Signed(e.insns[j].f[2], Bits32)
           s == e.switches[k][there]
           to == lir.node[s.node].to
           targets == [m \in DOMAIN to |-> lir.node[to[m]].off - off]
           i == [e.insns[s.at] EXCEPT !.to = targets]
           bad == [e EXCEPT !.ok = FALSE]
           fixed == [e EXCEPT !.insns = [@ EXCEPT ![s.at] = i]]
           f == FixupSwitchOffset(e, j)
<1>1. \/ f = e \/ f = bad
      \/ f = fixed /\ e.insns[j].op \in {"packed_switch", "sparse_switch"} /\ there \in DOMAIN e.switches[k]
  BY DEF FixupSwitchOffset
<1>2. ASSUME e.insns[j].op \in {"packed_switch", "sparse_switch"}, there \in DOMAIN e.switches[k]
      PROVE  Sized(i) /\ Alike(e.insns[s.at], i)
  <2>1. k \in {"packed", "sparse"}
    BY <1>2 DEF SwitchKind
  <2>2. Entry(lir, e, s)
    <3> HIDE DEF k, there
    <3> QED
      BY <1>2, <2>1, SMTT(30) DEF Listed
  <2>3. PICK g, v : g = e.insns[s.at] /\ v = targets
    <3> HIDE DEF s, targets
    <3> QED
      BY SMTT(30)
  <2>4. i = [g EXCEPT !.to = v]
    BY <2>3
  <2>5. IsSeq(to) /\ Sized(g) /\ g.op \in SwitchPayloads /\ Len(g.to) = Len(to)
    <3> HIDE DEF s
    <3> QED
      BY <2>2, <2>3 DEF Entry, Encoder
  <2>6. IsSeq(v) /\ Len(v) = Len(to)
    <3> HIDE DEF off, to
    <3>1. DOMAIN to = 1..Len(to) /\ Len(to) \in Nat
      BY <2>5, SeqFacts
    <3>2. v = [m \in 1..Len(to) |-> v[m]]
      BY <2>3, <3>1
    <3>3. IsSeq(v) /\ DOMAIN v = 1..Len(to)
      BY <3>1, <3>2, IntervalSeq
    <3> QED
      BY <3>1, <3>3, SeqFacts
  <2> HIDE DEF i, s, to, targets
  <2>7. Sized(i) /\ Alike(g, i)
    BY <2>4, <2>5, <2>6, PatchedTargets
  <2> QED
    BY <2>3, <2>7
<1> HIDE DEF f, i, s, there, k
<1>7. \A g : Alike(g, g)
  BY DEF Alike
<1>3. SameOrgs(e, 0, e)
  BY <1>7 DEF SameOrgs
<1>4. SameOrgs(e, 0, bad)
  BY <1>7 DEF SameOrgs, Encoder
<1>5. ASSUME f = fixed, e.insns[j].op \in {"packed_switch", "sparse_switch"}, there \in DOMAIN e.switches[k]
      PROVE  SameOrgs(e, 0, fixed)
  <2>1. /\ fixed \in [ok : {fixed.ok}, off : {fixed.off}, insns : {fixed.insns},
                      outs : {fixed.outs}, fixups : {fixed.fixups}, switches : {fixed.switches}]
        /\ fixed.insns = [e.insns EXCEPT ![s.at] = i] /\ fixed.fixups = e.fixups
        /\ fixed.outs = e.outs /\ fixed.switches = e.switches
    BY DEF Encoder
  <2> HIDE DEF fixed
  <2> QED
    BY <1>2, <1>5, <2>1, UpdateInsn
<1>6. SameOrgs(e, 0, f)
  BY <1>1, <1>3, <1>4, <1>5
<1> QED
  BY <1>6 DEF f

\* Fixups one after another.
LEMMA SameOrgsTransitive ==
  ASSUME NEW e, NEW f, NEW g, SameOrgs(e, 0, f), SameOrgs(f, 0, g)
  PROVE  SameOrgs(e, 0, g)
<1>1. ASSUME NEW i, NEW j, NEW k, Alike(i, j), Alike(j, k) PROVE Alike(i, k)
  BY <1>1 DEF Alike, IsCall
<1> QED
  BY <1>1 DEF SameOrgs

LabelStep(x, y, a, e) == FixupLabel(a, e)
OnLabels == INSTANCE FoldInduction WITH Op <- LabelStep, Inv <- SameOrgs
OffsetStep(x, y, a, e) == FixupSwitchOffset(a, e)
OnOffsetFixups == INSTANCE FoldInduction WITH Op <- OffsetStep, Inv <- SameOrgs

\* What Fixup writes.
LEMMA FixupKeeps ==
  ASSUME NEW e, Encoder(e), Listed(lir, e)
  PROVE  LET labelled == FoldLeft(FixupLabel, e, e.fixups)
             f == FoldLeft(FixupSwitchOffset, labelled, [j \in 1..Len(e.insns) |-> j])
         IN SameOrgs(e, 0, f)
<1> DEFINE labelled == OnLabels!Fold(0, 0, e, e.fixups)
           js == [j \in 1..Len(e.insns) |-> j]
           f == OnOffsetFixups!Fold(0, 0, labelled, js)
<1>1. FoldLeft(FixupLabel, e, e.fixups) = labelled
  BY DEF LabelStep, OnLabels!Fold, FoldLeft, MapThenFoldSet, Max,
         OnLabels!MapThenFoldSet, OnLabels!Largest
<1>2. Len(e.fixups) \in Nat /\ DOMAIN e.fixups = 1..Len(e.fixups)
  BY SeqFacts DEF Encoder
<1>3. SameOrgs(e, 0, e)
  <2>1. \A i : Alike(i, i)
    BY DEF Alike
  <2> QED
    BY <2>1 DEF SameOrgs
<1>4. ASSUME NEW k \in 1..Len(e.fixups), NEW a, SameOrgs(e, k - 1, a)
      PROVE  SameOrgs(e, k, LabelStep(0, 0, a, e.fixups[k]))
  <2>1. Encoder(a) /\ SameOrgs(e, 0, a)
    BY <1>4 DEF SameOrgs
  <2>2. SameOrgs(e, 0, FixupLabel(a, e.fixups[k]))
    BY <2>1, FixupLabelKeeps, SameOrgsTransitive
  <2> QED
    BY <2>2 DEF SameOrgs, LabelStep
<1>5. SameOrgs(e, Len(e.fixups), labelled)
  BY <1>2, <1>3, <1>4, OnLabels!FoldInvariant, Smallest
<1> HIDE DEF labelled
<1>6. FoldLeft(FixupSwitchOffset, labelled, js) = f
  BY DEF OffsetStep, OnOffsetFixups!Fold, FoldLeft, MapThenFoldSet, Max,
         OnOffsetFixups!MapThenFoldSet, OnOffsetFixups!Largest
<1>7. Len(e.insns) \in Nat /\ DOMAIN js = 1..Len(e.insns)
  BY SeqFacts DEF Encoder
<1> HIDE DEF js
<1>8. SameOrgs(e, 0, labelled)
  BY <1>5 DEF SameOrgs
<1>9. ASSUME NEW k \in 1..Len(e.insns), NEW a, SameOrgs(e, k - 1, a)
      PROVE  SameOrgs(e, k, OffsetStep(0, 0, a, js[k]))
  <2>1. Encoder(a) /\ SameOrgs(e, 0, a)
    BY <1>9 DEF SameOrgs
  <2>3. Listed(lir, a)
    BY <2>1, FixedListed
  <2>2. SameOrgs(e, 0, FixupSwitchOffset(a, js[k]))
    BY <2>1, <2>3, FixupSwitchOffsetKeeps, SameOrgsTransitive
  <2> QED
    BY <2>2 DEF SameOrgs, OffsetStep
<1>10. SameOrgs(e, Len(e.insns), f)
  BY <1>7, <1>8, <1>9, OnOffsetFixups!FoldInvariant, Smallest
<1> HIDE DEF f
<1>11. SameOrgs(e, 0, f)
  BY <1>10 DEF SameOrgs
<1> QED
  BY <1>1, <1>6, <1>11 DEF js

\* When every node is encoded, every original instruction is there, in its place.
LEMMA EmittedInOrder ==
  ASSUME NEW r, NEW d, NEW m, Placed(r, d, m, Len(method.insns)),
         NEW e, Encoder(e), NEW l, l = m + 1, Emitted(r, d, e, l), NEW f, SameOrgs(e, 0, f)
  PROVE  SameOrder(f.insns)
<1> DEFINE n == Len(method.insns)
           s == f.insns
           L == Len(e.insns)
<1>1. /\ m \in Nat /\ n \in Nat /\ \A i \in 1..m : r.node[d[i]].org \in 0..n
      /\ \A o \in 1..n : \E i \in 1..m : r.node[d[i]].org = o
  BY DEF Placed
<1>2. /\ L \in Nat /\ DOMAIN s = 1..L /\ \A x \in 1..L : s[x].org = e.insns[x].org
  <2>1. IsSeq(s) /\ Len(s) = L /\ \A x \in 1..L : s[x].org = e.insns[x].org
    BY DEF SameOrgs, Encoder, Alike
  <2> QED
    BY <2>1, SeqFacts
<1>3. l - 1 = m
  BY <1>1
<1>4. /\ \A x \in 1..L : e.insns[x].org # 0 => \E i \in 1..m : r.node[d[i]].org = e.insns[x].org
      /\ \A i \in 1..m : r.node[d[i]].org # 0 => \E x \in 1..L : e.insns[x].org = r.node[d[i]].org
      /\ \A x, y \in 1..L : x < y /\ e.insns[x].org # 0 /\ e.insns[y].org # 0
                              => e.insns[x].org < e.insns[y].org
  BY <1>3 DEF Emitted
<1> HIDE DEF n, s, L
<1>5. Own(s) = {x \in 1..L : e.insns[x].org # 0}
  BY <1>2 DEF Own
<1>6. {s[i].org : i \in Own(s)} = 1..n
  <2>1. ASSUME NEW i \in Own(s) PROVE s[i].org \in 1..n
    <3>1. i \in 1..L /\ e.insns[i].org # 0 /\ s[i].org = e.insns[i].org
      BY <1>2, <1>5
    <3>2. PICK j \in 1..m : r.node[d[j]].org = e.insns[i].org
      BY <1>4, <3>1
    <3> QED
      BY <1>1, <3>1, <3>2
  <2>2. ASSUME NEW o \in 1..n PROVE \E i \in Own(s) : s[i].org = o
    <3>1. o # 0
      BY <1>1
    <3>2. PICK j \in 1..m : r.node[d[j]].org = o
      BY <1>1
    <3>3. PICK x \in 1..L : e.insns[x].org = o
      BY <1>4, <3>1, <3>2
    <3> QED
      BY <1>2, <1>5, <3>1, <3>3
  <2> QED
    BY <2>1, <2>2
<1>7. \A i, j \in Own(s) : i < j => s[i].org < s[j].org
  BY <1>2, <1>4, <1>5
<1> QED
  BY <1>6, <1>7 DEF SameOrder, s, n

-----------------------------------------------------------------------------
(* The inductive invariant.                                                *)

\* s has the list and the nodes of r but for their offsets.
Relocated(r, s) ==
  /\ Nodes(s) /\ s.next = r.next /\ s.prev = r.prev /\ s.begin = r.begin
  /\ DOMAIN s.node = DOMAIN r.node
  /\ \A x \in DOMAIN r.node : /\ s.node[x].kind = r.node[x].kind
                              /\ s.node[x].org = r.node[x].org
                              /\ s.node[x].kind = "code" => s.node[x].op = r.node[x].op
                              /\ s.node[x].kind \in {"packed", "sparse"} => s.node[x].to = r.node[x].to

\* A node with another offset.
LEMMA MovedNode ==
  ASSUME NEW nd, GoodNode(nd), NEW v
  PROVE  LET md == [nd EXCEPT !.off = v] IN
         /\ GoodNode(md) /\ md.kind = nd.kind /\ md.org = nd.org
         /\ md.kind = "code" => md.op = nd.op
         /\ md.kind \in {"packed", "sparse"} => md.to = nd.to
BY DEF GoodNode

\* EncodeNext gives the node its offset.
LEMMA OneRelocated ==
  ASSUME NEW r, Nodes(r), NEW n, NEW v
  PROVE  Relocated(r, [r EXCEPT !.node[n].off = v])
<1> DEFINE md == [r.node[n] EXCEPT !.off = v]
           s == [r EXCEPT !.node[n].off = v]
<1>1. /\ Lir(s) /\ s.next = r.next /\ s.prev = r.prev /\ s.begin = r.begin
      /\ s.node = [r.node EXCEPT ![n] = md]
  BY DEF Nodes, Lir
<1>2. IsSeq(r.node) /\ \A x \in DOMAIN r.node : GoodNode(r.node[x])
  BY DEF Nodes
<1>3. n \in DOMAIN r.node => /\ GoodNode(md) /\ md.kind = r.node[n].kind
                             /\ md.org = r.node[n].org
                             /\ md.kind = "code" => md.op = r.node[n].op
                             /\ md.kind \in {"packed", "sparse"} => md.to = r.node[n].to
  BY <1>2, MovedNode
<1> HIDE DEF s, md
<1>4. IsSeq([r.node EXCEPT ![n] = md])
  BY <1>2, ExceptIsSeq
<1>5. /\ DOMAIN s.node = DOMAIN r.node
      /\ \A x \in DOMAIN r.node : s.node[x] = IF x = n THEN md ELSE r.node[x]
  <2>1. DOMAIN r.node = 1..Len(r.node)
    BY <1>2, SeqFacts
  <2> QED
    BY <1>1
<1>6. Nodes(s)
  BY <1>1, <1>2, <1>3, <1>4, <1>5 DEF Nodes
<1>7. Relocated(r, s)
  BY <1>1, <1>3, <1>5, <1>6 DEF Relocated
<1> QED
  BY <1>7 DEF s

\* Assemble forgets every offset.
LEMMA AllRelocated ==
  ASSUME NEW r, Nodes(r), NEW v
  PROVE  Relocated(r, [r EXCEPT !.node = [n \in DOMAIN @ |-> [@[n] EXCEPT !.off = v]]])
<1> DEFINE s == [r EXCEPT !.node = [n \in DOMAIN @ |-> [@[n] EXCEPT !.off = v]]]
           nodes == [n \in DOMAIN r.node |-> [r.node[n] EXCEPT !.off = v]]
<1>1. /\ Lir(s) /\ s.next = r.next /\ s.prev = r.prev /\ s.begin = r.begin
      /\ s.node = nodes
  BY DEF Nodes, Lir
<1>2. IsSeq(r.node) /\ \A x \in DOMAIN r.node : GoodNode(r.node[x])
  BY DEF Nodes
<1>3. ASSUME NEW x \in DOMAIN r.node
      PROVE  /\ GoodNode(nodes[x]) /\ nodes[x].kind = r.node[x].kind
             /\ nodes[x].org = r.node[x].org
             /\ nodes[x].kind = "code" => nodes[x].op = r.node[x].op
             /\ nodes[x].kind \in {"packed", "sparse"} => nodes[x].to = r.node[x].to
  <2>1. nodes[x] = [r.node[x] EXCEPT !.off = v]
    OBVIOUS
  <2> HIDE DEF nodes
  <2> QED
    BY <1>2, <2>1, MovedNode
<1>4. DOMAIN r.node = 1..Len(r.node) /\ Len(r.node) \in Int
  BY <1>2, SeqFacts
<1>5. nodes = [n \in 1..Len(r.node) |-> nodes[n]] /\ DOMAIN nodes = DOMAIN r.node
  BY <1>4
<1> HIDE DEF s, nodes
<1>6. IsSeq(nodes)
  BY <1>4, <1>5, IntervalSeq
<1>7. Nodes(s)
  BY <1>1, <1>3, <1>5, <1>6 DEF Nodes
<1>8. Relocated(r, s)
  BY <1>1, <1>3, <1>5, <1>7 DEF Relocated
<1> QED
  BY <1>8 DEF s

\* Offsets do not move what is placed.
LEMMA RelocatedPlaced ==
  ASSUME NEW r, NEW s, Relocated(r, s), NEW d, NEW m, NEW n, Placed(r, d, m, n)
  PROVE  Placed(s, d, m, n)
BY PlacedKept DEF Relocated, Nodes

\* Nor what is encoded.
LEMMA RelocatedEmitted ==
  ASSUME NEW r, NEW s, Relocated(r, s), NEW d, NEW m, NEW n, Placed(r, d, m, n),
         NEW k \in 1..(m + 1), NEW e, Emitted(r, d, e, k)
  PROVE  Emitted(s, d, e, k)
<1>1. \A i \in 1..m : d[i] \in DOMAIN r.node /\ s.node[d[i]].org = r.node[d[i]].org
  BY DEF Placed, IsList, Relocated
<1>2. m \in Nat
  BY DEF Placed
<1>3. \A i \in 1..(k - 1) : i \in 1..m
  BY <1>2
<1>4. \A i \in 1..(k - 1) : s.node[d[i]].org = r.node[d[i]].org
  BY <1>1, <1>3
<1> QED
  BY <1>4 DEF Emitted

\* Nor the entries of the switch payloads.
LEMMA RelocatedListed ==
  ASSUME NEW r, NEW s, Relocated(r, s), NEW e, Listed(r, e)
  PROVE  Listed(s, e)
<1>1. ASSUME NEW v, Entry(r, e, v) PROVE Entry(s, e, v)
  <2>1. v.node \in DOMAIN r.node /\ r.node[v.node].kind \in {"packed", "sparse"}
    BY <1>1 DEF Entry
  <2>2. /\ DOMAIN s.node = DOMAIN r.node /\ s.node[v.node].kind = r.node[v.node].kind
        /\ s.node[v.node].to = r.node[v.node].to
    BY <2>1 DEF Relocated
  <2> QED
    BY <1>1, <2>2 DEF Entry
<1> QED
  BY <1>1 DEF Listed

CodeRecord == code \in [regs : {code.regs}, ins : Nat, outs : {code.outs},
                        insns : {code.insns}, tries : {code.tries}, debug : {code.debug}]

\* at is the node to encode; those before it are encoded.
Encoding ==
  /\ Nodes(lir) /\ Encoder(enc) /\ Listed(lir, enc) /\ Measured(enc)
  /\ \E d, m, k : /\ Placed(lir, d, m, Len(method.insns))
                  /\ k \in 1..(m + 1) /\ at = d[k] /\ Emitted(lir, d, enc, k)

\* The encoded instructions are in order, payloads aligned, calls covered.
InPosition(body) ==
  SameOrder(body.insns) /\ PayloadsAligned(body.insns) /\ OutsCover(body.insns, body.outs)

DexInv ==
  /\ Given /\ CodeRecord
  /\ phase = "start" => lir = NewLir
  /\ phase \in {"bytecode", "tries", "debug", "merge", "transform"} => method.insns # <<>>
  /\ phase = "bytecode" => /\ at \in 1..Len(method.insns) /\ Raised(lir)
                           /\ \E d : Raw(lir, d, at - 1)
  /\ phase \in {"tries", "debug", "merge"} =>
       Raised(lir) /\ \E d : Raw(lir, d, Len(method.insns))
  /\ phase = "transform" => OnList(lir, Len(method.insns))
  /\ phase = "encode" => Encoding
  /\ phase \in {"lines", "handlers", "done"} => InPosition(code)

\* The empty list.
LEMMA NewLirRaised ==
  Raised(NewLir) /\ \E d : Raw(NewLir, d, 0)
<1> DEFINE d == [i \in 1..1 |-> 0]
           f == With(<<>>, 0, Nil)
<1>1. DOMAIN f = {0}
  <2>1. DOMAIN <<>> = {}
    OBVIOUS
  <2> QED
    BY <2>1 DEF With
<1> HIDE DEF f
<1>2. /\ Lir(NewLir) /\ NewLir.next = f /\ NewLir.prev = f /\ NewLir.begin = 0
      /\ NewLir.node = <<>> /\ NewLir.label = <<>> /\ NewLir.begins = <<>> /\ NewLir.ends = <<>>
      /\ NewLir.dbgs = <<>> /\ NewLir.switches = [packed |-> <<>>, sparse |-> <<>>]
  BY DEF NewLir, Lir, f
<1> DEFINE r == NewLir
<1> HIDE DEF r
<1>3. /\ Lir(r) /\ r.next = f /\ r.prev = f /\ r.begin = 0
      /\ r.node = <<>> /\ r.label = <<>> /\ r.begins = <<>> /\ r.ends = <<>>
      /\ r.dbgs = <<>> /\ r.switches = [packed |-> <<>>, sparse |-> <<>>]
  BY <1>2 DEF r
<1>4. DOMAIN <<>> = {} /\ IsFiniteSet({}) /\ Len(<<>>) = 0
  BY FS_EmptySet
<1>5. Nodes(r)
  BY <1>3, <1>4, ShortSeqs DEF Nodes
<1>6. Labels(r)
  BY <1>3, <1>4 DEF Labels
<1>7. Slots(r)
  <2>1. /\ r.switches \in [packed : {r.switches.packed}, sparse : {r.switches.sparse}]
        /\ \A k \in {"packed", "sparse"} : r.switches[k] = <<>>
    BY <1>3
  <2> QED
    BY <1>4, <2>1 DEF Slots
<1>8. \A kind : Queue(r, <<>>, kind)
  BY <1>4 DEF Queue
<1>9. Raised(r)
  BY <1>3, <1>5, <1>6, <1>7, <1>8 DEF Raised
<1>10. d[1] = 0 /\ d \in [1..(0 + 1) -> Nat] /\ {d[i] : i \in 1..(0 + 1)} = {0}
  OBVIOUS
<1> HIDE DEF d
<1>11. IsList(r, d, 0)
  <2>1. \A i, j \in 1..(0 + 1) : d[i] = d[j] => i = j
    OBVIOUS
  <2>2. d[0 + 1] = 0
    BY <1>10
  <2> QED
    BY <1>1, <1>3, <1>10, <2>1, <2>2 DEF IsList
<1>12. Raw(r, d, 0)
  BY <1>11 DEF Raw
<1> QED
  BY <1>9, <1>12 DEF r

\* What is raised stays raised while the method is the same.
LEMMA RaisedNext ==
  ASSUME NEW s, Raised(s), lir' = s, method' = method
  PROVE  Raised(lir)'
<1>1. /\ Nodes(s) /\ Labels(s) /\ Queue(s, s.dbgs, "dbg") /\ Queue(s, s.begins, "try_begin")
      /\ Queue(s, s.ends, "try_end")
  BY DEF Raised
<1>2. Slots(lir)'
  BY DEF Raised, Slots, PayloadAt
<1> QED
  BY <1>1, <1>2 DEF Raised

\* What is raised in order stays so while the method is the same.
LEMMA RawNext ==
  ASSUME NEW s, NEW d, NEW k, Raw(s, d, k), method' = method
  PROVE  Raw(s, d, k)'
BY DEF Raw, Original

\* At first nothing is raised, merged or encoded.
LEMMA DexInit == Init => DexInv
<1> SUFFICES ASSUME Init PROVE DexInv
  OBVIOUS
<1>1. Given
  BY DEF Init, Given
<1>2. CodeRecord
  BY <1>1, GivenOK DEF Init, CodeRecord
<1>3. phase = "start" /\ lir = NewLir
  BY DEF Init
<1> QED
  BY <1>1, <1>2, <1>3 DEF DexInv

\* Raising.
LEMMA StartKeeps == DexInv /\ Start => DexInv'
<1> SUFFICES ASSUME DexInv, Start PROVE DexInv'
  OBVIOUS
<1>1. /\ Given /\ CodeRecord /\ lir = NewLir
      /\ method' = method /\ plan' = plan /\ lir' = lir /\ code' = code /\ enc' = enc
  BY DEF DexInv, Start
<1>2. Given' /\ CodeRecord'
  BY <1>1 DEF Given, CodeRecord
<1>3. CASE method.insns = <<>>
  <2>1. phase' = "refused"
    BY <1>3 DEF Start
  <2> QED
    BY <1>2, <2>1 DEF DexInv
<1>4. CASE method.insns # <<>>
  <2>1. phase' = "bytecode" /\ at' = 1
    BY <1>4 DEF Start
  <2>2. Raised(lir)'
    BY <1>1, NewLirRaised, RaisedNext
  <2>3. PICK d : Raw(NewLir, d, 0)
    BY NewLirRaised
  <2>4. \E e : Raw(NewLir, e, 0)'
    <3>1. Raw(NewLir, d, 0)'
      BY <1>1, <2>3 DEF Raw, Original
    <3> QED
      BY <3>1
  <2>5. (\E e : Raw(lir, e, at - 1))'
    BY <1>1, <2>1, <2>4
  <2>6. IsSequence(method.insns)
    BY <1>1, GivenOK DEF InstructionsOK
  <2>7. 1 \in 1..Len(method.insns)
    <3>1. Len(method.insns) # 0
      BY <1>4, <2>6 DEF IsSequence
    <3> QED
      BY <2>6, <3>1 DEF IsSequence
  <2> QED
    BY <1>1, <1>2, <1>4, <2>1, <2>2, <2>5, <2>7 DEF DexInv
<1> QED
  BY <1>3, <1>4

\* One instruction is raised, at the end of the list.
LEMMA DecodeNextKeeps == DexInv /\ DecodeNext => DexInv'
<1> SUFFICES ASSUME DexInv, DecodeNext PROVE DexInv'
  OBVIOUS
<1> DEFINE n == Len(method.insns)
           a == Decoded(lir, method.insns[at], OffsetOf(method.insns, at))
           s == InsertBefore(a, 0, Newest(a))
<1>1. /\ Given /\ CodeRecord /\ method.insns # <<>> /\ at \in 1..n /\ Raised(lir)
      /\ \E d : Raw(lir, d, at - 1)
  BY DEF DexInv, DecodeNext
<1>2. /\ method' = method /\ plan' = plan /\ code' = code /\ enc' = enc
      /\ IF at = n THEN phase' = "tries" /\ at' = 0 ELSE phase' = phase /\ at' = at + 1
      /\ phase = "bytecode"
  BY DEF DecodeNext
<1>3. lir' = s
  BY DEF DecodeNext, Decoded
<1>4. Given' /\ CodeRecord'
  BY <1>1, <1>2 DEF Given, CodeRecord
<1>5. PICK d : Raw(lir, d, at - 1)
  BY <1>1
<1>6. Raised(s) /\ \E e : Raw(s, e, at)
  BY <1>1, <1>5, DecodedRaw
<1> HIDE DEF s
<1>7. Raised(lir)'
  BY <1>2, <1>3, <1>6, RaisedNext
<1>8. PICK r, k, e : r = s /\ k = at /\ Raw(r, e, k)
  BY <1>6
<1>9. Raw(r, e, k)'
  BY <1>2, <1>8, RawNext
<1>10. lir' = r
  BY <1>3, <1>8
<1>11. n \in Nat
  BY <1>1, GivenOK DEF InstructionsOK, IsSequence
<1>12. CASE at = n
  <2>1. Len(method.insns)' = k
    BY <1>2, <1>8, <1>12
  <2>2. (\E f : Raw(lir, f, Len(method.insns)))'
    BY <1>9, <1>10, <2>1
  <2> QED
    BY <1>1, <1>2, <1>4, <1>7, <1>12, <2>2 DEF DexInv
<1>13. CASE at # n
  <2>1. at' - 1 = k /\ at' \in 1..n
    BY <1>1, <1>2, <1>8, <1>11, <1>13
  <2>2. (\E f : Raw(lir, f, at - 1))'
    BY <1>9, <1>10, <2>1
  <2> QED
    BY <1>1, <1>2, <1>4, <1>7, <1>13, <2>1, <2>2 DEF DexInv
<1> QED
  BY <1>12, <1>13

\* A step that raises more leaves the list of the method.
LEMMA MoreRaised ==
  ASSUME DexInv, phase \in {"tries", "debug"}, phase' \in {"debug", "merge"},
         NEW s, lir' = s, Raised(s), Extends(lir, s),
         method' = method, plan' = plan, code' = code
  PROVE  DexInv'
<1> DEFINE n == Len(method.insns)
<1>1. Given /\ CodeRecord /\ method.insns # <<>> /\ \E d : Raw(lir, d, n)
  BY DEF DexInv
<1>2. Given' /\ CodeRecord'
  BY <1>1 DEF Given, CodeRecord
<1>3. Raised(lir)'
  BY RaisedNext
<1>4. PICK d, k : Raw(lir, d, k) /\ k = n
  BY <1>1
<1>5. Raw(s, d, k)
  BY <1>4, RawKept
<1>6. Raw(s, d, k)'
  BY <1>5, RawNext
<1>7. Len(method.insns)' = k
  BY <1>4
<1>8. (\E f : Raw(lir, f, Len(method.insns)))'
  BY <1>6, <1>7
<1> QED
  BY <1>1, <1>2, <1>3, <1>8 DEF DexInv

\* The try blocks are raised, off the list.
LEMMA TriesKeep == DexInv /\ DissasembleTryBlocks => DexInv'
<1> SUFFICES ASSUME DexInv, DissasembleTryBlocks PROVE DexInv'
  OBVIOUS
<1>1. PICK s : s = FoldLeft(RaiseTry, lir, method.tries)
  OBVIOUS
<1>2. /\ phase = "tries" /\ phase' = "debug" /\ lir' = s
      /\ method' = method /\ plan' = plan /\ code' = code
  BY <1>1 DEF DissasembleTryBlocks
<1>3. Given /\ Raised(lir)
  BY <1>2 DEF DexInv
<1>4. Raised(s) /\ Extends(lir, s)
  BY <1>1, <1>3, TriesRaised
<1> QED
  BY <1>2, <1>4, MoreRaised

\* The debug information is raised, off the list.
LEMMA DebugKeeps == DexInv /\ DissasembleDebugInfo => DexInv'
<1> SUFFICES ASSUME DexInv, DissasembleDebugInfo PROVE DexInv'
  OBVIOUS
<1> DEFINE d == method.debug
           names == IF d.names = <<>> THEN lir
                    ELSE DbgNode(lir, "header", <<<<"names", d.names>>>>, 0)
           first == DbgNode(DbgNode(names, "file", <<<<"index", method.file>>>>, 0),
                            "advance_line", <<<<"line", d.line>>>>, 0)
           all == FoldLeft(RaiseDebug, [r |-> first, addr |-> 0, line |-> d.line], d.data).r
<1>1. /\ phase = "debug" /\ phase' = "merge" /\ lir' = IF d = <<>> THEN lir ELSE all
      /\ method' = method /\ plan' = plan /\ code' = code
  BY DEF DissasembleDebugInfo
<1>2. Given /\ Raised(lir)
  BY <1>1 DEF DexInv
<1>3. d # <<>> => Raised(all) /\ Extends(lir, all)
  BY <1>2, DebugRaised
<1> HIDE DEF d, all
<1>4. PICK s : s = lir'
  OBVIOUS
<1>5. Raised(s) /\ Extends(lir, s)
  BY <1>1, <1>2, <1>3, <1>4, ExtendsReflexive
<1> QED
  BY <1>1, <1>4, <1>5, MoreRaised

\* A step that ends in the list in place.
LEMMA InPlaceNext ==
  ASSUME Given, CodeRecord', method.insns # <<>>, NEW s, OnList(s, Len(method.insns)),
         lir' = s, phase' = "transform", method' = method, plan' = plan
  PROVE  DexInv'
<1>1. Given'
  BY DEF Given
<1>2. OnList(lir, Len(method.insns))'
  OBVIOUS
<1> QED
  BY <1>1, <1>2 DEF DexInv

\* The merge puts every node on the list and moves no instruction.
LEMMA MergeStepKeeps == DexInv /\ Merge => DexInv'
<1> SUFFICES ASSUME DexInv, Merge PROVE DexInv'
  OBVIOUS
<1> DEFINE n == Len(method.insns)
           f == FixupSwitches(lir)
           labels == [k \in 1..Cardinality(DOMAIN f.label) |-> f.label[Ordered(DOMAIN f.label)[k]]]
           all == FoldLeft(MergeInstructions, f, <<f.dbgs, f.begins, labels, f.ends>>)
<1>1. /\ phase = "merge" /\ phase' = "transform" /\ lir' = all
      /\ method' = method /\ plan' = plan /\ code' = code
  BY DEF Merge
<1>2. /\ Given /\ CodeRecord /\ method.insns # <<>> /\ Raised(lir)
      /\ \E d : Raw(lir, d, n)
  BY <1>1 DEF DexInv
<1>3. Holds(all, n, MergeKinds(4))
  <2>1. PICK d : Raw(lir, d, n)
    BY <1>2
  <2> QED
    BY <1>2, <2>1, MergeKeeps
<1> HIDE DEF all
<1>4. OnList(all, n)
  BY <1>3 DEF Holds, OnList
<1>5. CodeRecord'
  BY <1>1, <1>2 DEF CodeRecord
<1> QED
  BY <1>1, <1>2, <1>4, <1>5, InPlaceNext

\* The transformations.
LEMMA TransformKeeps ==
  ASSUME DexInv, NEW t, Apply(t), NEW s,
         lir' = s, OnList(lir, Len(method.insns)) => OnList(s, Len(method.insns)),
         code' = code \/ \E v : code' = [code EXCEPT !.regs = v]
  PROVE  DexInv'
<1>1. phase = "transform" /\ phase' = phase /\ method' = method /\ plan' = plan
  BY DEF Apply
<1>2. Given /\ CodeRecord /\ method.insns # <<>> /\ OnList(s, Len(method.insns))
  BY <1>1 DEF DexInv
<1>3. CodeRecord'
  BY <1>2 DEF CodeRecord
<1> QED
  BY <1>1, <1>2, <1>3, InPlaceNext

\* The entry hook adds one call.
LEMMA ApplyEntryHookKeeps == DexInv /\ ApplyEntryHook => DexInv'
<1> SUFFICES ASSUME DexInv, ApplyEntryHook PROVE DexInv'
  OBVIOUS
<1>1. PICK s : s = EntryHook(lir)
  OBVIOUS
<1>2. Apply("entry") /\ lir' = s /\ code' = code
  BY <1>1 DEF ApplyEntryHook
<1> QED
  <2>1. code.ins \in Nat
    BY DEF DexInv, CodeRecord
  <2> QED
    BY <1>1, <1>2, <2>1, EntryHookKeeps, TransformKeeps

\* The exit hook adds calls before the returns.
LEMMA ApplyExitHookKeeps == DexInv /\ ApplyExitHook => DexInv'
<1> SUFFICES ASSUME DexInv, ApplyExitHook PROVE DexInv'
  OBVIOUS
<1>1. PICK s : s = ExitHook(lir)
  OBVIOUS
<1>2. Apply("exit") /\ lir' = s /\ code' = code
  BY <1>1 DEF ApplyExitHook
<1> QED
  BY <1>1, <1>2, ExitHookKeeps, TransformKeeps

\* The detour changes calls where they are.
LEMMA ApplyDetourKeeps == DexInv /\ ApplyDetour => DexInv'
<1> SUFFICES ASSUME DexInv, ApplyDetour PROVE DexInv'
  OBVIOUS
<1>1. PICK s : s = DetourVirtualInvoke(lir)
  OBVIOUS
<1>2. Apply("detour") /\ lir' = s /\ code' = code
  BY <1>1 DEF ApplyDetour
<1> QED
  BY <1>1, <1>2, DetourInPlace, TransformKeeps

\* Scratch registers renumber operands and add moves in front.
LEMMA ApplyScratchKeeps == DexInv /\ ApplyAllocateScratchRegs => DexInv'
<1> SUFFICES ASSUME DexInv, ApplyAllocateScratchRegs PROVE DexInv'
  OBVIOUS
<1> DEFINE t == plan[at + 1]
           c == code.regs + t.count <= 2 ^ Bits16
<1>1. PICK s : s = Checked(AllocateScratchRegs(lir, t), c)
  OBVIOUS
<1>2. Apply("scratch") /\ lir' = s /\ code' = [code EXCEPT !.regs = @ + t.count]
  BY <1>1 DEF ApplyAllocateScratchRegs
<1>3. Given
  BY DEF DexInv
<1> HIDE DEF t, c
<1>4. OnList(lir, Len(method.insns)) => OnList(s, Len(method.insns))
  BY <1>1, <1>3, AllocateInPlace
<1> QED
  BY <1>2, <1>4, TransformKeeps

\* The probe adds three instructions in front.
LEMMA ApplyProbeKeeps == DexInv /\ ApplyProbe => DexInv'
<1> SUFFICES ASSUME DexInv, ApplyProbe PROVE DexInv'
  OBVIOUS
<1> DEFINE locals == code.regs - code.ins
           more == IF locals < 1 THEN 1 - locals ELSE 0
           this == more + code.regs - code.ins
<1>1. PICK s : s = Probed(lir, this)
  OBVIOUS
<1>2. Apply("probe") /\ lir' = s /\ code' = [code EXCEPT !.regs = @ + more]
  BY <1>1 DEF ApplyProbe, Probed
<1> HIDE DEF this, more
<1>3. OnList(lir, Len(method.insns)) => OnList(s, Len(method.insns))
  BY <1>1, ProbeInPlace
<1> QED
  BY <1>2, <1>3, TransformKeeps

\* Assemble starts at the first node, with nothing encoded.
LEMMA AssembleKeeps == DexInv /\ Assemble => DexInv'
<1> SUFFICES ASSUME DexInv, Assemble PROVE DexInv'
  OBVIOUS
<1>1. /\ phase = "transform" /\ phase' = "encode" /\ enc' = NewEncoder /\ at' = lir.begin
      /\ method' = method /\ plan' = plan /\ code' = code
  BY DEF Assemble
<1>2. PICK s : s = [lir EXCEPT !.node = [n \in DOMAIN @ |-> [@[n] EXCEPT !.off = Invalid]]]
  OBVIOUS
<1>3. lir' = s
  BY <1>2 DEF Assemble
<1>4. Given /\ CodeRecord /\ OnList(lir, Len(method.insns))
  BY <1>1 DEF DexInv
<1>5. PICK n : n = Len(method.insns)
  OBVIOUS
<1>6. PICK d, m : InPlace(lir, d, m, n)
  BY <1>4, <1>5 DEF OnList
<1>7. Placed(lir, d, m, n) /\ Nodes(lir)
  BY <1>6, InPlacePlaced DEF InPlace
<1>8. Relocated(lir, s)
  BY <1>2, <1>7, AllRelocated
<1>9. Placed(s, d, m, n) /\ Nodes(s)
  BY <1>7, <1>8, RelocatedPlaced DEF Relocated
<1>10. PICK e : e = NewEncoder
  OBVIOUS
<1>11. Encoder(e) /\ Emitted(s, d, e, 1)
  <2>1. IsSeq(<<>>) /\ Len(<<>>) = 0
    BY ShortSeqs
  <2> QED
    BY <1>10, <2>1 DEF NewEncoder, Encoder, Emitted
<1>16. Listed(s, e) /\ Measured(e)
  <2>1. e.off = 0 /\ e.outs = 0 /\ e.insns = <<>>
        /\ e.switches = [packed |-> <<>>, sparse |-> <<>>]
    BY <1>10 DEF NewEncoder
  <2>2. Len(<<>>) = 0 /\ DOMAIN <<>> = {}
    OBVIOUS
  <2>3. OffsetOf(<<>>, 1) = 0
    BY <2>2, OffsetsGrow
  <2>4. Size(<<>>) = 0
    BY <2>2, <2>3 DEF Size
  <2>5. PayloadsAligned(<<>>) /\ OutsCover(<<>>, 0)
    BY <2>2 DEF PayloadsAligned, OutsCover
  <2>6. \A k \in {"packed", "sparse"} : DOMAIN e.switches[k] = {}
    BY <2>1, <2>2
  <2>7. e.switches \in [packed : {e.switches.packed}, sparse : {e.switches.sparse}]
    BY <2>1
  <2> QED
    BY <2>1, <2>4, <2>5, <2>6, <2>7 DEF Listed, Measured
<1>12. m \in Nat /\ lir.begin = d[1]
  BY <1>7 DEF Placed, IsList
<1>13. 1 \in 1..(m + 1)
  BY <1>12
<1>14. Encoding'
  <2>1. /\ Nodes(lir)' /\ Encoder(enc)' /\ Listed(lir, enc)' /\ Measured(enc)'
    BY <1>1, <1>3, <1>9, <1>10, <1>11, <1>16
  <2>2. Placed(lir, d, m, Len(method.insns))'
    BY <1>1, <1>3, <1>5, <1>9
  <2>3. at' = d[1] /\ Emitted(lir, d, enc, 1)'
    BY <1>1, <1>3, <1>10, <1>11, <1>12
  <2> QED
    BY <1>13, <2>1, <2>2, <2>3 DEF Encoding
<1>15. Given' /\ CodeRecord'
  BY <1>1, <1>4 DEF Given, CodeRecord
<1> QED
  BY <1>1, <1>14, <1>15 DEF DexInv

\* One node more is encoded.
LEMMA EncodeNextKeeps == DexInv /\ EncodeNext => DexInv'
<1> SUFFICES ASSUME DexInv, EncodeNext PROVE DexInv'
  OBVIOUS
<1>1. /\ phase = "encode" /\ at # 0 /\ at' = lir.next[at] /\ phase' = phase /\ enc.ok
      /\ method' = method /\ plan' = plan /\ code' = code
  BY DEF EncodeNext
<1>2. PICK f : f = Encoded(lir, enc, at)
  OBVIOUS
<1>3. enc' = f
  BY <1>2 DEF EncodeNext, Encoded
<1>4. PICK v, s : s = [lir EXCEPT !.node[at].off = v] /\ lir' = s
  BY DEF EncodeNext
<1>5. Given /\ CodeRecord /\ Encoding
  BY <1>1 DEF DexInv
<1>6. PICK n : n = Len(method.insns)
  OBVIOUS
<1>7. PICK d, m, k : /\ Placed(lir, d, m, n) /\ k \in 1..(m + 1) /\ at = d[k]
                     /\ Emitted(lir, d, enc, k)
  BY <1>5, <1>6 DEF Encoding
<1>8. Nodes(lir) /\ Encoder(enc) /\ Listed(lir, enc) /\ Measured(enc)
  BY <1>5 DEF Encoding
<1>9. m \in Nat /\ IsList(lir, d, m) /\ d[m + 1] = 0
  BY <1>7 DEF Placed, IsList
<1>10. k \in 1..m
  BY <1>1, <1>7, <1>9
<1>11. Encoder(f) /\ Emitted(lir, d, f, k + 1) /\ Listed(lir, f) /\ Measured(f)
  BY <1>1, <1>2, <1>7, <1>8, <1>10, EncodedKeeps
<1>12. Relocated(lir, s)
  BY <1>4, <1>8, OneRelocated
<1>13. PICK l : l = k + 1
  OBVIOUS
<1>14. l \in 1..(m + 1) /\ lir.next[at] = d[l]
  <2>1. lir.next[d[k]] = d[k + 1]
    BY <1>9, <1>10 DEF IsList
  <2> QED
    BY <1>7, <1>9, <1>10, <1>13, <2>1
<1>15. Placed(s, d, m, n) /\ Nodes(s)
  BY <1>7, <1>12, RelocatedPlaced DEF Relocated
<1>16. Emitted(s, d, f, l)
  BY <1>7, <1>11, <1>12, <1>13, <1>14, RelocatedEmitted
<1>19. Listed(s, f)
  BY <1>11, <1>12, RelocatedListed
<1>17. Encoding'
  <2>1. /\ Nodes(lir)' /\ Encoder(enc)' /\ Listed(lir, enc)' /\ Measured(enc)'
    BY <1>3, <1>4, <1>11, <1>15, <1>19
  <2>2. Placed(lir, d, m, Len(method.insns))'
    BY <1>1, <1>4, <1>6, <1>15
  <2>3. at' = d[l] /\ Emitted(lir, d, enc, l)'
    BY <1>1, <1>3, <1>4, <1>14, <1>16
  <2> QED
    BY <1>14, <2>1, <2>2, <2>3 DEF Encoding
<1>18. Given' /\ CodeRecord'
  BY <1>1, <1>5 DEF Given, CodeRecord
<1> QED
  BY <1>1, <1>17, <1>18 DEF DexInv

\* The instructions in order are in order after a step that leaves them.
LEMMA OrderKept ==
  ASSUME DexInv, NEW c, InPosition(c), method' = method, plan' = plan, CodeRecord',
         code'.insns = c.insns, code'.outs = c.outs, phase' \in {"lines", "handlers", "done"}
  PROVE  DexInv'
<1>1. Given'
  BY DEF DexInv, Given
<1>2. SameOrder(code.insns)'
  BY DEF InPosition, SameOrder, Own
<1>3. PayloadsAligned(code.insns)' /\ OutsCover(code.insns, code.outs)'
  BY DEF InPosition
<1>4. InPosition(code)'
  BY <1>2, <1>3 DEF InPosition
<1> QED
  BY <1>1, <1>4 DEF DexInv

\* When every node is encoded the fixups are made.
LEMMA FixupStepKeeps == DexInv /\ Fixup => DexInv'
<1> SUFFICES ASSUME DexInv, Fixup PROVE DexInv'
  OBVIOUS
<1>1. PICK e : e = LET labelled == FoldLeft(FixupLabel, enc, enc.fixups)
                   IN FoldLeft(FixupSwitchOffset, labelled, [j \in 1..Len(enc.insns) |-> j])
  OBVIOUS
<1>2. /\ phase = "encode" /\ enc.ok /\ at = 0 /\ phase' = "lines"
      /\ code' = [code EXCEPT !.insns = e.insns, !.outs = e.outs]
      /\ method' = method /\ plan' = plan
  BY <1>1 DEF Fixup
<1>3. Given /\ CodeRecord /\ Encoding
  BY <1>2 DEF DexInv
<1>4. PICK d, m, k : /\ Placed(lir, d, m, Len(method.insns)) /\ k \in 1..(m + 1) /\ at = d[k]
                     /\ Emitted(lir, d, enc, k)
  BY <1>3 DEF Encoding
<1>5. Encoder(enc) /\ Listed(lir, enc) /\ Measured(enc)
  BY <1>3 DEF Encoding
<1>6. k = m + 1
  <2>1. m \in Nat /\ d[m + 1] = 0 /\ \A i, j \in 1..(m + 1) : d[i] = d[j] => i = j
    BY <1>4 DEF Placed, IsList
  <2>2. m + 1 \in 1..(m + 1)
    BY <2>1
  <2> QED
    BY <1>2, <1>4, <2>1, <2>2
<1>7. SameOrgs(enc, 0, e)
  BY <1>1, <1>5, FixupKeeps
<1>8. SameOrder(e.insns)
  BY <1>4, <1>5, <1>6, <1>7, EmittedInOrder
<1>9. CodeRecord' /\ code'.insns = e.insns /\ code'.outs = e.outs
  BY <1>2, <1>3 DEF CodeRecord
<1>10. InPosition(e)
  BY <1>2, <1>5, <1>7, <1>8, FixedMeasured DEF InPosition
<1> QED
  BY <1>2, <1>9, <1>10, OrderKept

\* The debug information and the try blocks leave the instructions alone.
LEMMA EncodeDebugInfoKeeps == DexInv /\ EncodeDebugInfo => DexInv'
<1> SUFFICES ASSUME DexInv, EncodeDebugInfo PROVE DexInv'
  OBVIOUS
<1>1. /\ phase = "lines" /\ phase' = "handlers" /\ method' = method /\ plan' = plan
      /\ code' = code \/ \E v : code' = [code EXCEPT !.debug = v]
  BY DEF EncodeDebugInfo
<1>2. CodeRecord /\ InPosition(code)
  BY <1>1 DEF DexInv
<1>3. CodeRecord' /\ code'.insns = code.insns /\ code'.outs = code.outs
  BY <1>1, <1>2 DEF CodeRecord
<1> QED
  BY <1>1, <1>2, <1>3, OrderKept

\* The try blocks leave the instructions alone.
LEMMA EncodeTryBlocksKeeps == DexInv /\ EncodeTryBlocks => DexInv'
<1> SUFFICES ASSUME DexInv, EncodeTryBlocks PROVE DexInv'
  OBVIOUS
<1>1. /\ phase = "handlers" /\ phase' = "done" /\ method' = method /\ plan' = plan
      /\ \E v : code' = [code EXCEPT !.tries = v]
  BY DEF EncodeTryBlocks
<1>2. CodeRecord /\ InPosition(code)
  BY <1>1 DEF DexInv
<1>3. CodeRecord' /\ code'.insns = code.insns /\ code'.outs = code.outs
  BY <1>1, <1>2 DEF CodeRecord
<1> QED
  BY <1>1, <1>2, <1>3, OrderKept

\* A step that changes nothing.
LEMMA StutterKeeps == DexInv /\ UNCHANGED vars => DexInv'
<1> SUFFICES ASSUME DexInv, UNCHANGED vars PROVE DexInv'
  OBVIOUS
<1>1. /\ method' = method /\ plan' = plan /\ phase' = phase /\ lir' = lir /\ code' = code
      /\ enc' = enc /\ at' = at
  BY DEF vars
<1>2. Given /\ CodeRecord /\ Given' /\ CodeRecord'
  BY <1>1 DEF DexInv, Given, CodeRecord
<1>3. phase \in {"bytecode", "tries", "debug", "merge"} => Raised(lir)'
  <2> SUFFICES ASSUME phase \in {"bytecode", "tries", "debug", "merge"} PROVE Raised(lir)'
    OBVIOUS
  <2>1. PICK s : s = lir
    OBVIOUS
  <2>2. Raised(s)
    BY <2>1 DEF DexInv
  <2> QED
    BY <1>1, <2>1, <2>2, RaisedNext
<1>4. ASSUME NEW k, NEW l, l = k', k' = k, \E d : Raw(lir, d, k)
      PROVE  (\E d : Raw(lir, d, k))'
  <2>1. PICK s, d : s = lir /\ Raw(s, d, l)
    BY <1>4
  <2>2. Raw(s, d, l)'
    BY <1>1, <2>1, RawNext
  <2> QED
    BY <1>1, <1>4, <2>1, <2>2
<1>5. (\E d : Raw(lir, d, at - 1)) => (\E d : Raw(lir, d, at - 1))'
  BY <1>1, <1>4
<1>6. (\E d : Raw(lir, d, Len(method.insns))) => (\E d : Raw(lir, d, Len(method.insns)))'
  BY <1>1, <1>4
<1>7. Encoding => Encoding'
  BY <1>1 DEF Encoding
<1>8. InPosition(code) => InPosition(code)'
  BY <1>1 DEF InPosition, SameOrder, Own
<1> QED
  BY <1>1, <1>2, <1>3, <1>5, <1>6, <1>7, <1>8 DEF DexInv

\* Every step keeps the invariant.
LEMMA DexNext == DexInv /\ [Next]_vars => DexInv'
<1> SUFFICES ASSUME DexInv, [Next]_vars PROVE DexInv'
  OBVIOUS
<1>1. CASE Start
  BY <1>1, StartKeeps
<1>2. CASE DecodeNext
  BY <1>2, DecodeNextKeeps
<1>3. CASE DissasembleTryBlocks
  BY <1>3, TriesKeep
<1>4. CASE DissasembleDebugInfo
  BY <1>4, DebugKeeps
<1>5. CASE Merge
  BY <1>5, MergeStepKeeps
<1>6. CASE ApplyEntryHook
  BY <1>6, ApplyEntryHookKeeps
<1>7. CASE ApplyExitHook
  BY <1>7, ApplyExitHookKeeps
<1>8. CASE ApplyDetour
  BY <1>8, ApplyDetourKeeps
<1>9. CASE ApplyAllocateScratchRegs
  BY <1>9, ApplyScratchKeeps
<1>10. CASE ApplyProbe
  BY <1>10, ApplyProbeKeeps
<1>11. CASE Assemble
  BY <1>11, AssembleKeeps
<1>12. CASE EncodeNext
  BY <1>12, EncodeNextKeeps
<1>13. CASE Fixup
  BY <1>13, FixupStepKeeps
<1>14. CASE EncodeDebugInfo
  BY <1>14, EncodeDebugInfoKeeps
<1>15. CASE EncodeTryBlocks
  BY <1>15, EncodeTryBlocksKeeps
<1>16. CASE UNCHANGED vars
  BY <1>16, StutterKeeps
<1> QED
  BY <1>1, <1>2, <1>3, <1>4, <1>5, <1>6, <1>7, <1>8, <1>9, <1>10, <1>11, <1>12, <1>13, <1>14,
     <1>15, <1>16 DEF Next, Finished

\* The invariant of the whole path through slicer's code IR.
THEOREM DexInvariant == Spec => []DexInv
<1>1. Init => DexInv
  BY DexInit
<1>2. DexInv /\ [Next]_vars => DexInv'
  BY DexNext
<1> QED
  BY <1>1, <1>2, PTL DEF Spec

\* What InstrumentMethod gives back has every original instruction, once,
\* in its place (SameOrder is the first part of SameFlow), whatever was queued.
THEOREM InstructionsInOrder == Spec => [](Done => SameOrder(code.insns))
<1>1. DexInv => (Done => SameOrder(code.insns))
  BY DEF DexInv, InPosition, Done
<1> QED
  BY <1>1, DexInvariant, PTL

\* What the verifier asks of payloads (the first part of WellPlaced): every
\* switch and array payload is at an even offset, whatever was put before it
\* (Visit(SwitchPayload*), Visit(ArrayData*) and the padding of labels).
THEOREM PayloadsTheorem == Spec => [](Done => PayloadsAligned(code.insns))
<1>1. DexInv => (Done => PayloadsAligned(code.insns))
  BY DEF DexInv, InPosition, Done
<1> QED
  BY <1>1, DexInvariant, PTL

\* And of outs_count (another part of WellPlaced): no call passes more words
\* than the method declares, the calls of the hooks and the detour included.
THEOREM OutsTheorem == Spec => [](Done => OutsCover(code.insns, code.outs))
<1>1. DexInv => (Done => OutsCover(code.insns, code.outs))
  BY DEF DexInv, InPosition, Done
<1> QED
  BY <1>1, DexInvariant, PTL

-----------------------------------------------------------------------------
(* Basic blocks.  z = [d, m, codes, labels, leaving, plain]: the list, and *)
(* the places of its instructions, its labels, the instructions that end a *)
(* block and the nodes that may be in one.                                 *)
Listing(z) ==
  /\ z.m \in Nat /\ z.codes \in SUBSET z.plain /\ z.labels \in SUBSET z.plain
  /\ z.plain \in SUBSET (1..z.m) /\ z.codes \cap z.labels = {} /\ z.leaving \in SUBSET z.codes

\* The places from lo to hi are entered at the top and left at the end.
Whole(z, lo, hi) ==
  /\ \A i \in z.leaving, j \in z.codes : i \in lo..hi /\ j \in lo..hi => j <= i
  /\ \A i \in z.labels, j \in z.codes : i \in lo..hi /\ j \in lo..hi => i <= j

Blocks(z, k, out, lo, hi) ==
  /\ IsSeq(out) /\ lo \in [1..Len(out) -> Nat] /\ hi \in [1..Len(out) -> Nat]
  /\ \A x \in 1..Len(out) : /\ 1 <= lo[x] /\ lo[x] <= hi[x] /\ hi[x] <= k
                            /\ out[x] = [first |-> z.d[lo[x]], last |-> z.d[hi[x]]]
                            /\ Whole(z, lo[x], hi[x])
  /\ \A x, y \in 1..Len(out) : x < y => hi[x] < lo[y]

\* The block that is open since place f.
Open(z, k, b, hi, f) ==
  /\ f \in 1..k /\ b.first = z.d[f] /\ f..k \subseteq z.plain /\ Whole(z, f, k)
  /\ \A x \in 1..Len(b.out) : hi[x] < f
  /\ b.st = "header" => \A i \in z.codes : i \notin f..k
  /\ b.st = "body" => /\ \E i \in z.codes : i \in f..k
                      /\ \A i \in z.leaving : i \in f..k => i = k

Covered(z, k, b, lo, hi, f) ==
  \A i \in z.codes : i <= k => \/ \E x \in 1..Len(b.out) : i \in lo[x]..hi[x]
                               \/ b.st = "body" /\ f <= i

\* What the visitor has found in the first k places.
Found(z, k, b, lo, hi, f) ==
  /\ b \in [st : {"outside", "header", "body"}, first : {b.first}, out : {b.out}]
  /\ k \in 0..z.m /\ Blocks(z, k, b.out, lo, hi) /\ Covered(z, k, b, lo, hi, f)
  /\ b.st # "outside" => Open(z, k, b, hi, f)

Parsed(z, k, b) == \E lo, hi, f : Found(z, k, b, lo, hi, f)

\* One place more, for the blocks that are closed.
LEMMA BlocksGrow ==
  ASSUME NEW z, NEW k \in Nat, NEW l, l = k + 1, NEW out, NEW lo, NEW hi,
         Blocks(z, k, out, lo, hi)
  PROVE  Blocks(z, l, out, lo, hi)
<1>1. \A x \in 1..Len(out) : hi[x] \in Nat
  BY DEF Blocks
<1>2. \A x \in 1..Len(out) : hi[x] <= k => hi[x] <= l
  BY <1>1
<1> QED
  BY <1>2 DEF Blocks

\* A node that is not in a block.
LEMMA PassOver ==
  ASSUME NEW z, Listing(z), NEW k \in Nat, NEW l, l = k + 1, l \in 1..z.m, l \notin z.codes,
         NEW b, Parsed(z, k, b), b.st \in {"outside", "header"}
  PROVE  Parsed(z, l, [b EXCEPT !.st = "outside"])
<1>1. PICK lo, hi, f : Found(z, k, b, lo, hi, f)
  BY DEF Parsed
<1> DEFINE c == [b EXCEPT !.st = "outside"]
<1>2. /\ c \in [st : {"outside", "header", "body"}, first : {c.first}, out : {c.out}]
      /\ c.st = "outside" /\ c.out = b.out
  BY <1>1 DEF Found
<1> HIDE DEF c
<1>3. Blocks(z, l, c.out, lo, hi)
  BY <1>1, <1>2, BlocksGrow DEF Found
<1>4. \A i \in z.codes : i <= l => i <= k
  <2>1. z.codes \in SUBSET Nat
    BY DEF Listing
  <2> QED
    BY <2>1
<1>5. Covered(z, l, c, lo, hi, f)
  BY <1>1, <1>2, <1>4 DEF Found, Covered
<1>6. l \in 0..z.m
  BY DEF Listing
<1>7. Found(z, l, c, lo, hi, f)
  BY <1>2, <1>3, <1>5, <1>6 DEF Found
<1> QED
  BY <1>7 DEF Parsed, c

\* EndBlock at the last place that was visited.
LEMMA BlockCloses ==
  ASSUME NEW z, Listing(z), NEW k \in Nat, NEW b, Parsed(z, k, b), b.st = "body"
  PROVE  Parsed(z, k, [b EXCEPT !.st = "outside",
                                !.out = Append(@, [first |-> b.first, last |-> z.d[k]])])
<1>1. PICK lo, hi, f : Found(z, k, b, lo, hi, f)
  BY DEF Parsed
<1> DEFINE v == [first |-> b.first, last |-> z.d[k]]
           c == [b EXCEPT !.st = "outside", !.out = Append(@, v)]
           n == Len(b.out)
           ll == [x \in 1..(n + 1) |-> IF x = n + 1 THEN f ELSE lo[x]]
           hh == [x \in 1..(n + 1) |-> IF x = n + 1 THEN k ELSE hi[x]]
<1>2. /\ c \in [st : {"outside", "header", "body"}, first : {c.first}, out : {c.out}]
      /\ c.st = "outside" /\ c.out = Append(b.out, v)
  BY <1>1 DEF Found
<1>3. Open(z, k, b, hi, f) /\ Blocks(z, k, b.out, lo, hi) /\ Covered(z, k, b, lo, hi, f)
  BY <1>1 DEF Found
<1>4. f \in 1..k /\ v = [first |-> z.d[f], last |-> z.d[k]] /\ Whole(z, f, k)
  BY <1>3 DEF Open
<1> HIDE DEF c, v
<1>5. /\ n \in Nat /\ Len(c.out) = n + 1 /\ IsSeq(c.out) /\ c.out[n + 1] = v
      /\ \A x \in 1..n : c.out[x] = b.out[x]
  BY <1>2, <1>3, SeqFacts DEF Blocks
<1>6. \A x \in 1..n : lo[x] \in Nat /\ hi[x] \in Nat /\ hi[x] < f
  BY <1>3 DEF Blocks, Open
<1> HIDE DEF n
<1>7. /\ ll \in [1..(n + 1) -> Nat] /\ hh \in [1..(n + 1) -> Nat]
      /\ ll[n + 1] = f /\ hh[n + 1] = k /\ \A x \in 1..n : ll[x] = lo[x] /\ hh[x] = hi[x]
  <2>1. \A x \in 1..(n + 1) : x = n + 1 \/ x \in 1..n
    BY <1>5
  <2>2. n + 1 \in 1..(n + 1) /\ \A x \in 1..n : x \in 1..(n + 1) /\ x # n + 1
    BY <1>5
  <2> QED
    BY <1>4, <1>6, <2>1, <2>2
<1> HIDE DEF ll, hh
<1>8. \A x \in 1..(n + 1) : x = n + 1 \/ x \in 1..n
  BY <1>5
<1>9. /\ \A x \in 1..n : /\ 1 <= lo[x] /\ lo[x] <= hi[x] /\ hi[x] <= k
                         /\ b.out[x] = [first |-> z.d[lo[x]], last |-> z.d[hi[x]]]
                         /\ Whole(z, lo[x], hi[x])
      /\ \A x, y \in 1..n : x < y => hi[x] < lo[y]
  BY <1>3 DEF Blocks, n
<1>10. ASSUME NEW x \in 1..(n + 1)
       PROVE  /\ 1 <= ll[x] /\ ll[x] <= hh[x] /\ hh[x] <= k
              /\ c.out[x] = [first |-> z.d[ll[x]], last |-> z.d[hh[x]]]
              /\ Whole(z, ll[x], hh[x])
  <2>1. CASE x \in 1..n
    BY <1>5, <1>7, <1>9, <2>1
  <2>2. CASE x = n + 1
    BY <1>4, <1>5, <1>7, <2>2
  <2> QED
    BY <1>8, <2>1, <2>2
<1>11. ASSUME NEW x \in 1..(n + 1), NEW y \in 1..(n + 1), x < y PROVE hh[x] < ll[y]
  <2>1. x \in 1..n
    BY <1>5, <1>11
  <2>2. CASE y \in 1..n
    BY <1>7, <1>9, <1>11, <2>1, <2>2
  <2>3. CASE y = n + 1
    BY <1>6, <1>7, <2>1, <2>3
  <2> QED
    BY <1>8, <2>2, <2>3
<1>12. Blocks(z, k, c.out, ll, hh)
  BY <1>5, <1>7, <1>10, <1>11 DEF Blocks
<1>13. Covered(z, k, c, ll, hh, f)
  <2> SUFFICES ASSUME NEW i \in z.codes, i <= k
               PROVE  \E x \in 1..(n + 1) : i \in ll[x]..hh[x]
    BY <1>5 DEF Covered
  <2>1. CASE \E x \in 1..n : i \in lo[x]..hi[x]
    <3>1. PICK x \in 1..n : i \in lo[x]..hi[x]
      BY <2>1
    <3>2. x \in 1..(n + 1)
      BY <1>5
    <3> QED
      BY <1>7, <3>1, <3>2
  <2>2. CASE f <= i
    <3>1. i \in f..k /\ n + 1 \in 1..(n + 1)
      <4>1. z.codes \in SUBSET Nat
        BY DEF Listing
      <4> QED
        BY <1>4, <1>5, <2>2, <4>1
    <3> QED
      BY <1>7, <3>1
  <2> QED
    BY <1>3, <2>1, <2>2 DEF Covered, n
<1>14. Found(z, k, c, ll, hh, f)
  BY <1>1, <1>2, <1>12, <1>13 DEF Found
<1> QED
  BY <1>14 DEF Parsed, c, v

\* StartBlock at a node that is not an instruction.
LEMMA BlockOpens ==
  ASSUME NEW z, Listing(z), NEW k \in Nat, NEW l, l = k + 1, l \in z.plain, l \notin z.codes,
         NEW b, Parsed(z, k, b), b.st = "outside"
  PROVE  Parsed(z, l, [b EXCEPT !.st = "header", !.first = z.d[l]])
<1>1. PICK lo, hi, f : Found(z, k, b, lo, hi, f)
  BY DEF Parsed
<1> DEFINE c == [b EXCEPT !.st = "header", !.first = z.d[l]]
<1>2. /\ c \in [st : {"outside", "header", "body"}, first : {c.first}, out : {c.out}]
      /\ c.st = "header" /\ c.out = b.out /\ c.first = z.d[l]
  BY <1>1 DEF Found
<1> HIDE DEF c
<1>3. Blocks(z, l, c.out, lo, hi) /\ Blocks(z, k, b.out, lo, hi)
  BY <1>1, <1>2, BlocksGrow DEF Found
<1>4. /\ z.codes \in SUBSET Nat /\ z.m \in Nat /\ l \in 0..z.m /\ l \in Nat /\ l..l = {l}
      /\ z.leaving \in SUBSET z.codes
  <2>1. z.m \in Nat /\ l \in 1..z.m /\ z.codes \in SUBSET (1..z.m) /\ z.leaving \in SUBSET z.codes
    BY DEF Listing
  <2> QED
    BY <2>1
<1>5. \A i \in z.codes : i <= l => i <= k
  BY <1>4
<1>6. Covered(z, l, c, lo, hi, l)
  BY <1>1, <1>2, <1>5 DEF Found, Covered
<1>7. \A x \in 1..Len(c.out) : hi[x] < l
  <2>1. \A x \in 1..Len(c.out) : hi[x] \in Nat /\ hi[x] <= k
    BY <1>2, <1>3 DEF Blocks
  <2> QED
    BY <2>1
<1>8. l \in 1..l
  BY <1>4
<1>9. Open(z, l, c, hi, l)
  BY <1>2, <1>4, <1>7, <1>8 DEF Open, Whole
<1>10. Found(z, l, c, lo, hi, l)
  BY <1>2, <1>3, <1>4, <1>6, <1>9 DEF Found
<1> QED
  BY <1>10 DEF Parsed, c

\* A node that is not an instruction, in a block that is open.
LEMMA BlockGoesOn ==
  ASSUME NEW z, Listing(z), NEW k \in Nat, NEW l, l = k + 1, l \in z.plain, l \notin z.codes,
         NEW b, Parsed(z, k, b), b.st # "outside", k \notin z.leaving \/ b.st = "header",
         l \notin z.labels \/ b.st = "header"
  PROVE  Parsed(z, l, b)
<1>1. PICK lo, hi, f : Found(z, k, b, lo, hi, f)
  BY DEF Parsed
<1>2. Blocks(z, l, b.out, lo, hi)
  BY <1>1, BlocksGrow DEF Found
<1>3. /\ z.codes \in SUBSET Nat /\ z.m \in Nat /\ l \in 0..z.m /\ l \in Nat
      /\ z.leaving \in SUBSET z.codes /\ z.labels \in SUBSET Nat
  <2>1. /\ z.m \in Nat /\ l \in 1..z.m /\ z.codes \in SUBSET (1..z.m) /\ z.leaving \in SUBSET z.codes
        /\ z.labels \in SUBSET (1..z.m)
    BY DEF Listing
  <2> QED
    BY <2>1
<1>4. \A i \in z.codes : i <= l => i <= k
  BY <1>3
<1>5. Covered(z, l, b, lo, hi, f)
  BY <1>1, <1>4 DEF Found, Covered
<1>6. Open(z, k, b, hi, f)
  BY <1>1 DEF Found
<1>7. f \in 1..k /\ f \in 1..l /\ \A i : i \in f..l <=> i \in f..k \/ i = l
  BY <1>3, <1>6 DEF Open
<1>8. Whole(z, f, l)
  <2>1. ASSUME NEW i \in z.leaving, NEW j \in z.codes, i \in f..l, j \in f..l PROVE j <= i
    BY <1>3, <1>6, <1>7, <2>1 DEF Open, Whole
  <2>2. ASSUME NEW i \in z.labels, NEW j \in z.codes, i \in f..l, j \in f..l PROVE i <= j
    <3>1. j \in f..k
      BY <1>7, <2>2
    <3>2. i # l
      BY <1>1, <1>6, <3>1 DEF Open, Found
    <3> QED
      BY <1>6, <1>7, <2>2, <3>1, <3>2 DEF Open, Whole
  <2> QED
    BY <2>1, <2>2 DEF Whole
<1>9. Open(z, l, b, hi, f)
  <2>1. b.st = "body" => \A i \in z.leaving : i \notin f..l
    BY <1>3, <1>6, <1>7 DEF Open
  <2>2. f..l \subseteq z.plain
    BY <1>6, <1>7 DEF Open
  <2> QED
    BY <1>6, <1>7, <1>8, <2>1, <2>2 DEF Open
<1>10. Found(z, l, b, lo, hi, f)
  BY <1>1, <1>2, <1>3, <1>5, <1>9 DEF Found
<1> QED
  BY <1>10 DEF Parsed

\* An instruction, in a block that is open or opens with it.
LEMMA BlockGetsCode ==
  ASSUME NEW z, Listing(z), NEW k \in Nat, NEW l, l = k + 1, l \in z.codes,
         NEW b, Parsed(z, k, b), k \notin z.leaving \/ b.st # "body"
  PROVE  Parsed(z, l, [b EXCEPT !.st = "body", !.first = IF b.st = "outside" THEN z.d[l] ELSE @])
<1>1. PICK lo, hi, g : Found(z, k, b, lo, hi, g)
  BY DEF Parsed
<1> DEFINE c == [b EXCEPT !.st = "body", !.first = IF b.st = "outside" THEN z.d[l] ELSE @]
<1>2. /\ c \in [st : {"outside", "header", "body"}, first : {c.first}, out : {c.out}]
      /\ c.st = "body" /\ c.out = b.out /\ c.first = IF b.st = "outside" THEN z.d[l] ELSE b.first
      /\ b.st \in {"outside", "header", "body"}
  BY <1>1 DEF Found
<1> HIDE DEF c
<1>3. Blocks(z, l, c.out, lo, hi) /\ Blocks(z, k, b.out, lo, hi)
  BY <1>1, <1>2, BlocksGrow DEF Found
<1>4. /\ z.codes \in SUBSET Nat /\ z.m \in Nat /\ l \in 0..z.m /\ l \in Nat /\ l \in z.plain
      /\ z.leaving \in SUBSET z.codes /\ z.labels \in SUBSET Nat /\ l \notin z.labels
  <2>1. /\ z.m \in Nat /\ l \in 1..z.m /\ z.codes \in SUBSET (1..z.m) /\ z.leaving \in SUBSET z.codes
        /\ z.labels \in SUBSET (1..z.m) /\ l \in z.plain /\ l \notin z.labels
    BY DEF Listing
  <2> QED
    BY <2>1
<1>5. \A i \in z.codes : i <= l => i <= k \/ i = l
  BY <1>4
<1>6. CASE b.st = "outside"
  <2>1. l..l = {l} /\ l \in 1..l
    BY <1>4
  <2>2. \A x \in 1..Len(c.out) : hi[x] < l
    <3>1. \A x \in 1..Len(c.out) : hi[x] \in Nat /\ hi[x] <= k
      BY <1>2, <1>3 DEF Blocks
    <3> QED
      BY <3>1
  <2>3. Whole(z, l, l)
    BY <1>4, <2>1 DEF Whole
  <2>4. Open(z, l, c, hi, l)
    BY <1>2, <1>4, <1>6, <2>1, <2>2, <2>3 DEF Open
  <2>5. Covered(z, l, c, lo, hi, l)
    BY <1>1, <1>2, <1>4, <1>5, <1>6 DEF Found, Covered
  <2>6. Found(z, l, c, lo, hi, l)
    BY <1>2, <1>3, <1>4, <2>4, <2>5 DEF Found
  <2> QED
    BY <2>6 DEF Parsed, c
<1>7. CASE b.st # "outside"
  <2>1. Open(z, k, b, hi, g)
    BY <1>1, <1>7 DEF Found
  <2>2. g \in 1..k /\ g \in 1..l /\ l \in g..l /\ \A i : i \in g..l <=> i \in g..k \/ i = l
    BY <1>4, <2>1 DEF Open
  <2>3. \A i \in z.leaving : i \in g..l => i = l
    BY <1>2, <1>4, <1>7, <2>1, <2>2 DEF Open
  <2>4. Whole(z, g, l)
    <3>1. ASSUME NEW i \in z.leaving, NEW j \in z.codes, i \in g..l, j \in g..l PROVE j <= i
      <4>1. i = l /\ j \in Nat
        BY <1>4, <2>3, <3>1
      <4> QED
        BY <1>4, <2>2, <3>1, <4>1
    <3>2. ASSUME NEW i \in z.labels, NEW j \in z.codes, i \in g..l, j \in g..l PROVE i <= j
      <4>1. i \in g..k
        BY <1>4, <2>2, <3>2
      <4>2. CASE j = l
        BY <2>2, <4>1, <4>2
      <4>3. CASE j # l
        BY <2>1, <2>2, <3>2, <4>1, <4>3 DEF Open, Whole
      <4> QED
        BY <4>2, <4>3
    <3> QED
      BY <3>1, <3>2 DEF Whole
  <2>5. g..l \subseteq z.plain
    BY <1>4, <2>1, <2>2 DEF Open
  <2>6. Open(z, l, c, hi, g)
    BY <1>2, <1>7, <2>1, <2>2, <2>3, <2>4, <2>5 DEF Open
  <2>7. Covered(z, l, c, lo, hi, g)
    <3>1. g <= l
      BY <2>2
    <3> QED
      BY <1>1, <1>2, <1>5, <3>1 DEF Found, Covered
  <2>8. Found(z, l, c, lo, hi, g)
    BY <1>2, <1>3, <1>4, <2>6, <2>7 DEF Found
  <2> QED
    BY <2>8 DEF Parsed, c
<1> QED
  BY <1>6, <1>7

\* The places of a list; x: whether exceptions count.
ListingOf(r, d, m, x) ==
  [d |-> d, m |-> m,
   codes |-> {i \in 1..m : r.node[d[i]].kind = "code"},
   labels |-> {i \in 1..m : r.node[d[i]].kind = "label"},
   leaving |-> {i \in 1..m : r.node[d[i]].kind = "code" /\ Exits(r.node[d[i]].op, x)},
   plain |-> {i \in 1..m : r.node[d[i]].kind \in {"code", "label", "dbg"}}]

\* After k places, no block that had to end is open.
Visited(z, k, b) == Parsed(z, k, b) /\ (k \in z.leaving => b.st # "body")

\* One node is visited.
LEMMA VisitKeeps ==
  ASSUME NEW r, NEW d, NEW m, IsList(r, d, m), NEW x, NEW z, z = ListingOf(r, d, m, x),
         NEW l \in 1..m, NEW b, Visited(z, l - 1, b)
  PROVE  Visited(z, l, VisitBlock(r, b, d[l], x))
<1> DEFINE nd == r.node[d[l]]
<1>1. PICK k : k = l - 1
  OBVIOUS
<1>2. m \in Nat /\ k \in Nat /\ l \in Nat /\ l = k + 1 /\ k # l
  BY <1>1 DEF IsList
<1>3. /\ z.d = d /\ z.m = m
      /\ l \in z.codes <=> nd.kind = "code"
      /\ l \in z.labels <=> nd.kind = "label"
      /\ l \in z.leaving <=> nd.kind = "code" /\ Exits(nd.op, x)
      /\ l \in z.plain <=> nd.kind \in {"code", "label", "dbg"}
  BY DEF ListingOf
<1>4. Listing(z)
  BY <1>2 DEF ListingOf, Listing
<1>5. Parsed(z, k, b) /\ (k \in z.leaving => b.st # "body")
  BY <1>1 DEF Visited
<1>6. b \in [st : {"outside", "header", "body"}, first : {b.first}, out : {b.out}]
  BY <1>5 DEF Parsed, Found
<1>7. b.st = "body" => r.prev[d[l]] = d[k]
  <2>1. b.st = "body" => k # 0
    <3> SUFFICES ASSUME b.st = "body" PROVE k # 0
      OBVIOUS
    <3>1. PICK f : f \in 1..k
      BY <1>5 DEF Parsed, Found, Open
    <3> QED
      BY <1>2, <3>1
  <2>2. k # 0 => k \in 1..m
    BY <1>2
  <2>3. \A i \in 1..m : r.prev[d[i + 1]] = d[i]
    BY DEF IsList
  <2> QED
    BY <1>2, <2>1, <2>2, <2>3
<1> DEFINE opened == [b EXCEPT !.st = "header", !.first = d[l]]
           body == [b EXCEPT !.st = "body", !.first = IF b.st = "outside" THEN d[l] ELSE @]
           out == [b EXCEPT !.st = "outside"]
           closed == [b EXCEPT !.st = "outside",
                               !.out = Append(@, [first |-> b.first, last |-> d[k]])]
<1>8. out \in [st : {"outside"}, first : {b.first}, out : {b.out}]
  BY <1>6
<1>9. CASE nd.kind = "code"
  <2>1. Parsed(z, l, body)
    <3> DEFINE coded == [b EXCEPT !.st = "body", !.first = IF b.st = "outside" THEN z.d[l] ELSE @]
    <3>1. coded = body
      BY <1>3
    <3>2. l \in z.codes /\ (k \notin z.leaving \/ b.st # "body")
      BY <1>3, <1>5, <1>9
    <3>3. Parsed(z, l, coded)
      BY <1>2, <1>4, <1>5, <3>2, BlockGetsCode
    <3> HIDE DEF coded, body
    <3> QED
      BY <3>1, <3>3
  <2>2. body.st = "body"
    BY <1>6
  <2>3. (IF b.st = "outside" THEN StartBlock(b, d[l]) ELSE b) =
          IF b.st = "outside" THEN opened ELSE b
    BY DEF StartBlock
  <2>4. [(IF b.st = "outside" THEN opened ELSE b) EXCEPT !.st = "body"] = body
    <3>1. CASE b.st = "outside"
      <4>1. [opened EXCEPT !.st = "body"] = body
        BY <1>6, <3>1
      <4> QED
        BY <3>1, <4>1
    <3>2. CASE b.st # "outside"
      <4>1. [b EXCEPT !.st = "body"] = body
        BY <1>6, <3>2
      <4> QED
        BY <3>2, <4>1
    <3> QED
      BY <3>1, <3>2
  <2>5. VisitBlock(r, b, d[l], x) = IF Exits(nd.op, x) THEN EndBlock(body, d[l]) ELSE body
    BY <1>9, <2>3, <2>4 DEF VisitBlock
  <2> HIDE DEF body, nd
  <2>6. CASE Exits(nd.op, x)
    <3> DEFINE e == [body EXCEPT !.st = "outside",
                                 !.out = Append(@, [first |-> body.first, last |-> z.d[l]])]
    <3>1. Parsed(z, l, e)
      BY <1>2, <1>4, <2>1, <2>2, BlockCloses
    <3>2. EndBlock(body, d[l]) = e
      BY <1>3, <2>2 DEF EndBlock
    <3>3. e.st = "outside"
      BY <2>1 DEF Parsed, Found
    <3> HIDE DEF e
    <3> QED
      BY <2>5, <2>6, <3>1, <3>2, <3>3 DEF Visited
  <2>7. CASE ~Exits(nd.op, x)
    BY <1>3, <2>1, <2>5, <2>7 DEF Visited
  <2> QED
    BY <2>6, <2>7
<1>10. CASE nd.kind = "label"
  <2>1. CASE b.st = "body"
    <3>1. Parsed(z, k, closed) /\ closed.st = "outside"
      BY <1>2, <1>3, <1>4, <1>5, <1>6, <2>1, BlockCloses
    <3>2. EndBlock(b, r.prev[d[l]]) = closed
      BY <1>7, <2>1 DEF EndBlock
    <3>3. VisitBlock(r, b, d[l], x) = StartBlock(closed, d[l])
      BY <1>10, <2>1, <3>2 DEF VisitBlock
    <3> HIDE DEF closed
    <3>4. Parsed(z, l, [closed EXCEPT !.st = "header", !.first = z.d[l]])
      BY <1>2, <1>3, <1>4, <1>10, <3>1, BlockOpens
    <3> QED
      BY <1>3, <1>10, <3>3, <3>4 DEF Visited, StartBlock
  <2>2. CASE b.st = "header"
    <3>1. Parsed(z, l, b)
      BY <1>2, <1>3, <1>4, <1>5, <1>10, <2>2, BlockGoesOn
    <3>2. VisitBlock(r, b, d[l], x) = b
      BY <1>10, <2>2 DEF VisitBlock
    <3> QED
      BY <1>3, <1>10, <3>1, <3>2 DEF Visited
  <2>3. CASE b.st = "outside"
    <3>1. Parsed(z, l, opened)
      BY <1>2, <1>3, <1>4, <1>5, <1>10, <2>3, BlockOpens
    <3>2. VisitBlock(r, b, d[l], x) = opened
      BY <1>10, <2>3 DEF VisitBlock, StartBlock
    <3> HIDE DEF opened
    <3> QED
      BY <1>3, <1>10, <3>1, <3>2 DEF Visited
  <2> QED
    BY <1>6, <2>1, <2>2, <2>3
<1>11. CASE nd.kind = "dbg"
  <2>1. CASE b.st = "outside"
    <3>1. Parsed(z, l, opened)
      BY <1>2, <1>3, <1>4, <1>5, <1>11, <2>1, BlockOpens
    <3>2. VisitBlock(r, b, d[l], x) = opened
      BY <1>11, <2>1 DEF VisitBlock, StartBlock
    <3> HIDE DEF opened
    <3> QED
      BY <1>3, <1>11, <3>1, <3>2 DEF Visited
  <2>2. CASE b.st # "outside"
    <3>1. Parsed(z, l, b)
      BY <1>2, <1>3, <1>4, <1>5, <1>6, <1>11, <2>2, BlockGoesOn
    <3>2. VisitBlock(r, b, d[l], x) = b
      BY <1>11, <2>2 DEF VisitBlock
    <3> QED
      BY <1>3, <1>11, <3>1, <3>2 DEF Visited
  <2> QED
    BY <2>1, <2>2
<1>12. CASE nd.kind \notin {"code", "label", "dbg"}
  <2>1. l \in 1..z.m /\ l \notin z.codes /\ l \notin z.leaving
    BY <1>3, <1>12
  <2>2. CASE b.st = "body"
    <3>1. Parsed(z, k, closed) /\ closed.st = "outside"
      BY <1>2, <1>3, <1>4, <1>5, <1>6, <2>2, BlockCloses
    <3>2. VisitBlock(r, b, d[l], x) = closed
      BY <1>7, <1>12, <2>2 DEF VisitBlock, EndBlock
    <3>3. [closed EXCEPT !.st = "outside"] = closed
      BY <1>6
    <3> HIDE DEF closed
    <3>4. Parsed(z, l, closed)
      BY <1>2, <1>4, <2>1, <3>1, <3>3, PassOver
    <3> QED
      BY <2>1, <3>2, <3>4 DEF Visited
  <2>3. CASE b.st # "body"
    <3>1. Parsed(z, l, out)
      BY <1>2, <1>4, <1>5, <1>6, <2>1, <2>3, PassOver
    <3>2. VisitBlock(r, b, d[l], x) = out
      <4>1. CASE b.st = "outside"
        <5>1. out = b
          BY <1>6, <4>1
        <5> QED
          BY <1>12, <4>1, <5>1 DEF VisitBlock
      <4>2. CASE b.st = "header"
        <5>1. EndBlock(b, r.prev[d[l]]) = out
          BY <1>6, <4>2 DEF EndBlock
        <5> QED
          BY <1>12, <4>2, <5>1 DEF VisitBlock
      <4> QED
        BY <1>6, <2>3, <4>1, <4>2
    <3> HIDE DEF out
    <3> QED
      BY <2>1, <3>1, <3>2 DEF Visited
  <2> QED
    BY <2>2, <2>3
<1> QED
  BY <1>9, <1>10, <1>11, <1>12

BlockStep(x, y, a, e) == VisitBlock(x, a, e, y)
OnBlocks == INSTANCE FoldInduction WITH Op <- BlockStep, Inv <- Visited

\* The whole list is visited.
LEMMA AllVisited ==
  ASSUME NEW r, NEW d, NEW m, IsList(r, d, m), NEW x
  PROVE  Visited(ListingOf(r, d, m, x), m, CreateBasicBlocks(r, x))
<1> DEFINE c == [i \in 1..m |-> d[i]]
           b == [st |-> "outside", first |-> Nil, out |-> <<>>]
           all == OnBlocks!Fold(r, x, b, c)
<1>1. m \in Nat /\ Chain(r) = c /\ DOMAIN c = 1..m /\ \A k \in 1..m : c[k] = d[k]
  <2>1. m \in Nat
    BY DEF IsList
  <2> QED
    BY <2>1, ChainIs
<1>2. PICK z : z = ListingOf(r, d, m, x)
  OBVIOUS
<1>3. FoldLeft(LAMBDA a, n : VisitBlock(r, a, n, x), b, c) = all
  BY DEF BlockStep, OnBlocks!Fold, FoldLeft, MapThenFoldSet, Max,
         OnBlocks!MapThenFoldSet, OnBlocks!Largest
<1>4. CreateBasicBlocks(r, x) = all
  <2> HIDE DEF c, all
  <2> QED
    BY <1>1, <1>3 DEF CreateBasicBlocks
<1> HIDE DEF c
<1>5. Visited(z, 0, b)
  <2>1. Listing(z) /\ z.m = m
    BY <1>1, <1>2 DEF ListingOf, Listing
  <2>2. IsSeq(<<>>) /\ Len(<<>>) = 0 /\ 1..0 = {}
    BY ShortSeqs
  <2> DEFINE lo == [i \in 1..0 |-> 0]
  <2>3. lo \in [1..0 -> Nat]
    OBVIOUS
  <2> HIDE DEF lo
  <2>4. Blocks(z, 0, <<>>, lo, lo)
    BY <2>2, <2>3 DEF Blocks
  <2>5. \A i \in z.codes : ~(i <= 0)
    <3>1. z.codes \in SUBSET (1..m)
      BY <2>1 DEF Listing
    <3> QED
      BY <3>1
  <2>6. Covered(z, 0, b, lo, lo, 0)
    BY <2>5 DEF Covered
  <2>7. Found(z, 0, b, lo, lo, 0)
    BY <1>1, <2>1, <2>4, <2>6 DEF Found
  <2>8. 0 \notin z.leaving
    BY <1>2 DEF ListingOf
  <2> QED
    BY <2>7, <2>8 DEF Visited, Parsed
<1>6. ASSUME NEW k \in 1..m, NEW a, Visited(z, k - 1, a)
      PROVE  Visited(z, k, BlockStep(r, x, a, c[k]))
  BY <1>1, <1>2, <1>6, VisitKeeps DEF BlockStep
<1>7. Visited(z, m, all)
  BY <1>1, <1>5, <1>6, OnBlocks!FoldInvariant, Smallest
<1> QED
  BY <1>2, <1>4, <1>7

\* What leaves a block, leaves it with and without exceptions.
LEMMA LeavesExits ==
  ASSUME NEW op \in DOMAIN Ops, NEW x \in BOOLEAN, Leaves(op)
  PROVE  Exits(op, x)
<1>1. op = "throw" => "throw" \in Flags(op)
  BY DEF Flags, Ops, Row
<1> QED
  BY <1>1 DEF Exits, Leaves

\* No block is open after the last instruction.
LEMMA LastBlockEnds ==
  ASSUME NEW r, NEW d, NEW m, NEW n, InPlace(r, d, m, n), NEW x \in BOOLEAN, NEW b,
         Visited(ListingOf(r, d, m, x), m, b)
  PROVE  b.st # "body"
<1> SUFFICES ASSUME b.st = "body" PROVE FALSE
  OBVIOUS
<1>1. PICK z : z = ListingOf(r, d, m, x)
  OBVIOUS
<1>2. /\ z.codes = {i \in 1..m : r.node[d[i]].kind = "code"}
      /\ z.leaving = {i \in 1..m : r.node[d[i]].kind = "code" /\ Exits(r.node[d[i]].op, x)}
      /\ z.plain = {i \in 1..m : r.node[d[i]].kind \in {"code", "label", "dbg"}}
  BY <1>1 DEF ListingOf
<1>3. PICK hi, f : Open(z, m, b, hi, f)
  BY <1>1 DEF Visited, Parsed, Found
<1>4. m \notin z.leaving
  BY <1>1 DEF Visited
<1>5. m \in Nat /\ n \in Nat \ {0} /\ Nodes(r) /\ IsList(r, d, m)
  BY DEF InPlace, IsList
<1>6. PICK i \in z.codes : i \in f..m
  BY <1>3 DEF Open
<1>7. \A j \in z.leaving : j \notin f..m
  BY <1>3, <1>4 DEF Open
<1>8. PICK p \in 1..m : r.node[d[p]].org = n
  <2>1. n \in 1..n
    BY <1>5
  <2> QED
    BY <2>1 DEF InPlace
<1>9. /\ Stops(r.node[d[p]])
      /\ \A j \in (p + 1)..m : r.node[d[j]].kind \notin Instructions
  BY <1>8 DEF InPlace
<1>10. i \notin (p + 1)..m
  BY <1>2, <1>9 DEF Instructions
<1>11. p \in f..m
  <2>1. f \in 1..m
    BY <1>3 DEF Open
  <2> QED
    BY <1>5, <1>6, <1>8, <1>10, <2>1
<1>12. p \in z.plain
  BY <1>3, <1>11 DEF Open
<1>13. r.node[d[p]].kind = "code" /\ Leaves(r.node[d[p]].op)
  BY <1>2, <1>9, <1>12 DEF Stops
<1>14. r.node[d[p]].op \in DOMAIN Ops
  <2>1. GoodNode(r.node[d[p]])
    BY <1>5, <1>8 DEF Nodes, IsList
  <2> QED
    BY <1>13, <2>1 DEF GoodNode
<1>15. p \in z.leaving
  BY <1>2, <1>8, <1>13, <1>14, LeavesExits
<1> QED
  BY <1>7, <1>11, <1>15

\* The blocks of a list: every instruction is in one, only the last leaves
\* it, and a label leads to the first.
LEMMA BlocksPartition ==
  ASSUME NEW d, NEW m, NEW n, InPlace(lir, d, m, n), NEW x \in BOOLEAN
  PROVE  LET c == Chain(lir)
             run == CreateBasicBlocks(lir, x)
             codes == {k \in DOMAIN c : IsCode(lir, c[k])}
             block(k) == {v \in DOMAIN run.out : k \in Members(c, run.out[v])}
             top(v) == CHOOSE k \in Members(c, run.out[v]) :
                         \A j \in Members(c, run.out[v]) : k <= j
         IN /\ run.st # "body"
            /\ \A k \in codes : /\ Cardinality(block(k)) = 1
                                /\ Exits(lir.node[c[k]].op, x) =>
                                     \A v \in block(k) : \A j \in Members(c, run.out[v]) : j <= k
            /\ \A k \in DOMAIN c : lir.node[c[k]].kind = "label" =>
                 LET after == {j \in codes : j > k}
                     next == CHOOSE j \in after : \A i \in after : j <= i
                 IN after # {} => \A v \in block(next) : next = top(v)
<1> DEFINE c == Chain(lir)
           run == CreateBasicBlocks(lir, x)
           codes == {k \in DOMAIN c : IsCode(lir, c[k])}
           in(v) == Members(c, run.out[v])
           block(k) == {v \in DOMAIN run.out : k \in in(v)}
           top(v) == CHOOSE k \in in(v) : \A j \in in(v) : k <= j
<1>1. IsList(lir, d, m) /\ m \in Nat
  BY DEF InPlace, IsList
<1>2. DOMAIN c = 1..m /\ \A k \in 1..m : c[k] = d[k]
  BY <1>1, ChainIs
<1>3. PICK z : z = ListingOf(lir, d, m, x)
  OBVIOUS
<1>4. Visited(z, m, run)
  BY <1>1, <1>3, AllVisited
<1>5. run.st # "body"
  BY <1>3, <1>4, LastBlockEnds
<1>6. PICK lo, hi, f : Found(z, m, run, lo, hi, f)
  BY <1>4 DEF Visited, Parsed
<1> HIDE DEF run
<1>7. /\ z.d = d
      /\ z.codes = {i \in 1..m : lir.node[d[i]].kind = "code"}
      /\ z.labels = {i \in 1..m : lir.node[d[i]].kind = "label"}
      /\ z.leaving = {i \in 1..m : lir.node[d[i]].kind = "code" /\ Exits(lir.node[d[i]].op, x)}
  BY <1>3 DEF ListingOf
<1>8. codes = z.codes
  BY <1>2, <1>7 DEF IsCode
<1> DEFINE N == Len(run.out)
<1>9. /\ N \in Nat /\ DOMAIN run.out = 1..N
      /\ \A v \in 1..N : lo[v] \in 1..m /\ hi[v] \in 1..m /\ lo[v] <= hi[v]
      /\ \A v \in 1..N : run.out[v].first = d[lo[v]] /\ run.out[v].last = d[hi[v]]
      /\ \A v \in 1..N : Whole(z, lo[v], hi[v])
      /\ \A v, w \in 1..N : v < w => hi[v] < lo[w]
  <2>1. Blocks(z, m, run.out, lo, hi)
    BY <1>6 DEF Found
  <2>2. \A v \in 1..N : /\ lo[v] \in Nat /\ hi[v] \in Nat
                        /\ 1 <= lo[v] /\ lo[v] <= hi[v] /\ hi[v] <= m
    BY <2>1 DEF Blocks
  <2>3. \A v \in 1..N : lo[v] \in 1..m /\ hi[v] \in 1..m
    BY <1>1, <2>2
  <2>4. ASSUME NEW v \in 1..N PROVE run.out[v].first = d[lo[v]] /\ run.out[v].last = d[hi[v]]
    <3>1. run.out[v] = [first |-> z.d[lo[v]], last |-> z.d[hi[v]]]
      BY <2>1 DEF Blocks
    <3> QED
      BY <1>7, <3>1
  <2> QED
    BY <2>1, <2>2, <2>3, <2>4, SeqFacts DEF Blocks
<1> HIDE DEF N, c
<1>10. \A i \in 1..m : Place(c, d[i]) = i
  <2> TAKE i \in 1..m
  <2>1. \A k \in DOMAIN c : c[k] = d[i] <=> k = i
    <3>1. \A j, k \in 1..m : d[j] = d[k] => j = k
      BY <1>1 DEF IsList
    <3> QED
      BY <1>2, <3>1
  <2> QED
    BY <1>2, <2>1 DEF Place
<1>11. \A v \in 1..N : in(v) = {k \in lo[v]..hi[v] : k \in z.codes}
  <2> TAKE v \in 1..N
  <2>1. Place(c, run.out[v].first) = lo[v] /\ Place(c, run.out[v].last) = hi[v]
    <3>1. run.out[v].first = d[lo[v]] /\ run.out[v].last = d[hi[v]]
      BY <1>9
    <3>2. lo[v] \in 1..m /\ hi[v] \in 1..m
      BY <1>9
    <3>3. Place(c, d[lo[v]]) = lo[v] /\ Place(c, d[hi[v]]) = hi[v]
      BY <1>10, <3>2
    <3> QED
      BY <3>1, <3>3
  <2>2. in(v) = {k \in lo[v]..hi[v] : IsCode(lir, c[k])}
    BY <2>1 DEF Members
  <2>3. \A k \in lo[v]..hi[v] : k \in 1..m
    BY <1>1, <1>9
  <2>4. \A k \in 1..m : IsCode(lir, c[k]) <=> k \in z.codes
    BY <1>2, <1>7 DEF IsCode
  <2> QED
    BY <2>2, <2>3, <2>4
<1> HIDE DEF codes, in
<1>12. ASSUME NEW k \in codes
       PROVE  /\ Cardinality(block(k)) = 1
              /\ Exits(lir.node[c[k]].op, x) => \A v \in block(k) : \A j \in in(v) : j <= k
  <2>1. k \in z.codes /\ k \in 1..m
    BY <1>7, <1>8
  <2>2. PICK v \in 1..N : k \in lo[v]..hi[v]
    <3>1. Covered(z, m, run, lo, hi, f)
      BY <1>6 DEF Found
    <3>2. k <= m
      BY <1>1, <2>1
    <3> QED
      BY <1>5, <2>1, <3>1, <3>2 DEF Covered, N
  <2>3. ASSUME NEW w \in 1..N, k \in lo[w]..hi[w] PROVE w = v
    <3>1. v \in Int /\ w \in Int /\ lo[v] \in Int /\ hi[v] \in Int /\ lo[w] \in Int /\ hi[w] \in Int
      BY <1>9
    <3>2. ~(v < w)
      BY <1>9, <2>1, <2>2, <2>3, <3>1
    <3>3. ~(w < v)
      BY <1>9, <2>1, <2>2, <2>3, <3>1
    <3> QED
      BY <3>1, <3>2, <3>3
  <2>4. block(k) = {v}
    BY <1>9, <1>11, <2>1, <2>2, <2>3
  <2>5. Cardinality(block(k)) = 1
    BY <2>4, FS_Singleton
  <2>6. ASSUME Exits(lir.node[c[k]].op, x), NEW j \in in(v) PROVE j <= k
    <3>1. k \in z.leaving
      BY <1>2, <1>7, <2>1, <2>6
    <3>2. j \in z.codes /\ j \in lo[v]..hi[v]
      BY <1>11, <2>6
    <3> QED
      BY <1>9, <2>2, <3>1, <3>2 DEF Whole
  <2> QED
    BY <2>4, <2>5, <2>6
<1>13. ASSUME NEW k \in DOMAIN c, lir.node[c[k]].kind = "label",
              NEW after, after = {j \in codes : j > k}, after # {},
              NEW next, next = CHOOSE j \in after : \A i \in after : j <= i,
              NEW v \in block(next)
       PROVE  next = top(v)
  <2>1. k \in z.labels /\ k \in 1..m
    BY <1>2, <1>7, <1>13
  <2>2. after \in SUBSET Nat
    BY <1>7, <1>8, <1>13
  <2>3. \E j \in after : \A i \in after : j <= i
    BY <1>13, <2>2, Smallest
  <2>4. next \in after /\ \A i \in after : next <= i
    BY <1>13, <2>3
  <2>5. v \in 1..N /\ next \in lo[v]..hi[v] /\ next \in z.codes /\ next > k /\ next \in in(v)
    BY <1>8, <1>9, <1>11, <1>13, <2>4
  <2>6. ASSUME NEW j \in in(v) PROVE next <= j
    <3>1. j \in lo[v]..hi[v] /\ j \in z.codes /\ j \in Nat /\ next \in Nat /\ k \in Nat
      BY <1>7, <1>11, <2>1, <2>5, <2>6
    <3>2. CASE j > k
      <4>1. j \in after
        BY <1>8, <1>13, <3>1, <3>2
      <4> QED
        BY <2>4, <4>1
    <3>3. CASE j <= k
      <4>1. lo[v] \in Nat /\ hi[v] \in Nat
        BY <1>9, <2>5
      <4>2. k \in lo[v]..hi[v]
        BY <2>5, <3>1, <3>3, <4>1
      <4>3. k <= j
        BY <1>9, <2>1, <2>5, <3>1, <4>2 DEF Whole
      <4>4. k \notin z.codes
        BY <1>7, <2>1
      <4>5. k = j
        BY <3>1, <3>3, <4>3
      <4> QED
        BY <3>1, <4>4, <4>5
    <3> QED
      BY <3>1, <3>2, <3>3
  <2>7. ASSUME NEW j \in in(v), \A i \in in(v) : j <= i PROVE j = next
    <3>1. j \in Nat /\ next \in Nat
      BY <1>7, <1>11, <2>5, <2>7
    <3> QED
      BY <2>5, <2>6, <2>7, <3>1
  <2> QED
    BY <2>5, <2>6, <2>7
<1>14. \A k \in DOMAIN c : lir.node[c[k]].kind = "label" =>
         LET after == {j \in codes : j > k}
             next == CHOOSE j \in after : \A i \in after : j <= i
         IN after # {} => \A v \in block(next) : next = top(v)
  <2> TAKE k \in DOMAIN c
  <2> DEFINE after == {j \in codes : j > k}
             next == CHOOSE j \in after : \A i \in after : j <= i
  <2> SUFFICES ASSUME lir.node[c[k]].kind = "label", after # {}, NEW v \in block(next)
               PROVE  next = top(v)
    OBVIOUS
  <2>1. PICK a, b : a = after /\ b = next
    OBVIOUS
  <2>2. a = {j \in codes : j > k} /\ a # {} /\ b = CHOOSE j \in a : \A i \in a : j <= i
    BY <2>1
  <2>3. v \in block(b)
    BY <2>1
  <2> HIDE DEF block, top, after, next
  <2>4. b = top(v)
    BY <1>13, <2>2, <2>3
  <2> QED
    BY <2>1, <2>4
<1>15. \A k \in codes : /\ Cardinality(block(k)) = 1
                        /\ Exits(lir.node[c[k]].op, x) =>
                             \A v \in block(k) : \A j \in in(v) : j <= k
  BY <1>12
<1> QED
  BY <1>5, <1>14, <1>15 DEF c, codes, in, run

\* In the merged list, with the hooks and probes put in so far, every
\* instruction is in exactly one basic block, only the last one of a block
\* may leave it and a label leads to the first (BasicBlocksVisitor).
THEOREM BlocksTheorem == Spec => []BlocksEnteredAtTop
<1>1. DexInv => BlocksEnteredAtTop
  <2> SUFFICES ASSUME DexInv, phase = "transform" PROVE BlocksEnteredAtTop
    BY DEF BlocksEnteredAtTop
  <2>1. PICK d, m : InPlace(lir, d, m, Len(method.insns))
    BY DEF DexInv, OnList
  <2> QED
    BY <2>1, BlocksPartition DEF BlocksEnteredAtTop
<1> QED
  BY <1>1, DexInvariant, PTL
=============================================================================
