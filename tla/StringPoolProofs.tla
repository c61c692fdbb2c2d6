-------------------------- MODULE StringPoolProofs --------------------------
(* The string pool interns, whatever the texts, their hashes, the file and  *)
(* the number of buckets it starts with: a partition of the lookup table    *)
(* is a set of chains that its two operations keep in order, so the lookup  *)
(* is exact, and growing always finds the room it checks for.               *)
EXTENDS StringPool, TLAPS, WellFoundedInduction, FiniteSetTheorems

\* Every set of naturals that is not empty has a smallest element: the form in
\* which the proofs below argue by induction.
LEMMA Smallest ==
  ASSUME NEW S \in SUBSET Nat, S # {}
  PROVE  \E m \in S : \A k \in S : m <= k
<1> DEFINE R == {ss \in Nat \X Nat : ss[1] < ss[2]}
<1>1. R = OpToRel(<, Nat)
  BY DEF OpToRel
<1>2. IsWellFoundedOn(R, Nat)
  BY <1>1, NatLessThanWellFounded
<1> HIDE DEF R
<1>3. PICK m \in S : \A k \in S : ~(<<k, m>> \in R)
  BY <1>2, WFMin
<1>4. ASSUME NEW k \in S PROVE m <= k
  <2>1. k < m => <<k, m>> \in R
    BY DEF R
  <2> QED
    BY <1>3, <2>1
<1> QED
  BY <1>3, <1>4

\* The allocator skips to a free index, or to the first one never used.
LEMMA FreeIndexIsFree ==
  ASSUME used \in Seq(BOOLEAN), pos \in 0..Len(used)
  PROVE  /\ FreeIndex \in pos..Len(used)
         /\ FreeIndex < Len(used) => ~used[FreeIndex + 1]
<1> DEFINE N == Len(used)
           Skip(h, p) == IF p < N /\ used[p + 1] THEN h[p + 1] ELSE p
           Free(q) == q = N \/ ~used[q + 1]
           Least(p, q) == q \in p..N /\ Free(q) /\ \A r \in p..(q - 1) : ~Free(r)
           h == CHOOSE h : h = [p \in 0..N |-> Skip(h, p)]
<1>0. N \in Nat
  OBVIOUS
<1>1. ASSUME NEW p \in 0..N PROVE \E q \in 0..N : Least(p, q)
  <2>1. {q \in p..N : Free(q)} \in SUBSET Nat /\ N \in {q \in p..N : Free(q)}
    BY <1>0
  <2>2. PICK m \in {q \in p..N : Free(q)} : \A k \in {q \in p..N : Free(q)} : m <= k
    BY <2>1, Smallest
  <2>3. ASSUME NEW r \in p..(m - 1) PROVE ~Free(r)
    <3>1. r \in p..N /\ ~(m <= r)
      BY <1>0
    <3> QED
      BY <2>2, <3>1
  <2> QED
    BY <1>0, <2>2, <2>3
<1>2. \E g : g = [p \in 0..N |-> Skip(g, p)]
  <2> DEFINE g == [p \in 0..N |-> CHOOSE q \in 0..N : Least(p, q)]
  <2>1. ASSUME NEW p \in 0..N PROVE g[p] = Skip(g, p)
    <3>1. g[p] \in 0..N /\ Least(p, g[p])
      BY <1>1
    <3>2. CASE p < N /\ used[p + 1]
      <4>1. p + 1 \in 0..N /\ ~Free(p)
        BY <1>0, <3>2
      <4>2. g[p + 1] \in 0..N /\ Least(p + 1, g[p + 1])
        BY <1>1, <4>1
      <4> HIDE DEF g, Free
      <4>3. g[p] # p
        BY <4>1, <3>1
      <4>4. ~(g[p] < g[p + 1])
        BY <4>2, <3>1, <4>3, <1>0
      <4>5. ~(g[p + 1] < g[p])
        BY <4>2, <3>1, <4>3, <1>0
      <4>6. g[p] = g[p + 1]
        BY <4>4, <4>5, <3>1, <4>2
      <4> QED
        BY <3>2, <4>6
    <3>3. CASE ~(p < N /\ used[p + 1])
      <4>1. Free(p)
        BY <1>0, <3>3
      <4> HIDE DEF g, Free
      <4>2. ~(p < g[p])
        BY <4>1, <3>1, <1>0
      <4>3. g[p] = p
        BY <4>2, <3>1, <1>0
      <4> QED
        BY <3>3, <4>3
    <3> QED
      BY <3>2, <3>3
  <2>2. g = [p \in 0..N |-> Skip(g, p)]
    <3>1. g = [p \in 0..N |-> g[p]]
      OBVIOUS
    <3> HIDE DEF g, Skip
    <3> QED
      BY <3>1, <2>1
  <2> QED
    BY <2>2
<1>3. h = [p \in 0..N |-> Skip(h, p)]
  <2> HIDE DEF Skip
  <2> QED
    BY <1>2
<1>4. FreeIndex = h[pos]
  BY DEF FreeIndex
<1> HIDE DEF h
<1>5. ASSUME NEW p \in 0..N PROVE h[p] \in p..N /\ (h[p] < N => ~used[h[p] + 1])
  <2> DEFINE Bad == {d \in Nat : /\ d <= N
                                 /\ ~(/\ h[N - d] \in (N - d)..N
                                      /\ h[N - d] < N => ~used[h[N - d] + 1])}
  <2>1. SUFFICES ASSUME Bad # {} PROVE FALSE
    <3>1. N - p \in Nat /\ N - p <= N /\ N - (N - p) = p
      BY <1>0
    <3>2. N - p \notin Bad
      BY <2>1
    <3> QED
      BY <3>1, <3>2
  <2>2. PICK d \in Bad : \A e \in Bad : d <= e
    BY <2>1, Smallest
  <2>3. d \in Nat /\ d <= N /\ N - d \in 0..N
    BY <1>0
  <2>4. h[N - d] = Skip(h, N - d)
    BY <1>3, <2>3
  <2>5. CASE d > 0 /\ used[(N - d) + 1]
    <3>0. d - 1 \in Nat /\ d - 1 <= N /\ ~(d <= d - 1) /\ N - (d - 1) = (N - d) + 1
      BY <1>0, <2>3, <2>5
    <3>1. d - 1 \notin Bad
      <4> HIDE DEF Bad
      <4> QED
        BY <2>2, <3>0
    <3>2. h[(N - d) + 1] \in ((N - d) + 1)..N /\ (h[(N - d) + 1] < N => ~used[h[(N - d) + 1] + 1])
      BY <3>0, <3>1
    <3>3. h[N - d] = h[(N - d) + 1]
      BY <2>4, <2>5, <2>3, <1>0
    <3> QED
      BY <3>2, <3>3, <2>3, <1>0
  <2>6. CASE ~(d > 0 /\ used[(N - d) + 1])
    <3>1. h[N - d] = N - d
      BY <2>4, <2>6, <2>3, <1>0
    <3> QED
      BY <3>1, <2>6, <2>3, <1>0
  <2> QED
    BY <2>5, <2>6
<1> QED
  BY <1>4, <1>5
-----------------------------------------------------------------------------
(* A partition: slots, chains, and what an insertion does to them.         *)
\* A slot of a partition, the values and links of its slots, the bucket a node
\* belongs to, and the nodes a partition holds.
Slot == [value : Int, next : Nat]
Val(p, b) == p.bucket[b].value
Nxt(p, b) == p.bucket[b].next
Home(p, text, b) == BucketOf(p, text[Val(p, b)])
Holds(p, n) == \E b \in 1..Len(p.bucket) : Val(p, b) = n

\* The texts of the nodes, by index.
Named(text) == DOMAIN text \subseteq Nat /\ text \in [DOMAIN text -> Text]

\* A partition is in order: each slot of a chain is filled, a bucket found by
\* hash holds a node of that hash, a chain runs through slots of the same hash
\* and leads back to earlier ones, and no slot of that hash is left out.
Shape(p) ==
  /\ p \in [size : Nat \ {0, 1}, bucket : Seq(Slot)]
  /\ Len(p.bucket) \in p.size..(2 * p.size)
Filled(p, text) ==
  \A b \in 1..Len(p.bucket) : /\ Val(p, b) \in DOMAIN text \cup {NoValue}
                              /\ b > p.size => Val(p, b) # NoValue
AtHome(p, text) == \A b \in 1..p.size : Val(p, b) # NoValue => Home(p, text, b) = b
Links(p, text) ==
  /\ \A c \in (p.size + 1)..Len(p.bucket) : Nxt(p, c) # 0 =>
       Nxt(p, c) \in (p.size + 1)..(c - 1) /\ Home(p, text, Nxt(p, c)) = Home(p, text, c)
  /\ \A b \in 1..p.size : Nxt(p, b) # 0 =>
       Nxt(p, b) \in (p.size + 1)..Len(p.bucket) /\ Home(p, text, Nxt(p, b)) = b
Reaches(p, text) ==
  \A d \in (p.size + 1)..Len(p.bucket) :
    /\ \A c \in (d + 1)..Len(p.bucket) : Home(p, text, c) = Home(p, text, d) => d <= Nxt(p, c)
    /\ Val(p, Home(p, text, d)) # NoValue
    /\ d <= Nxt(p, Home(p, text, d))
Good(p, text) ==
  Shape(p) /\ Filled(p, text) /\ AtHome(p, text) /\ Links(p, text) /\ Reaches(p, text)

\* A remainder is less than the divisor.
LEMMA ModRange ==
  ASSUME NEW a \in Nat, NEW b \in Nat, b # 0
  PROVE  a % b \in 0..(b - 1)
  OBVIOUS

\* The hash of a text leads to one of the buckets found by hash.
LEMMA BucketInRange ==
  ASSUME NEW p, p.size \in Nat, p.size # 0, NEW t \in Text
  PROVE  BucketOf(p, t) \in 1..p.size
<1>1. HashOf[t] \in Nat
  BY PoolAssumption
<1>2. HashOf[t] % p.size \in 0..(p.size - 1)
  BY <1>1, ModRange
<1> QED
  BY <1>2 DEF BucketOf

\* Partition::Insert into a free bucket fills it.
LEMMA PutAtHead ==
  ASSUME NEW p, NEW n, NEW t \in Text, n \in Int, Shape(p),
         Val(p, BucketOf(p, t)) = NoValue
  PROVE  LET q == Put(p, n, t) IN
         /\ q \in [size : Nat \ {0, 1}, bucket : Seq(Slot)]
         /\ q.size = p.size /\ Len(q.bucket) = Len(p.bucket)
         /\ \A c \in 1..Len(p.bucket) :
              /\ Val(q, c) = IF c = BucketOf(p, t) THEN n ELSE Val(p, c)
              /\ Nxt(q, c) = Nxt(p, c)
<1> DEFINE b == BucketOf(p, t)
<1>1. b \in 1..p.size
  BY BucketInRange DEF Shape
<1>2. p.size \in Nat /\ p.bucket \in Seq(Slot) /\ Len(p.bucket) \in Nat /\ b \in 1..Len(p.bucket)
  BY <1>1 DEF Shape
<1>3. Put(p, n, t) = [p EXCEPT !.bucket[b].value = n]
  BY DEF Put, Val
<1> HIDE DEF b
<1> DEFINE q == [p EXCEPT !.bucket[b].value = n]
<1>4. \A c \in 1..Len(p.bucket) : p.bucket[c] \in Slot
  BY <1>2
<1>5. q.bucket = [p.bucket EXCEPT ![b] = [p.bucket[b] EXCEPT !.value = n]] /\ q.size = p.size
  BY DEF Shape
<1>6. [p.bucket[b] EXCEPT !.value = n] = [value |-> n, next |-> p.bucket[b].next]
  BY <1>2, <1>4 DEF Slot
<1>7. [value |-> n, next |-> p.bucket[b].next] \in Slot
  BY <1>2, <1>4 DEF Slot
<1>8. q.bucket \in Seq(Slot) /\ Len(q.bucket) = Len(p.bucket)
  BY <1>2, <1>5, <1>6, <1>7
<1>9. q \in [size : Nat \ {0, 1}, bucket : Seq(Slot)]
  BY <1>8 DEF Shape
<1>10. ASSUME NEW c \in 1..Len(p.bucket)
       PROVE  q.bucket[c] = IF c = b THEN [value |-> n, next |-> p.bucket[b].next] ELSE p.bucket[c]
  BY <1>2, <1>5, <1>6
<1> HIDE DEF q
<1>11. ASSUME NEW c \in 1..Len(p.bucket)
       PROVE  /\ Val(q, c) = IF c = b THEN n ELSE Val(p, c)
              /\ Nxt(q, c) = Nxt(p, c)
  BY <1>10 DEF Val, Nxt
<1>12. q = Put(p, n, t)
  BY <1>3 DEF q
<1> QED
  BY <1>5, <1>8, <1>9, <1>11, <1>12 DEF b

\* Partition::Insert into a taken bucket adds a slot at the front of its chain.
LEMMA PutInChain ==
  ASSUME NEW p, NEW n, NEW t \in Text, n \in Int, Shape(p),
         Val(p, BucketOf(p, t)) # NoValue
  PROVE  LET q == Put(p, n, t)
             b == BucketOf(p, t)
             last == Len(p.bucket) + 1 IN
         /\ q \in [size : Nat \ {0, 1}, bucket : Seq(Slot)]
         /\ q.size = p.size /\ Len(q.bucket) = last
         /\ Val(q, last) = n /\ Nxt(q, last) = Nxt(p, b)
         /\ \A c \in 1..Len(p.bucket) :
              /\ Val(q, c) = Val(p, c)
              /\ Nxt(q, c) = IF c = b THEN last ELSE Nxt(p, c)
<1> DEFINE b == BucketOf(p, t)
           last == Len(p.bucket) + 1
           linked == [p.bucket EXCEPT ![b].next = last]
           slot == [value |-> n, next |-> p.bucket[b].next]
           q == [p EXCEPT !.bucket = Append(linked, slot)]
<1>1. b \in 1..p.size
  BY BucketInRange DEF Shape
<1>2. p.size \in Nat /\ p.bucket \in Seq(Slot) /\ Len(p.bucket) \in Nat /\ b \in 1..Len(p.bucket)
  BY <1>1 DEF Shape
<1>3. Put(p, n, t) = q
  BY DEF Put, Val
<1> HIDE DEF b, last
<1>4. \A c \in 1..Len(p.bucket) : p.bucket[c] \in Slot
  BY <1>2
<1>5. linked = [p.bucket EXCEPT ![b] = [value |-> p.bucket[b].value, next |-> last]]
  <2>1. [p.bucket[b] EXCEPT !.next = last] = [value |-> p.bucket[b].value, next |-> last]
    BY <1>2, <1>4 DEF Slot
  <2>2. linked = [p.bucket EXCEPT ![b] = [p.bucket[b] EXCEPT !.next = last]]
    BY <1>2
  <2> QED
    BY <2>1, <2>2
<1>6. slot \in Slot /\ [value |-> p.bucket[b].value, next |-> last] \in Slot
  BY <1>2, <1>4 DEF Slot, last
<1>7. /\ linked \in Seq(Slot) /\ Len(linked) = Len(p.bucket)
      /\ \A c \in 1..Len(p.bucket) : linked[c] =
           IF c = b THEN [value |-> p.bucket[b].value, next |-> last] ELSE p.bucket[c]
  BY <1>2, <1>5, <1>6
<1> HIDE DEF linked, slot
<1>8. /\ Append(linked, slot) \in Seq(Slot) /\ Len(Append(linked, slot)) = last
      /\ Append(linked, slot)[last] = slot
      /\ \A c \in 1..Len(p.bucket) : Append(linked, slot)[c] = linked[c]
  BY <1>2, <1>6, <1>7 DEF last
<1>9. q.bucket = Append(linked, slot) /\ q.size = p.size
  BY DEF Shape
<1>10. q \in [size : Nat \ {0, 1}, bucket : Seq(Slot)]
  BY <1>8 DEF Shape
<1> HIDE DEF q
<1>11. Val(q, last) = n /\ Nxt(q, last) = Nxt(p, b)
  BY <1>8, <1>9 DEF Val, Nxt, slot
<1>12. ASSUME NEW c \in 1..Len(p.bucket)
       PROVE  /\ Val(q, c) = Val(p, c)
              /\ Nxt(q, c) = IF c = b THEN last ELSE Nxt(p, c)
  BY <1>7, <1>8, <1>9 DEF Val, Nxt
<1> QED
  BY <1>3, <1>8, <1>9, <1>10, <1>11, <1>12 DEF b, last

\* Where a node's text goes depends on the number of buckets alone.
LEMMA SameHome ==
  ASSUME NEW p, NEW q, NEW t, p.size = q.size
  PROVE  BucketOf(p, t) = BucketOf(q, t)
  BY DEF BucketOf

\* A node that a partition holds belongs to one of its buckets.
LEMMA HomeInRange ==
  ASSUME NEW p, NEW text, Shape(p), Filled(p, text), Named(text),
         NEW b \in 1..Len(p.bucket), Val(p, b) # NoValue
  PROVE  Home(p, text, b) \in 1..p.size
<1>1. text[Val(p, b)] \in Text
  BY DEF Filled, Named
<1> QED
  BY <1>1, BucketInRange DEF Home, Shape

\* Partition::Insert keeps a partition in order, takes the node, keeps the
\* others, and adds a slot only when the bucket was taken.
LEMMA PutKeepsGood ==
  ASSUME NEW p, NEW text, NEW n \in DOMAIN text, Named(text), Good(p, text), ~Overflows(p)
  PROVE  LET q == Put(p, n, text[n]) IN
         /\ Good(q, text) /\ q.size = p.size
         /\ Len(q.bucket) <= Len(p.bucket) + 1
         /\ Val(p, BucketOf(p, text[n])) = NoValue => Len(q.bucket) = Len(p.bucket)
         /\ \A v \in DOMAIN text : Holds(q, v) <=> v = n \/ Holds(p, v)
<1> DEFINE t == text[n]
           b == BucketOf(p, t)
           L == Len(p.bucket)
<1>1. n \in Nat /\ n # NoValue /\ t \in Text /\ NoValue \notin DOMAIN text
  BY DEF Named, NoValue
<1>2. p.size \in Nat /\ p.size > 1 /\ L \in Nat /\ L \in p.size..(2 * p.size) /\ L + 1 <= 2 * p.size
  BY DEF Good, Shape, Overflows, Capacity, AvgChainLength
<1>3. b \in 1..p.size /\ b \in 1..L
  BY <1>1, <1>2, BucketInRange
<1>4. PICK q : q = Put(p, n, text[n])
  OBVIOUS
<1>5. CASE Val(p, b) = NoValue
  <2>1. /\ q \in [size : Nat \ {0, 1}, bucket : Seq(Slot)]
        /\ q.size = p.size /\ Len(q.bucket) = L
        /\ \A c \in 1..L : /\ Val(q, c) = IF c = b THEN n ELSE Val(p, c)
                           /\ Nxt(q, c) = Nxt(p, c)
    BY <1>1, <1>4, <1>5, PutAtHead DEF Good
  <2>2. \A c \in 1..L : Home(q, text, c) = IF c = b THEN b ELSE Home(p, text, c)
    BY <2>1, SameHome DEF Home
  <2> HIDE DEF b, t, L
  <2>3. Shape(q)
    BY <2>1, <1>2 DEF Shape, L
  <2>4. Filled(q, text)
    BY <1>1, <1>2, <1>3, <2>1 DEF Good, Filled, L
  <2>5. AtHome(q, text)
    BY <1>1, <1>2, <1>3, <2>1, <2>2 DEF Good, AtHome
  <2>6. Links(q, text)
    <3>1. ASSUME NEW c \in (p.size + 1)..L, Nxt(q, c) # 0
          PROVE  Nxt(q, c) \in (p.size + 1)..(c - 1) /\ Home(q, text, Nxt(q, c)) = Home(q, text, c)
      BY <3>1, <1>2, <1>3, <2>1, <2>2 DEF Good, Links, L
    <3>2. ASSUME NEW c \in 1..p.size, Nxt(q, c) # 0
          PROVE  Nxt(q, c) \in (p.size + 1)..L /\ Home(q, text, Nxt(q, c)) = c
      BY <3>2, <1>2, <1>3, <2>1, <2>2 DEF Good, Links, L
    <3> QED
      BY <3>1, <3>2, <2>1 DEF Links
  <2>7. Reaches(q, text)
    <3>1. SUFFICES ASSUME NEW d \in (p.size + 1)..L
          PROVE  /\ \A c \in (d + 1)..L : Home(q, text, c) = Home(q, text, d) => d <= Nxt(q, c)
                 /\ Val(q, Home(q, text, d)) # NoValue
                 /\ d <= Nxt(q, Home(q, text, d))
      BY <2>1 DEF Reaches
    <3>2. Home(q, text, d) = Home(p, text, d)
      BY <1>2, <1>3, <2>2
    <3>3. Val(p, d) # NoValue /\ d \in 1..Len(p.bucket)
      BY <1>2 DEF Good, Filled, L
    <3>4. Home(p, text, d) \in 1..p.size /\ Home(p, text, d) \in 1..L
      BY <3>3, <1>2, HomeInRange DEF Good
    <3>5. \A c \in (d + 1)..L : Home(q, text, c) = Home(q, text, d) => d <= Nxt(q, c)
      BY <1>2, <1>3, <2>1, <2>2, <3>2 DEF Good, Reaches, L
    <3>6. Val(q, Home(p, text, d)) # NoValue /\ d <= Nxt(q, Home(p, text, d))
      BY <1>1, <1>2, <2>1, <3>4 DEF Good, Reaches, L
    <3> QED
      BY <3>2, <3>5, <3>6
  <2>8. ASSUME NEW v \in DOMAIN text PROVE Holds(q, v) <=> v = n \/ Holds(p, v)
    BY <1>1, <1>3, <1>5, <2>1 DEF Holds, L, b, t
  <2> QED
    BY <1>2, <1>4, <2>1, <2>3, <2>4, <2>5, <2>6, <2>7, <2>8 DEF Good, L
<1>6. CASE Val(p, b) # NoValue
  <2>1. /\ q \in [size : Nat \ {0, 1}, bucket : Seq(Slot)]
        /\ q.size = p.size /\ Len(q.bucket) = L + 1
        /\ Val(q, L + 1) = n /\ Nxt(q, L + 1) = Nxt(p, b)
        /\ \A c \in 1..L : /\ Val(q, c) = Val(p, c)
                           /\ Nxt(q, c) = IF c = b THEN L + 1 ELSE Nxt(p, c)
    BY <1>1, <1>4, <1>6, PutInChain DEF Good
  <2>2. Home(q, text, L + 1) = b /\ \A c \in 1..L : Home(q, text, c) = Home(p, text, c)
    BY <2>1, SameHome DEF Home
  <2>0. Home(p, text, b) = b
    BY <1>3, <1>6 DEF Good, AtHome
  <2> HIDE DEF b, t, L
  <2>3. Shape(q)
    BY <2>1, <1>2 DEF Shape
  <2>4. Filled(q, text)
    <3>1. ASSUME NEW c \in 1..(L + 1)
          PROVE  Val(q, c) \in DOMAIN text \cup {NoValue} /\ (c > p.size => Val(q, c) # NoValue)
      <4>1. CASE c = L + 1
        BY <4>1, <2>1, <1>1
      <4>2. CASE c \in 1..L
        BY <4>2, <2>1 DEF Good, Filled, L
      <4> QED
        BY <4>1, <4>2, <1>2
    <3> QED
      BY <3>1, <2>1 DEF Filled
  <2>5. AtHome(q, text)
    BY <1>2, <2>1, <2>2 DEF Good, AtHome
  <2>6. Links(q, text)
    <3>1. ASSUME NEW c \in (p.size + 1)..(L + 1), Nxt(q, c) # 0
          PROVE  Nxt(q, c) \in (p.size + 1)..(c - 1) /\ Home(q, text, Nxt(q, c)) = Home(q, text, c)
      <4>1. CASE c = L + 1
        <5>1. Nxt(p, b) \in (p.size + 1)..L /\ Home(p, text, Nxt(p, b)) = b
          BY <3>1, <4>1, <1>3, <2>1 DEF Good, Links, L
        <5> QED
          BY <4>1, <5>1, <1>2, <2>1, <2>2
      <4>2. CASE c \in 1..L
        BY <3>1, <4>2, <1>2, <1>3, <2>1, <2>2 DEF Good, Links, L
      <4> QED
        BY <4>1, <4>2, <1>2
    <3>2. ASSUME NEW c \in 1..p.size, Nxt(q, c) # 0
          PROVE  Nxt(q, c) \in (p.size + 1)..(L + 1) /\ Home(q, text, Nxt(q, c)) = c
      <4>1. CASE c = b
        BY <4>1, <1>2, <1>3, <2>1, <2>2
      <4>2. CASE c # b
        BY <3>2, <4>2, <1>2, <2>1, <2>2 DEF Good, Links, L
      <4> QED
        BY <4>1, <4>2
    <3> QED
      BY <3>1, <3>2, <2>1 DEF Links
  <2>7. Reaches(q, text)
    <3>1. SUFFICES ASSUME NEW d \in (p.size + 1)..(L + 1)
          PROVE  /\ \A c \in (d + 1)..(L + 1) :
                      Home(q, text, c) = Home(q, text, d) => d <= Nxt(q, c)
                 /\ Val(q, Home(q, text, d)) # NoValue
                 /\ d <= Nxt(q, Home(q, text, d))
      BY <2>1 DEF Reaches
    <3>2. CASE d = L + 1
      BY <3>2, <1>2, <1>3, <1>6, <2>1, <2>2
    <3>3. CASE d \in 1..L
      <4>2. Home(q, text, d) = Home(p, text, d)
        BY <3>3, <2>2
      <4>3. Val(p, d) # NoValue
        BY <3>3, <1>2 DEF Good, Filled, L
      <4>4. Home(p, text, d) \in 1..p.size /\ Home(p, text, d) \in 1..L
        BY <3>3, <4>3, <1>2, HomeInRange DEF Good, L
      <4>5. ASSUME NEW c \in (d + 1)..(L + 1), Home(q, text, c) = Home(q, text, d)
            PROVE  d <= Nxt(q, c)
        <5>1. CASE c = L + 1
          <6>1. Home(p, text, d) = b
            BY <4>5, <5>1, <4>2, <2>2
          <6> QED
            BY <3>3, <5>1, <6>1, <2>1, <1>2 DEF Good, Reaches, L
        <5>2. CASE c \in 1..L
          BY <4>5, <3>3, <5>2, <4>2, <2>1, <2>2, <1>2, <1>3 DEF Good, Reaches, L
        <5> QED
          BY <5>1, <5>2, <1>2
      <4>6. Val(q, Home(p, text, d)) # NoValue
        BY <3>3, <1>2, <2>1, <4>4 DEF Good, Reaches, L
      <4>7. d <= Nxt(q, Home(p, text, d))
        BY <3>3, <1>2, <2>1, <4>4 DEF Good, Reaches, L
      <4> QED
        BY <4>2, <4>5, <4>6, <4>7
    <3> QED
      BY <3>2, <3>3, <1>2
  <2>8. ASSUME NEW v \in DOMAIN text PROVE Holds(q, v) <=> v = n \/ Holds(p, v)
    <3>1. ASSUME NEW c \in 1..(L + 1), Val(q, c) = v PROVE v = n \/ Holds(p, v)
      <4>1. CASE c = L + 1
        BY <3>1, <4>1, <2>1
      <4>2. CASE c \in 1..L
        BY <3>1, <4>2, <2>1 DEF Holds, L
      <4> QED
        BY <4>1, <4>2, <1>2
    <3>2. ASSUME NEW c \in 1..L, Val(p, c) = v PROVE Holds(q, v)
      BY <3>2, <2>1, <1>2 DEF Holds
    <3>3. Holds(q, n)
      BY <2>1, <1>2 DEF Holds
    <3> QED
      BY <3>1, <3>2, <3>3, <2>1 DEF Holds, L
  <2> QED
    BY <1>2, <1>4, <1>6, <2>1, <2>3, <2>4, <2>5, <2>6, <2>7, <2>8 DEF Good, L, b, t
<1> QED
  BY <1>5, <1>6

\* A new partition is in order and holds nothing.
LEMMA PartitionIsGood ==
  ASSUME NEW k \in Nat \ {0, 1}, NEW text
  PROVE  LET p == Partition(k) IN
         /\ Good(p, text) /\ p.size = k /\ Len(p.bucket) = k
         /\ \A b \in 1..k : Val(p, b) = NoValue
<1> DEFINE row == [b \in 1..k |-> Empty]
<1>1. Empty \in Slot
  BY DEF Empty, Slot, NoValue
<1>2. row \in Seq(Slot) /\ Len(row) = k
  BY <1>1
<1>3. <<>> \o row = row
  BY <1>2
<1>4. PICK p : p = Partition(k)
  OBVIOUS
<1>5. p.size = k /\ p.bucket = row /\ p \in [size : Nat \ {0, 1}, bucket : Seq(Slot)]
  BY <1>2, <1>3, <1>4 DEF Partition
<1>6. \A b \in 1..k : Val(p, b) = NoValue /\ Nxt(p, b) = 0
  BY <1>5 DEF Val, Nxt, Empty
<1>7. Len(p.bucket) = k
  BY <1>2, <1>5
<1>8. Shape(p)
  BY <1>5, <1>7 DEF Shape
<1>9. Filled(p, text) /\ AtHome(p, text) /\ Links(p, text) /\ Reaches(p, text)
  BY <1>5, <1>6, <1>7 DEF Filled, AtHome, Links, Reaches
<1> QED
  BY <1>4, <1>5, <1>6, <1>7, <1>8, <1>9 DEF Good

\* Nodes of which a partition knows nothing change nothing in it.
LEMMA GoodExtends ==
  ASSUME NEW p, NEW text, NEW more, Good(p, text), Named(text),
         DOMAIN text \subseteq DOMAIN more, \A n \in DOMAIN text : more[n] = text[n]
  PROVE  Good(p, more)
<1>1. \A b \in 1..Len(p.bucket) : Val(p, b) # NoValue => Home(p, more, b) = Home(p, text, b)
  BY DEF Good, Filled, Home
<1>2. p.size \in Nat /\ Len(p.bucket) \in Nat /\ p.size <= Len(p.bucket)
  BY DEF Good, Shape
<1>3. \A b \in (p.size + 1)..Len(p.bucket) :
        Val(p, b) # NoValue /\ Home(p, more, b) = Home(p, text, b)
  BY <1>1, <1>2 DEF Good, Filled
<1>4. Shape(p) /\ Filled(p, more)
  BY DEF Good, Filled
<1>5. AtHome(p, more)
  BY <1>1, <1>2 DEF Good, AtHome
<1>6. Links(p, more)
  <2>1. ASSUME NEW c \in (p.size + 1)..Len(p.bucket), Nxt(p, c) # 0
        PROVE  Nxt(p, c) \in (p.size + 1)..(c - 1) /\ Home(p, more, Nxt(p, c)) = Home(p, more, c)
    <3>1. Nxt(p, c) \in (p.size + 1)..(c - 1) /\ Home(p, text, Nxt(p, c)) = Home(p, text, c)
      BY <2>1 DEF Good, Links
    <3>2. Nxt(p, c) \in (p.size + 1)..Len(p.bucket)
      BY <3>1, <1>2
    <3> QED
      BY <3>1, <3>2, <1>3
  <2>2. ASSUME NEW b \in 1..p.size, Nxt(p, b) # 0
        PROVE  Nxt(p, b) \in (p.size + 1)..Len(p.bucket) /\ Home(p, more, Nxt(p, b)) = b
    BY <2>2, <1>3 DEF Good, Links
  <2> QED
    BY <2>1, <2>2 DEF Links
<1>7. Reaches(p, more)
  <2>1. SUFFICES ASSUME NEW d \in (p.size + 1)..Len(p.bucket)
        PROVE  /\ \A c \in (d + 1)..Len(p.bucket) :
                    Home(p, more, c) = Home(p, more, d) => d <= Nxt(p, c)
               /\ Val(p, Home(p, more, d)) # NoValue
               /\ d <= Nxt(p, Home(p, more, d))
    BY DEF Reaches
  <2>2. \A c \in (d + 1)..Len(p.bucket) : c \in (p.size + 1)..Len(p.bucket)
    BY <1>2
  <2> QED
    BY <1>3, <2>2 DEF Good, Reaches
<1> QED
  BY <1>4, <1>5, <1>6, <1>7 DEF Good
-----------------------------------------------------------------------------
(* The lookup in a partition.                                              *)
\* One step along the chain of the bucket, as in the definition of LookupIn.
Along(p, t, text, g, b) ==
  IF b = 0 \/ p.bucket[b].value = NoValue THEN NoValue
  ELSE IF text[p.bucket[b].value] = t THEN p.bucket[b].value
  ELSE g[p.bucket[b].next]

\* The chain is finite: each of its links leads to a bucket filled earlier.
LEMMA WalkEnds ==
  ASSUME NEW p, NEW t, NEW text, Good(p, text)
  PROVE  \E g : g = [b \in 0..Len(p.bucket) |-> Along(p, t, text, g, b)]
<1> DEFINE L == Len(p.bucket)
           To(k) == \E g : /\ g[0] = NoValue
                           /\ \A c \in (p.size + 1)..k : g[c] = Along(p, t, text, g, c)
<1>1. p.size \in Nat /\ L \in Nat /\ p.size <= L
  BY DEF Good, Shape
<1>2. To(L)
  <2> DEFINE Bad == {k \in Nat : k \in p.size..L /\ ~To(k)}
  <2>1. SUFFICES ASSUME Bad # {} PROVE FALSE
    <3>1. L \notin Bad
      BY <2>1
    <3> HIDE DEF To
    <3> QED
      BY <3>1, <1>1
  <2>2. PICK k \in Bad : \A m \in Bad : k <= m
    BY <2>1, Smallest
  <2> HIDE DEF To
  <2>3. k \in Nat /\ k \in p.size..L /\ ~To(k)
    OBVIOUS
  <2>4. k # p.size
    <3>1. To(p.size)
      <4> DEFINE g == [b \in {0} |-> NoValue]
      <4>1. g[0] = NoValue /\ \A c \in (p.size + 1)..p.size : g[c] = Along(p, t, text, g, c)
        BY <1>1
      <4> QED
        BY <4>1 DEF To
    <3> QED
      BY <2>3, <3>1
  <2>5. k - 1 \in p.size..L /\ k - 1 \in Nat /\ ~(k <= k - 1)
    BY <1>1, <2>3, <2>4
  <2>6. To(k - 1)
    BY <2>2, <2>5
  <2>7. PICK g : /\ g[0] = NoValue
                 /\ \A c \in (p.size + 1)..(k - 1) : g[c] = Along(p, t, text, g, c)
    BY <2>6 DEF To
  <2> DEFINE h == [b \in 0..L |-> IF b = k THEN Along(p, t, text, g, k) ELSE g[b]]
  <2>8. h[0] = NoValue
    BY <2>3, <2>4, <2>7, <1>1
  <2>9. ASSUME NEW c \in (p.size + 1)..k PROVE h[c] = Along(p, t, text, h, c)
    <3>1. h[c] = Along(p, t, text, g, c)
      BY <2>7, <1>1, <2>3
    <3>2. Nxt(p, c) = 0 \/ Nxt(p, c) \in (p.size + 1)..(c - 1)
      BY <1>1, <2>3 DEF Good, Links
    <3>3. h[Nxt(p, c)] = g[Nxt(p, c)]
      BY <3>2, <1>1, <2>3
    <3> HIDE DEF h
    <3> QED
      BY <3>1, <3>3 DEF Along, Nxt
  <2> HIDE DEF h
  <2>10. To(k)
    BY <2>8, <2>9 DEF To
  <2> QED
    BY <2>3, <2>10
<1>3. PICK g : /\ g[0] = NoValue
               /\ \A c \in (p.size + 1)..L : g[c] = Along(p, t, text, g, c)
  BY <1>2
<1> DEFINE h == [b \in 0..L |-> IF b \in 1..p.size THEN Along(p, t, text, g, b) ELSE g[b]]
<1>4. ASSUME NEW b \in 0..L PROVE h[b] = Along(p, t, text, h, b)
  <2>1. CASE b = 0
    BY <2>1, <1>1, <1>3 DEF Along
  <2>2. CASE b # 0
    <3>1. h[b] = Along(p, t, text, g, b)
      BY <2>2, <1>1, <1>3
    <3>2. Nxt(p, b) = 0 \/ Nxt(p, b) \in (p.size + 1)..L
      <4>1. CASE b \in 1..p.size
        BY <4>1 DEF Good, Links
      <4>2. CASE b \in (p.size + 1)..L
        BY <4>2, <1>1 DEF Good, Links
      <4> QED
        BY <4>1, <4>2, <2>2, <1>1
    <3>3. h[Nxt(p, b)] = g[Nxt(p, b)]
      BY <3>2, <1>1
    <3> HIDE DEF h
    <3> QED
      BY <3>1, <3>3 DEF Along, Nxt
  <2> QED
    BY <2>1, <2>2
<1>5. h = [b \in 0..L |-> h[b]]
  OBVIOUS
<1> HIDE DEF h
<1> QED
  BY <1>4, <1>5

\* The lookup finds a node of the text if the partition holds one, and
\* nothing else.
LEMMA LookupInFinds ==
  ASSUME NEW p, NEW text, Good(p, text), Named(text), NEW t \in Text
  PROVE  LET n == LookupIn(p, t, text) IN
         \/ n \in DOMAIN text /\ Holds(p, n) /\ text[n] = t
         \/ n = NoValue /\ \A m \in DOMAIN text : Holds(p, m) => text[m] # t
<1> DEFINE L == Len(p.bucket)
           walk == CHOOSE g : g = [b \in 0..L |-> Along(p, t, text, g, b)]
           Found(n) == n \in DOMAIN text /\ Holds(p, n) /\ text[n] = t
<1>1. walk = [b \in 0..L |-> Along(p, t, text, walk, b)]
  BY WalkEnds
<1>2. LookupIn(p, t, text) = walk[BucketOf(p, t)]
  BY DEF LookupIn, Along, Good, Shape
<1> HIDE DEF walk
<1>3. p.size \in Nat /\ L \in Nat /\ p.size <= L /\ NoValue \notin DOMAIN text
  BY DEF Good, Shape, NoValue, Named
<1>4. walk[0] = NoValue
  BY <1>1, <1>3 DEF Along
<1> DEFINE OK(c) == \/ Found(walk[c])
                    \/ /\ walk[c] = NoValue
                       /\ \A d \in (p.size + 1)..c :
                            Home(p, text, d) = Home(p, text, c) => text[Val(p, d)] # t
<1>5. ASSUME NEW c \in (p.size + 1)..L PROVE OK(c)
  <2> DEFINE Bad == {k \in Nat : k \in (p.size + 1)..L /\ ~OK(k)}
  <2>1. SUFFICES ASSUME Bad # {} PROVE FALSE
    <3>1. c \notin Bad /\ c \in Nat
      BY <2>1, <1>3
    <3> HIDE DEF OK
    <3> QED
      BY <3>1
  <2>2. PICK k \in Bad : \A m \in Bad : k <= m
    BY <2>1, Smallest
  <2> HIDE DEF OK
  <2>3. k \in Nat /\ k \in (p.size + 1)..L /\ ~OK(k) /\ k \in 1..L
    BY <1>3
  <2>4. walk[k] = Along(p, t, text, walk, k)
    BY <2>3, <1>1, <1>3
  <2>5. Val(p, k) \in DOMAIN text /\ Val(p, k) # NoValue /\ Holds(p, Val(p, k))
    BY <2>3, <1>3 DEF Good, Filled, Holds
  <2>6. text[Val(p, k)] # t
    BY <2>3, <2>4, <2>5 DEF Along, Val, OK
  <2>7. walk[k] = walk[Nxt(p, k)]
    BY <2>3, <2>4, <2>5, <2>6 DEF Along, Val, Nxt
  <2>8. \A d \in (p.size + 1)..k : d # k /\ Home(p, text, d) = Home(p, text, k) => d <= Nxt(p, k)
    BY <2>3, <1>3 DEF Good, Reaches
  <2>9. CASE Nxt(p, k) = 0
    BY <2>3, <2>6, <2>7, <2>8, <2>9, <1>3, <1>4 DEF OK
  <2>10. CASE Nxt(p, k) # 0
    <3>1. Nxt(p, k) \in (p.size + 1)..(k - 1) /\ Home(p, text, Nxt(p, k)) = Home(p, text, k)
      BY <2>10, <2>3 DEF Good, Links
    <3>2. PICK m : m = Nxt(p, k)
      OBVIOUS
    <3>3. m \in (p.size + 1)..L /\ ~(k <= m) /\ m \in Nat
      BY <3>1, <3>2, <2>3, <1>3
    <3>4. OK(m)
      BY <3>3, <2>2
    <3>5. CASE Found(walk[m])
      BY <3>5, <3>2, <2>7, <2>3 DEF OK
    <3>6. CASE /\ walk[m] = NoValue
               /\ \A d \in (p.size + 1)..m :
                    Home(p, text, d) = Home(p, text, m) => text[Val(p, d)] # t
      <4>1. ASSUME NEW d \in (p.size + 1)..k, Home(p, text, d) = Home(p, text, k)
            PROVE  text[Val(p, d)] # t
        <5>1. d = k \/ d \in (p.size + 1)..m
          BY <4>1, <2>8, <3>2, <3>3, <2>3, <1>3
        <5> QED
          BY <5>1, <4>1, <3>1, <3>2, <3>6, <2>6
      <4> QED
        BY <4>1, <3>6, <3>2, <2>7, <2>3 DEF OK
    <3> QED
      BY <3>4, <3>5, <3>6 DEF OK
  <2> QED
    BY <2>9, <2>10
<1>6. PICK b : b = BucketOf(p, t)
  OBVIOUS
<1>7. b \in 1..p.size /\ b \in 1..L
  BY <1>6, <1>3, BucketInRange DEF Good, Shape
<1>8. walk[b] = Along(p, t, text, walk, b)
  BY <1>7, <1>1, <1>3
<1>9. ASSUME NEW m \in DOMAIN text, Holds(p, m), text[m] = t
      PROVE  \E d \in 1..L : /\ Val(p, d) = m /\ Home(p, text, d) = b
                             /\ d = b \/ d \in (p.size + 1)..L
  <2>1. PICK d \in 1..L : Val(p, d) = m
    BY <1>9 DEF Holds
  <2>2. Home(p, text, d) = b /\ Val(p, d) # NoValue
    BY <2>1, <1>3, <1>6, <1>9 DEF Home
  <2>3. d \in 1..p.size => d = b
    BY <2>2 DEF Good, AtHome
  <2> QED
    BY <2>1, <2>2, <2>3, <1>3
<1>10. CASE Val(p, b) = NoValue
  <2>1. walk[b] = NoValue
    BY <1>8, <1>10 DEF Along, Val
  <2>2. \A d \in (p.size + 1)..L : Home(p, text, d) # b
    BY <1>10 DEF Good, Reaches
  <2>3. ASSUME NEW m \in DOMAIN text, Holds(p, m) PROVE text[m] # t
    BY <2>2, <2>3, <1>3, <1>9, <1>10
  <2> QED
    BY <2>1, <2>3, <1>2, <1>6
<1>11. CASE Val(p, b) # NoValue /\ text[Val(p, b)] = t
  <2>1. walk[b] = Val(p, b) /\ Val(p, b) \in DOMAIN text /\ Holds(p, Val(p, b))
    BY <1>7, <1>8, <1>11 DEF Along, Val, Good, Filled, Holds
  <2> QED
    BY <2>1, <1>11, <1>2, <1>6
<1>12. CASE Val(p, b) # NoValue /\ text[Val(p, b)] # t
  <2>1. walk[b] = walk[Nxt(p, b)]
    BY <1>7, <1>8, <1>12 DEF Along, Val, Nxt
  <2>2. \A d \in (p.size + 1)..L : Home(p, text, d) = b => d <= Nxt(p, b)
    BY DEF Good, Reaches
  <2>3. CASE Nxt(p, b) = 0
    <3>1. ASSUME NEW m \in DOMAIN text, Holds(p, m) PROVE text[m] # t
      BY <2>2, <2>3, <3>1, <1>3, <1>9, <1>12
    <3> QED
      BY <3>1, <2>1, <2>3, <1>2, <1>4, <1>6
  <2>4. CASE Nxt(p, b) # 0
    <3>1. PICK c : c = Nxt(p, b)
      OBVIOUS
    <3>2. c \in (p.size + 1)..L /\ Home(p, text, c) = b
      BY <2>4, <3>1, <1>7 DEF Good, Links
    <3>3. OK(c)
      BY <3>2, <1>5
    <3>4. CASE Found(walk[c])
      BY <3>4, <3>1, <2>1, <1>2, <1>6
    <3>5. CASE /\ walk[c] = NoValue
               /\ \A d \in (p.size + 1)..c :
                    Home(p, text, d) = Home(p, text, c) => text[Val(p, d)] # t
      <4>1. ASSUME NEW m \in DOMAIN text, Holds(p, m) PROVE text[m] # t
        <5>1. SUFFICES ASSUME text[m] = t PROVE FALSE
          OBVIOUS
        <5>2. PICK d \in 1..L : /\ Val(p, d) = m /\ Home(p, text, d) = b
                                /\ d = b \/ d \in (p.size + 1)..L
          BY <4>1, <5>1, <1>9
        <5>3. d # b
          BY <5>1, <5>2, <1>12
        <5>4. d \in (p.size + 1)..c
          BY <5>2, <5>3, <2>2, <3>1, <3>2, <1>3
        <5> QED
          BY <5>1, <5>2, <5>4, <3>2, <3>5
      <4> QED
        BY <4>1, <3>5, <3>1, <2>1, <1>2, <1>6
    <3> QED
      BY <3>3, <3>4, <3>5
  <2> QED
    BY <2>3, <2>4
<1> QED
  BY <1>10, <1>11, <1>12
-----------------------------------------------------------------------------
(* Growing.                                                                *)
\* One step of the copy, as in the definition of InsertAll.
Copied(src, text, b, sofar) ==
  IF src.bucket[b].value = NoValue THEN sofar
  ELSE IF Overflows(sofar.table) THEN [sofar EXCEPT !.ok = FALSE]
  ELSE [sofar EXCEPT !.table = Put(sofar.table, src.bucket[b].value, text[src.bucket[b].value])]

\* The equation that defines the copy.
CopyOf(src, text, start, g) ==
  [b \in 0..Len(src.bucket) |-> IF b = 0 THEN start ELSE Copied(src, text, b, g[b - 1])]

\* The copy ends: it goes through the slots of the old table once.
LEMMA CopyEnds ==
  ASSUME NEW start, NEW src, NEW text, Len(src.bucket) \in Nat
  PROVE  \E g : g = CopyOf(src, text, start, g)
<1> DEFINE L == Len(src.bucket)
           To(k) == \E g : g = [b \in 0..k |->
                                  IF b = 0 THEN start ELSE Copied(src, text, b, g[b - 1])]
           Bad == {k \in Nat : ~To(k)}
<1>1. SUFFICES ASSUME Bad # {} PROVE FALSE
  <2> HIDE DEF To
  <2>1. L \notin Bad
    BY <1>1
  <2>2. To(L)
    BY <2>1
  <2> QED
    BY <2>2 DEF To, CopyOf
<1>2. PICK k \in Bad : \A m \in Bad : k <= m
  BY <1>1, Smallest
<1> HIDE DEF To
<1>3. k \in Nat /\ ~To(k)
  OBVIOUS
<1>4. k # 0
  <2> DEFINE g == [b \in 0..0 |-> start]
  <2>1. g = [b \in 0..0 |-> IF b = 0 THEN start ELSE Copied(src, text, b, g[b - 1])]
    OBVIOUS
  <2>2. To(0)
    <3> HIDE DEF g
    <3> QED
      BY <2>1 DEF To
  <2> QED
    BY <1>3, <2>2
<1>5. k - 1 \in Nat /\ ~(k <= k - 1)
  BY <1>3, <1>4
<1>6. To(k - 1)
  BY <1>2, <1>5
<1>7. PICK g : g = [b \in 0..(k - 1) |-> IF b = 0 THEN start ELSE Copied(src, text, b, g[b - 1])]
  BY <1>6 DEF To
<1> DEFINE h == [b \in 0..k |-> IF b = k THEN Copied(src, text, k, g[k - 1]) ELSE g[b]]
<1>8. ASSUME NEW b \in 0..k PROVE h[b] = IF b = 0 THEN start ELSE Copied(src, text, b, h[b - 1])
  <2>1. CASE b = 0
    BY <2>1, <1>3, <1>4, <1>7
  <2>2. CASE b # 0
    <3>1. h[b - 1] = g[b - 1] /\ b - 1 \in 0..(k - 1)
      BY <2>2, <1>3
    <3>2. h[b] = Copied(src, text, b, g[b - 1])
      <4>1. CASE b = k
        BY <4>1, <1>3
      <4>2. CASE b # k
        <5>1. b \in 0..(k - 1)
          BY <4>2, <1>3
        <5>2. g[b] = Copied(src, text, b, g[b - 1])
          BY <5>1, <2>2, <1>7
        <5> QED
          BY <4>2, <5>2
      <4> QED
        BY <4>1, <4>2
    <3> QED
      BY <2>2, <3>1, <3>2
  <2> QED
    BY <2>1, <2>2
<1>9. h = [b \in 0..k |-> h[b]]
  OBVIOUS
<1> HIDE DEF h
<1>10. h = [b \in 0..k |-> IF b = 0 THEN start ELSE Copied(src, text, b, h[b - 1])]
  BY <1>8, <1>9
<1>11. To(k)
  BY <1>10 DEF To
<1> QED
  BY <1>3, <1>11

\* The larger partition takes all the nodes of the old one and has a place
\* left: the first of them goes into a free bucket, and each of the others
\* takes at most one more.
LEMMA InsertAllHolds ==
  ASSUME NEW k \in Nat \ {0, 1}, NEW src, NEW text, Named(text),
         Len(src.bucket) \in 0..k,
         \A b \in 1..Len(src.bucket) : Val(src, b) \in DOMAIN text \cup {NoValue}
  PROVE  LET r == InsertAll(Partition(k), src, text) IN
         /\ r.ok = TRUE /\ Good(r.table, text) /\ r.table.size = k /\ ~Overflows(r.table)
         /\ \A v \in DOMAIN text : Holds(src, v) => Holds(r.table, v)
<1> DEFINE L == Len(src.bucket)
           start == [table |-> Partition(k), ok |-> TRUE]
           copy == CHOOSE g : g = CopyOf(src, text, start, g)
           Fresh(tb) == Len(tb.bucket) = k /\ \A c \in 1..k : Val(tb, c) = NoValue
           Copy(b, x) == \E tb :
             /\ x = [table |-> tb, ok |-> TRUE]
             /\ Good(tb, text) /\ tb.size = k
             /\ Fresh(tb) \/ Len(tb.bucket) <= k + b - 1
             /\ \A c \in 1..b : Val(src, c) # NoValue => Holds(tb, Val(src, c))
<1>1. copy = [b \in 0..L |-> IF b = 0 THEN start ELSE Copied(src, text, b, copy[b - 1])]
  <2>1. copy = CopyOf(src, text, start, copy)
    <3>1. L \in Nat
      OBVIOUS
    <3> HIDE DEF start
    <3> QED
      BY <3>1, CopyEnds
  <2> QED
    BY <2>1 DEF CopyOf
<1>2. InsertAll(Partition(k), src, text) = copy[L]
  BY DEF InsertAll, Copied, CopyOf
<1> HIDE DEF copy
<1>3. L \in Nat /\ L <= k /\ k > 1 /\ NoValue \notin DOMAIN text
  BY DEF Named, NoValue
<1>4. ASSUME NEW b \in 0..L PROVE Copy(b, copy[b])
  <2> DEFINE Bad == {m \in Nat : m <= L /\ ~Copy(m, copy[m])}
  <2> HIDE DEF Copy
  <2>1. SUFFICES ASSUME Bad # {} PROVE FALSE
    <3>1. b \notin Bad /\ b \in Nat /\ b <= L
      BY <2>1, <1>3
    <3> QED
      BY <3>1
  <2>2. PICK m \in Bad : \A l \in Bad : m <= l
    BY <2>1, Smallest
  <2>3. m \in Nat /\ m <= L /\ ~Copy(m, copy[m])
    OBVIOUS
  <2>4. CASE m = 0
    <3>1. copy[m] = start
      BY <2>3, <2>4, <1>1, <1>3
    <3>2. PICK p : p = Partition(k)
      OBVIOUS
    <3>3. Good(p, text) /\ p.size = k /\ Fresh(p)
      BY <3>2, PartitionIsGood
    <3>4. Copy(m, copy[m])
      <4>1. \A c \in 1..m : Val(src, c) # NoValue => Holds(p, Val(src, c))
        BY <2>4
      <4>2. copy[m] = [table |-> p, ok |-> TRUE]
        BY <3>1, <3>2
      <4> HIDE DEF Fresh, start
      <4> QED
        BY <3>3, <4>1, <4>2 DEF Copy
    <3> QED
      BY <2>3, <3>4
  <2>5. CASE m # 0
    <3>1. m - 1 \in Nat /\ m - 1 <= L /\ ~(m <= m - 1) /\ m \in 1..L
      BY <2>3, <2>5, <1>3
    <3>2. Copy(m - 1, copy[m - 1])
      BY <2>2, <3>1
    <3>3. PICK tb : /\ copy[m - 1] = [table |-> tb, ok |-> TRUE]
                    /\ Good(tb, text) /\ tb.size = k
                    /\ Fresh(tb) \/ Len(tb.bucket) <= k + (m - 1) - 1
                    /\ \A c \in 1..(m - 1) : Val(src, c) # NoValue => Holds(tb, Val(src, c))
      BY <3>2 DEF Copy
    <3>4. copy[m] = Copied(src, text, m, copy[m - 1])
      <4>1. m \in 0..L
        BY <3>1
      <4> HIDE DEF start
      <4> QED
        BY <1>1, <4>1, <2>5
    <3>5. Len(tb.bucket) \in Nat
      BY <3>3 DEF Good, Shape
    <3> HIDE DEF Fresh
    <3>6. CASE Val(src, m) = NoValue
      <4>1. copy[m] = [table |-> tb, ok |-> TRUE]
        BY <3>3, <3>4, <3>6 DEF Copied, Val
      <4>2. \A c \in 1..m : Val(src, c) # NoValue => Holds(tb, Val(src, c))
        BY <3>1, <3>3, <3>6
      <4>3. Fresh(tb) \/ Len(tb.bucket) <= k + m - 1
        BY <3>1, <3>3, <3>5
      <4>4. Copy(m, copy[m])
        BY <3>3, <4>1, <4>2, <4>3 DEF Copy
      <4> QED
        BY <2>3, <4>4
    <3>7. CASE Val(src, m) # NoValue
      <4>1. PICK v : v = Val(src, m)
        OBVIOUS
      <4>2. v \in DOMAIN text /\ v # NoValue
        BY <3>1, <3>7, <4>1
      <4>3. ~Overflows(tb)
        BY <3>1, <3>3, <3>5, <1>3 DEF Fresh, Overflows, Capacity, AvgChainLength
      <4>4. PICK new : new = Put(tb, v, text[v])
        OBVIOUS
      <4>5. copy[m] = [table |-> new, ok |-> TRUE]
        <5>1. PICK x : x = copy[m - 1]
          OBVIOUS
        <5>2. x.table = tb /\ [x EXCEPT !.table = new] = [table |-> new, ok |-> TRUE]
          <6>1. x = [table |-> tb, ok |-> TRUE]
            BY <3>3, <5>1
          <6>2. x \in [table : {tb}, ok : BOOLEAN] /\ x.ok = TRUE
            BY <6>1
          <6>3. [x EXCEPT !.table = new] = [table |-> new, ok |-> x.ok]
            BY <6>2
          <6> QED
            BY <6>1, <6>2, <6>3
        <5>3. Copied(src, text, m, x) = [x EXCEPT !.table = new]
          BY <5>2, <3>7, <4>1, <4>3, <4>4 DEF Copied, Val
        <5> QED
          BY <3>4, <5>1, <5>2, <5>3
      <4>6. /\ Good(new, text) /\ new.size = k
            /\ Len(new.bucket) <= Len(tb.bucket) + 1
            /\ Val(tb, BucketOf(tb, text[v])) = NoValue => Len(new.bucket) = Len(tb.bucket)
            /\ \A u \in DOMAIN text : Holds(new, u) <=> u = v \/ Holds(tb, u)
        BY <3>3, <4>2, <4>3, <4>4, PutKeepsGood
      <4>7. Len(new.bucket) \in Nat
        BY <4>6 DEF Good, Shape
      <4>8. Len(new.bucket) <= k + m - 1
        <5>1. CASE Fresh(tb)
          <6>1. BucketOf(tb, text[v]) \in 1..k
            <7>1. text[v] \in Text
              BY <4>2 DEF Named
            <7> QED
              BY <7>1, <3>3, <1>3, BucketInRange
          <6> QED
            BY <5>1, <6>1, <4>6, <3>1, <1>3 DEF Fresh
        <5>2. CASE Len(tb.bucket) <= k + (m - 1) - 1
          BY <5>2, <4>6, <4>7, <3>1, <3>5, <1>3
        <5> QED
          BY <5>1, <5>2, <3>3
      <4>9. ASSUME NEW c \in 1..m, Val(src, c) # NoValue PROVE Holds(new, Val(src, c))
        <5>1. Val(src, c) \in DOMAIN text
          BY <4>9, <3>1
        <5>2. c = m \/ c \in 1..(m - 1)
          BY <3>1
        <5> QED
          BY <4>9, <5>1, <5>2, <4>1, <4>6, <3>3
      <4>10. Copy(m, copy[m])
        BY <4>5, <4>6, <4>8, <4>9 DEF Copy
      <4> QED
        BY <2>3, <4>10
    <3> QED
      BY <3>6, <3>7
  <2> QED
    BY <2>4, <2>5
<1>5. PICK tb : /\ copy[L] = [table |-> tb, ok |-> TRUE]
                /\ Good(tb, text) /\ tb.size = k
                /\ Fresh(tb) \/ Len(tb.bucket) <= k + L - 1
                /\ \A c \in 1..L : Val(src, c) # NoValue => Holds(tb, Val(src, c))
  <2>1. Copy(L, copy[L])
    <3>1. L \in 0..L
      BY <1>3
    <3> HIDE DEF Copy
    <3> QED
      BY <1>4, <3>1
  <2> QED
    BY <2>1
<1>6. Len(tb.bucket) \in Nat
  BY <1>5 DEF Good, Shape
<1>7. ~Overflows(tb)
  BY <1>3, <1>5, <1>6 DEF Overflows, Capacity, AvgChainLength
<1>8. ASSUME NEW v \in DOMAIN text, Holds(src, v) PROVE Holds(tb, v)
  BY <1>3, <1>5, <1>8 DEF Holds
<1> QED
  BY <1>2, <1>5, <1>7, <1>8

\* The factor 1.6, truncated, twice over at least doubles the buckets.
LEMMA GrownTwice ==
  ASSUME NEW f \in Nat \ {0, 1}
  PROVE  /\ Grown(f) \in Nat \ {0, 1}
         /\ 2 * f <= Grown(Grown(f))
<1>1. CASE f = 2
  BY <1>1 DEF Grown
<1>2. CASE f = 3
  BY <1>2 DEF Grown
<1>3. CASE f > 3
  BY <1>3 DEF Grown
<1> QED
  BY <1>1, <1>2, <1>3
-----------------------------------------------------------------------------
(* The pool.                                                               *)
\* The inductive invariant: no two nodes share a text, the two tables are in
\* order and hold every node between them, the larger having the size that
\* follows from the other's, the index of each node is marked as used, and what
\* was read from the file has the index it has there.
Interned == Named(node) /\ \A m, n \in DOMAIN node : node[m] = node[n] => m = n
Tables ==
  /\ Good(insertion, node)
  /\ full # NoTable => Good(full, node) /\ insertion.size = Grown(full.size)
  /\ \A n \in DOMAIN node : Holds(full, n) \/ Holds(insertion, n)
Indexes ==
  /\ used \in Seq(BOOLEAN) /\ pos \in 0..Len(used)
  /\ \A n \in DOMAIN node : n < Len(used) /\ used[n + 1]
FromFile ==
  reading => pos = 0 /\ \A n \in DOMAIN node : n < Len(File) /\ node[n] = File[n + 1]
PoolInv == Interned /\ Tables /\ Indexes /\ FromFile /\ ok = TRUE

\* What the lookup of the two tables answers.
Answers(t) ==
  \/ Lookup(t) \in DOMAIN node /\ node[Lookup(t)] = t
  \/ Lookup(t) = NoValue /\ \A m \in DOMAIN node : node[m] # t
\* Before the first growth there is no full table, and it holds nothing.
LEMMA NoTableHolds == ASSUME NEW n PROVE ~Holds(NoTable, n)
  BY DEF NoTable, Holds

\* The lookup finds the node of a text if there is one, and nothing else.
LEMMA LookupAnswers ==
  ASSUME PoolInv, NEW t \in Text
  PROVE  Answers(t)
<1>1. Named(node) /\ NoValue \notin DOMAIN node
  BY DEF PoolInv, Interned, Named, NoValue
<1>2. \/ LookupIn(full, t, node) \in DOMAIN node /\ node[LookupIn(full, t, node)] = t
      \/ /\ LookupIn(full, t, node) = NoValue
         /\ \A m \in DOMAIN node : Holds(full, m) => node[m] # t
  <2>1. CASE full = NoTable
    <3>1. LookupIn(full, t, node) = NoValue
      BY <2>1 DEF LookupIn, NoTable
    <3> QED
      BY <2>1, <3>1, NoTableHolds
  <2>2. CASE full # NoTable
    <3>1. Good(full, node)
      BY <2>2 DEF PoolInv, Tables
    <3> QED
      BY <3>1, <1>1, LookupInFinds
  <2> QED
    BY <2>1, <2>2
<1>3. \/ LookupIn(insertion, t, node) \in DOMAIN node /\ node[LookupIn(insertion, t, node)] = t
      \/ /\ LookupIn(insertion, t, node) = NoValue
         /\ \A m \in DOMAIN node : Holds(insertion, m) => node[m] # t
  <2>1. Good(insertion, node)
    BY DEF PoolInv, Tables
  <2> QED
    BY <2>1, <1>1, LookupInFinds
<1>4. Lookup(t) = IF LookupIn(full, t, node) # NoValue
                  THEN LookupIn(full, t, node) ELSE LookupIn(insertion, t, node)
  BY DEF Lookup
<1>5. \A n \in DOMAIN node : Holds(full, n) \/ Holds(insertion, n)
  BY DEF PoolInv, Tables
<1> QED
  BY <1>1, <1>2, <1>3, <1>4, <1>5 DEF Answers

\* Growing or not, the tables take the new node and keep the others.
LEMMA InsertKeepsTables ==
  ASSUME PoolInv, NEW n \in Nat, n \notin DOMAIN node, NEW t \in Text,
         SetNode(n, t), Insert(n, t)
  PROVE  Named(node)' /\ Tables' /\ ok' = TRUE
<1>1. Named(node) /\ ok = TRUE /\ Tables
  BY DEF PoolInv, Interned
<1>2. PICK text : text = [m \in DOMAIN node \cup {n} |-> IF m = n THEN t ELSE node[m]]
  OBVIOUS
<1>3. /\ DOMAIN text = DOMAIN node \cup {n} /\ text[n] = t
      /\ \A m \in DOMAIN node : text[m] = node[m]
  BY <1>2
<1>4. node' = text
  BY <1>2 DEF SetNode
<1>5. Named(text)
  <2>1. DOMAIN text \subseteq Nat /\ \A m \in DOMAIN text : text[m] \in Text
    BY <1>1, <1>3 DEF Named
  <2>2. text = [m \in DOMAIN text |-> text[m]]
    BY <1>2
  <2> QED
    BY <2>1, <2>2 DEF Named
<1>6. Good(insertion, text) /\ (full # NoTable => Good(full, text))
  BY <1>1, <1>3, GoodExtends DEF Tables
<1>7. CASE ~Overflows(insertion)
  <2>1. insertion' = Put(insertion, n, t) /\ full' = full /\ ok' = ok
    BY <1>7 DEF Insert
  <2>2. PICK q : q = insertion'
    OBVIOUS
  <2>3. /\ Good(q, text) /\ q.size = insertion.size
        /\ \A v \in DOMAIN text : Holds(q, v) <=> v = n \/ Holds(insertion, v)
    BY <1>3, <1>5, <1>6, <1>7, <2>1, <2>2, PutKeepsGood
  <2>4. \A m \in DOMAIN text : Holds(full, m) \/ Holds(q, m)
    BY <1>1, <1>3, <2>3 DEF Tables
  <2>5. Tables'
    <3>1. PICK f : f = full
      OBVIOUS
    <3>2. f # NoTable => Good(f, text) /\ q.size = Grown(f.size)
      BY <1>1, <1>6, <2>3, <3>1 DEF Tables
    <3>3. full' = f /\ \A m \in DOMAIN text : Holds(f, m) \/ Holds(q, m)
      BY <2>1, <2>4, <3>1
    <3> QED
      BY <1>4, <2>2, <2>3, <3>2, <3>3 DEF Tables
  <2> QED
    BY <1>1, <1>4, <1>5, <2>1, <2>5 DEF Named
<1>8. CASE Overflows(insertion)
  <2> DEFINE k == Grown(insertion.size)
  <2>1. PICK new : new = InsertAll(Partition(k), full, text)
    OBVIOUS
  <2>2. /\ insertion' = Put(new.table, n, t) /\ full' = insertion
        /\ ok' = (ok /\ new.ok /\ ~Overflows(new.table))
    BY <1>2, <1>8, <2>1 DEF Insert
  <2>3. insertion.size \in Nat \ {0, 1}
    BY <1>1 DEF Tables, Good, Shape
  <2>4. k \in Nat \ {0, 1}
    BY <2>3, GrownTwice
  <2> HIDE DEF k
  <2>5. /\ Len(full.bucket) \in 0..k
        /\ \A b \in 1..Len(full.bucket) : Val(full, b) \in DOMAIN text \cup {NoValue}
    <3>1. CASE full = NoTable
      BY <3>1, <2>4 DEF NoTable
    <3>2. CASE full # NoTable
      <4>1. Good(full, text) /\ insertion.size = Grown(full.size)
        BY <3>2, <1>1, <1>6 DEF Tables
      <4>2. /\ full.size \in Nat \ {0, 1} /\ Len(full.bucket) \in Nat
            /\ Len(full.bucket) <= 2 * full.size
        BY <4>1 DEF Good, Shape
      <4>3. 2 * full.size <= k
        BY <4>1, <4>2, GrownTwice DEF k
      <4> QED
        BY <4>1, <4>2, <4>3, <2>4 DEF Good, Filled
    <3> QED
      BY <3>1, <3>2
  <2>6. /\ new.ok = TRUE /\ Good(new.table, text) /\ new.table.size = k /\ ~Overflows(new.table)
        /\ \A v \in DOMAIN text : Holds(full, v) => Holds(new.table, v)
    BY <1>5, <2>1, <2>4, <2>5, InsertAllHolds
  <2>7. PICK q : q = insertion'
    OBVIOUS
  <2>8. /\ Good(q, text) /\ q.size = k
        /\ \A v \in DOMAIN text : Holds(q, v) <=> v = n \/ Holds(new.table, v)
    BY <1>3, <1>5, <2>2, <2>6, <2>7, PutKeepsGood
  <2>9. Tables'
    <3>1. PICK f : f = insertion
      OBVIOUS
    <3>2. Good(f, text) /\ q.size = Grown(f.size)
      BY <1>6, <2>8, <3>1 DEF k
    <3>3. full' = f /\ \A m \in DOMAIN text : Holds(f, m) \/ Holds(q, m)
      BY <1>1, <1>3, <2>2, <2>6, <2>8, <3>1 DEF Tables
    <3> QED
      BY <1>4, <2>7, <2>8, <3>2, <3>3 DEF Tables
  <2>10. ok' = TRUE
    BY <1>1, <2>2, <2>6
  <2> QED
    BY <1>4, <1>5, <2>9, <2>10 DEF Named
<1> QED
  BY <1>7, <1>8

\* The mark of an index, which makes the map longer if it has to.
LEMMA MarkedIndex ==
  ASSUME NEW i \in Nat, NEW u \in Seq(BOOLEAN)
  PROVE  /\ Marked(i, u) \in Seq(BOOLEAN)
         /\ Len(Marked(i, u)) = IF i >= Len(u) THEN i + 1 ELSE Len(u)
         /\ Marked(i, u)[i + 1]
         /\ \A j \in 1..Len(u) : u[j] => Marked(i, u)[j]
<1> DEFINE L == IF i >= Len(u) THEN i + 1 ELSE Len(u)
<1>1. L \in Nat /\ Len(u) \in Nat /\ Len(u) <= L /\ i + 1 \in 1..L
  OBVIOUS
<1>2. Marked(i, u) = [j \in 1..L |-> j = i + 1 \/ (j <= Len(u) /\ u[j])]
  BY DEF Marked
<1> HIDE DEF L
<1>3. ASSUME NEW j \in 1..L PROVE (j = i + 1 \/ (j <= Len(u) /\ u[j])) \in BOOLEAN
  OBVIOUS
<1>4. Marked(i, u) \in [1..L -> BOOLEAN]
  BY <1>2, <1>3
<1>5. Marked(i, u) \in Seq(BOOLEAN) /\ Len(Marked(i, u)) = L
  BY <1>1, <1>2, <1>4
<1>6. Marked(i, u)[i + 1] /\ \A j \in 1..Len(u) : u[j] => Marked(i, u)[j]
  <2>1. Marked(i, u)[i + 1] <=> (i + 1 = i + 1 \/ (i + 1 <= Len(u) /\ u[i + 1]))
    BY <1>1, <1>2
  <2>2. ASSUME NEW j \in 1..Len(u), u[j] PROVE Marked(i, u)[j]
    <3>1. j \in 1..L /\ j <= Len(u)
      BY <1>1
    <3>2. Marked(i, u)[j] <=> (j = i + 1 \/ (j <= Len(u) /\ u[j]))
      BY <1>2, <3>1
    <3> QED
      BY <2>2, <3>1, <3>2
  <2> QED
    BY <2>1, <2>2
<1> QED
  BY <1>5, <1>6 DEF L

\* What every new node does to the pool.
LEMMA Adds ==
  ASSUME PoolInv, NEW n \in Nat, n \notin DOMAIN node, NEW t \in Text,
         \A m \in DOMAIN node : node[m] # t,
         SetNode(n, t), Insert(n, t), used' = Marked(n, used),
         pos' \in Nat, pos' <= n + 1 \/ pos' = pos
  PROVE  Interned' /\ Tables' /\ Indexes' /\ ok' = TRUE
<1>1. Named(node)' /\ Tables' /\ ok' = TRUE
  BY InsertKeepsTables
<1>2. /\ DOMAIN node' = DOMAIN node \cup {n} /\ node'[n] = t
      /\ \A m \in DOMAIN node : node'[m] = node[m]
  BY DEF SetNode
<1>3. Interned'
  <2>1. ASSUME NEW l \in DOMAIN node', NEW m \in DOMAIN node', node'[l] = node'[m] PROVE l = m
    BY <1>2, <2>1 DEF PoolInv, Interned
  <2> QED
    BY <1>1, <2>1 DEF Interned, Named
<1>4. used \in Seq(BOOLEAN) /\ Len(used) \in Nat /\ pos \in 0..Len(used)
      /\ DOMAIN node \subseteq Nat /\ \A m \in DOMAIN node : m < Len(used) /\ used[m + 1]
  BY DEF PoolInv, Indexes, Interned, Named
<1>5. /\ used' \in Seq(BOOLEAN)
      /\ Len(used') = IF n >= Len(used) THEN n + 1 ELSE Len(used)
      /\ used'[n + 1]
      /\ \A j \in 1..Len(used) : used[j] => used'[j]
  BY <1>4, MarkedIndex
<1>6. pos' \in 0..Len(used')
  BY <1>4, <1>5
<1>7. ASSUME NEW m \in DOMAIN node' PROVE m < Len(used') /\ used'[m + 1]
  <2>1. CASE m = n
    BY <2>1, <1>4, <1>5
  <2>2. CASE m \in DOMAIN node
    <3>1. m \in Nat /\ m < Len(used) /\ used[m + 1] /\ m + 1 \in 1..Len(used)
      BY <2>2, <1>4
    <3> QED
      BY <3>1, <1>4, <1>5
  <2> QED
    BY <2>1, <2>2, <1>2
<1>8. Indexes'
  BY <1>5, <1>6, <1>7 DEF Indexes
<1> QED
  BY <1>1, <1>3, <1>8

\* A string read adds a node at an index no node has, with a text no node has.
LEMMA ReaderAdds ==
  ASSUME PoolInv, NEW i \in 0..(Len(File) - 1), ReaderGetString(i)
  PROVE  /\ i \in Nat /\ i \notin DOMAIN node /\ File[i + 1] \in Text
         /\ \A m \in DOMAIN node : node[m] # File[i + 1]
<1>1. i \in Nat /\ i + 1 \in DOMAIN File /\ Len(File) \in Nat
  BY PoolAssumption
<1>2. i \notin DOMAIN node /\ reading
  BY DEF ReaderGetString
<1>3. \A m \in DOMAIN node : m \in Nat /\ m < Len(File) /\ node[m] = File[m + 1]
  BY <1>2 DEF PoolInv, FromFile, Interned, Named
<1>4. ASSUME NEW m \in DOMAIN node, node[m] = File[i + 1] PROVE FALSE
  <2>1. m \in Nat /\ m + 1 \in DOMAIN File /\ File[m + 1] = File[i + 1]
    BY <1>3, <1>4, PoolAssumption
  <2>2. m = i
    BY <2>1, <1>1, PoolAssumption
  <2> QED
    BY <2>2, <1>2
<1> QED
  BY <1>1, <1>2, <1>4, PoolAssumption

\* The same of the index the allocator hands out.
LEMMA BuilderAdds ==
  ASSUME PoolInv, NEW t \in Text, GetAsciiString(t)
  PROVE  /\ FreeIndex \in Nat /\ FreeIndex <= Len(used) /\ FreeIndex \notin DOMAIN node
         /\ \A m \in DOMAIN node : node[m] # t
<1>1. FreeIndex \in pos..Len(used) /\ (FreeIndex < Len(used) => ~used[FreeIndex + 1])
  BY FreeIndexIsFree DEF PoolInv, Indexes
<1>2. pos \in Nat /\ Len(used) \in Nat
  BY DEF PoolInv, Indexes
<1>3. Answers(t) /\ Lookup(t) = NoValue
  BY LookupAnswers DEF GetAsciiString
<1>4. NoValue \notin DOMAIN node
  BY DEF PoolInv, Interned, Named, NoValue
<1> QED
  BY <1>1, <1>2, <1>3, <1>4 DEF Answers, PoolInv, Indexes

\* The invariant holds of an empty pool.
LEMMA PoolInit == Init => PoolInv
<1> SUFFICES ASSUME Init PROVE PoolInv
  OBVIOUS
<1>1. DOMAIN node = {} /\ node \in [{} -> Text]
  BY DEF Init
<1>2. Good(insertion, node)
  BY PoolAssumption, PartitionIsGood DEF Init
<1> QED
  BY <1>1, <1>2 DEF Init, PoolInv, Interned, Named, Tables, Indexes, FromFile

\* Every step keeps it.
LEMMA PoolStep == PoolInv /\ [Next]_vars => PoolInv'
<1> SUFFICES ASSUME PoolInv, [Next]_vars PROVE PoolInv'
  OBVIOUS
<1>1. ASSUME NEW i \in 0..(Len(File) - 1), ReaderGetString(i) PROVE PoolInv'
  <2>1. /\ i \in Nat /\ i \notin DOMAIN node /\ File[i + 1] \in Text
        /\ \A m \in DOMAIN node : node[m] # File[i + 1]
    BY <1>1, ReaderAdds
  <2>2. /\ SetNode(i, File[i + 1]) /\ Insert(i, File[i + 1]) /\ used' = Marked(i, used)
        /\ pos' = pos /\ reading /\ pos = 0
    BY <1>1 DEF ReaderGetString, PoolInv, FromFile
  <2>3. Interned' /\ Tables' /\ Indexes' /\ ok' = TRUE
    BY <2>1, <2>2, Adds
  <2>4. FromFile'
    <3>1. /\ DOMAIN node' = DOMAIN node \cup {i} /\ node'[i] = File[i + 1]
          /\ \A m \in DOMAIN node : node'[m] = node[m]
      BY <2>1, <2>2 DEF SetNode
    <3>2. i < Len(File)
      BY PoolAssumption
    <3> QED
      BY <2>2, <3>1, <3>2 DEF FromFile, PoolInv
  <2> QED
    BY <2>3, <2>4 DEF PoolInv
<1>2. CASE EndReading
  BY <1>2 DEF EndReading, PoolInv, Interned, Named, Tables, Indexes, FromFile
<1>3. ASSUME NEW t \in Text, GetAsciiString(t) PROVE PoolInv'
  <2>1. PICK n : n = FreeIndex
    OBVIOUS
  <2>2. /\ n \in Nat /\ n \notin DOMAIN node
        /\ \A m \in DOMAIN node : node[m] # t
    BY <1>3, <2>1, BuilderAdds
  <2>3. /\ SetNode(n, t) /\ Insert(n, t) /\ used' = Marked(n, used)
        /\ pos' = n + 1 /\ ~reading'
    BY <1>3, <2>1 DEF GetAsciiString
  <2>4. pos' \in Nat /\ pos' <= n + 1
    BY <2>2, <2>3
  <2>5. Interned' /\ Tables' /\ Indexes' /\ ok' = TRUE
    BY <2>2, <2>3, <2>4, Adds
  <2> QED
    BY <2>3, <2>5 DEF PoolInv, FromFile
<1>4. CASE UNCHANGED vars
  BY <1>4 DEF vars, PoolInv, Interned, Named, Tables, Indexes, FromFile
<1> QED
  BY <1>1, <1>2, <1>3, <1>4 DEF Next

\* So it always holds.
LEMMA PoolInvariance == Spec => []PoolInv
  BY PoolInit, PoolStep, PTL DEF Spec

\* No SLICER_CHECK of the hash table fails, however many texts are added and
\* wherever their hashes send them: growing by 1.6, truncated, always makes
\* room for the whole of the table it replaces.
THEOREM RoomAlways == Spec => []RoomToGrow
<1>1. PoolInv => RoomToGrow
  BY DEF PoolInv, RoomToGrow
<1> QED
  BY <1>1, PoolInvariance, PTL

\* The lookup and the node table agree on every text, and the allocator knows
\* the index of every node.
THEOREM AlwaysFoundOnce == Spec => []FoundOnce
<1>1. PoolInv => FoundOnce
  <2> SUFFICES ASSUME PoolInv PROVE FoundOnce
    OBVIOUS
  <2>1. ASSUME NEW t \in Text
        PROVE  IF Lookup(t) = NoValue THEN \A m \in DOMAIN node : node[m] # t
               ELSE \A m \in DOMAIN node : node[m] = t <=> m = Lookup(t)
    <3>1. Answers(t)
      BY LookupAnswers
    <3>2. NoValue \notin DOMAIN node
      BY DEF PoolInv, Interned, Named, NoValue
    <3> QED
      BY <3>1, <3>2 DEF Answers, PoolInv, Interned
  <2>2. \A n \in DOMAIN node : n < Len(used) /\ used[n + 1]
    BY DEF PoolInv, Indexes
  <2> QED
    BY <2>1, <2>2 DEF FoundOnce
<1> QED
  BY <1>1, PoolInvariance, PTL

\* A node keeps its index and its text whatever is added later.
THEOREM IndexesKept == Spec => FileIndexes
<1>1. PoolInv /\ [Next]_vars
      => [\A n \in DOMAIN node : n \in DOMAIN node' /\ node'[n] = node[n]]_vars
  <2> SUFFICES ASSUME PoolInv, Next
               PROVE  \A n \in DOMAIN node : n \in DOMAIN node' /\ node'[n] = node[n]
    OBVIOUS
  <2>1. ASSUME NEW i, NEW t, i \notin DOMAIN node, SetNode(i, t)
        PROVE  \A n \in DOMAIN node : n \in DOMAIN node' /\ node'[n] = node[n]
    BY <2>1 DEF SetNode
  <2>2. ASSUME NEW i \in 0..(Len(File) - 1), ReaderGetString(i)
        PROVE  \E t : i \notin DOMAIN node /\ SetNode(i, t)
    BY <2>2 DEF ReaderGetString
  <2>3. ASSUME NEW t \in Text, GetAsciiString(t)
        PROVE  FreeIndex \notin DOMAIN node /\ SetNode(FreeIndex, t)
    BY <2>3, BuilderAdds DEF GetAsciiString
  <2>4. CASE EndReading
    BY <2>4 DEF EndReading
  <2> QED
    BY <2>1, <2>2, <2>3, <2>4 DEF Next
<1> QED
  BY <1>1, PoolInvariance, PTL DEF Spec, FileIndexes
-----------------------------------------------------------------------------
(* The interning that the pool implements.                                 *)
\* The used indexes are those of the file and one for each node at most.
Counted ==
  IsFiniteSet(DOMAIN node) /\ Len(used) <= Len(File) + Cardinality(DOMAIN node)

\* The index map has a place for each text of the file and for each new node.
LEMMA CountedStep == PoolInv /\ PoolInv' /\ Counted /\ [Next]_vars => Counted'
<1> SUFFICES ASSUME PoolInv, PoolInv', Counted, [Next]_vars PROVE Counted'
  OBVIOUS
<1>1. /\ used \in Seq(BOOLEAN) /\ Len(used) \in Nat /\ Len(File) \in Nat
      /\ IsFiniteSet(DOMAIN node) /\ Len(used) <= Len(File) + Cardinality(DOMAIN node)
  BY PoolAssumption DEF PoolInv, Indexes, Counted
<1>2. Cardinality(DOMAIN node) \in Nat
  BY <1>1, FS_CardinalityType
<1>3. ASSUME NEW n \in Nat, n \notin DOMAIN node, n < Len(File) \/ n <= Len(used),
             NEW t, SetNode(n, t), used' = Marked(n, used)
      PROVE  Counted'
  <2>1. DOMAIN node' = DOMAIN node \cup {n}
    BY <1>3 DEF SetNode
  <2>2. /\ IsFiniteSet(DOMAIN node \cup {n})
        /\ Cardinality(DOMAIN node \cup {n}) = Cardinality(DOMAIN node) + 1
    BY <1>1, <1>3, FS_AddElement
  <2>3. Len(used') = IF n >= Len(used) THEN n + 1 ELSE Len(used)
    BY <1>1, <1>3, MarkedIndex
  <2>4. Len(used') <= Len(File) + (Cardinality(DOMAIN node) + 1)
    BY <1>1, <1>2, <1>3, <2>3
  <2> QED
    BY <2>1, <2>2, <2>4 DEF Counted
<1>4. ASSUME NEW i \in 0..(Len(File) - 1), ReaderGetString(i) PROVE Counted'
  <2>1. i \in Nat /\ i \notin DOMAIN node /\ i < Len(File)
    BY <1>1, <1>4, ReaderAdds
  <2> QED
    BY <1>3, <1>4, <2>1 DEF ReaderGetString
<1>5. CASE EndReading
  BY <1>5 DEF EndReading, Counted
<1>6. ASSUME NEW t \in Text, GetAsciiString(t) PROVE Counted'
  <2>1. PICK n : n = FreeIndex
    OBVIOUS
  <2>2. n \in Nat /\ n <= Len(used) /\ n \notin DOMAIN node
    BY <1>6, <2>1, BuilderAdds
  <2>3. SetNode(n, t) /\ used' = Marked(n, used)
    BY <1>6, <2>1 DEF GetAsciiString
  <2> QED
    BY <1>3, <2>2, <2>3
<1>7. CASE UNCHANGED vars
  BY <1>7 DEF vars, Counted
<1> QED
  BY <1>4, <1>5, <1>6, <1>7 DEF Next

AllAnswered == \A t \in Text : Answers(t)

\* A node more is a text more, with the index of that node.
LEMMA NodeIsInterned ==
  ASSUME PoolInv, AllAnswered, PoolInv', AllAnswered',
         NEW n \in 0..(Len(File) + Cardinality(Text)), NEW t \in Text,
         n \notin DOMAIN node, \A m \in DOMAIN node : node[m] # t, SetNode(n, t)
  PROVE  Pool!Intern(t, n)
<1> DEFINE index == [u \in {u \in Text : Lookup(u) # NoValue} |-> Lookup(u)]
<1>1. /\ DOMAIN node' = DOMAIN node \cup {n} /\ node'[n] = t
      /\ \A m \in DOMAIN node : node'[m] = node[m]
  BY DEF SetNode
<1>2. /\ NoValue \notin DOMAIN node /\ NoValue \notin DOMAIN node'
      /\ \A l, m \in DOMAIN node' : node'[l] = node'[m] => l = m
  <2>1. DOMAIN node \subseteq Nat /\ DOMAIN node' \subseteq Nat
    BY DEF PoolInv, Interned, Named
  <2> QED
    BY <2>1 DEF PoolInv, Interned, NoValue
<1>3. Lookup(t) = NoValue /\ Lookup(t)' = n
  <2>1. Answers(t) /\ Answers(t)'
    BY DEF AllAnswered
  <2> QED
    BY <2>1, <1>1, <1>2 DEF Answers
<1>4. ASSUME NEW u \in Text, u # t
      PROVE  Lookup(u)' = Lookup(u) /\ (Lookup(u) # NoValue => Lookup(u) # n)
  <2>1. Answers(u) /\ Answers(u)'
    BY DEF AllAnswered
  <2> QED
    BY <2>1, <1>1, <1>2, <1>4 DEF Answers
<1>5. t \notin DOMAIN index /\ \A u \in DOMAIN index : index[u] # n
  BY <1>3, <1>4
<1>6. index' = [u \in DOMAIN index \cup {t} |-> IF u = t THEN n ELSE index[u]]
  <2>1. index' = [u \in {u \in Text : Lookup(u)' # NoValue} |-> Lookup(u)']
    OBVIOUS
  <2>2. {u \in Text : Lookup(u)' # NoValue} = {u \in Text : Lookup(u) # NoValue} \cup {t}
    BY <1>2, <1>3, <1>4, <1>1
  <2>3. \A u \in {u \in Text : Lookup(u) # NoValue} \cup {t} :
          Lookup(u)' = IF u = t THEN n ELSE index[u]
    BY <1>3, <1>4
  <2>4. DOMAIN index = {u \in Text : Lookup(u) # NoValue}
    OBVIOUS
  <2> HIDE DEF index
  <2> QED
    BY <2>1, <2>2, <2>3, <2>4
<1> QED
  BY <1>5, <1>6 DEF Pool!Intern

\* The pool implements the interning of Interning.tla, seen through its lookup,
\* for any finite set of texts.
THEOREM PoolInterns == ASSUME IsFiniteSet(Text) PROVE Spec => Interns
<1>1. Init => Counted
  BY FS_EmptySet, PoolAssumption DEF Init, Counted
<1>2. PoolInv => AllAnswered
  BY LookupAnswers DEF AllAnswered
<1>3. Spec => [](PoolInv /\ Counted /\ AllAnswered)
  BY <1>1, <1>2, PoolInvariance, CountedStep, PTL DEF Spec
<1>4. Init => Pool!Init
  <2> SUFFICES ASSUME Init PROVE Pool!Init
    OBVIOUS
  <2>1. PoolInv /\ AllAnswered /\ DOMAIN node = {}
    BY PoolInit, <1>2 DEF Init
  <2>2. \A u \in Text : Lookup(u) = NoValue
    BY <2>1 DEF AllAnswered, Answers
  <2> QED
    BY <2>2 DEF Pool!Init
<1>5. /\ PoolInv /\ Counted /\ AllAnswered
      /\ PoolInv' /\ Counted' /\ AllAnswered'
      /\ [Next]_vars
      => [Pool!Next]_([t \in {t \in Text : Lookup(t) # NoValue} |-> Lookup(t)])
  <2> SUFFICES ASSUME PoolInv, Counted, AllAnswered, PoolInv', AllAnswered', [Next]_vars
               PROVE  \/ Pool!Next
                      \/ UNCHANGED [u \in {u \in Text : Lookup(u) # NoValue} |-> Lookup(u)]
    OBVIOUS
  <2>1. Cardinality(Text) \in Nat /\ Len(File) \in Nat
    BY FS_CardinalityType, PoolAssumption
  <2>2. Len(used) <= Len(File) + Cardinality(Text)
    <3>1. node \in [DOMAIN node -> Text] /\ \A m, n \in DOMAIN node : node[m] = node[n] => m = n
      BY DEF PoolInv, Interned, Named
    <3>2. IsFiniteSet(DOMAIN node) /\ Cardinality(DOMAIN node) \in Nat
      BY FS_CardinalityType DEF Counted
    <3>3. ~(Cardinality(Text) < Cardinality(DOMAIN node))
      BY <3>1, <3>2, FS_PigeonHole
    <3>4. Len(used) \in Nat
      BY DEF PoolInv, Indexes
    <3> QED
      BY <2>1, <3>2, <3>3, <3>4 DEF Counted
  <2>3. ASSUME NEW i \in 0..(Len(File) - 1), ReaderGetString(i) PROVE Pool!Next
    <3>1. /\ i \in Nat /\ i \notin DOMAIN node /\ File[i + 1] \in Text
          /\ \A m \in DOMAIN node : node[m] # File[i + 1]
      BY <2>3, ReaderAdds
    <3>2. i \in 0..(Len(File) + Cardinality(Text)) /\ SetNode(i, File[i + 1])
      BY <2>1, <2>3 DEF ReaderGetString
    <3>3. Pool!Intern(File[i + 1], i)
      BY <3>1, <3>2, NodeIsInterned
    <3> QED
      BY <3>1, <3>2, <3>3 DEF Pool!Next
  <2>4. ASSUME NEW t \in Text, GetAsciiString(t) PROVE Pool!Next
    <3>1. PICK n : n = FreeIndex
      OBVIOUS
    <3>2. /\ n \in Nat /\ n <= Len(used) /\ n \notin DOMAIN node
          /\ \A m \in DOMAIN node : node[m] # t
      BY <2>4, <3>1, BuilderAdds
    <3>3. n \in 0..(Len(File) + Cardinality(Text)) /\ SetNode(n, t)
      <4>1. Len(used) \in Nat
        BY DEF PoolInv, Indexes
      <4>2. SetNode(n, t)
        BY <2>4, <3>1 DEF GetAsciiString
      <4> QED
        BY <2>1, <2>2, <3>2, <4>1, <4>2
    <3>4. Pool!Intern(t, n)
      BY <3>2, <3>3, NodeIsInterned
    <3> QED
      BY <3>3, <3>4 DEF Pool!Next
  <2>5. ASSUME UNCHANGED <<node, full, insertion>>
        PROVE  UNCHANGED [u \in {u \in Text : Lookup(u) # NoValue} |-> Lookup(u)]
    <3>1. \A u \in Text : Lookup(u)' = Lookup(u)
      BY <2>5 DEF Lookup
    <3> QED
      BY <3>1
  <2>6. CASE EndReading
    BY <2>5, <2>6 DEF EndReading
  <2>7. CASE UNCHANGED vars
    BY <2>5, <2>7 DEF vars
  <2> QED
    BY <2>3, <2>4, <2>6, <2>7 DEF Next
<1> QED
  BY <1>3, <1>4, <1>5, PTL DEF Spec, Interns, Pool!Spec
=============================================================================
