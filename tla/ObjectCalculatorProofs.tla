----------------------- MODULE ObjectCalculatorProofs -----------------------
(* What ObjectCalculator's run shows for two threads and one graph holds   *)
(* for any threads, objects and failures: an agent is attached once for    *)
(* every load that left one behind and once for the load that succeeds, a  *)
(* work list or a visited map is never in two hands and, when the heap is  *)
(* finite, a walk that no failure disturbed answers with the size of what  *)
(* its root reaches, every object counted once.                            *)
EXTENDS ObjectCalculator, FiniteSetTheorems, WellFoundedInduction, TLAPS

Steps == {"idle", "load", "lock", "init", "link", "visited", "stack", "walk", "cacheVisited",
          "cacheStack"}

Types ==
  /\ pc \in [Threads -> Steps]
  /\ visitedCache \subseteq Buffers /\ stackCache \subseteq Buffers
  /\ myVisited \in [Threads -> Buffers \cup {Null}]
  /\ myStack \in [Threads -> Buffers \cup {Null}]

\* Only the holder of the monitor is inside init, and only while nothing is
\* loaded; an agent that is attached is the one being loaded, the one loaded, or
\* was left by a load that failed.
Attaches ==
  /\ isLoad \in BOOLEAN /\ attached \in Nat /\ failed \in Nat
  /\ \A t \in Threads : pc[t] \in {"init", "link"} => lock = t /\ ~isLoad
  /\ \A t \in Threads : pc[t] = "link" => attached = failed + 1
  /\ isLoad => attached = failed + 1
  /\ ~isLoad /\ (\A t \in Threads : pc[t] # "link") => attached = failed

\* A thread holds its buffers from the step that takes them to the one that
\* puts them back.
Holds ==
  \A t \in Threads :
    /\ myVisited[t] # Null <=> pc[t] \in {"stack", "walk", "cacheVisited"}
    /\ myStack[t] # Null <=> pc[t] \in {"walk", "cacheVisited", "cacheStack"}

Inv == Types /\ Attaches /\ Holds /\ OneOwner
-----------------------------------------------------------------------------
\* There is always a buffer that no thread holds: a new one.
LEMMA UnusedExists ==
  ASSUME NEW mine \in [Threads -> Buffers \cup {Null}]
  PROVE  Unused(mine) \in Buffers /\ \A t \in Threads : mine[t] # Unused(mine)
  <1> DEFINE held == {mine[t] : t \in Threads}
  <1>1. \E b \in Buffers : \A t \in Threads : mine[t] # b
    <2> SUFFICES ASSUME Buffers \subseteq held PROVE FALSE
      OBVIOUS
    <2>1. IsFiniteSet(held) /\ Cardinality(held) <= Cardinality(Threads)
      <3>1. mine \in Surjection(Threads, held)
        BY DEF Surjection
      <3> QED
        BY <3>1, FS_Surjection, BuffersAssumption
    <2>2. Cardinality(Buffers) <= Cardinality(held)
      BY <2>1, FS_Subset
    <2>3. Cardinality(Buffers) \in Nat /\ Cardinality(Threads) \in Nat /\ Cardinality(held) \in Nat
      BY <2>1, FS_CardinalityType, BuffersAssumption
    <2> QED
      BY <2>1, <2>2, <2>3, BuffersAssumption
  <1> QED
    BY <1>1 DEF Unused

\* At first nothing is attached, cached or held.
LEMMA InitInv == Init => Inv
  <1> SUFFICES ASSUME Init PROVE Inv
    OBVIOUS
  <1>1. Types
    BY BuffersAssumption DEF Init, Types, Steps
  <1>2. Attaches
    BY DEF Init, Attaches
  <1>3. Holds /\ OneOwner
    BY DEF Init, Holds, OneOwner
  <1> QED
    BY <1>1, <1>2, <1>3 DEF Inv

\* Steps that leave buffers and the monitor alone.
LEMMA KeepsBuffers ==
  ASSUME Inv, NEW t \in Threads, NEW p \in Steps, Goto(t, p),
         UNCHANGED <<visitedCache, stackCache, myVisited, myStack>>,
         (p \in {"stack", "walk", "cacheVisited"}) = (pc[t] \in {"stack", "walk", "cacheVisited"}),
         (p \in {"walk", "cacheVisited", "cacheStack"})
           = (pc[t] \in {"walk", "cacheVisited", "cacheStack"})
  PROVE  (Types /\ Holds /\ OneOwner)'
  BY DEF Inv, Types, Holds, OneOwner, Goto

\* A step that leaves the agent's state and its steps alone keeps Attaches.
LEMMA KeepsAgent ==
  ASSUME Inv, NEW t \in Threads, pc[t] # "link", NEW p \in Steps \ {"init", "link"}, Goto(t, p),
         UNCHANGED agentVars
  PROVE  Attaches'
  BY DEF Inv, Types, Attaches, Goto, agentVars

\* Every step of a call keeps the invariant.
LEMMA StepInv ==
  ASSUME Inv, NEW t \in Threads, Step(t)
  PROVE  Inv'
  <1> USE DEF Steps
  <1>1. CASE TestLoad(t)
    <2>1. PICK p \in {"lock", "visited"} : Goto(t, p)
      BY <1>1 DEF TestLoad
    <2> QED
      BY <1>1, <2>1, KeepsBuffers, KeepsAgent DEF TestLoad, Inv, bufferVars, callVars
  <1>2. CASE Lock(t)
    <2>1. PICK p \in {"init", "visited"} : Goto(t, p)
      BY <1>2 DEF Lock
    <2>2. (Types /\ Holds /\ OneOwner)'
      BY <1>2, <2>1, KeepsBuffers DEF Lock, bufferVars, callVars
    <2>3. Attaches'
      BY <1>2, BuffersAssumption DEF Lock, SecondTest, Goto, Inv, Types, Attaches
    <2> QED
      BY <2>2, <2>3 DEF Inv
  <1>3. CASE Attach(t)
    <2>1. (Types /\ Holds /\ OneOwner)'
      BY <1>3, KeepsBuffers DEF Attach, bufferVars, callVars
    <2>2. \A u \in Threads : pc[u] # "link"
      BY <1>3 DEF Attach, Inv, Attaches
    <2>3. Attaches'
      BY <1>3, <2>2 DEF Attach, Goto, Inv, Types, Attaches
    <2> QED
      BY <2>1, <2>3 DEF Inv
  <1>4. CASE LoadLibrary(t)
    <2>1. (Types /\ Holds /\ OneOwner)'
      BY <1>4, KeepsBuffers DEF LoadLibrary, bufferVars, callVars
    <2>2. Attaches'
      BY <1>4 DEF LoadLibrary, Goto, Inv, Types, Attaches
    <2> QED
      BY <2>1, <2>2 DEF Inv
  <1>5. CASE InitFails(t)
    <2>1. (Types /\ Holds /\ OneOwner)'
      BY <1>5, KeepsBuffers DEF InitFails, bufferVars, callVars
    <2>2. Attaches'
      BY <1>5 DEF InitFails, Goto, Inv, Types, Attaches
    <2> QED
      BY <2>1, <2>2 DEF Inv
  <1>6. CASE GetVisited(t)
    <2>1. PICK b \in Buffers : /\ visitedCache' = visitedCache \ {b}
                               /\ myVisited' = [myVisited EXCEPT ![t] = b]
                               /\ \A u \in Threads : myVisited[u] # b
      <3>1. PICK b \in IF visitedCache = {} THEN {Unused(myVisited)} ELSE visitedCache :
                   visitedCache' = visitedCache \ {b} /\ myVisited' = [myVisited EXCEPT ![t] = b]
        BY <1>6 DEF GetVisited
      <3>2. myVisited \in [Threads -> Buffers \cup {Null}]
        BY DEF Inv, Types
      <3>3. b \in Buffers /\ \A u \in Threads : myVisited[u] # b
        <4>1. CASE visitedCache = {}
          BY <3>1, <3>2, <4>1, UnusedExists
        <4>2. CASE visitedCache # {}
          BY <3>1, <4>2, BuffersAssumption DEF Inv, Types, OneOwner
        <4> QED
          BY <4>1, <4>2
      <3> QED
        BY <3>1, <3>3
    <2>2. (Types /\ Holds /\ OneOwner)'
      BY <1>6, <2>1, BuffersAssumption DEF GetVisited, Goto, Inv, Types, Holds, OneOwner
    <2> QED
      BY <1>6, <2>2, KeepsAgent DEF GetVisited, Inv
  <1>7. CASE GetStack(t)
    <2>1. PICK b \in Buffers : /\ stackCache' = stackCache \ {b}
                               /\ myStack' = [myStack EXCEPT ![t] = b]
                               /\ \A u \in Threads : myStack[u] # b
      <3>1. PICK b \in IF stackCache = {} THEN {Unused(myStack)} ELSE stackCache :
                   stackCache' = stackCache \ {b} /\ myStack' = [myStack EXCEPT ![t] = b]
        BY <1>7 DEF GetStack
      <3>2. myStack \in [Threads -> Buffers \cup {Null}]
        BY DEF Inv, Types
      <3>3. b \in Buffers /\ \A u \in Threads : myStack[u] # b
        <4>1. CASE stackCache = {}
          BY <3>1, <3>2, <4>1, UnusedExists
        <4>2. CASE stackCache # {}
          BY <3>1, <4>2, BuffersAssumption DEF Inv, Types, OneOwner
        <4> QED
          BY <4>1, <4>2
      <3> QED
        BY <3>1, <3>3
    <2>2. (Types /\ Holds /\ OneOwner)'
      BY <1>7, <2>1, BuffersAssumption DEF GetStack, Goto, Inv, Types, Holds, OneOwner
    <2> QED
      BY <1>7, <2>2, KeepsAgent DEF GetStack, Inv
  <1>8. CASE Walk(t)
    <2>1. PICK p \in {"walk", "cacheVisited"} : Goto(t, p)
      BY <1>8 DEF Walk, SkipObject, VisitObject, VisitThrows, Visit, Continue, Goto, Inv, Types
    <2>2. pc[t] = "walk" /\ UNCHANGED <<agentVars, visitedCache, stackCache, myVisited, myStack>>
      BY <1>8 DEF Walk, SkipObject, VisitObject, VisitThrows, Visit
    <2> QED
      BY <2>1, <2>2, KeepsBuffers, KeepsAgent DEF Inv
  <1>9. CASE CacheVisited(t)
    <2>1. (Types /\ Holds /\ OneOwner)'
      BY <1>9, BuffersAssumption DEF CacheVisited, Goto, Inv, Types, Holds, OneOwner
    <2> QED
      BY <1>9, <2>1, KeepsAgent DEF CacheVisited, Inv
  <1>10. CASE CacheStack(t)
    <2>1. (Types /\ Holds /\ OneOwner)'
      BY <1>10, BuffersAssumption DEF CacheStack, Goto, Inv, Types, Holds, OneOwner
    <2> QED
      BY <1>10, <2>1, KeepsAgent DEF CacheStack, Inv
  <1> QED
    BY <1>1, <1>2, <1>3, <1>4, <1>5, <1>6, <1>7, <1>8, <1>9, <1>10 DEF Step, LoadAgent

\* Every step keeps the invariant.
LEMMA NextInv == Inv /\ [Next]_vars => Inv'
  <1> SUFFICES ASSUME Inv, [Next]_vars PROVE Inv'
    OBVIOUS
  <1>1. ASSUME NEW t \in Threads, Step(t) PROVE Inv'
    BY <1>1, StepInv
  <1>2. ASSUME NEW t \in Threads, NEW o \in Objects, ObjectSizeFull(t, o) PROVE Inv'
    BY <1>2, KeepsBuffers, KeepsAgent DEF ObjectSizeFull, Inv, Steps, bufferVars
  <1>3. CASE UNCHANGED vars
    BY <1>3 DEF vars, agentVars, bufferVars, callVars, Inv, Types, Attaches, Holds, OneOwner
  <1> QED
    BY <1>1, <1>2, <1>3 DEF Next

\* The invariant holds for ever.
LEMMA Invariance == Spec => []Inv
  BY InitInv, NextInv, PTL DEF Spec
-----------------------------------------------------------------------------
\* However many threads race to load the agent and however often that fails, every
\* agent beyond the first answers a load that failed after it had attached one, and
\* none is attached after a load that succeeded (ObjectCalculator.loadJmvTI: isLoad
\* is tested again under the monitor; JVMTIHelper.init attaches before it loads).
THEOREM AgentsPerLoad == Spec => []OneAgentPerLoad
  <1>1. Inv => OneAgentPerLoad
    <2>1. Inv => attached \in Nat /\ failed \in Nat
      BY DEF Inv, Attaches
    <2>2. Inv => attached = failed \/ attached = failed + 1
      BY DEF Inv, Attaches
    <2>3. Inv => (isLoad => attached = failed + 1)
      BY DEF Inv, Attaches
    <2> QED
      BY <2>1, <2>2, <2>3 DEF OneAgentPerLoad
  <1> QED
    BY <1>1, Invariance, PTL

\* However many threads size objects, and whatever fails, no work list or
\* visited map is in two hands, or cached while it is in one.
THEOREM BuffersOwned == Spec => []OneOwner
  <1>1. Inv => OneOwner
    BY DEF Inv
  <1> QED
    BY <1>1, Invariance, PTL
-----------------------------------------------------------------------------
\* Sums of sizes: what ObjectSize adds up is the Total of what it visited.

\* Every set of naturals that is not empty has a smallest element.
LEMMA Smallest ==
  ASSUME NEW S \in SUBSET Nat, S # {}
  PROVE  \E m \in S : \A k \in S : m <= k
<1> DEFINE R == {ss \in Nat \X Nat : ss[1] < ss[2]}
<1>1. R = OpToRel(<, Nat)
  BY DEF OpToRel
<1>2. IsWellFoundedOn(R, Nat)
  BY <1>1, NatLessThanWellFounded
<1> HIDE DEF R
<1>3. PICK m \in S : \A k \in S : ~(<<k, m>> \in R)
  BY <1>2, WFMin
<1>4. ASSUME NEW k \in S PROVE m <= k
  <2>1. k < m => <<k, m>> \in R
    BY DEF R
  <2> QED
    BY <1>3, <2>1
<1> QED
  BY <1>3, <1>4

Pick(s) == CHOOSE x \in s : TRUE
SumOf(S, g) ==
  [s \in SUBSET S |-> IF s = {} THEN 0 ELSE Size[Pick(s)] + g[s \ {Pick(s)}]]

\* Total of a set is the value of the recursive function MapThenSumSet unfolds to.
LEMMA TotalIsSum ==
  ASSUME NEW S
  PROVE  Total(S) = (CHOOSE g : g = SumOf(S, g))[S]
  BY DEF Total, MapThenSumSet, MapThenFoldSet, SumOf, Pick

\* A set without one of its elements.
LEMMA OneLess ==
  ASSUME NEW s, IsFiniteSet(s), NEW x \in s
  PROVE  /\ Pick(s) \in s
         /\ IsFiniteSet(s \ {x}) /\ Cardinality(s) \in Nat \ {0}
         /\ Cardinality(s \ {x}) = Cardinality(s) - 1
<1>1. Pick(s) \in s
  BY DEF Pick
<1>2. IsFiniteSet(s \ {x}) /\ Cardinality(s \ {x}) = Cardinality(s) - 1
  BY FS_RemoveElement
<1>3. Cardinality(s) \in Nat /\ Cardinality(s) # 0
  BY FS_CardinalityType, FS_EmptySet
<1> QED
  BY <1>1, <1>2, <1>3

\* The sums of the subsets of a finite set are defined.
LEMMA SumsExist ==
  ASSUME NEW S, IsFiniteSet(S)
  PROVE  \E g : g = SumOf(S, g)
<1> DEFINE Added(g, s) == IF s = {} THEN 0 ELSE Size[Pick(s)] + g[s \ {Pick(s)}]
           Small(k) == {s \in SUBSET S : Cardinality(s) <= k}
           To(k) == \E g : \A s \in Small(k) : g[s] = Added(g, s)
           Bad == {k \in Nat : ~To(k)}
<1>1. \A s \in SUBSET S : /\ IsFiniteSet(s) /\ Cardinality(s) \in Nat
                          /\ Cardinality(s) <= Cardinality(S)
  BY FS_Subset, FS_CardinalityType
<1>2. Bad = {}
  <2> SUFFICES ASSUME Bad # {} PROVE FALSE
    OBVIOUS
  <2>1. PICK k \in Bad : \A m \in Bad : k <= m
    BY Smallest
  <2> HIDE DEF To, Small
  <2>2. k \in Nat /\ ~To(k)
    OBVIOUS
  <2>3. k # 0
    <3> DEFINE g == [s \in SUBSET S |-> 0]
    <3>1. ASSUME NEW s \in Small(0) PROVE g[s] = Added(g, s)
      <4>1. s = {}
        BY <1>1, FS_EmptySet DEF Small
      <4> QED
        BY <4>1 DEF Small
    <3> HIDE DEF g, Added
    <3>2. To(0)
      BY <3>1 DEF To
    <3> QED
      BY <2>2, <3>2
  <2>4. k - 1 \in Nat /\ ~(k <= k - 1)
    BY <2>2, <2>3
  <2>5. To(k - 1)
    BY <2>1, <2>4
  <2>6. PICK g : \A s \in Small(k - 1) : g[s] = Added(g, s)
    BY <2>5 DEF To
  <2> DEFINE h == [s \in SUBSET S |-> IF Cardinality(s) = k THEN Added(g, s) ELSE g[s]]
  <2>7. ASSUME NEW s \in Small(k) PROVE h[s] = Added(h, s)
    <3>1. s \in SUBSET S /\ Cardinality(s) \in Nat /\ Cardinality(s) <= k /\ IsFiniteSet(s)
      BY <1>1 DEF Small
    <3>2. h[s] = Added(g, s)
      <4> HIDE DEF Added
      <4>1. CASE Cardinality(s) = k
        BY <3>1, <4>1
      <4>2. CASE Cardinality(s) # k
        <5>1. s \in Small(k - 1)
          BY <3>1, <4>2, <2>2 DEF Small
        <5> QED
          BY <3>1, <4>2, <5>1, <2>6
      <4> QED
        BY <4>1, <4>2
    <3>3. ASSUME s # {} PROVE h[s \ {Pick(s)}] = g[s \ {Pick(s)}]
      <4>1. Pick(s) \in s
        BY <3>3 DEF Pick
      <4>2. Cardinality(s \ {Pick(s)}) = Cardinality(s) - 1
        BY <4>1, <3>1, OneLess
      <4> QED
        BY <4>2, <3>1
    <3> HIDE DEF h
    <3> QED
      BY <3>2, <3>3
  <2> HIDE DEF h, Added
  <2>8. To(k)
    BY <2>7 DEF To
  <2> QED
    BY <2>2, <2>8
<1>3. Cardinality(S) \in Nat
  BY FS_CardinalityType
<1>4. To(Cardinality(S))
  BY <1>2, <1>3
<1>5. PICK g : \A s \in SUBSET S : g[s] = Added(g, s)
  BY <1>1, <1>4
<1> DEFINE h == [s \in SUBSET S |-> g[s]]
<1>6. ASSUME NEW s \in SUBSET S PROVE h[s] = Added(h, s)
  <2>1. s \ {Pick(s)} \in SUBSET S
    OBVIOUS
  <2>2. h[s \ {Pick(s)}] = g[s \ {Pick(s)}] /\ h[s] = g[s]
    BY <2>1
  <2> HIDE DEF h
  <2> QED
    BY <1>5, <2>2
<1>7. h = [s \in SUBSET S |-> h[s]]
  OBVIOUS
<1> HIDE DEF h
<1>8. h = SumOf(S, h)
  BY <1>6, <1>7 DEF SumOf
<1> QED
  BY <1>8

Sums(S) == CHOOSE g : g = SumOf(S, g)

\* Any function that satisfies the recursion gives the same sum, its own.
LEMMA SumsAre ==
  ASSUME NEW S, IsFiniteSet(S)
  PROVE  /\ Total(S) = Sums(S)[S]
         /\ \A s \in SUBSET S :
              Sums(S)[s] = IF s = {} THEN 0 ELSE Size[Pick(s)] + Sums(S)[s \ {Pick(s)}]
<1>1. Sums(S) = SumOf(S, Sums(S))
  BY SumsExist DEF Sums
<1>2. Total(S) = Sums(S)[S]
  BY TotalIsSum DEF Sums
<1>3. PICK g : g = Sums(S)
  OBVIOUS
<1>4. g = [s \in SUBSET S |-> IF s = {} THEN 0 ELSE Size[Pick(s)] + g[s \ {Pick(s)}]]
  BY <1>1, <1>3 DEF SumOf
<1>5. \A s \in SUBSET S : g[s] = IF s = {} THEN 0 ELSE Size[Pick(s)] + g[s \ {Pick(s)}]
  BY <1>4
<1> QED
  BY <1>2, <1>3, <1>5

\* The sum of a part is that of the part by itself.
LEMMA SumsOfPart ==
  ASSUME NEW S, IsFiniteSet(S), NEW T \in SUBSET S
  PROVE  Sums(S)[T] = Total(T)
<1>1. IsFiniteSet(T) /\ Cardinality(T) \in Nat
  BY FS_Subset, FS_CardinalityType
<1>2. PICK g : g = Sums(S)
  OBVIOUS
<1>3. PICK h : h = Sums(T)
  OBVIOUS
<1>4. \A s \in SUBSET T :
        /\ g[s] = IF s = {} THEN 0 ELSE Size[Pick(s)] + g[s \ {Pick(s)}]
        /\ h[s] = IF s = {} THEN 0 ELSE Size[Pick(s)] + h[s \ {Pick(s)}]
  BY <1>1, <1>2, <1>3, SumsAre
<1> DEFINE Bad == {k \in Nat : \E s \in SUBSET T : Cardinality(s) = k /\ g[s] # h[s]}
<1>5. Bad = {}
  <2> SUFFICES ASSUME Bad # {} PROVE FALSE
    OBVIOUS
  <2>1. PICK k \in Bad : \A m \in Bad : k <= m
    BY Smallest
  <2>2. PICK s \in SUBSET T : Cardinality(s) = k /\ g[s] # h[s]
    BY <2>1
  <2>3. s # {}
    BY <1>4, <2>2
  <2>4. IsFiniteSet(s) /\ Pick(s) \in s
    BY <1>1, <2>3, FS_Subset DEF Pick
  <2>5. PICK r : r = s \ {Pick(s)}
    OBVIOUS
  <2>6. r \in SUBSET T /\ Cardinality(r) \in Nat /\ ~(k <= Cardinality(r))
    BY <2>2, <2>4, <2>5, OneLess
  <2>7. g[r] = h[r]
    BY <2>1, <2>6
  <2> QED
    BY <1>4, <2>2, <2>3, <2>5, <2>7
<1>6. g[T] = h[T]
  BY <1>1, <1>5
<1> QED
  BY <1>1, <1>2, <1>3, <1>6, SumsAre

\* The total of a set is a natural number, and that of a set without an element
\* is less by the size of that element, in whatever order the sum is taken.
LEMMA TotalSplits ==
  ASSUME NEW S \in SUBSET Objects, IsFiniteSet(S)
  PROVE  /\ Total(S) \in Nat
         /\ S = {} => Total(S) = 0
         /\ \A x \in S : Total(S) = Size[x] + Total(S \ {x})
<1> DEFINE Right(s) == /\ Total(s) \in Nat
                       /\ s = {} => Total(s) = 0
                       /\ \A x \in s : Total(s) = Size[x] + Total(s \ {x})
           Bad == {k \in Nat : \E s \in SUBSET S : Cardinality(s) = k /\ ~Right(s)}
<1>1. ASSUME NEW s \in SUBSET S
      PROVE  /\ IsFiniteSet(s) /\ Cardinality(s) \in Nat
             /\ Total(s) = IF s = {} THEN 0 ELSE Size[Pick(s)] + Total(s \ {Pick(s)})
  <2>1. IsFiniteSet(s) /\ Cardinality(s) \in Nat
    BY FS_Subset, FS_CardinalityType
  <2>2. Total(s) = IF s = {} THEN 0 ELSE Size[Pick(s)] + Sums(s)[s \ {Pick(s)}]
    BY <2>1, SumsAre
  <2>3. Sums(s)[s \ {Pick(s)}] = Total(s \ {Pick(s)})
    BY <2>1, SumsOfPart
  <2> QED
    BY <2>1, <2>2, <2>3
<1>2. Bad = {}
  <2> SUFFICES ASSUME Bad # {} PROVE FALSE
    OBVIOUS
  <2>1. PICK k \in Bad : \A m \in Bad : k <= m
    BY Smallest
  <2> HIDE DEF Right
  <2>2. PICK s \in SUBSET S : Cardinality(s) = k /\ ~Right(s)
    BY <2>1
  <2>3. s # {}
    <3>1. ASSUME s = {} PROVE Right(s)
      <4>1. Total(s) = 0
        BY <3>1, <1>1
      <4>2. \A x \in s : FALSE
        BY <3>1
      <4> QED
        BY <4>1, <4>2 DEF Right
    <3> QED
      BY <2>2, <3>1
  <2>4. ASSUME NEW x \in s PROVE Right(s \ {x})
    <3>1. PICK r : r = s \ {x}
      OBVIOUS
    <3>2. r \in SUBSET S /\ Cardinality(r) \in Nat /\ ~(k <= Cardinality(r))
      <4>1. IsFiniteSet(s) /\ Cardinality(s) \in Nat
        BY <1>1
      <4>2. Cardinality(r) = Cardinality(s) - 1 /\ r \in SUBSET S
        BY <4>1, <3>1, OneLess
      <4>3. Cardinality(r) \in Nat
        BY <4>2, <1>1
      <4> QED
        BY <4>1, <4>2, <4>3, <2>2
    <3> QED
      BY <3>1, <3>2, <2>1
  <2>5. PICK c : c = Pick(s)
    OBVIOUS
  <2>6. c \in s
    BY <2>3, <2>5 DEF Pick
  <2>7. Total(s) = Size[c] + Total(s \ {c})
    BY <1>1, <2>3, <2>5
  <2>8. \A x \in s : Size[x] \in Nat
    BY HeapAssumption
  <2>9. Total(s) \in Nat
    <3>1. Total(s \ {c}) \in Nat
      BY <2>4, <2>6 DEF Right
    <3> QED
      BY <3>1, <2>6, <2>7, <2>8
  <2>10. ASSUME NEW x \in s PROVE Total(s) = Size[x] + Total(s \ {x})
    <3>1. CASE x = c
      BY <3>1, <2>7
    <3>2. CASE x # c
      <4>1. /\ Total(s \ {c}) = Size[x] + Total((s \ {c}) \ {x})
            /\ Total(s \ {x}) = Size[c] + Total((s \ {x}) \ {c})
        BY <3>2, <2>4, <2>6 DEF Right
      <4>2. (s \ {c}) \ {x} = (s \ {x}) \ {c}
        OBVIOUS
      <4>3. PICK r : r = (s \ {c}) \ {x}
        OBVIOUS
      <4>4. Total(r) \in Nat
        <5>1. Right((s \ {c}))
          BY <2>4, <2>6
        <5>2. r \in SUBSET S /\ IsFiniteSet(s \ {c}) /\ IsFiniteSet(r)
          BY <1>1, <4>3
        <5>3. Cardinality(r) \in Nat /\ ~(k <= Cardinality(r))
          <6>1. Cardinality(s \ {c}) = k - 1 /\ Cardinality(r) = Cardinality(s \ {c}) - 1
            <7>1. IsFiniteSet(s)
              BY <1>1
            <7>2. Cardinality(s \ {c}) = Cardinality(s) - 1
              BY <7>1, <2>6, OneLess
            <7>3. x \in s \ {c}
              BY <3>2
            <7>4. Cardinality((s \ {c}) \ {x}) = Cardinality(s \ {c}) - 1
              BY <5>2, <7>3, OneLess
            <7> QED
              BY <2>2, <4>3, <7>2, <7>4
          <6>2. Cardinality(r) \in Nat
            BY <5>2, <1>1
          <6>3. k \in Nat
            OBVIOUS
          <6> QED
            BY <6>1, <6>2, <6>3
        <5>4. Right(r)
          BY <2>1, <5>2, <5>3
        <5> QED
          BY <5>4 DEF Right
      <4> QED
        BY <2>6, <2>7, <2>8, <4>1, <4>2, <4>3, <4>4
    <3> QED
      BY <3>1, <3>2
  <2>11. Right(s)
    BY <2>3, <2>9, <2>10 DEF Right
  <2> QED
    BY <2>2, <2>11
<1>3. Cardinality(S) \in Nat
  BY FS_CardinalityType
<1>4. Right(S)
  BY <1>2, <1>3
<1> QED
  BY <1>4

\* More objects add up to no less.
LEMMA TotalGrows ==
  ASSUME NEW S \in SUBSET Objects, IsFiniteSet(S), NEW T \in SUBSET S
  PROVE  Total(T) <= Total(S)
<1> DEFINE Bad == {k \in Nat : \E s \in SUBSET S :
                                 T \subseteq s /\ Cardinality(s) = k /\ ~(Total(T) <= Total(s))}
<1>1. \A s \in SUBSET S : IsFiniteSet(s) /\ Cardinality(s) \in Nat /\ Total(s) \in Nat
  BY FS_Subset, FS_CardinalityType, TotalSplits
<1>2. Bad = {}
  <2> SUFFICES ASSUME Bad # {} PROVE FALSE
    OBVIOUS
  <2>1. PICK k \in Bad : \A m \in Bad : k <= m
    BY Smallest
  <2>2. PICK s \in SUBSET S : T \subseteq s /\ Cardinality(s) = k /\ ~(Total(T) <= Total(s))
    BY <2>1
  <2>3. PICK x \in s : x \notin T
    BY <1>1, <2>2
  <2>4. PICK r : r = s \ {x}
    OBVIOUS
  <2>5. r \in SUBSET S /\ T \subseteq r /\ Cardinality(r) \in Nat /\ ~(k <= Cardinality(r))
    BY <1>1, <2>2, <2>3, <2>4, OneLess
  <2>6. Total(T) <= Total(r)
    BY <2>1, <2>5
  <2>7. Total(s) = Size[x] + Total(r) /\ Size[x] \in Nat
    BY <1>1, <2>4, TotalSplits, HeapAssumption
  <2> QED
    BY <1>1, <2>2, <2>5, <2>6, <2>7
<1> QED
  BY <1>1, <1>2

-----------------------------------------------------------------------------
\* The walk: what is left to find is found from what is left to do.

CallTypes ==
  /\ visited \in [Buffers -> SUBSET Objects]
  /\ stack \in [Buffers -> Seq(Objects \cup {Null})]
  /\ root \in [Threads -> Objects \cup {Null}] /\ cur \in [Threads -> Objects \cup {Null}]
  /\ result \in [Threads -> Nat]
  /\ clean \in [Threads -> BOOLEAN] /\ threw \in [Threads -> BOOLEAN]

\* A walk from r has visited V, whose sizes add up to sum, and W is still to do:
\* what is left to find is found from W.
WalkFrom(r, V, W, sum) ==
  /\ V \subseteq Reach(r) /\ W \subseteq Reach(r) \cup {Null}
  /\ r \in V \cup W \cup Strings
  /\ \A x \in V : \A i \in DOMAIN Fields[x] : Fields[x][i] \in V \cup W \cup Strings \cup {Null}
  /\ sum = Total(V)

Before == {"load", "lock", "init", "link", "visited", "stack"}
Walking(t) ==
  WalkFrom(root[t], visited[myVisited[t]], {cur[t]} \cup Range(stack[myStack[t]]), result[t])
Call(t) ==
  /\ pc[t] # "idle" => root[t] \in Objects
  /\ pc[t] \in Before => cur[t] = root[t]
  /\ pc[t] \in Before \cup {"idle"} => result[t] = 0
  /\ pc[t] = "stack" => visited[myVisited[t]] = {}
  /\ pc[t] = "walk" /\ clean[t] => Walking(t)
  /\ Over(t) /\ clean[t] /\ ~threw[t] => Exact(t)
CachedEmpty == \A b \in visitedCache : visited[b] = {}

WalkInv == Inv /\ CallTypes /\ CachedEmpty /\ \A t \in Threads : Call(t)

\* What two joined lists hold.
LEMMA RangeConcat ==
  ASSUME NEW S, NEW s \in Seq(S), NEW r \in Seq(S)
  PROVE  Range(s \o r) = Range(s) \cup Range(r)
<1>1. ASSUME NEW i \in 1..Len(s) PROVE (s \o r)[i] = s[i] /\ i \in 1..Len(s \o r)
  OBVIOUS
<1>2. ASSUME NEW i \in 1..Len(r) PROVE (s \o r)[Len(s) + i] = r[i] /\ Len(s) + i \in 1..Len(s \o r)
  OBVIOUS
<1>3. ASSUME NEW i \in 1..Len(s \o r)
      PROVE  i \in 1..Len(s) \/ (i - Len(s) \in 1..Len(r) /\ (s \o r)[i] = r[i - Len(s)])
  OBVIOUS
<1>4. DOMAIN s = 1..Len(s) /\ DOMAIN r = 1..Len(r) /\ DOMAIN (s \o r) = 1..Len(s \o r)
  OBVIOUS
<1> QED
  BY <1>1, <1>2, <1>3, <1>4 DEF Range

\* What a list holds is its head and what its tail holds.
LEMMA RangeHeadTail ==
  ASSUME NEW S, NEW s \in Seq(S), s # <<>>
  PROVE  /\ Range(s) = {Head(s)} \cup Range(Tail(s))
         /\ Head(s) \in S /\ Tail(s) \in Seq(S)
<1>1. /\ DOMAIN s = 1..Len(s) /\ Len(s) \in Nat \ {0} /\ Head(s) = s[1]
      /\ Tail(s) \in Seq(S) /\ DOMAIN Tail(s) = 1..(Len(s) - 1)
  OBVIOUS
<1>2. ASSUME NEW i \in 1..(Len(s) - 1) PROVE Tail(s)[i] = s[i + 1] /\ i + 1 \in 1..Len(s)
  OBVIOUS
<1>3. ASSUME NEW i \in 1..Len(s) PROVE i = 1 \/ (i - 1 \in 1..(Len(s) - 1) /\ Tail(s)[i - 1] = s[i])
  BY <1>1, <1>2
<1>4. 1 \in 1..Len(s) /\ s[1] \in S
  BY <1>1
<1>5. Range(s) \subseteq {Head(s)} \cup Range(Tail(s))
  BY <1>1, <1>3 DEF Range
<1>6. Range(Tail(s)) \subseteq Range(s) /\ Head(s) \in Range(s)
  BY <1>1, <1>2, <1>4 DEF Range
<1> QED
  BY <1>1, <1>4, <1>5, <1>6

\* Only the empty list holds nothing.
LEMMA RangeEmpty == ASSUME NEW S, NEW s \in Seq(S) PROVE Range(s) = {} <=> s = <<>>
<1>1. DOMAIN s = 1..Len(s) /\ Len(s) \in Nat
  OBVIOUS
<1>2. s # <<>> => 1 \in DOMAIN s
  BY <1>1
<1>3. s = <<>> => DOMAIN s = {}
  BY <1>1
<1> QED
  BY <1>2, <1>3 DEF Range

\* What an object reaches holds the object and is closed under the fields.
LEMMA Reaches ==
  ASSUME NEW r \in Objects
  PROVE  /\ r \in Reach(r) /\ Reach(r) \subseteq Objects
         /\ \A x \in Reach(r) : \A i \in DOMAIN Fields[x] : Fields[x][i] \in Reach(r) \cup {Null}
<1>1. ASSUME NEW x \in Reach(r), NEW i \in DOMAIN Fields[x], Fields[x][i] # Null
      PROVE  Fields[x][i] \in Reach(r)
  <2>1. x \in Objects
    BY DEF Reach
  <2>2. Fields[x] \in Seq(Objects \cup {Null})
    BY <2>1, HeapAssumption
  <2>3. Fields[x][i] \in Objects
    BY <2>2, <1>1
  <2>4. ASSUME NEW S \in SUBSET Objects, r \in S, Closed(S) PROVE Fields[x][i] \in S
    <3>1. x \in S
      BY <2>4 DEF Reach
    <3> QED
      BY <3>1, <2>4, <1>1 DEF Closed
  <2> QED
    BY <2>3, <2>4 DEF Reach
<1>2. r \in Reach(r) /\ Reach(r) \subseteq Objects
  BY DEF Reach
<1> QED
  BY <1>1, <1>2

\* A walk begins with its root to do and nothing visited.
LEMMA WalkBegins ==
  ASSUME NEW r \in Objects
  PROVE  WalkFrom(r, {}, {r}, 0)
<1>1. Total({}) = 0
  BY TotalSplits, FS_EmptySet
<1> QED
  BY <1>1, Reaches DEF WalkFrom

\* An object that is skipped leaves the walk what it was.
LEMMA WalkSkips ==
  ASSUME NEW r, NEW V, NEW W, NEW sum, NEW c,
         WalkFrom(r, V, {c} \cup W, sum), c \in V \cup Strings \cup {Null}, r # Null
  PROVE  WalkFrom(r, V, W, sum)
  BY DEF WalkFrom

\* A visited object is counted, and its fields are to do.
LEMMA WalkVisits ==
  ASSUME IsFiniteSet(Objects), NEW r \in Objects, NEW V, NEW W, NEW sum, NEW c \in Objects \ V,
         WalkFrom(r, V, {c} \cup W, sum)
  PROVE  WalkFrom(r, V \cup {c}, W \cup Range(Fields[c]), sum + Size[c])
<1>1. c \in Reach(r) /\ V \subseteq Reach(r) /\ Reach(r) \subseteq Objects
  BY HeapAssumption, Reaches DEF WalkFrom
<1>2. \A i \in DOMAIN Fields[c] : Fields[c][i] \in Range(Fields[c])
  BY DEF Range
<1>3. Range(Fields[c]) \subseteq Reach(r) \cup {Null}
  BY <1>1, Reaches DEF Range
<1>4. Total(V \cup {c}) = Total(V) + Size[c]
  <2>1. V \cup {c} \in SUBSET Objects /\ IsFiniteSet(V \cup {c}) /\ IsFiniteSet(V)
    BY <1>1, FS_Subset
  <2>2. Total(V \cup {c}) = Size[c] + Total((V \cup {c}) \ {c})
    BY <2>1, TotalSplits
  <2>3. Total((V \cup {c}) \ {c}) = Total(V)
    <3>1. (V \cup {c}) \ {c} = V
      OBVIOUS
    <3> QED
      BY <3>1
  <2>4. Total(V) \in Nat /\ Size[c] \in Nat
    BY <1>1, <2>1, TotalSplits, HeapAssumption
  <2> QED
    BY <2>2, <2>3, <2>4
<1>5. \A x \in V \cup {c} : \A i \in DOMAIN Fields[x] :
        Fields[x][i] \in (V \cup {c}) \cup (W \cup Range(Fields[c])) \cup Strings \cup {Null}
  BY <1>2 DEF WalkFrom
<1> QED
  BY <1>1, <1>3, <1>4, <1>5 DEF WalkFrom

\* When nothing is left to do, what was visited is what can be reached, but for
\* strings.
LEMMA WalkEndsExact ==
  ASSUME IsFiniteSet(Objects), NEW r \in Objects, NEW V, NEW sum, WalkFrom(r, V, {}, sum)
  PROVE  sum >= Total(Reach(r) \ Strings) /\ sum <= Total(Reach(r))
<1>1. V \subseteq Reach(r) /\ Reach(r) \subseteq Objects
  BY Reaches DEF WalkFrom
<1>2. Reach(r) \subseteq V \cup Strings
  <2>1. V \cup Strings \in SUBSET Objects /\ r \in V \cup Strings
    BY <1>1, HeapAssumption DEF WalkFrom
  <2>2. \A x \in Strings : DOMAIN Fields[x] = {}
    <3>1. DOMAIN <<>> = {}
      OBVIOUS
    <3> QED
      BY <3>1, HeapAssumption
  <2>3. Closed(V \cup Strings)
    BY <2>2 DEF Closed, WalkFrom
  <2> QED
    BY <2>1, <2>3 DEF Reach
<1>3. IsFiniteSet(Reach(r)) /\ IsFiniteSet(V)
  BY <1>1, FS_Subset
<1>4. Total(Reach(r) \ Strings) <= Total(V)
  <2>1. Reach(r) \ Strings \in SUBSET V /\ V \in SUBSET Objects
    BY <1>1, <1>2
  <2> QED
    BY <2>1, <1>3, TotalGrows
<1>5. Total(V) <= Total(Reach(r))
  BY <1>1, <1>3, TotalGrows
<1>6. Total(V) \in Nat /\ Total(Reach(r)) \in Nat /\ Total(Reach(r) \ Strings) \in Nat
  <2>1. Reach(r) \ Strings \in SUBSET Objects /\ IsFiniteSet(Reach(r) \ Strings)
    BY <1>1, <1>3, FS_Subset
  <2> QED
    BY <2>1, <1>1, <1>3, TotalSplits
<1> QED
  BY <1>4, <1>5, <1>6 DEF WalkFrom

\* What other threads do leaves a call alone.
LEMMA OtherCall ==
  ASSUME NEW t \in Threads, Call(t),
         pc'[t] = pc[t], root'[t] = root[t], cur'[t] = cur[t], result'[t] = result[t],
         clean'[t] = clean[t], threw'[t] = threw[t],
         pc[t] \in {"stack", "walk"} => myVisited'[t] = myVisited[t]
                                        /\ visited'[myVisited[t]] = visited[myVisited[t]],
         pc[t] = "walk" => myStack'[t] = myStack[t] /\ stack'[myStack[t]] = stack[myStack[t]]
  PROVE  Call(t)'
<1>1. /\ pc'[t] # "idle" => root'[t] \in Objects
      /\ pc'[t] \in Before => cur'[t] = root'[t]
      /\ pc'[t] \in Before \cup {"idle"} => result'[t] = 0
      /\ pc'[t] = "stack" => visited'[myVisited'[t]] = {}
  BY DEF Call
<1>2. pc'[t] = "walk" /\ clean'[t]
      => WalkFrom(root'[t], visited'[myVisited'[t]],
                    {cur'[t]} \cup Range(stack'[myStack'[t]]), result'[t])
  BY DEF Call, Walking
<1>3. Over(t)' /\ clean'[t] /\ ~threw'[t] => Exact(t)'
  BY DEF Call, Over, Exact
<1> QED
  BY <1>1, <1>2, <1>3 DEF Call, Walking

\* A step of t that touches at most the buffers t holds leaves the other calls
\* alone.
LEMMA OthersKept ==
  ASSUME WalkInv, NEW t \in Threads,
         \A u \in Threads \ {t} :
           /\ pc'[u] = pc[u] /\ root'[u] = root[u] /\ cur'[u] = cur[u] /\ result'[u] = result[u]
           /\ clean'[u] = clean[u] /\ threw'[u] = threw[u]
           /\ myVisited'[u] = myVisited[u] /\ myStack'[u] = myStack[u],
         NEW b, NEW k,
         \A u \in Threads \ {t} : (myVisited[u] = b => b = Null) /\ (myStack[u] = k => k = Null),
         \A c \in Buffers \ {b} : visited'[c] = visited[c],
         \A c \in Buffers \ {k} : stack'[c] = stack[c]
  PROVE  \A u \in Threads \ {t} : Call(u)'
<1> SUFFICES ASSUME NEW u \in Threads \ {t} PROVE Call(u)'
  OBVIOUS
<1>1. pc[u] \in {"stack", "walk"} => myVisited[u] \in Buffers \ {b}
  BY DEF WalkInv, Inv, Types, Holds
<1>2. pc[u] = "walk" => myStack[u] \in Buffers \ {k}
  BY DEF WalkInv, Inv, Types, Holds
<1>3. Call(u)
  BY DEF WalkInv
<1> QED
  BY <1>1, <1>2, <1>3, OtherCall

-----------------------------------------------------------------------------
\* The steps of a call before its walk.

\* The work list after `pushed` is added, and the next object taken from it.
LEMMA ContinueTakes ==
  ASSUME CallTypes, Types, NEW t \in Threads, pc[t] = "walk", myStack[t] \in Buffers,
         NEW pushed \in Seq(Objects \cup {Null}), Continue(t, pushed)
  PROVE  /\ stack' \in [Buffers -> Seq(Objects \cup {Null})]
         /\ cur' \in [Threads -> Objects \cup {Null}]
         /\ \A u \in Threads \ {t} : cur'[u] = cur[u] /\ pc'[u] = pc[u]
         /\ \A c \in Buffers \ {myStack[t]} : stack'[c] = stack[c]
         /\ \/ pc'[t] = "cacheVisited" /\ Range(stack[myStack[t]]) \cup Range(pushed) = {}
            \/ /\ pc'[t] = "walk"
               /\ {cur'[t]} \cup Range(stack'[myStack[t]])
                    = Range(stack[myStack[t]]) \cup Range(pushed)
<1> DEFINE k == myStack[t]
           S == Objects \cup {Null}
<1>1. PICK rest : rest = stack[k] \o pushed
  OBVIOUS
<1>2. stack[k] \in Seq(S) /\ rest \in Seq(S)
  BY <1>1 DEF CallTypes
<1>3. Range(rest) = Range(stack[k]) \cup Range(pushed)
  BY <1>1, <1>2, RangeConcat
<1>4. CASE rest = <<>>
  <2>1. Goto(t, "cacheVisited") /\ UNCHANGED <<stack, cur>>
    BY <1>1, <1>4 DEF Continue
  <2>2. Range(rest) = {}
    BY <1>2, <1>4, RangeEmpty
  <2> QED
    BY <2>1, <2>2, <1>3 DEF Goto, Types, CallTypes
<1>5. CASE rest # <<>>
  <2>1. /\ cur' = [cur EXCEPT ![t] = Head(rest)]
        /\ stack' = [stack EXCEPT ![k] = Tail(rest)]
        /\ pc' = pc
    BY <1>1, <1>5 DEF Continue, Poll
  <2>2. /\ Range(rest) = {Head(rest)} \cup Range(Tail(rest))
        /\ Head(rest) \in S /\ Tail(rest) \in Seq(S)
    BY <1>2, <1>5, RangeHeadTail
  <2>3. cur'[t] = Head(rest) /\ stack'[k] = Tail(rest)
    BY <2>1 DEF CallTypes
  <2>4. /\ stack' \in [Buffers -> Seq(S)] /\ cur' \in [Threads -> S]
        /\ \A u \in Threads \ {t} : cur'[u] = cur[u]
        /\ \A c \in Buffers \ {k} : stack'[c] = stack[c]
    BY <2>1, <2>2 DEF CallTypes
  <2> QED
    BY <2>1, <2>2, <2>3, <2>4, <1>3
<1> QED
  BY <1>4, <1>5

\* Steps before the walk that touch no buffer.
LEMMA BeforeStep ==
  ASSUME WalkInv, NEW t \in Threads, pc[t] \in Before, NEW p \in Before \ {"stack"},
         Goto(t, p), UNCHANGED <<bufferVars, callVars>>
  PROVE  CallTypes' /\ CachedEmpty' /\ \A u \in Threads : Call(u)'
<1>1. pc' = [pc EXCEPT ![t] = p] /\ pc \in [Threads -> Steps]
  BY DEF Goto, WalkInv, Inv, Types
<1>2. CallTypes' /\ CachedEmpty'
  BY DEF WalkInv, CallTypes, CachedEmpty, bufferVars, callVars
<1>3. Call(t)'
  BY <1>1 DEF WalkInv, Call, Over, Before, callVars
<1>4. ASSUME NEW u \in Threads \ {t} PROVE Call(u)'
  <2>1. pc'[u] = pc[u] /\ Call(u)
    BY <1>1 DEF WalkInv
  <2> QED
    BY <2>1, OtherCall DEF bufferVars, callVars
<1> QED
  BY <1>2, <1>3, <1>4

\* A new call leaves every other call, and every buffer, what it was.
LEMMA CallBegins ==
  ASSUME WalkInv, NEW t \in Threads, NEW o \in Objects, ObjectSizeFull(t, o)
  PROVE  CallTypes' /\ CachedEmpty' /\ \A u \in Threads : Call(u)'
<1>1. /\ pc' = [pc EXCEPT ![t] = "load"] /\ pc \in [Threads -> Steps] /\ pc[t] = "idle"
      /\ root' = [root EXCEPT ![t] = o] /\ cur' = [cur EXCEPT ![t] = o]
      /\ UNCHANGED <<bufferVars, myVisited, myStack, result, clean, threw>>
  BY DEF ObjectSizeFull, Goto, WalkInv, Inv, Types
<1>2. CallTypes' /\ CachedEmpty'
  BY <1>1 DEF WalkInv, CallTypes, CachedEmpty, bufferVars
<1>3. Call(t)'
  BY <1>1 DEF WalkInv, Call, CallTypes, Over, Before
<1>4. ASSUME NEW u \in Threads \ {t} PROVE Call(u)'
  <2>1. pc'[u] = pc[u] /\ Call(u) /\ root'[u] = root[u] /\ cur'[u] = cur[u]
    BY <1>1 DEF WalkInv, CallTypes
  <2> QED
    BY <1>1, <2>1, OtherCall DEF bufferVars
<1> QED
  BY <1>2, <1>3, <1>4

\* A visited map comes empty, cached or new.
LEMMA GetsVisited ==
  ASSUME WalkInv, NEW t \in Threads, GetVisited(t)
  PROVE  CallTypes' /\ CachedEmpty' /\ \A u \in Threads : Call(u)'
<1>1. PICK b \in IF visitedCache = {} THEN {Unused(myVisited)} ELSE visitedCache :
        /\ visitedCache' = visitedCache \ {b}
        /\ visited' = [visited EXCEPT ![b] = IF b \in visitedCache THEN @ ELSE {}]
        /\ myVisited' = [myVisited EXCEPT ![t] = b]
  BY DEF GetVisited
<1>2. /\ pc' = [pc EXCEPT ![t] = "stack"] /\ pc \in [Threads -> Steps] /\ pc[t] = "visited"
      /\ myVisited \in [Threads -> Buffers \cup {Null}]
      /\ UNCHANGED <<stackCache, stack, root, cur, myStack, result, clean, threw>>
  BY DEF GetVisited, Goto, WalkInv, Inv, Types
<1>3. b \in Buffers /\ b # Null /\ \A u \in Threads : myVisited[u] # b
  <2>1. CASE visitedCache = {}
    BY <1>1, <1>2, <2>1, UnusedExists, BuffersAssumption
  <2>2. CASE visitedCache # {}
    BY <1>1, <2>2, BuffersAssumption DEF WalkInv, Inv, Types, OneOwner
  <2> QED
    BY <2>1, <2>2
<1>4. /\ visited' \in [Buffers -> SUBSET Objects] /\ visited'[b] = {}
      /\ \A c \in Buffers \ {b} : visited'[c] = visited[c]
  BY <1>1, <1>3 DEF WalkInv, CallTypes, CachedEmpty
<1>5. CallTypes'
  BY <1>2, <1>4 DEF WalkInv, CallTypes
<1>6. CachedEmpty'
  BY <1>1, <1>4 DEF WalkInv, Inv, Types, CachedEmpty
<1>7. myVisited'[t] = b /\ pc'[t] = "stack"
  BY <1>1, <1>2
<1>8. Call(t)'
  BY <1>2, <1>4, <1>7 DEF WalkInv, Call, Over, Before
<1>9. \A u \in Threads \ {t} : Call(u)'
  <2>1. \A u \in Threads \ {t} : pc'[u] = pc[u] /\ myVisited'[u] = myVisited[u]
    BY <1>1, <1>2
  <2>2. \A c \in Buffers \ {Null} : stack'[c] = stack[c]
    BY <1>2
  <2> QED
    BY <1>2, <1>3, <1>4, <2>1, <2>2, OthersKept
<1> QED
  BY <1>5, <1>6, <1>8, <1>9

\* The walk begins; it is clean if the work list it got was empty.
LEMMA GetsStack ==
  ASSUME WalkInv, NEW t \in Threads, GetStack(t)
  PROVE  CallTypes' /\ CachedEmpty' /\ \A u \in Threads : Call(u)'
<1>1. PICK b \in IF stackCache = {} THEN {Unused(myStack)} ELSE stackCache :
        /\ stackCache' = stackCache \ {b}
        /\ stack' = [stack EXCEPT ![b] = IF b \in stackCache THEN @ ELSE <<>>]
        /\ myStack' = [myStack EXCEPT ![t] = b]
        /\ clean' = [clean EXCEPT ![t] = stack'[b] = <<>>]
  BY DEF GetStack
<1>2. /\ pc' = [pc EXCEPT ![t] = "walk"] /\ pc \in [Threads -> Steps] /\ pc[t] = "stack"
      /\ myStack \in [Threads -> Buffers \cup {Null}]
      /\ UNCHANGED <<visitedCache, visited, root, cur, myVisited, result, threw>>
  BY DEF GetStack, Goto, WalkInv, Inv, Types
<1>3. b \in Buffers /\ b # Null /\ \A u \in Threads : myStack[u] # b
  <2>1. CASE stackCache = {}
    BY <1>1, <1>2, <2>1, UnusedExists, BuffersAssumption
  <2>2. CASE stackCache # {}
    BY <1>1, <2>2, BuffersAssumption DEF WalkInv, Inv, Types, OneOwner
  <2> QED
    BY <2>1, <2>2
<1>4. <<>> \in Seq(Objects \cup {Null})
  OBVIOUS
<1>5. /\ stack' \in [Buffers -> Seq(Objects \cup {Null})]
      /\ \A c \in Buffers \ {b} : stack'[c] = stack[c]
  BY <1>1, <1>3, <1>4 DEF WalkInv, CallTypes
<1>6. clean' \in [Threads -> BOOLEAN] /\ (clean'[t] => stack'[b] = <<>>)
  <2>1. (stack'[b] = <<>>) \in BOOLEAN /\ clean \in [Threads -> BOOLEAN]
    BY DEF WalkInv, CallTypes
  <2> QED
    BY <1>1, <2>1
<1>7. CallTypes' /\ CachedEmpty'
  BY <1>2, <1>5, <1>6 DEF WalkInv, CallTypes, CachedEmpty
<1>8. myStack'[t] = b /\ pc'[t] = "walk"
  BY <1>1, <1>2
<1>9. /\ Call(t) /\ root[t] \in Objects /\ cur[t] = root[t] /\ result[t] = 0
      /\ visited[myVisited[t]] = {}
  BY <1>2 DEF WalkInv, Call, Before
<1>10. clean'[t] => WalkFrom(root'[t], visited'[myVisited'[t]],
                             {cur'[t]} \cup Range(stack'[myStack'[t]]), result'[t])
  <2> SUFFICES ASSUME clean'[t]
               PROVE  WalkFrom(root'[t], visited'[myVisited'[t]],
                               {cur'[t]} \cup Range(stack'[myStack'[t]]), result'[t])
    OBVIOUS
  <2>1. Range(stack'[b]) = {}
    BY <1>4, <1>6, RangeEmpty
  <2>2. {cur[t]} \cup Range(stack'[b]) = {root[t]}
    BY <2>1, <1>9
  <2> QED
    BY <2>2, <1>2, <1>8, <1>9, WalkBegins
<1>11. Call(t)'
  BY <1>2, <1>8, <1>9, <1>10 DEF Call, Walking, Over, Before
<1>12. \A u \in Threads \ {t} : Call(u)'
  <2>1. \A u \in Threads \ {t} : pc'[u] = pc[u] /\ myStack'[u] = myStack[u] /\ clean'[u] = clean[u]
    BY <1>1, <1>2 DEF WalkInv, CallTypes
  <2>2. \A c \in Buffers \ {Null} : visited'[c] = visited[c]
    BY <1>2
  <2> QED
    BY <1>2, <1>3, <1>5, <2>1, <2>2, OthersKept
<1> QED
  BY <1>7, <1>11, <1>12

-----------------------------------------------------------------------------
\* The steps of the walk, and of the buffers' return.

\* Who is in a walk holds both buffers, and nobody else holds them.
LEMMA HoldsBoth ==
  ASSUME WalkInv, NEW t \in Threads, pc[t] = "walk"
  PROVE  /\ myVisited[t] \in Buffers /\ myStack[t] \in Buffers
         /\ myVisited[t] \notin visitedCache
         /\ \A u \in Threads \ {t} : myVisited[u] # myVisited[t] /\ myStack[u] # myStack[t]
         /\ root[t] \in Objects /\ cur[t] \in Objects \cup {Null}
  BY DEF WalkInv, Inv, Types, Holds, OneOwner, Call, CallTypes

\* The end of a step of the walk: the next object, or the end of the call's walk.
LEMMA WalkGoesOn ==
  ASSUME IsFiniteSet(Objects), WalkInv, NEW t \in Threads, pc[t] = "walk",
         NEW pushed \in Seq(Objects \cup {Null}), Continue(t, pushed),
         UNCHANGED <<root, myVisited, myStack, clean, threw>>,
         visited' \in [Buffers -> SUBSET Objects], result' \in [Threads -> Nat],
         \A u \in Threads \ {t} : result'[u] = result[u],
         \A c \in Buffers \ {myVisited[t]} : visited'[c] = visited[c],
         visitedCache' = visitedCache,
         clean[t] => WalkFrom(root[t], visited'[myVisited[t]],
                              Range(stack[myStack[t]]) \cup Range(pushed), result'[t])
  PROVE  CallTypes' /\ CachedEmpty' /\ \A u \in Threads : Call(u)'
<1>1. /\ myVisited[t] \in Buffers /\ myStack[t] \in Buffers
      /\ myVisited[t] \notin visitedCache
      /\ \A u \in Threads \ {t} : myVisited[u] # myVisited[t] /\ myStack[u] # myStack[t]
      /\ root[t] \in Objects
  BY HoldsBoth
<1>2. CallTypes /\ Types /\ CachedEmpty
  BY DEF WalkInv, Inv
<1>3. /\ stack' \in [Buffers -> Seq(Objects \cup {Null})]
      /\ cur' \in [Threads -> Objects \cup {Null}]
      /\ \A u \in Threads \ {t} : cur'[u] = cur[u] /\ pc'[u] = pc[u]
      /\ \A c \in Buffers \ {myStack[t]} : stack'[c] = stack[c]
      /\ \/ pc'[t] = "cacheVisited" /\ Range(stack[myStack[t]]) \cup Range(pushed) = {}
         \/ /\ pc'[t] = "walk"
            /\ {cur'[t]} \cup Range(stack'[myStack[t]])
                 = Range(stack[myStack[t]]) \cup Range(pushed)
  BY <1>1, <1>2, ContinueTakes
<1>4. CallTypes'
  BY <1>2, <1>3 DEF CallTypes
<1>5. CachedEmpty'
  BY <1>1, <1>2 DEF CachedEmpty, Types
<1>6. \A u \in Threads \ {t} : Call(u)'
  <2>1. \A u \in Threads \ {t} :
          /\ (myVisited[u] = myVisited[t] => myVisited[t] = Null)
          /\ (myStack[u] = myStack[t] => myStack[t] = Null)
    BY <1>1
  <2> QED
    BY <1>3, <2>1, OthersKept
<1>7. Call(t)'
  <2>1. CASE pc'[t] = "cacheVisited" /\ Range(stack[myStack[t]]) \cup Range(pushed) = {}
    <3>1. clean[t] => /\ result'[t] >= Total(Reach(root[t]) \ Strings)
                      /\ result'[t] <= Total(Reach(root[t]))
      BY <1>1, <2>1, WalkEndsExact
    <3>2. clean'[t] => Exact(t)'
      BY <3>1 DEF Exact
    <3> QED
      BY <1>1, <2>1, <3>2 DEF Call, Before
  <2>2. CASE /\ pc'[t] = "walk"
             /\ {cur'[t]} \cup Range(stack'[myStack[t]])
                  = Range(stack[myStack[t]]) \cup Range(pushed)
    <3>1. clean'[t] => Walking(t)'
      BY <2>2 DEF Walking
    <3> QED
      BY <1>1, <2>2, <3>1 DEF Call, Over, Before
  <2> QED
    BY <1>3, <2>1, <2>2
<1> QED
  BY <1>4, <1>5, <1>6, <1>7

\* A skipped object: nothing is counted.
LEMMA SkipsObject ==
  ASSUME IsFiniteSet(Objects), WalkInv, NEW t \in Threads, SkipObject(t)
  PROVE  CallTypes' /\ CachedEmpty' /\ \A u \in Threads : Call(u)'
<1>1. /\ pc[t] = "walk" /\ Continue(t, <<>>) /\ Skip(t, cur[t])
      /\ UNCHANGED <<visitedCache, visited, root, myVisited, myStack, result, clean, threw>>
  BY DEF SkipObject
<1>2. <<>> \in Seq(Objects \cup {Null}) /\ Range(<<>>) = {}
  <2>1. <<>> \in Seq(Objects \cup {Null})
    OBVIOUS
  <2>2. Range(<<>>) = {}
    BY <2>1, RangeEmpty
  <2> QED
    BY <2>1, <2>2
<1>3. cur[t] \in visited[myVisited[t]] \cup Strings \cup {Null}
  BY <1>1 DEF Skip, SkipString
<1>4. root[t] # Null
  BY <1>1, HoldsBoth, HeapAssumption
<1>5. clean[t] => WalkFrom(root[t], visited[myVisited[t]], Range(stack[myStack[t]]), result[t])
  <2> SUFFICES ASSUME clean[t]
               PROVE  WalkFrom(root[t], visited[myVisited[t]], Range(stack[myStack[t]]), result[t])
    OBVIOUS
  <2>1. WalkFrom(root[t], visited[myVisited[t]], {cur[t]} \cup Range(stack[myStack[t]]), result[t])
    BY <1>1 DEF WalkInv, Call, Walking
  <2> QED
    BY <2>1, <1>3, <1>4, WalkSkips
<1>6. clean[t] => WalkFrom(root[t], visited'[myVisited[t]],
                           Range(stack[myStack[t]]) \cup Range(<<>>), result'[t])
  BY <1>1, <1>2, <1>5
<1>7. visited' \in [Buffers -> SUBSET Objects] /\ result' \in [Threads -> Nat]
  BY <1>1 DEF WalkInv, CallTypes
<1> QED
  BY <1>1, <1>2, <1>6, <1>7, WalkGoesOn

\* A visited object: its size is added and its fields are pushed.
LEMMA VisitsObject ==
  ASSUME IsFiniteSet(Objects), WalkInv, NEW t \in Threads, VisitObject(t)
  PROVE  CallTypes' /\ CachedEmpty' /\ \A u \in Threads : Call(u)'
<1>1. /\ pc[t] = "walk" /\ Continue(t, Fields[cur[t]]) /\ ~Skip(t, cur[t])
      /\ visited' = [visited EXCEPT ![myVisited[t]] = @ \cup {cur[t]}]
      /\ result' = [result EXCEPT ![t] = @ + Size[cur[t]]]
      /\ UNCHANGED <<visitedCache, root, myVisited, myStack, clean, threw>>
  BY DEF VisitObject, Visit, ObjectSize
<1>2. /\ myVisited[t] \in Buffers /\ root[t] \in Objects /\ cur[t] \in Objects \cup {Null}
      /\ visited \in [Buffers -> SUBSET Objects] /\ result \in [Threads -> Nat]
  BY <1>1, HoldsBoth DEF WalkInv, CallTypes
<1>3. cur[t] \in Objects \ visited[myVisited[t]]
  BY <1>1, <1>2 DEF Skip
<1>4. Fields[cur[t]] \in Seq(Objects \cup {Null}) /\ Size[cur[t]] \in Nat
  BY <1>3, HeapAssumption
<1>5. /\ visited' \in [Buffers -> SUBSET Objects]
      /\ visited'[myVisited[t]] = visited[myVisited[t]] \cup {cur[t]}
      /\ \A c \in Buffers \ {myVisited[t]} : visited'[c] = visited[c]
  BY <1>1, <1>2, <1>3
<1>6. /\ result' \in [Threads -> Nat] /\ result'[t] = result[t] + Size[cur[t]]
      /\ \A u \in Threads \ {t} : result'[u] = result[u]
  BY <1>1, <1>2, <1>4
<1>7. clean[t] => WalkFrom(root[t], visited[myVisited[t]] \cup {cur[t]},
                           Range(stack[myStack[t]]) \cup Range(Fields[cur[t]]),
                           result[t] + Size[cur[t]])
  <2> SUFFICES ASSUME clean[t]
               PROVE  WalkFrom(root[t], visited[myVisited[t]] \cup {cur[t]},
                               Range(stack[myStack[t]]) \cup Range(Fields[cur[t]]),
                               result[t] + Size[cur[t]])
    OBVIOUS
  <2>1. WalkFrom(root[t], visited[myVisited[t]], {cur[t]} \cup Range(stack[myStack[t]]), result[t])
    BY <1>1 DEF WalkInv, Call, Walking
  <2> QED
    BY <2>1, <1>2, <1>3, WalkVisits
<1>8. clean[t] => WalkFrom(root[t], visited'[myVisited[t]],
                           Range(stack[myStack[t]]) \cup Range(Fields[cur[t]]), result'[t])
  BY <1>5, <1>6, <1>7
<1> QED
  BY <1>1, <1>4, <1>5, <1>6, <1>8, WalkGoesOn

\* A walk that throws is over, and is marked.
LEMMA VisitFails ==
  ASSUME WalkInv, NEW t \in Threads, VisitThrows(t)
  PROVE  CallTypes' /\ CachedEmpty' /\ \A u \in Threads : Call(u)'
<1>1. PICK n \in Nat :
        /\ n <= Len(Fields[cur[t]])
        /\ stack' = [stack EXCEPT ![myStack[t]] = @ \o SubSeq(Fields[cur[t]], 1, n)]
  <2>1. ~Skip(t, cur[t]) /\ pc[t] = "walk"
    BY DEF VisitThrows, Visit
  <2>2. cur[t] \in Objects
    BY <2>1, HoldsBoth DEF Skip
  <2>3. Len(Fields[cur[t]]) \in Nat
    BY <2>2, HeapAssumption
  <2>4. PICK n \in 0..(IF isLoad THEN Len(Fields[cur[t]]) ELSE 0) :
          stack' = [stack EXCEPT ![myStack[t]] = @ \o SubSeq(Fields[cur[t]], 1, n)]
    BY DEF VisitThrows
  <2>5. n \in Nat /\ n <= Len(Fields[cur[t]])
    BY <2>3, <2>4
  <2> QED
    BY <2>4, <2>5
<1>2. /\ pc[t] = "walk" /\ ~Skip(t, cur[t]) /\ pc' = [pc EXCEPT ![t] = "cacheVisited"]
      /\ visited' = [visited EXCEPT ![myVisited[t]] = @ \cup {cur[t]}]
      /\ threw' = [threw EXCEPT ![t] = TRUE]
      /\ UNCHANGED <<visitedCache, root, cur, result, myVisited, myStack, clean>>
  BY DEF VisitThrows, Visit, Goto
<1>3. /\ myVisited[t] \in Buffers /\ myStack[t] \in Buffers /\ root[t] \in Objects
      /\ cur[t] \in Objects \cup {Null} /\ myVisited[t] \notin visitedCache
      /\ \A u \in Threads \ {t} : myVisited[u] # myVisited[t] /\ myStack[u] # myStack[t]
  BY <1>2, HoldsBoth
<1>4. cur[t] \in Objects
  BY <1>2, <1>3 DEF Skip
<1>5. CallTypes /\ CachedEmpty /\ Types
  BY DEF WalkInv, Inv
<1>6. /\ visited' \in [Buffers -> SUBSET Objects]
      /\ \A c \in Buffers \ {myVisited[t]} : visited'[c] = visited[c]
  BY <1>2, <1>3, <1>4, <1>5 DEF CallTypes
<1>7. /\ stack' \in [Buffers -> Seq(Objects \cup {Null})]
      /\ \A c \in Buffers \ {myStack[t]} : stack'[c] = stack[c]
  <2>1. Fields[cur[t]] \in Seq(Objects \cup {Null})
    BY <1>4, HeapAssumption
  <2>2. SubSeq(Fields[cur[t]], 1, n) \in Seq(Objects \cup {Null})
    BY <1>1, <2>1
  <2>3. stack[myStack[t]] \o SubSeq(Fields[cur[t]], 1, n) \in Seq(Objects \cup {Null})
    BY <1>3, <1>5, <2>2 DEF CallTypes
  <2> QED
    BY <1>1, <1>3, <1>5, <2>3 DEF CallTypes
<1>8. CallTypes' /\ CachedEmpty'
  BY <1>2, <1>3, <1>5, <1>6, <1>7 DEF CallTypes, CachedEmpty, Types
<1>9. Call(t)'
  <2>1. pc'[t] = "cacheVisited" /\ threw'[t]
    BY <1>2, <1>5 DEF Types, CallTypes
  <2> QED
    BY <1>2, <1>3, <2>1 DEF Call, Before
<1>10. \A u \in Threads \ {t} : Call(u)'
  <2>1. \A u \in Threads \ {t} : pc'[u] = pc[u] /\ threw'[u] = threw[u]
    BY <1>2, <1>5 DEF Types, CallTypes
  <2>2. \A u \in Threads \ {t} :
          /\ (myVisited[u] = myVisited[t] => myVisited[t] = Null)
          /\ (myStack[u] = myStack[t] => myStack[t] = Null)
    BY <1>3
  <2> QED
    BY <1>2, <1>6, <1>7, <2>1, <2>2, OthersKept
<1> QED
  BY <1>8, <1>9, <1>10

\* The visited map is cleared before it is put back.
LEMMA CachesVisited ==
  ASSUME WalkInv, NEW t \in Threads, CacheVisited(t)
  PROVE  CallTypes' /\ CachedEmpty' /\ \A u \in Threads : Call(u)'
<1>1. /\ pc[t] = "cacheVisited" /\ pc' = [pc EXCEPT ![t] = "cacheStack"]
      /\ visited' = [visited EXCEPT ![myVisited[t]] = {}]
      /\ visitedCache' \subseteq visitedCache \cup {myVisited[t]}
      /\ myVisited' = [myVisited EXCEPT ![t] = Null]
      /\ UNCHANGED <<stack, root, cur, myStack, result, clean, threw>>
  BY DEF CacheVisited, Goto, Emptied
<1>2. /\ myVisited[t] \in Buffers
      /\ \A u \in Threads \ {t} : myVisited[u] # myVisited[t]
      /\ root[t] \in Objects
  BY <1>1 DEF WalkInv, Inv, Types, Holds, OneOwner, Call
<1>3. CallTypes /\ CachedEmpty /\ Types /\ Call(t)
  BY DEF WalkInv, Inv
<1>4. /\ visited' \in [Buffers -> SUBSET Objects] /\ visited'[myVisited[t]] = {}
      /\ \A c \in Buffers \ {myVisited[t]} : visited'[c] = visited[c]
  BY <1>1, <1>2, <1>3 DEF CallTypes
<1>5. CallTypes' /\ CachedEmpty'
  BY <1>1, <1>3, <1>4 DEF CallTypes, CachedEmpty, Types
<1>6. Call(t)'
  <2>1. pc'[t] = "cacheStack"
    BY <1>1, <1>3 DEF Types
  <2>2. clean'[t] /\ ~threw'[t] => Exact(t)'
    BY <1>1, <1>3 DEF Call, Over, Exact
  <2> QED
    BY <1>1, <1>2, <2>1, <2>2 DEF Call, Before
<1>7. \A u \in Threads \ {t} : Call(u)'
  <2>1. \A u \in Threads \ {t} : pc'[u] = pc[u] /\ myVisited'[u] = myVisited[u]
    BY <1>1, <1>3 DEF Types
  <2>2. \A c \in Buffers \ {Null} : stack'[c] = stack[c]
    BY <1>1
  <2> QED
    BY <1>1, <1>2, <1>4, <2>1, <2>2, OthersKept
<1> QED
  BY <1>5, <1>6, <1>7

\* The work list goes back, and the call is over.
LEMMA CachesStack ==
  ASSUME WalkInv, NEW t \in Threads, CacheStack(t)
  PROVE  CallTypes' /\ CachedEmpty' /\ \A u \in Threads : Call(u)'
<1>1. /\ pc' = [pc EXCEPT ![t] = "idle"]
      /\ root' = [root EXCEPT ![t] = Null] /\ cur' = [cur EXCEPT ![t] = Null]
      /\ myStack' = [myStack EXCEPT ![t] = Null] /\ result' = [result EXCEPT ![t] = 0]
      /\ clean' = [clean EXCEPT ![t] = TRUE] /\ threw' = [threw EXCEPT ![t] = FALSE]
      /\ UNCHANGED <<visitedCache, visited, stack, myVisited>>
  BY DEF CacheStack, Goto
<1>2. CallTypes /\ CachedEmpty /\ Types
  BY DEF WalkInv, Inv
<1>3. CallTypes' /\ CachedEmpty'
  BY <1>1, <1>2 DEF CallTypes, CachedEmpty
<1>4. Call(t)'
  BY <1>1, <1>2 DEF Types, CallTypes, Call, Over, Before
<1>5. \A u \in Threads \ {t} :
        /\ pc'[u] = pc[u] /\ root'[u] = root[u] /\ cur'[u] = cur[u] /\ result'[u] = result[u]
        /\ clean'[u] = clean[u] /\ threw'[u] = threw[u] /\ myStack'[u] = myStack[u]
  BY <1>1, <1>2 DEF Types, CallTypes
<1>6. \A c \in Buffers : stack'[c] = stack[c] /\ visited'[c] = visited[c]
  BY <1>1
<1>7. \A u \in Threads \ {t} : Call(u)'
  BY <1>1, <1>5, <1>6, OthersKept
<1> QED
  BY <1>3, <1>4, <1>7

\* Every step keeps WalkInv.
LEMMA WalkStep == ASSUME IsFiniteSet(Objects) PROVE WalkInv /\ [Next]_vars => WalkInv'
<1> SUFFICES ASSUME WalkInv, [Next]_vars PROVE WalkInv'
  OBVIOUS
<1>1. Inv'
  BY NextInv DEF WalkInv
<1> DEFINE Kept == CallTypes' /\ CachedEmpty' /\ \A u \in Threads : Call(u)'
<1>2. ASSUME NEW t \in Threads, Step(t) PROVE Kept
  <2>1. CASE TestLoad(t)
    <3>1. \E p \in {"lock", "visited"} : Goto(t, p)
      BY <2>1 DEF TestLoad
    <3> QED
      BY <2>1, <3>1, BeforeStep DEF TestLoad, Before
  <2>2. CASE Lock(t)
    <3>1. \E p \in {"init", "visited"} : Goto(t, p)
      BY <2>2 DEF Lock
    <3> QED
      BY <2>2, <3>1, BeforeStep DEF Lock, Before
  <2>3. CASE Attach(t) \/ LoadLibrary(t) \/ InitFails(t)
    <3>1. \E p \in {"link", "visited"} : Goto(t, p)
      BY <2>3 DEF Attach, LoadLibrary, InitFails
    <3> QED
      BY <2>3, <3>1, BeforeStep DEF Attach, LoadLibrary, InitFails, Before
  <2>4. CASE GetVisited(t)
    BY <2>4, GetsVisited
  <2>5. CASE GetStack(t)
    BY <2>5, GetsStack
  <2>6. CASE Walk(t)
    BY <2>6, SkipsObject, VisitsObject, VisitFails DEF Walk
  <2>7. CASE CacheVisited(t)
    BY <2>7, CachesVisited
  <2>8. CASE CacheStack(t)
    BY <2>8, CachesStack
  <2> QED
    BY <1>2, <2>1, <2>2, <2>3, <2>4, <2>5, <2>6, <2>7, <2>8 DEF Step, LoadAgent
<1>3. ASSUME NEW t \in Threads, NEW o \in Objects, ObjectSizeFull(t, o) PROVE Kept
  BY <1>3, CallBegins
<1>4. ASSUME UNCHANGED vars PROVE Kept
  <2>1. CallTypes' /\ CachedEmpty'
    BY <1>4 DEF vars, bufferVars, callVars, WalkInv, CallTypes, CachedEmpty
  <2>2. ASSUME NEW u \in Threads PROVE Call(u)'
    BY <1>4, OtherCall DEF vars, bufferVars, callVars, WalkInv
  <2> QED
    BY <2>1, <2>2
<1> HIDE DEF Kept
<1>5. Kept
  BY <1>2, <1>3, <1>4 DEF Next
<1> USE DEF Kept
<1> QED
  BY <1>1, <1>5 DEF WalkInv

\* The walk's invariant holds when nothing runs yet.
LEMMA WalkInit == Init => WalkInv
<1> SUFFICES ASSUME Init PROVE WalkInv
  OBVIOUS
<1>1. Inv
  BY InitInv
<1>2. <<>> \in Seq(Objects \cup {Null})
  OBVIOUS
<1>3. CallTypes /\ CachedEmpty
  BY <1>2 DEF Init, CallTypes, CachedEmpty
<1>4. \A t \in Threads : Call(t)
  BY DEF Init, Call, Over, Before
<1> QED
  BY <1>1, <1>3, <1>4 DEF WalkInv

\* On every finite heap, cyclic or shared, and whatever other threads do or
\* throw: the answer of a walk that began with an empty work list and did not
\* throw is the size of what its root reaches, every object counted once
\* (ObjectCalculator.fullSizeOf, internalSizeOf, skipObject).
THEOREM WalkIsExact == ASSUME IsFiniteSet(Objects) PROVE Spec => []ExactFromEmpty
<1>1. WalkInv => ExactFromEmpty
  BY DEF WalkInv, Call, ExactFromEmpty
<1> QED
  BY <1>1, WalkInit, WalkStep, PTL DEF Spec
=============================================================================
