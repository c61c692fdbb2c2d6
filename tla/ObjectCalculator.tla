-------------------------- MODULE ObjectCalculator --------------------------
(* Sizing of an object graph (ObjectCalculator.kt): threads of the dump     *)
(* pool load the JVMTI agent once, then walk the graph of an object with a  *)
(* work list and a visited map taken from two caches and put back into them.*)
(*                                                                          *)
(* A work list or visited map is a numbered buffer; one that is neither     *)
(* cached nor in use is garbage, and a new one may take its number.         *)
EXTENDS Integers, Sequences, FiniteSets, FiniteSetsExt

CONSTANTS Objects, Strings,
          Fields,    \* what an object pushes: its non-null fields or its elements
          Size,      \* getObjectSize
          Content,   \* the characters of a string
          Interned,  \* strings the application interned before
          Threads,   \* the threads of the pool that size objects
          Buffers,   \* one more than the threads: all that can be alive at once
          MaxLeft,   \* bound: the length a failing walk may leave its work list at
          MaxAgents, \* bound: agents attached in one process
          Null

ASSUME HeapAssumption ==
  /\ Fields \in [Objects -> Seq(Objects \cup {Null})] /\ Size \in [Objects -> Nat]
  /\ Strings \subseteq Objects /\ Interned \subseteq Strings /\ Null \notin Objects
  /\ \A s \in Strings : Fields[s] = <<>> /\ s \in DOMAIN Content
  /\ \A s, u \in Interned : Content[s] = Content[u] => s = u
ASSUME BuffersAssumption ==
  /\ Null \notin Buffers \cup Threads /\ MaxLeft \in Nat /\ MaxAgents \in Nat
  /\ IsFiniteSet(Buffers) /\ IsFiniteSet(Threads) /\ Cardinality(Buffers) > Cardinality(Threads)

VARIABLES
  isLoad,         \* init has succeeded
  attached,       \* agents attached to the VM
  failed,         \* calls of init that threw after they had attached one (history)
  lock,           \* the holder of the monitor of ins
  pool,           \* the strings in the VM's intern table
  visitedCache, stackCache,
  visited, stack, \* the contents of each buffer
  pc, root, cur,  \* per thread: where it is, the object to size, the one at hand
  myVisited, myStack,
  result,
  clean, threw    \* per thread: it got an empty work list; the walk threw (history)

agentVars  == <<isLoad, attached, failed, lock>>
bufferVars == <<visitedCache, stackCache, visited, stack>>
callVars   == <<root, cur, myVisited, myStack, result, clean, threw>>
vars == <<agentVars, pool, bufferVars, pc, callVars>>

Init ==
  /\ isLoad = FALSE /\ attached = 0 /\ failed = 0 /\ lock = Null /\ pool = Interned
  /\ visitedCache = {} /\ stackCache = {}
  /\ visited = [b \in Buffers |-> {}] /\ stack = [b \in Buffers |-> <<>>]
  /\ pc = [t \in Threads |-> "idle"]
  /\ root = [t \in Threads |-> Null] /\ cur = [t \in Threads |-> Null]
  /\ myVisited = [t \in Threads |-> Null] /\ myStack = [t \in Threads |-> Null]
  /\ result = [t \in Threads |-> 0]
  /\ clean = [t \in Threads |-> TRUE] /\ threw = [t \in Threads |-> FALSE]

Goto(t, p) == pc' = [pc EXCEPT ![t] = p]

\* A buffer for a new LinkedList or IdentityHashMap.
SharedBuffer(mine) == CHOOSE b \in Buffers : TRUE  \* a slip
Unused(mine) == CHOOSE b \in Buffers : \A t \in Threads : mine[t] # b

----------------------------------------------------------------------------
\* objectSizeFull(obj) on Android P or later.
ObjectSizeFull(t, o) ==
  /\ pc[t] = "idle" /\ Goto(t, "load")
  /\ root' = [root EXCEPT ![t] = o] /\ cur' = [cur EXCEPT ![t] = o]
  /\ UNCHANGED <<agentVars, pool, bufferVars, myVisited, myStack, result, clean, threw>>

\* The first test of isLoad, a plain field: a thread may still see it false.
TestLoad(t) ==
  /\ pc[t] = "load"
  /\ Goto(t, "lock") \/ (isLoad /\ Goto(t, "visited"))
  /\ UNCHANGED <<agentVars, pool, bufferVars, callVars>>

\* The second test, under the monitor.
NoSecondTest == FALSE  \* a slip
SecondTest == isLoad
Lock(t) ==
  /\ pc[t] = "lock" /\ lock = Null
  /\ IF SecondTest THEN Goto(t, "visited") /\ UNCHANGED lock
                   ELSE Goto(t, "init") /\ lock' = t
  /\ UNCHANGED <<isLoad, attached, failed, pool, bufferVars, callVars>>

\* JVMTIHelper.init copies the library and attaches the copy as an agent; it
\* then loads the library, and only then isLoad is set.
Attach(t) ==
  /\ pc[t] = "init" /\ Goto(t, "link")
  /\ attached < MaxAgents /\ attached' = attached + 1
  /\ UNCHANGED <<isLoad, failed, lock, pool, bufferVars, callVars>>

LoadLibrary(t) ==
  /\ pc[t] = "link" /\ Goto(t, "visited")
  /\ isLoad' = TRUE /\ lock' = Null
  /\ UNCHANGED <<attached, failed, pool, bufferVars, callVars>>

\* Whatever init throws, before it attached or after, is swallowed: an agent that
\* is attached stays, and the next call of objectSizeFull attaches another.
InitFails(t) ==
  /\ pc[t] \in {"init", "link"} /\ Goto(t, "visited")
  /\ lock' = Null
  /\ failed' = IF pc[t] = "link" THEN failed + 1 ELSE failed
  /\ UNCHANGED <<isLoad, attached, pool, bufferVars, callVars>>

GetVisited(t) ==
  /\ pc[t] = "visited" /\ Goto(t, "stack")
  /\ \E b \in IF visitedCache = {} THEN {Unused(myVisited)} ELSE visitedCache :
       /\ visitedCache' = visitedCache \ {b}
       /\ visited' = [visited EXCEPT ![b] = IF b \in visitedCache THEN @ ELSE {}]
       /\ myVisited' = [myVisited EXCEPT ![t] = b]
  /\ UNCHANGED <<agentVars, pool, stackCache, stack, root, cur, myStack, result, clean, threw>>

GetStack(t) ==
  /\ pc[t] = "stack" /\ Goto(t, "walk")
  /\ \E b \in IF stackCache = {} THEN {Unused(myStack)} ELSE stackCache :
       /\ stackCache' = stackCache \ {b}
       /\ stack' = [stack EXCEPT ![b] = IF b \in stackCache THEN @ ELSE <<>>]
       /\ myStack' = [myStack EXCEPT ![t] = b]
       /\ clean' = [clean EXCEPT ![t] = stack'[b] = <<>>]
  /\ UNCHANGED <<agentVars, pool, visitedCache, visited, root, cur, myVisited, result, threw>>

----------------------------------------------------------------------------
(* internalSizeOf(cur), and the poll of the next object.                    *)

\* obj === obj.intern(): a string no equal of which is interned is entered
\* into the table itself.
SkipString(o) == o \in Strings /\ \A s \in pool \ {o} : Content[s] # Content[o]
Skip(t, o) == SkipString(o) \/ o = Null \/ o \in visited[myVisited[t]]

\* pollFirst, and what getObjectSize answers; peekFirst would leave the object
\* on the list.
Peek(l) == l
Poll(l) == Tail(l)
ObjectSize(o) == Size[o]

\* The walk goes on with what is on the work list after `pushed` was added.
Continue(t, pushed) ==
  LET rest == stack[myStack[t]] \o pushed
  IN IF rest = <<>> THEN /\ Goto(t, "cacheVisited")
                         /\ UNCHANGED <<stack, cur>>
     ELSE /\ cur' = [cur EXCEPT ![t] = Head(rest)]
          /\ stack' = [stack EXCEPT ![myStack[t]] = Poll(rest)]
          /\ UNCHANGED pc

SkipObject(t) ==
  /\ pc[t] = "walk" /\ Skip(t, cur[t]) /\ Continue(t, <<>>)
  /\ pool' = IF SkipString(cur[t]) THEN pool \cup {cur[t]} ELSE pool
  /\ UNCHANGED <<agentVars, visitedCache, stackCache, visited, root, myVisited, myStack,
                 result, clean, threw>>

Visit(t) ==
  /\ pc[t] = "walk" /\ ~Skip(t, cur[t])
  /\ visited' = [visited EXCEPT ![myVisited[t]] = @ \cup {cur[t]}]
  /\ UNCHANGED <<agentVars, pool, visitedCache, stackCache, root, myVisited, myStack, clean>>

VisitObject(t) ==
  /\ Visit(t) /\ isLoad /\ Continue(t, Fields[cur[t]])
  /\ result' = [result EXCEPT ![t] = @ + ObjectSize(cur[t])]
  /\ UNCHANGED threw

\* getObjectSize is not linked, or reflection throws after pushing some fields:
\* the walk ends there, and what it answers is what it has so far.
VisitThrows(t) ==
  /\ Visit(t) /\ Goto(t, "cacheVisited")
  /\ threw' = [threw EXCEPT ![t] = TRUE]
  /\ \E n \in 0..(IF isLoad THEN Len(Fields[cur[t]]) ELSE 0) :
       /\ Len(stack[myStack[t]]) + n <= MaxLeft
       /\ stack' = [stack EXCEPT ![myStack[t]] = @ \o SubSeq(Fields[cur[t]], 1, n)]
  /\ UNCHANGED <<cur, result>>

----------------------------------------------------------------------------
\* visited.clear(), and contains() by equality: the cleared maps are all equal,
\* so a cache that holds one takes no other.  Its limit of 10 is never met.
KeepMarks(b) == visited[b]  \* a slip
Emptied(b) == {}
Contained(b) == \E c \in visitedCache : visited[c] = {}
CacheVisited(t) ==
  /\ pc[t] = "cacheVisited" /\ Goto(t, "cacheStack")
  /\ visited' = [visited EXCEPT ![myVisited[t]] = Emptied(myVisited[t])]
  /\ visitedCache' = IF Contained(myVisited[t]) THEN visitedCache
                     ELSE visitedCache \cup {myVisited[t]}
  /\ myVisited' = [myVisited EXCEPT ![t] = Null]
  /\ UNCHANGED <<agentVars, pool, stackCache, stack, root, cur, myStack, result, clean, threw>>

\* stackCache.clear(), where visited.clear() has its counterpart: the cache is
\* emptied and not the work list.
CacheStack(t) ==
  /\ pc[t] = "cacheStack" /\ Goto(t, "idle")
  /\ stackCache' = {myStack[t]}
  /\ myStack' = [myStack EXCEPT ![t] = Null]
  /\ root' = [root EXCEPT ![t] = Null] /\ cur' = [cur EXCEPT ![t] = Null]
  /\ result' = [result EXCEPT ![t] = 0]
  /\ clean' = [clean EXCEPT ![t] = TRUE] /\ threw' = [threw EXCEPT ![t] = FALSE]
  /\ UNCHANGED <<agentVars, pool, visitedCache, visited, stack, myVisited>>

----------------------------------------------------------------------------
Walk(t) == SkipObject(t) \/ VisitObject(t) \/ VisitThrows(t)
LoadAgent(t) == TestLoad(t) \/ Lock(t) \/ Attach(t) \/ LoadLibrary(t) \/ InitFails(t)
Step(t) == LoadAgent(t) \/ GetVisited(t) \/ GetStack(t) \/ Walk(t) \/ CacheVisited(t) \/ CacheStack(t)
Next == \E t \in Threads : Step(t) \/ \E o \in Objects : ObjectSizeFull(t, o)

Spec == Init /\ [][Next]_vars

\* Every thread goes on with the call it is in.
FairSpec == Spec /\ \A t \in Threads : WF_vars(Step(t))

----------------------------------------------------------------------------
\* Every variable holds a value of its kind.
TypeOK ==
  /\ isLoad \in BOOLEAN /\ attached \in Nat /\ failed \in Nat /\ lock \in Threads \cup {Null}
  /\ pool \subseteq Strings
  /\ visitedCache \subseteq Buffers /\ stackCache \subseteq Buffers
  /\ visited \in [Buffers -> SUBSET Objects]
  /\ stack \in [Buffers -> Seq(Objects \cup {Null})]
  /\ pc \in [Threads -> {"idle", "load", "lock", "init", "link", "visited", "stack",
                         "walk", "cacheVisited", "cacheStack"}]
  /\ root \in [Threads -> Objects \cup {Null}] /\ cur \in [Threads -> Objects \cup {Null}]
  /\ myVisited \in [Threads -> Buffers \cup {Null}]
  /\ myStack \in [Threads -> Buffers \cup {Null}]
  /\ result \in [Threads -> Nat]
  /\ clean \in [Threads -> BOOLEAN] /\ threw \in [Threads -> BOOLEAN]

\* Threads race to load the agent, and a load that fails leaves its agent attached
\* for good: every further agent answers such a failure, none is attached beside a
\* load in progress or after one that succeeded.
OneAgentPerLoad == /\ attached <= failed + 1
                   /\ isLoad => attached = failed + 1

\* No two threads walk with the same work list or visited map, and a cached
\* one is in nobody's hands.
OneOwner ==
  \A t \in Threads :
    /\ myVisited[t] # Null => /\ myVisited[t] \notin visitedCache
                              /\ \A u \in Threads : myVisited[u] = myVisited[t] => u = t
    /\ myStack[t] # Null => /\ myStack[t] \notin stackCache
                            /\ \A u \in Threads : myStack[u] = myStack[t] => u = t

\* What is reachable from o, and the sizes of a set of objects.
Closed(S) == \A x \in S : \A i \in DOMAIN Fields[x] : Fields[x][i] \in S \cup {Null}
Reach(o) == {x \in Objects : \A S \in SUBSET Objects : o \in S /\ Closed(S) => x \in S}
Total(S) == MapThenSumSet(LAMBDA x : Size[x], S)

\* The walk of t is over, and its answer is the size of the graph of its root,
\* each object counted once; strings may be skipped.
Over(t) == pc[t] \in {"cacheVisited", "cacheStack"}
Exact(t) == /\ result[t] >= Total(Reach(root[t]) \ Strings)
            /\ result[t] <= Total(Reach(root[t]))

\* A walk that began with an empty work list and did not throw is exact,
\* whatever other threads do.
ExactFromEmpty == \A t \in Threads : Over(t) /\ clean[t] /\ ~threw[t] => Exact(t)

\* "Calculates full size of object iterating over its hierarchy graph"
\* (ObjectCalculator.kt:96): a walk that did not throw is exact.
FullSizeExact == \A t \in Threads : Over(t) /\ ~threw[t] => Exact(t)

\* Every walk ends, on cyclic graphs too.
WalksEnd == \A t \in Threads : (pc[t] = "walk") ~> (pc[t] = "idle")
=============================================================================
