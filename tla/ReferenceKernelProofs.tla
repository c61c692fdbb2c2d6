----------------------- MODULE ReferenceKernelProofs -----------------------
(* Proofs about ReferenceKernel, for every set of offers, dumps, objects,   *)
(* classes and calling threads.                                             *)
EXTENDS ReferenceKernel, TLAPS

\* What the iterators become when what they iterate is resized.
LEMMA OutdateMapType ==
  ASSUME mapIt \in [Threads -> MapIterators], NEW T
  PROVE  /\ OutdateMap(T) \in [Threads -> MapIterators]
         /\ \A u \in Threads :
              /\ OutdateMap(T)[u].todo = mapIt[u].todo /\ OutdateMap(T)[u].at = mapIt[u].at
              /\ OutdateMap(T)[u].stale = (mapIt[u].stale \/ (u \notin T /\ mapIt[u] # NoMapIt))
<1>1. ASSUME NEW u \in Threads
      PROVE  (mapIt[u].stale \/ (u \notin T /\ mapIt[u] # NoMapIt)) \in BOOLEAN
  BY <1>1 DEF MapIterators
<1>2. ASSUME NEW u \in Threads, NEW b \in BOOLEAN
      PROVE  /\ [mapIt[u] EXCEPT !.stale = b] \in MapIterators
             /\ [mapIt[u] EXCEPT !.stale = b].todo = mapIt[u].todo
             /\ [mapIt[u] EXCEPT !.stale = b].at = mapIt[u].at
             /\ [mapIt[u] EXCEPT !.stale = b].stale = b
  BY <1>2 DEF MapIterators
<1>. QED
  BY <1>1, <1>2 DEF OutdateMap

\* The same for the iterators over list l.
LEMMA OutdateListType ==
  ASSUME listIt \in [Threads -> ListIterators], NEW T, NEW l \in Offers
  PROVE  /\ OutdateList(T, l) \in [Threads -> ListIterators]
         /\ \A u \in Threads :
              /\ OutdateList(T, l)[u].of = listIt[u].of
              /\ OutdateList(T, l)[u].left = listIt[u].left
              /\ OutdateList(T, l)[u].last = listIt[u].last
              /\ OutdateList(T, l)[u].stale = (listIt[u].stale \/ (u \notin T /\ listIt[u].of = l))
<1>1. ASSUME NEW u \in Threads
      PROVE  (listIt[u].stale \/ (u \notin T /\ listIt[u].of = l)) \in BOOLEAN
  BY <1>1 DEF ListIterators
<1>2. ASSUME NEW u \in Threads, NEW b \in BOOLEAN
      PROVE  /\ [listIt[u] EXCEPT !.stale = b] \in ListIterators
             /\ [listIt[u] EXCEPT !.stale = b].of = listIt[u].of
             /\ [listIt[u] EXCEPT !.stale = b].left = listIt[u].left
             /\ [listIt[u] EXCEPT !.stale = b].last = listIt[u].last
             /\ [listIt[u] EXCEPT !.stale = b].stale = b
  BY <1>2 DEF ListIterators
<1>. QED
  BY <1>1, <1>2 DEF OutdateList

\* A thread that iterates nothing has nothing that can go stale.
LEMMA OthersCurrent ==
  ASSUME mapIt \in [Threads -> MapIterators], listIt \in [Threads -> ListIterators],
         NEW T, NEW l \in Offers, NEW u \in Threads
  PROVE  /\ mapIt[u] = NoMapIt => OutdateMap(T)[u] = NoMapIt
         /\ listIt[u] = NoListIt => OutdateList(T, l)[u] = NoListIt
<1>1. ASSUME mapIt[u] = NoMapIt PROVE OutdateMap(T)[u] = NoMapIt
  <2>1. PICK m \in MapIterators : m = OutdateMap(T)[u]
    BY OutdateMapType
  <2>a. mapIt[u].todo = {} /\ mapIt[u].at = None /\ mapIt[u].stale = FALSE
    BY <1>1 DEF NoMapIt
  <2>b. m.todo = {} /\ m.at = None /\ m.stale = (mapIt[u].stale \/ (u \notin T /\ mapIt[u] # NoMapIt))
    BY <2>a, <2>1, OutdateMapType
  <2>2. m.todo = {} /\ m.at = None /\ m.stale = FALSE
    BY <1>1, <2>a, <2>b, Zenon
  <2>3. m = [todo |-> m.todo, at |-> m.at, stale |-> m.stale]
    BY DEF MapIterators
  <2>. QED
    BY <2>1, <2>2, <2>3 DEF NoMapIt
<1>2. ASSUME listIt[u] = NoListIt PROVE OutdateList(T, l)[u] = NoListIt
  <2>1. PICK i \in ListIterators : i = OutdateList(T, l)[u]
    BY OutdateListType
  <2>2. NoListIt.of # l
    BY NoneAssumption DEF NoListIt
  <2>a. /\ listIt[u].of = None /\ listIt[u].left = {} /\ listIt[u].last = None
        /\ listIt[u].stale = FALSE
    BY <1>2 DEF NoListIt
  <2>b. /\ i.of = None /\ i.left = {} /\ i.last = None
        /\ i.stale = (listIt[u].stale \/ (u \notin T /\ listIt[u].of = l))
    BY <2>a, <2>1, OutdateListType
  <2>3. i.of = None /\ i.left = {} /\ i.last = None /\ i.stale = FALSE
    BY <2>a, <2>b, <2>2, Zenon DEF NoListIt
  <2>4. i = [of |-> i.of, left |-> i.left, last |-> i.last, stale |-> i.stale]
    BY DEF ListIterators
  <2>. QED
    BY <2>1, <2>3, <2>4 DEF NoListIt
<1>. QED
  BY <1>1, <1>2

\* The initial state is of the right kind.
LEMMA KindInit == Init => KindInv
  BY CallsAssumption, NoneAssumption
  DEF Init, KindInv, TypeOK, Positions, Filed, Threads, MapIterators, ListIterators,
      NoMapIt, NoListIt, Points

\* One step per action keeps the types.
LEMMA TypeStep == KindInv /\ [Next]_vars => TypeOK'
<1> SUFFICES ASSUME KindInv, [Next]_vars PROVE TypeOK'
  OBVIOUS
<1>1. ASSUME NEW w \in Offers, AsyncOffer(w) PROVE TypeOK'
  BY <1>1
  DEF KindInv, TypeOK, callVars, mapVars, dumpVars, AsyncOffer, Enqueue
<1>2. ASSUME NEW d \in Dumps, Dump(d) PROVE TypeOK'
  BY <1>2
  DEF KindInv, TypeOK, callVars, mapVars, dumpVars, Dump, Enqueue
<1>3. ASSUME NEW o \in Objects, Collect(o) PROVE TypeOK'
  BY <1>3
  DEF KindInv, TypeOK, callVars, mapVars, dumpVars, Collect
<1>4. ASSUME NEW t \in Callers, DumpNow(t) PROVE TypeOK'
  BY <1>4
  DEF KindInv, TypeOK, callVars, mapVars, dumpVars, DumpNow, Threads, Points
<1>5. ASSUME BeginOffer PROVE TypeOK'
  BY <1>5, TargetAssumption, ClassAssumption
  DEF KindInv, TypeOK, callVars, mapVars, dumpVars, BeginOffer, Take, Lookup, ClassFor,
      Threads, Points
<1>6. ASSUME BeginDump PROVE TypeOK'
  BY <1>6
  DEF KindInv, TypeOK, callVars, mapVars, dumpVars, BeginDump, Take, Threads, Points
<1>7. ASSUME AddToList PROVE TypeOK'
  <2>1. Handler \in Threads /\ call \in Offers /\ found \in Offers
    BY <1>7 DEF AddToList, EndOffer, KindInv, TypeOK, Positions, Threads
  <2>2. listIt' \in [Threads -> ListIterators]
    BY <1>7, <2>1, OutdateListType DEF AddToList, KindInv, TypeOK
  <2>3. list' \in [Offers -> SUBSET Offers]
    BY <1>7, <2>1 DEF AddToList, KindInv, TypeOK
  <2>4. pc' \in [Threads -> Points]
    BY <1>7 DEF AddToList, EndOffer, KindInv, TypeOK, Points
  <2>. QED
    BY <1>7, <2>2, <2>3, <2>4
    DEF AddToList, EndOffer, KindInv, TypeOK, callVars, mapVars, dumpVars
<1>8. ASSUME PutList PROVE TypeOK'
  <2>1. Handler \in Threads /\ call \in Offers /\ ClassFor(call) \in Classes
    BY <1>8, TargetAssumption, ClassAssumption
    DEF PutList, EndOffer, KindInv, TypeOK, Positions, Threads, ClassFor
  <2>2. mapIt' \in [Threads -> MapIterators]
    BY <1>8, <2>1, OutdateMapType DEF PutList, KindInv, TypeOK
  <2>3. /\ list' \in [Offers -> SUBSET Offers]
        /\ table' \in [Classes -> Offers \cup {None}]
    BY <1>8, <2>1 DEF PutList, KindInv, TypeOK
  <2>4. pc' \in [Threads -> Points]
    BY <1>8 DEF PutList, EndOffer, KindInv, TypeOK, Points
  <2>. QED
    BY <1>8, <2>2, <2>3, <2>4
    DEF PutList, EndOffer, KindInv, TypeOK, callVars, mapVars, dumpVars
<1>9. ASSUME EndDump PROVE TypeOK'
  BY <1>9
  DEF KindInv, TypeOK, callVars, mapVars, dumpVars, EndDump, EndListener, Threads,
      NoMapIt, MapIterators, Points, Positions
<1>10. ASSUME NEW t \in Threads, EnterCleanUp(t) PROVE TypeOK'
  BY <1>10
  DEF KindInv, TypeOK, callVars, mapVars, dumpVars, EnterCleanUp, MapIterator,
      MapIterators, Points, Filed
<1>11. ASSUME NEW t \in Threads, NextEntry(t) PROVE TypeOK'
  <2>1. PICK c \in mapIt[t].todo :
          /\ mapIt' = [mapIt EXCEPT ![t].todo = @ \ {c}, ![t].at = c]
          /\ listIt' = [listIt EXCEPT ![t] = ListIterator(table[c])]
    BY <1>11 DEF NextEntry
  <2>2. c \in Classes /\ table[c] \in Offers
    BY <1>11, <2>1 DEF NextEntry, KindInv, TypeOK, Positions, Filed, MapIterators
  <2>a. mapIt[t] \in MapIterators
    BY DEF KindInv, TypeOK
  <2>3. [mapIt[t] EXCEPT !.todo = @ \ {c}, !.at = c] \in MapIterators
    BY <2>2, <2>a DEF MapIterators
  <2>4. mapIt' \in [Threads -> MapIterators]
    BY <2>1, <2>3 DEF KindInv, TypeOK
  <2>5. ListIterator(table[c]) \in ListIterators
    BY <2>2 DEF KindInv, TypeOK, ListIterator, ListIterators
  <2>6. listIt' \in [Threads -> ListIterators]
    BY <2>1, <2>5 DEF KindInv, TypeOK
  <2>7. pc' \in [Threads -> Points]
    BY <1>11 DEF NextEntry, KindInv, TypeOK, Points
  <2>. QED
    BY <1>11, <2>4, <2>6, <2>7 DEF NextEntry, KindInv, TypeOK, callVars, mapVars, dumpVars
<1>12. ASSUME NEW t \in Threads, NextWeak(t) PROVE TypeOK'
  <2>1. PICK w \in listIt[t].left :
          /\ listIt' = [listIt EXCEPT ![t].left = @ \ {w}, ![t].last = w]
          /\ pc' = [pc EXCEPT ![t] = IF Cleared(w) THEN "remove" ELSE "weak"]
    BY <1>12 DEF NextWeak
  <2>a. listIt[t] \in ListIterators
    BY DEF KindInv, TypeOK
  <2>b. w \in Offers
    BY <2>1, <2>a DEF ListIterators
  <2>2. [listIt[t] EXCEPT !.left = @ \ {w}, !.last = w] \in ListIterators
    BY <2>a, <2>b DEF ListIterators
  <2>3. listIt' \in [Threads -> ListIterators]
    BY <2>1, <2>2 DEF KindInv, TypeOK
  <2>4. pc' \in [Threads -> Points]
    BY <2>1 DEF KindInv, TypeOK, Points
  <2>. QED
    BY <1>12, <2>3, <2>4 DEF NextWeak, KindInv, TypeOK, callVars, mapVars, dumpVars
<1>13. ASSUME NEW t \in Threads, RemoveWeak(t) PROVE TypeOK'
  BY <1>13, OutdateListType
  DEF KindInv, TypeOK, callVars, mapVars, dumpVars, RemoveWeak, Points, Positions
<1>14. ASSUME NEW t \in Threads, EndList(t) PROVE TypeOK'
  BY <1>14
  DEF KindInv, TypeOK, callVars, mapVars, dumpVars, EndList, NoListIt, AfterList,
      ListIterators, Points
<1>15. ASSUME NEW t \in Threads, DropEntry(t) PROVE TypeOK'
  BY <1>15, OutdateMapType
  DEF KindInv, TypeOK, callVars, mapVars, dumpVars, DropEntry, Removed, Points
<1>16. ASSUME NEW t \in Threads, LeaveCleanUp(t) PROVE TypeOK'
  BY <1>16
  DEF KindInv, TypeOK, callVars, mapVars, dumpVars, LeaveCleanUp, NoMapIt,
      MapIterators, Points
<1>17. ASSUME NEW t \in Threads, BeginListener(t) PROVE TypeOK'
  BY <1>17
  DEF KindInv, TypeOK, callVars, mapVars, dumpVars, BeginListener, MapIterator,
      MapIterators, Points, Filed
<1>18. ASSUME NEW t \in Threads, CopyEntry(t) PROVE TypeOK'
  <2>1. PICK c \in mapIt[t].todo :
          /\ mapIt' = [mapIt EXCEPT ![t].todo = @ \ {c}]
          /\ entries' = [entries EXCEPT ![t] = @ \cup {table[c]}]
    BY <1>18 DEF CopyEntry
  <2>2. c \in Classes /\ table[c] \in Offers
    BY <1>18, <2>1 DEF CopyEntry, KindInv, TypeOK, Positions, Filed, MapIterators
  <2>a. mapIt[t] \in MapIterators
    BY DEF KindInv, TypeOK
  <2>3. [mapIt[t] EXCEPT !.todo = @ \ {c}] \in MapIterators
    BY <2>a DEF MapIterators
  <2>4. mapIt' \in [Threads -> MapIterators]
    BY <2>1, <2>3 DEF KindInv, TypeOK
  <2>5. entries' \in [Threads -> SUBSET Offers]
    BY <2>1, <2>2 DEF KindInv, TypeOK
  <2>. QED
    BY <1>18, <2>4, <2>5 DEF CopyEntry, KindInv, TypeOK, callVars, mapVars
<1>19. ASSUME NEW t \in Threads, BeginGroup(t) PROVE TypeOK'
  BY <1>19
  DEF KindInv, TypeOK, callVars, mapVars, dumpVars, BeginGroup, ListIterator,
      ListIterators, Points
<1>20. ASSUME NEW t \in Threads, ReadWeak(t) PROVE TypeOK'
  <2>1. PICK w \in listIt[t].left :
          /\ listIt' = [listIt EXCEPT ![t].left = @ \ {w}]
          /\ seen' = [seen EXCEPT ![t] = @ \cup {w}]
    BY <1>20 DEF ReadWeak
  <2>a. listIt[t] \in ListIterators
    BY DEF KindInv, TypeOK
  <2>2. w \in Offers
    BY <2>1, <2>a DEF ListIterators
  <2>3. [listIt[t] EXCEPT !.left = @ \ {w}] \in ListIterators
    BY <2>a DEF ListIterators
  <2>4. listIt' \in [Threads -> ListIterators]
    BY <2>1, <2>3 DEF KindInv, TypeOK
  <2>5. seen' \in [Threads -> SUBSET Offers]
    BY <2>1, <2>2 DEF KindInv, TypeOK
  <2>. QED
    BY <1>20, <2>4, <2>5 DEF ReadWeak, KindInv, TypeOK, callVars, mapVars
<1>21. ASSUME NEW t \in Threads, EndGroup(t) PROVE TypeOK'
  BY <1>21
  DEF KindInv, TypeOK, callVars, mapVars, dumpVars, EndGroup, NoListIt, ListIterators,
      Points
<1>22. ASSUME NEW t \in Threads, EndDumpNow(t) PROVE TypeOK'
  BY <1>22
  DEF KindInv, TypeOK, callVars, mapVars, dumpVars, EndDumpNow, EndListener, NoMapIt,
      MapIterators, Points
<1>23. ASSUME NEW t \in Threads, FailFast(t) PROVE TypeOK'
  BY <1>23
  DEF KindInv, TypeOK, callVars, mapVars, dumpVars, FailFast, Released, NoMapIt,
      NoListIt, MapIterators, ListIterators, Points
<1>24. CASE UNCHANGED vars
  BY <1>24
  DEF KindInv, TypeOK, callVars, mapVars, dumpVars, vars, Points
<1>. QED
  BY <1>1, <1>2, <1>3, <1>4, <1>5, <1>6, <1>7, <1>8, <1>9, <1>10, <1>11, <1>12, <1>13,
     <1>14, <1>15, <1>16, <1>17, <1>18, <1>19, <1>20, <1>21, <1>22, <1>23, <1>24
  DEF Next, Message, ThreadStep, CleanUpStep, ListenerStep, Stopped

\* One step per action keeps what the places of the threads imply.
LEMMA PositionsStep == KindInv /\ [Next]_vars => Positions'
<1> SUFFICES ASSUME KindInv, [Next]_vars PROVE Positions'
  OBVIOUS
<1>1. ASSUME NEW w \in Offers, AsyncOffer(w) PROVE Positions'
  BY <1>1
  DEF KindInv, TypeOK, Positions, Filed, callVars, mapVars, dumpVars, AsyncOffer, Enqueue
<1>2. ASSUME NEW d \in Dumps, Dump(d) PROVE Positions'
  BY <1>2
  DEF KindInv, TypeOK, Positions, Filed, callVars, mapVars, dumpVars, Dump, Enqueue
<1>3. ASSUME NEW o \in Objects, Collect(o) PROVE Positions'
  BY <1>3
  DEF KindInv, TypeOK, Positions, Filed, callVars, mapVars, dumpVars, Collect
<1>4. ASSUME NEW t \in Callers, DumpNow(t) PROVE Positions'
  BY <1>4, ThreadsAssumption
  DEF KindInv, TypeOK, Positions, Filed, callVars, mapVars, dumpVars, DumpNow, Threads,
      Points
<1>5. ASSUME BeginOffer PROVE Positions'
  BY <1>5
  DEF KindInv, TypeOK, Positions, Filed, callVars, mapVars, dumpVars, BeginOffer, Take,
      Lookup, ClassFor, Threads, Points
<1>6. ASSUME BeginDump PROVE Positions'
  BY <1>6
  DEF KindInv, TypeOK, Positions, Filed, callVars, mapVars, dumpVars, BeginDump, Take,
      Threads, Points
<1>7. ASSUME AddToList PROVE Positions'
  <2>1. Handler \in Threads /\ found \in Offers
    BY <1>7 DEF AddToList, KindInv, TypeOK, Threads
  <2>2. \A u \in Threads : listIt'[u].of = listIt[u].of /\ listIt'[u].last = listIt[u].last
    BY <1>7, <2>1, OutdateListType DEF AddToList, KindInv, TypeOK
  <2>. QED
    BY <1>7, <2>1, <2>2
    DEF AddToList, EndOffer, KindInv, TypeOK, Positions, Filed, Points
<1>8. ASSUME PutList PROVE Positions'
  <2>1. Handler \in Threads /\ call \in Offers /\ ClassFor(call) \in Classes
    BY <1>8, TargetAssumption, ClassAssumption
    DEF PutList, EndOffer, KindInv, TypeOK, Positions, Threads, ClassFor
  <2>2. \A u \in Threads : /\ mapIt'[u].todo = mapIt[u].todo /\ mapIt'[u].at = mapIt[u].at
                           /\ ~mapIt'[u].stale => ~mapIt[u].stale
    BY <1>8, <2>1, OutdateMapType DEF PutList, KindInv, TypeOK
  <2>3. Filed \subseteq Filed'
    BY <1>8, <2>1, NoneAssumption DEF PutList, KindInv, TypeOK, Filed
  <2>. QED
    BY <1>8, <2>1, <2>2, <2>3
    DEF PutList, EndOffer, KindInv, TypeOK, Positions, Points
<1>9. ASSUME EndDump PROVE Positions'
  BY <1>9
  DEF KindInv, TypeOK, Positions, Filed, callVars, mapVars, dumpVars, EndDump,
      EndListener, Threads, NoMapIt, MapIterators, Points
<1>10. ASSUME NEW t \in Threads, EnterCleanUp(t) PROVE Positions'
  BY <1>10
  DEF KindInv, TypeOK, Positions, Filed, callVars, mapVars, dumpVars, EnterCleanUp,
      MapIterator, MapIterators, Points
<1>11. ASSUME NEW t \in Threads, NextEntry(t) PROVE Positions'
  BY <1>11
  DEF KindInv, TypeOK, Positions, Filed, callVars, mapVars, dumpVars, NextEntry,
      ListIterator, ListIterators, MapIterators, Points
<1>12. ASSUME NEW t \in Threads, NextWeak(t) PROVE Positions'
  BY <1>12
  DEF KindInv, TypeOK, Positions, Filed, callVars, mapVars, dumpVars, NextWeak,
      Cleared, ListIterators, Points
<1>13. ASSUME NEW t \in Threads, RemoveWeak(t) PROVE Positions'
  <2>1. listIt[t].of \in Offers
    BY <1>13 DEF RemoveWeak, KindInv, Positions
  <2>2. \A u \in Threads : listIt'[u].of = listIt[u].of /\ listIt'[u].last = listIt[u].last
    BY <1>13, <2>1, OutdateListType DEF RemoveWeak, KindInv, TypeOK
  <2>3. mapIt' = mapIt /\ Filed' = Filed /\ call' = call
    BY <1>13 DEF RemoveWeak, Filed, callVars
  <2>4. \A u \in Threads : pc'[u] = IF u = t THEN "weak" ELSE pc[u]
    BY <1>13 DEF RemoveWeak, KindInv, TypeOK
  <2>5. pc[t] = "remove" /\ Handler \in Threads
    BY <1>13 DEF RemoveWeak, Threads
  <2>. QED
    BY <2>2, <2>3, <2>4, <2>5 DEF KindInv, Positions, Points
<1>14. ASSUME NEW t \in Threads, EndList(t) PROVE Positions'
  BY <1>14
  DEF KindInv, TypeOK, Positions, Filed, callVars, mapVars, dumpVars, EndList,
      NoListIt, AfterList, ListIterators, Points
<1>15. ASSUME NEW t \in Threads, DropEntry(t) PROVE Positions'
  <2>1. mapIt[t].at \in Classes \ mapIt[t].todo
    BY <1>15 DEF DropEntry, Removed, KindInv, Positions
  <2>a. mapIt' = OutdateMap({t})
    BY <1>15 DEF DropEntry, Removed
  <2>b. \A u \in Threads :
          /\ OutdateMap({t})[u].todo = mapIt[u].todo /\ OutdateMap({t})[u].at = mapIt[u].at
          /\ OutdateMap({t})[u].stale = (mapIt[u].stale \/ (u \notin {t} /\ mapIt[u] # NoMapIt))
    BY OutdateMapType DEF KindInv, TypeOK
  <2>2. \A u \in Threads :
          /\ mapIt'[u].todo = mapIt[u].todo /\ mapIt'[u].at = mapIt[u].at
          /\ ~mapIt'[u].stale => ~mapIt[u].stale /\ (u = t \/ mapIt[u] = NoMapIt)
    BY <2>a, <2>b
  <2>3. Filed' = Filed \ {mapIt[t].at}
    BY <1>15, <2>1 DEF DropEntry, Removed, KindInv, TypeOK, Filed
  <2>4. ASSUME NEW u \in Threads, ~mapIt'[u].stale
        PROVE  mapIt'[u].todo \subseteq Filed'
    <3>1. CASE u = t
      BY <2>1, <2>2, <2>3, <2>4, <3>1 DEF KindInv, Positions
    <3>2. CASE mapIt[u] = NoMapIt
      BY <2>2, <2>4, <3>2 DEF NoMapIt
    <3>. QED
      BY <2>2, <2>4, <3>1, <3>2
  <2>5. \A u \in Threads : pc'[u] = IF u = t THEN "entry" ELSE pc[u]
    BY <1>15 DEF DropEntry, Removed, KindInv, TypeOK
  <2>6. Handler \in Threads /\ call' = call /\ listIt' = listIt /\ pc[t] = "drop"
    BY <1>15 DEF DropEntry, Removed, Threads, callVars
  <2>. QED
    BY <2>2, <2>4, <2>5, <2>6 DEF KindInv, Positions, Points
<1>16. ASSUME NEW t \in Threads, LeaveCleanUp(t) PROVE Positions'
  BY <1>16
  DEF KindInv, TypeOK, Positions, Filed, callVars, mapVars, dumpVars, LeaveCleanUp,
      NoMapIt, MapIterators, Points
<1>17. ASSUME NEW t \in Threads, BeginListener(t) PROVE Positions'
  BY <1>17
  DEF KindInv, TypeOK, Positions, Filed, callVars, mapVars, dumpVars, BeginListener,
      MapIterator, MapIterators, Points
<1>18. ASSUME NEW t \in Threads, CopyEntry(t) PROVE Positions'
  BY <1>18
  DEF KindInv, TypeOK, Positions, Filed, callVars, mapVars, dumpVars, CopyEntry,
      MapIterators, Points
<1>19. ASSUME NEW t \in Threads, BeginGroup(t) PROVE Positions'
  BY <1>19
  DEF KindInv, TypeOK, Positions, Filed, callVars, mapVars, dumpVars, BeginGroup,
      ListIterator, ListIterators, Points
<1>20. ASSUME NEW t \in Threads, ReadWeak(t) PROVE Positions'
  BY <1>20
  DEF KindInv, TypeOK, Positions, Filed, callVars, mapVars, dumpVars, ReadWeak,
      ListIterators, Points
<1>21. ASSUME NEW t \in Threads, EndGroup(t) PROVE Positions'
  BY <1>21
  DEF KindInv, TypeOK, Positions, Filed, callVars, mapVars, dumpVars, EndGroup,
      NoListIt, ListIterators, Points
<1>22. ASSUME NEW t \in Threads, EndDumpNow(t) PROVE Positions'
  BY <1>22
  DEF KindInv, TypeOK, Positions, Filed, callVars, mapVars, dumpVars, EndDumpNow,
      EndListener, NoMapIt, MapIterators, Points
<1>23. ASSUME NEW t \in Threads, FailFast(t) PROVE Positions'
  BY <1>23
  DEF KindInv, TypeOK, Positions, Filed, callVars, mapVars, dumpVars, FailFast,
      Released, NoMapIt, NoListIt, MapIterators, ListIterators, Points
<1>24. CASE UNCHANGED vars
  BY <1>24
  DEF KindInv, TypeOK, Positions, Filed, callVars, mapVars, dumpVars, vars, Points
<1>. QED
  BY <1>1, <1>2, <1>3, <1>4, <1>5, <1>6, <1>7, <1>8, <1>9, <1>10, <1>11, <1>12, <1>13,
     <1>14, <1>15, <1>16, <1>17, <1>18, <1>19, <1>20, <1>21, <1>22, <1>23, <1>24
  DEF Next, Message, ThreadStep, CleanUpStep, ListenerStep, Stopped

\* Every variable of the collector holds a value of its kind, with any number
\* of threads that call dumpNow.
THEOREM Typing == Spec => []TypeOK
<1>1. KindInv /\ [Next]_vars => KindInv'
  BY TypeStep, PositionsStep DEF KindInv
<1>. QED
  BY KindInit, <1>1, PTL DEF Spec, KindInv

----------------------------------------------------------------------------
(* The collector used from its handler only: Callers = {}.                  *)

\* The steps of cleanUp() and of the listener that only look at the map.
Look(t) == \/ EnterCleanUp(t) \/ NextEntry(t) \/ NextWeak(t) \/ EndList(t) \/ LeaveCleanUp(t)
           \/ BeginListener(t) \/ CopyEntry(t) \/ BeginGroup(t) \/ ReadWeak(t) \/ EndGroup(t)

\* They leave the map and the messages alone.
LEMMA LookFrame ==
  ASSUME Threads = {Handler}, TypeOK, Look(Handler)
  PROVE  /\ UNCHANGED <<live, callVars, mapVars>>
         /\ pc[Handler] \notin {"idle", "add"} /\ pc'[Handler] \notin {"add", "threw"}
  BY
  DEF TypeOK, Look, callVars, mapVars, EnterCleanUp, NextEntry, NextWeak, EndList,
      AfterList,
         Cleared, LeaveCleanUp, BeginListener, CopyEntry, BeginGroup, ReadWeak, EndGroup

\* FailFast needs a stale iterator, and the handler's are current: it files an offer
\* only when it iterates nothing.
LEMMA HandlerSteps ==
  ASSUME Callers = {}, HandlerInv, [Next]_vars
  PROVE  \/ \E w \in Offers : AsyncOffer(w)
         \/ \E d \in Dumps : Dump(d)
         \/ \E o \in Objects : Collect(o)
         \/ BeginOffer \/ BeginDump \/ AddToList \/ PutList \/ EndDump
         \/ Look(Handler) \/ RemoveWeak(Handler) \/ DropEntry(Handler)
         \/ UNCHANGED vars
<1>1. Threads = {Handler}
  BY DEF Threads
<1>2. ~FailFast(Handler)
  BY DEF FailFast, HandlerInv, IteratorsCurrent
<1>. QED
  BY <1>1, <1>2
  DEF Next, Message, ThreadStep, CleanUpStep, ListenerStep, Look, EndDumpNow, Stopped

\* The invariant of the handler-only collector holds at the start.
LEMMA HandlerInit == ASSUME Callers = {} PROVE Init => HandlerInv
  BY KindInit, CallsAssumption, NoneAssumption
  DEF Init, HandlerInv, MessagesOnce, FoundIsCurrent, OneListPerClass, IteratorsCurrent,
      NoLostRef, NoException, Filed, Threads, NoMapIt, NoListIt

\* A message stays in one place, and an offer still to be filed names no list.
LEMMA MessagesOnceStep ==
  ASSUME Callers = {}, HandlerInv, [Next]_vars
  PROVE  MessagesOnce'
<1>0. Threads = {Handler} /\ TypeOK /\ Positions
  BY DEF Threads, HandlerInv, KindInv
<1>1. CASE \E w \in Offers : AsyncOffer(w)
  BY <1>0, <1>1, NoneAssumption
  DEF HandlerInv, MessagesOnce, TypeOK, Filed, callVars, mapVars, AsyncOffer, Enqueue
<1>2. CASE \E d \in Dumps : Dump(d)
  BY <1>0, <1>2, NoneAssumption
  DEF HandlerInv, MessagesOnce, TypeOK, Filed, callVars, mapVars, Dump, Enqueue
<1>3. CASE \E o \in Objects : Collect(o)
  BY <1>0, <1>3
  DEF HandlerInv, MessagesOnce, TypeOK, Filed, callVars, mapVars, Collect
<1>4. CASE BeginOffer
  BY <1>0, <1>4, NoneAssumption
  DEF HandlerInv, MessagesOnce, TypeOK, Filed, callVars, mapVars, BeginOffer, Take, Lookup
<1>5. CASE BeginDump
  BY <1>0, <1>5, NoneAssumption
  DEF HandlerInv, MessagesOnce, TypeOK, Filed, callVars, mapVars, BeginDump, Take
<1>6. CASE AddToList
  BY <1>0, <1>6, NoneAssumption
  DEF HandlerInv, MessagesOnce, TypeOK, Filed, callVars, mapVars, AddToList, EndOffer
<1>7. CASE PutList
  BY <1>0, <1>7, TargetAssumption, ClassAssumption, NoneAssumption
  DEF HandlerInv, MessagesOnce, TypeOK, Filed, callVars, mapVars, PutList, EndOffer,
      ClassFor, FoundIsCurrent, Positions
<1>8. CASE EndDump
  BY <1>0, <1>8, NoneAssumption
  DEF HandlerInv, MessagesOnce, TypeOK, Filed, callVars, mapVars, EndDump, EndListener
<1>9. CASE Look(Handler)
  BY <1>0, <1>9, LookFrame DEF HandlerInv, MessagesOnce, TypeOK, Filed, callVars, mapVars
<1>10. CASE RemoveWeak(Handler)
  BY <1>0, <1>10
  DEF HandlerInv, MessagesOnce, TypeOK, Filed, callVars, mapVars, RemoveWeak
<1>11. CASE DropEntry(Handler)
  BY <1>0, <1>11
  DEF HandlerInv, MessagesOnce, TypeOK, Filed, callVars, mapVars, DropEntry, Removed
<1>12. CASE UNCHANGED vars
  BY <1>0, <1>12
  DEF HandlerInv, MessagesOnce, TypeOK, Filed, callVars, mapVars, vars
<1>. QED
  BY HandlerSteps, <1>1, <1>2, <1>3, <1>4, <1>5, <1>6, <1>7, <1>8, <1>9, <1>10, <1>11,
     <1>12

\* Nothing touches the map between the two halves of offer().
LEMMA FoundIsCurrentStep ==
  ASSUME Callers = {}, HandlerInv, [Next]_vars
  PROVE  FoundIsCurrent'
<1>0. Threads = {Handler} /\ TypeOK /\ Positions
  BY DEF Threads, HandlerInv, KindInv
<1>1. CASE \E w \in Offers : AsyncOffer(w)
  BY <1>0, <1>1
  DEF HandlerInv, FoundIsCurrent, TypeOK, ClassFor, callVars, mapVars, AsyncOffer, Enqueue
<1>2. CASE \E d \in Dumps : Dump(d)
  BY <1>0, <1>2
  DEF HandlerInv, FoundIsCurrent, TypeOK, ClassFor, callVars, mapVars, Dump, Enqueue
<1>3. CASE \E o \in Objects : Collect(o)
  BY <1>0, <1>3
  DEF HandlerInv, FoundIsCurrent, TypeOK, ClassFor, callVars, mapVars, Collect
<1>4. CASE BeginOffer
  BY <1>0, <1>4
  DEF HandlerInv, FoundIsCurrent, TypeOK, ClassFor, callVars, mapVars, BeginOffer,
      Take, Lookup
<1>5. CASE BeginDump
  BY <1>0, <1>5, CallsAssumption
  DEF HandlerInv, FoundIsCurrent, TypeOK, ClassFor, callVars, mapVars, BeginDump, Take
<1>6. CASE AddToList
  BY <1>0, <1>6, NoneAssumption
  DEF HandlerInv, FoundIsCurrent, TypeOK, ClassFor, callVars, mapVars, AddToList, EndOffer
<1>7. CASE PutList
  BY <1>0, <1>7, NoneAssumption
  DEF HandlerInv, FoundIsCurrent, TypeOK, ClassFor, callVars, mapVars, PutList, EndOffer
<1>8. CASE EndDump
  BY <1>0, <1>8, NoneAssumption
  DEF HandlerInv, FoundIsCurrent, TypeOK, ClassFor, callVars, mapVars, EndDump,
      EndListener
<1>9. CASE Look(Handler)
  BY <1>0, <1>9, LookFrame
  DEF HandlerInv, FoundIsCurrent, TypeOK, ClassFor, callVars, mapVars
<1>10. CASE RemoveWeak(Handler)
  BY <1>0, <1>10
  DEF HandlerInv, FoundIsCurrent, TypeOK, ClassFor, callVars, mapVars, RemoveWeak
<1>11. CASE DropEntry(Handler)
  BY <1>0, <1>11
  DEF HandlerInv, FoundIsCurrent, TypeOK, ClassFor, callVars, mapVars, DropEntry, Removed
<1>12. CASE UNCHANGED vars
  BY <1>0, <1>12
  DEF HandlerInv, FoundIsCurrent, TypeOK, ClassFor, callVars, mapVars, vars
<1>. QED
  BY HandlerSteps, <1>1, <1>2, <1>3, <1>4, <1>5, <1>6, <1>7, <1>8, <1>9, <1>10, <1>11,
     <1>12

\* A new list is filed under one class only.
LEMMA OneListPerClassStep ==
  ASSUME Callers = {}, HandlerInv, [Next]_vars
  PROVE  OneListPerClass'
<1>0. Threads = {Handler} /\ TypeOK /\ Positions
  BY DEF Threads, HandlerInv, KindInv
<1>1. CASE \E w \in Offers : AsyncOffer(w)
  BY <1>0, <1>1
  DEF HandlerInv, OneListPerClass, TypeOK, Filed, callVars, mapVars, AsyncOffer, Enqueue
<1>2. CASE \E d \in Dumps : Dump(d)
  BY <1>0, <1>2
  DEF HandlerInv, OneListPerClass, TypeOK, Filed, callVars, mapVars, Dump, Enqueue
<1>3. CASE \E o \in Objects : Collect(o)
  BY <1>0, <1>3
  DEF HandlerInv, OneListPerClass, TypeOK, Filed, callVars, mapVars, Collect
<1>4. CASE BeginOffer
  BY <1>0, <1>4
  DEF HandlerInv, OneListPerClass, TypeOK, Filed, callVars, mapVars, BeginOffer, Take,
      Lookup
<1>5. CASE BeginDump
  BY <1>0, <1>5
  DEF HandlerInv, OneListPerClass, TypeOK, Filed, callVars, mapVars, BeginDump, Take
<1>6. CASE AddToList
  BY <1>0, <1>6
  DEF HandlerInv, OneListPerClass, TypeOK, Filed, callVars, mapVars, AddToList, EndOffer
<1>7. CASE PutList
  BY <1>0, <1>7
  DEF HandlerInv, OneListPerClass, TypeOK, Filed, callVars, mapVars, PutList, EndOffer,
      MessagesOnce, Filed, Positions
<1>8. CASE EndDump
  BY <1>0, <1>8
  DEF HandlerInv, OneListPerClass, TypeOK, Filed, callVars, mapVars, EndDump, EndListener
<1>9. CASE Look(Handler)
  BY <1>0, <1>9, LookFrame
  DEF HandlerInv, OneListPerClass, TypeOK, Filed, callVars, mapVars
<1>10. CASE RemoveWeak(Handler)
  BY <1>0, <1>10
  DEF HandlerInv, OneListPerClass, TypeOK, Filed, callVars, mapVars, RemoveWeak
<1>11. CASE DropEntry(Handler)
  BY <1>0, <1>11
  DEF HandlerInv, OneListPerClass, TypeOK, Filed, callVars, mapVars, DropEntry, Removed
<1>12. CASE UNCHANGED vars
  BY <1>0, <1>12
  DEF HandlerInv, OneListPerClass, TypeOK, Filed, callVars, mapVars, vars
<1>. QED
  BY HandlerSteps, <1>1, <1>2, <1>3, <1>4, <1>5, <1>6, <1>7, <1>8, <1>9, <1>10, <1>11,
     <1>12

\* The handler's iterators stay current, and a list found empty stays empty.
LEMMA IteratorsCurrentStep ==
  ASSUME Callers = {}, HandlerInv, [Next]_vars
  PROVE  IteratorsCurrent'
<1>0. Threads = {Handler} /\ TypeOK /\ Positions
  BY DEF Threads, HandlerInv, KindInv
<1>1. CASE \E w \in Offers : AsyncOffer(w)
  BY <1>0, <1>1
  DEF HandlerInv, IteratorsCurrent, TypeOK, Positions, callVars, mapVars, AsyncOffer,
      Enqueue
<1>2. CASE \E d \in Dumps : Dump(d)
  BY <1>0, <1>2
  DEF HandlerInv, IteratorsCurrent, TypeOK, Positions, callVars, mapVars, Dump, Enqueue
<1>3. CASE \E o \in Objects : Collect(o)
  BY <1>0, <1>3
  DEF HandlerInv, IteratorsCurrent, TypeOK, Positions, callVars, mapVars, Collect
<1>4. CASE BeginOffer
  BY <1>0, <1>4
  DEF HandlerInv, IteratorsCurrent, TypeOK, Positions, callVars, mapVars, BeginOffer,
      Take, Lookup
<1>5. CASE BeginDump
  BY <1>0, <1>5
  DEF HandlerInv, IteratorsCurrent, TypeOK, Positions, callVars, mapVars, BeginDump, Take
<1>6. CASE AddToList
  <2>1. pc[Handler] = "add" /\ pc'[Handler] = "idle" /\ mapIt' = mapIt /\ found \in Offers
    BY <1>0, <1>6 DEF AddToList, EndOffer, TypeOK
  <2>2. mapIt[Handler] = NoMapIt /\ listIt[Handler] = NoListIt
    BY <2>1 DEF HandlerInv, IteratorsCurrent
  <2>3. listIt'[Handler] = NoListIt
    <3>1. found # None
      BY <2>1, NoneAssumption
    <3>. QED
      BY <1>0, <1>6, <2>1, <2>2, <3>1, OthersCurrent DEF AddToList, TypeOK
  <2>. QED
    BY <2>1, <2>2, <2>3 DEF IteratorsCurrent, NoMapIt, NoListIt
<1>7. CASE PutList
  <2>1. pc[Handler] = "add" /\ pc'[Handler] = "idle" /\ listIt' = listIt /\ call \in Offers
    BY <1>0, <1>7 DEF PutList, EndOffer, TypeOK, Positions
  <2>2. mapIt[Handler] = NoMapIt /\ listIt[Handler] = NoListIt
    BY <2>1 DEF HandlerInv, IteratorsCurrent
  <2>3. mapIt'[Handler] = NoMapIt
    BY <1>0, <1>7, <2>1, <2>2, OthersCurrent DEF PutList, TypeOK
  <2>. QED
    BY <2>1, <2>2, <2>3 DEF IteratorsCurrent, NoMapIt, NoListIt
<1>8. CASE EndDump
  BY <1>0, <1>8
  DEF HandlerInv, IteratorsCurrent, TypeOK, Positions, callVars, mapVars, EndDump,
      EndListener, NoMapIt
<1>9. CASE Look(Handler)
  <2>1. CASE EnterCleanUp(Handler)
    BY <1>0, <2>1
    DEF HandlerInv, IteratorsCurrent, TypeOK, Positions, callVars, mapVars,
        EnterCleanUp, MapIterator, Filed, MapIterators, ListIterators
  <2>2. CASE NextEntry(Handler)
    BY <1>0, <2>2
    DEF HandlerInv, IteratorsCurrent, TypeOK, Positions, callVars, mapVars, NextEntry,
        ListIterator, Filed, MapIterators, ListIterators
  <2>3. CASE NextWeak(Handler)
    BY <1>0, <2>3
    DEF HandlerInv, IteratorsCurrent, TypeOK, Positions, callVars, mapVars, NextWeak,
        Cleared, Filed, MapIterators, ListIterators
  <2>4. CASE EndList(Handler)
    BY <1>0, <2>4
    DEF HandlerInv, IteratorsCurrent, TypeOK, Positions, callVars, mapVars, EndList,
        AfterList, NoListIt, Filed, MapIterators, ListIterators
  <2>5. CASE LeaveCleanUp(Handler)
    BY <1>0, <2>5
    DEF HandlerInv, IteratorsCurrent, TypeOK, Positions, callVars, mapVars,
        LeaveCleanUp, NoMapIt, Filed, MapIterators, ListIterators
  <2>6. CASE BeginListener(Handler)
    BY <1>0, <2>6
    DEF HandlerInv, IteratorsCurrent, TypeOK, Positions, callVars, mapVars,
        BeginListener, MapIterator, Filed, MapIterators, ListIterators
  <2>7. CASE CopyEntry(Handler)
    BY <1>0, <2>7
    DEF HandlerInv, IteratorsCurrent, TypeOK, Positions, callVars, mapVars, CopyEntry,
        Filed, MapIterators, ListIterators
  <2>8. CASE BeginGroup(Handler)
    BY <1>0, <2>8
    DEF HandlerInv, IteratorsCurrent, TypeOK, Positions, callVars, mapVars, BeginGroup,
        ListIterator, Filed, MapIterators, ListIterators
  <2>9. CASE ReadWeak(Handler)
    BY <1>0, <2>9
    DEF HandlerInv, IteratorsCurrent, TypeOK, Positions, callVars, mapVars, ReadWeak,
        Filed, MapIterators, ListIterators
  <2>10. CASE EndGroup(Handler)
    BY <1>0, <2>10
    DEF HandlerInv, IteratorsCurrent, TypeOK, Positions, callVars, mapVars, EndGroup,
        NoListIt, Filed, MapIterators, ListIterators
  <2>. QED
    BY <1>9, <2>1, <2>2, <2>3, <2>4, <2>5, <2>6, <2>7, <2>8, <2>9, <2>10 DEF Look
<1>10. CASE RemoveWeak(Handler)
  BY <1>0, <1>10, OutdateListType
  DEF HandlerInv, IteratorsCurrent, TypeOK, Positions, callVars, mapVars, RemoveWeak
<1>11. CASE DropEntry(Handler)
  BY <1>0, <1>11, OutdateMapType
  DEF HandlerInv, IteratorsCurrent, TypeOK, Positions, callVars, mapVars, DropEntry, Removed
<1>12. CASE UNCHANGED vars
  BY <1>0, <1>12
  DEF HandlerInv, IteratorsCurrent, TypeOK, Positions, callVars, mapVars, vars
<1>. QED
  BY HandlerSteps, <1>1, <1>2, <1>3, <1>4, <1>5, <1>6, <1>7, <1>8, <1>9, <1>10, <1>11,
     <1>12

\* No step fails.
LEMMA NoExceptionStep ==
  ASSUME Callers = {}, HandlerInv, [Next]_vars
  PROVE  NoException'
<1>0. Threads = {Handler} /\ TypeOK /\ Positions
  BY DEF Threads, HandlerInv, KindInv
<1>1. CASE \E w \in Offers : AsyncOffer(w)
  BY <1>0, <1>1
  DEF HandlerInv, NoException, TypeOK, AsyncOffer, Enqueue
<1>2. CASE \E d \in Dumps : Dump(d)
  BY <1>0, <1>2
  DEF HandlerInv, NoException, TypeOK, Dump, Enqueue
<1>3. CASE \E o \in Objects : Collect(o)
  BY <1>0, <1>3
  DEF HandlerInv, NoException, TypeOK, Collect
<1>4. CASE BeginOffer
  BY <1>0, <1>4
  DEF HandlerInv, NoException, TypeOK, BeginOffer, Take, Lookup
<1>5. CASE BeginDump
  BY <1>0, <1>5
  DEF HandlerInv, NoException, TypeOK, BeginDump, Take
<1>6. CASE AddToList
  BY <1>0, <1>6
  DEF HandlerInv, NoException, TypeOK, AddToList, EndOffer
<1>7. CASE PutList
  BY <1>0, <1>7
  DEF HandlerInv, NoException, TypeOK, PutList, EndOffer
<1>8. CASE EndDump
  BY <1>0, <1>8
  DEF HandlerInv, NoException, TypeOK, EndDump, EndListener
<1>9. CASE Look(Handler)
  BY <1>0, <1>9, LookFrame DEF HandlerInv, NoException, TypeOK
<1>10. CASE RemoveWeak(Handler)
  BY <1>0, <1>10
  DEF HandlerInv, NoException, TypeOK, RemoveWeak
<1>11. CASE DropEntry(Handler)
  BY <1>0, <1>11
  DEF HandlerInv, NoException, TypeOK, DropEntry, Removed
<1>12. CASE UNCHANGED vars
  BY <1>0, <1>12
  DEF HandlerInv, NoException, TypeOK, vars
<1>. QED
  BY HandlerSteps, <1>1, <1>2, <1>3, <1>4, <1>5, <1>6, <1>7, <1>8, <1>9, <1>10, <1>11,
     <1>12

\* Appending to a queue keeps its elements and adds the new one.
LEMMA AppendKeeps ==
  ASSUME NEW S, NEW q \in Seq(S), NEW x \in S
  PROVE  /\ \A i \in DOMAIN q : i \in DOMAIN Append(q, x) /\ Append(q, x)[i] = q[i]
         /\ \E i \in DOMAIN Append(q, x) : Append(q, x)[i] = x
<1>1. Len(q) + 1 \in DOMAIN Append(q, x) /\ Append(q, x)[Len(q) + 1] = x
  OBVIOUS
<1>. QED
  BY <1>1

\* Every element of a queue but its head is in its tail.
LEMMA TailKeeps ==
  ASSUME NEW S, NEW q \in Seq(S), q # <<>>, NEW i \in DOMAIN q, q[i] # Head(q)
  PROVE  \E j \in DOMAIN Tail(q) : Tail(q)[j] = q[i]
<1>1. i - 1 \in DOMAIN Tail(q) /\ Tail(q)[i - 1] = q[i]
  OBVIOUS
<1>. QED
  BY <1>1

\* No step loses a reference: a posted offer waits, is taken and is filed, and
\* cleanUp() removes cleared weaks and empty lists only.
LEMMA NoLostRefStep ==
  ASSUME Callers = {}, HandlerInv, [Next]_vars
  PROVE  NoLostRef'
<1>0. Threads = {Handler} /\ TypeOK /\ Positions
  BY DEF Threads, HandlerInv, KindInv
<1>1. ASSUME NEW m \in Offers \cup Dumps, queue' = Append(queue, m),
             posted' = posted \cup {m}, UNCHANGED <<live, call, table, list>>
      PROVE  NoLostRef'
  <2>1. /\ \A i \in DOMAIN queue : i \in DOMAIN queue' /\ queue'[i] = queue[i]
        /\ \E i \in DOMAIN queue' : queue'[i] = m
    BY <1>0, <1>1, AppendKeeps DEF TypeOK
  <2>. QED
    BY <1>1, <2>1 DEF HandlerInv, NoLostRef, ClassFor
<1>2. CASE (\E w \in Offers : AsyncOffer(w)) \/ (\E d \in Dumps : Dump(d))
  BY <1>1, <1>2 DEF AsyncOffer, Dump, Enqueue, mapVars
<1>3. CASE \E o \in Objects : Collect(o)
  BY <1>3 DEF HandlerInv, NoLostRef, ClassFor, Collect, callVars, mapVars
<1>4. CASE BeginOffer \/ BeginDump
  <2>1. /\ queue # <<>> /\ call' = Head(queue) /\ queue' = Tail(queue)
        /\ pc[Handler] = "idle" /\ UNCHANGED <<live, posted, table, list>>
    BY <1>4 DEF BeginOffer, BeginDump, Take, mapVars
  <2>2. \A i \in DOMAIN queue : \/ queue[i] = call'
                                \/ \E j \in DOMAIN queue' : queue'[j] = queue[i]
    BY <1>0, <2>1, TailKeeps DEF TypeOK
  <2>3. call \notin Offers
    BY <2>1 DEF HandlerInv, FoundIsCurrent
  <2>. QED
    BY <2>1, <2>2, <2>3 DEF HandlerInv, NoLostRef, ClassFor
<1>5. CASE AddToList
  <2>1. call \in Offers /\ found = table[ClassFor(call)] /\ found \in Offers
    BY <1>0, <1>5 DEF HandlerInv, FoundIsCurrent, Positions, TypeOK, AddToList, EndOffer
  <2>2. \A l \in Offers : list[l] \subseteq list'[l]
    BY <1>0, <1>5, <2>1 DEF AddToList, TypeOK
  <2>3. call \in list'[table[ClassFor(call)]]
    BY <1>0, <1>5, <2>1 DEF AddToList, TypeOK
  <2>4. \A w \in Offers : ClassFor(w) \in Classes
    BY TargetAssumption, ClassAssumption DEF ClassFor
  <2>. QED
    BY <1>0, <1>5, <2>1, <2>2, <2>3, <2>4
    DEF HandlerInv, NoLostRef, TypeOK, AddToList, EndOffer, ClassFor
<1>6. CASE PutList
  <2>1. call \in Offers /\ table[ClassFor(call)] = None
    BY <1>0, <1>6 DEF HandlerInv, FoundIsCurrent, Positions, PutList, EndOffer
  <2>2. \A w \in Offers : ClassFor(w) \in Classes
    BY TargetAssumption, ClassAssumption DEF ClassFor
  <2>3. \A c \in Classes : table[c] # None =>
          table'[c] = table[c] /\ list'[table[c]] = list[table[c]]
    BY <1>0, <1>6, <2>1, <2>2 DEF HandlerInv, MessagesOnce, Filed, TypeOK, PutList
  <2>4. table'[ClassFor(call)] = call /\ list'[call] = {call} /\ call # None
    BY <1>0, <1>6, <2>1, <2>2, NoneAssumption DEF TypeOK, PutList
  <2>. QED
    BY <1>0, <1>6, <2>2, <2>3, <2>4
    DEF HandlerInv, NoLostRef, TypeOK, PutList, EndOffer, ClassFor
<1>7. CASE EndDump
  BY <1>0, <1>7
  DEF HandlerInv, NoLostRef, FoundIsCurrent, ClassFor, EndDump, EndListener, mapVars
<1>8. CASE Look(Handler)
  BY <1>0, <1>8, LookFrame DEF HandlerInv, NoLostRef, ClassFor, callVars, mapVars
<1>9. CASE RemoveWeak(Handler)
  BY <1>0, <1>9
  DEF HandlerInv, NoLostRef, IteratorsCurrent, TypeOK, ClassFor, RemoveWeak, callVars
<1>10. CASE DropEntry(Handler)
  BY <1>0, <1>10
  DEF HandlerInv, NoLostRef, IteratorsCurrent, Positions, TypeOK, ClassFor, DropEntry, Removed,
      callVars
<1>11. CASE UNCHANGED vars
  BY <1>11 DEF HandlerInv, NoLostRef, ClassFor, vars, callVars, mapVars
<1>. QED
  BY HandlerSteps, <1>2, <1>3, <1>4, <1>5, <1>6, <1>7, <1>8, <1>9, <1>10, <1>11

\* With dumps from the handler only, every part of the invariant above holds:
\* NoLostRef and NoException are two of them.
THEOREM HandlerOnly == ASSUME Callers = {} PROVE Spec => []HandlerInv
<1>1. HandlerInv /\ [Next]_vars => HandlerInv'
  BY TypeStep, PositionsStep, MessagesOnceStep, FoundIsCurrentStep, OneListPerClassStep,
     IteratorsCurrentStep, NoLostRefStep, NoExceptionStep DEF HandlerInv, KindInv
<1>. QED
  BY HandlerInit, <1>1, PTL DEF Spec

\* With dumps from the handler only, an object that was offered and is still
\* live is always either on its way to the map or in it.
THEOREM KeepsLiveRefs == ASSUME Callers = {} PROVE Spec => []NoLostRef
  BY HandlerOnly, PTL DEF HandlerInv

\* With dumps from the handler only, no iterator fails and no dump kills the
\* process.
THEOREM NeverThrows == ASSUME Callers = {} PROVE Spec => []NoException
  BY HandlerOnly, PTL DEF HandlerInv

----------------------------------------------------------------------------
(* No empty list, with Callers = {}.                                        *)

\* The handler holds the monitor inside cleanUp(), and what its iterator over
\* a list has still to show is in that list.
ListAtHand ==
  LET i == listIt[Handler] p == pc[Handler]
  IN /\ lock = IF p \in {"entry", "weak", "remove", "drop"} THEN Handler ELSE None
     /\ p \in {"weak", "remove"} => i.left \subseteq list[i.of]
     /\ p = "remove" => i.last \in list[i.of] \ i.left

\* The list at hand is emptied from its last weak on, and dropped if empty.
LEMMA ListAtHandStep ==
  ASSUME Callers = {}, HandlerInv, ListAtHand, NoEmptyList, [Next]_vars
  PROVE  ListAtHand' /\ NoEmptyList'
<1>0. Threads = {Handler} /\ TypeOK /\ Positions
  BY DEF Threads, HandlerInv, KindInv
<1>1. CASE \E w \in Offers : AsyncOffer(w)
  BY <1>0, <1>1
  DEF ListAtHand, NoEmptyList, Filed, TypeOK, callVars, mapVars, AsyncOffer
<1>2. CASE \E d \in Dumps : Dump(d)
  BY <1>0, <1>2 DEF ListAtHand, NoEmptyList, Filed, TypeOK, callVars, mapVars, Dump
<1>3. CASE \E o \in Objects : Collect(o)
  BY <1>0, <1>3 DEF ListAtHand, NoEmptyList, Filed, TypeOK, callVars, mapVars, Collect
<1>4. CASE BeginOffer \/ BeginDump
  BY <1>0, <1>4
  DEF ListAtHand, NoEmptyList, Filed, TypeOK, callVars, mapVars, BeginOffer, BeginDump, Take
<1>5. CASE AddToList
  BY <1>0, <1>5
  DEF ListAtHand, NoEmptyList, Filed, TypeOK, AddToList, EndOffer
<1>6. CASE PutList
  <2>1. call \in Offers /\ ClassFor(call) \in Classes
    BY <1>0, <1>6, TargetAssumption, ClassAssumption DEF PutList, EndOffer, Positions, ClassFor
  <2>2. /\ table' = [table EXCEPT ![ClassFor(call)] = call]
        /\ list' = [list EXCEPT ![call] = {call}]
        /\ pc[Handler] = "add" /\ pc' = [pc EXCEPT ![Handler] = "idle"] /\ lock' = lock
    BY <1>6 DEF PutList, EndOffer
  <2>3. ListAtHand'
    BY <1>0, <2>2 DEF ListAtHand, TypeOK
  <2>4. NoEmptyList'
    BY <1>0, <2>1, <2>2 DEF NoEmptyList, Filed, TypeOK
  <2>. QED
    BY <2>3, <2>4
<1>7. CASE EndDump
  BY <1>0, <1>7 DEF ListAtHand, NoEmptyList, Filed, TypeOK, mapVars, EndDump, EndListener
<1>8. CASE EnterCleanUp(Handler)
  BY <1>0, <1>8 DEF ListAtHand, NoEmptyList, Filed, TypeOK, mapVars, EnterCleanUp
<1>9. CASE NextEntry(Handler)
  BY <1>0, <1>9
  DEF ListAtHand, NoEmptyList, Filed, TypeOK, mapVars, NextEntry, ListIterator
<1>10. CASE NextWeak(Handler)
  <2>1. PICK w \in listIt[Handler].left :
          /\ listIt' = [listIt EXCEPT ![Handler].left = @ \ {w}, ![Handler].last = w]
          /\ pc' = [pc EXCEPT ![Handler] = IF Cleared(w) THEN "remove" ELSE "weak"]
    BY <1>10 DEF NextWeak
  <2>2. pc[Handler] = "weak" /\ UNCHANGED <<table, list, lock, mapIt>>
    BY <1>10 DEF NextWeak, mapVars
  <2>3. /\ listIt'[Handler].left = listIt[Handler].left \ {w}
        /\ listIt'[Handler].last = w /\ listIt'[Handler].of = listIt[Handler].of
    BY <1>0, <2>1 DEF TypeOK, ListIterators
  <2>4. pc'[Handler] = IF Cleared(w) THEN "remove" ELSE "weak"
    BY <1>0, <2>1 DEF TypeOK
  <2>5. listIt[Handler].left \subseteq list[listIt[Handler].of]
    BY <2>2 DEF ListAtHand
  <2>6. ListAtHand'
    BY <2>1, <2>2, <2>3, <2>4, <2>5 DEF ListAtHand
  <2>7. Cleared(w) => list[listIt[Handler].of] # {}
    BY <2>1, <2>5
  <2>8. table[mapIt[Handler].at] = listIt[Handler].of
    BY <2>2 DEF HandlerInv, IteratorsCurrent
  <2>9. NoEmptyList'
    BY <1>0, <2>2, <2>4, <2>7, <2>8 DEF NoEmptyList, Filed
  <2>. QED
    BY <2>6, <2>9
<1>11. CASE RemoveWeak(Handler)
  <2>1. /\ pc[Handler] = "remove" /\ pc' = [pc EXCEPT ![Handler] = "weak"]
        /\ list' = [list EXCEPT ![listIt[Handler].of] = @ \ {listIt[Handler].last}]
        /\ UNCHANGED <<table, lock, mapIt>>
    BY <1>11 DEF RemoveWeak
  <2>2. listIt'[Handler].of = listIt[Handler].of /\ listIt'[Handler].left = listIt[Handler].left
    BY <1>0, <1>11 DEF RemoveWeak, OutdateList, TypeOK, ListIterators
  <2>3. listIt[Handler].of \in Offers /\ listIt[Handler].of = table[mapIt[Handler].at]
    BY <1>0, <2>1 DEF Positions, HandlerInv, IteratorsCurrent
  <2>4. pc'[Handler] = "weak" /\ lock = Handler
    BY <1>0, <2>1 DEF TypeOK, ListAtHand
  <2>5. ListAtHand'
    BY <1>0, <2>1, <2>2, <2>3, <2>4 DEF ListAtHand, TypeOK
  <2>6. NoEmptyList'
    <3>1. ASSUME NEW c \in Filed, c # mapIt[Handler].at PROVE list'[table[c]] # {}
      <4>1. mapIt[Handler].at \in Filed
        BY <1>0, <2>1 DEF Positions, HandlerInv, IteratorsCurrent, Filed
      <4>2. table[c] # listIt[Handler].of
        BY <2>3, <3>1, <4>1 DEF HandlerInv, OneListPerClass
      <4>3. list[table[c]] # {}
        BY <1>0, <2>1, <3>1 DEF NoEmptyList
      <4>. QED
        BY <1>0, <2>1, <4>2, <4>3 DEF TypeOK, Filed
    <3>. QED
      BY <1>0, <2>1, <2>4, <3>1 DEF NoEmptyList, Filed
  <2>. QED
    BY <2>5, <2>6
<1>12. CASE EndList(Handler)
  <2>1. /\ pc[Handler] = "weak" /\ UNCHANGED <<table, list, lock, mapIt>>
        /\ pc' = [pc EXCEPT ![Handler] = AfterList(listIt[Handler].of)]
    BY <1>12 DEF EndList, mapVars
  <2>2. pc'[Handler] = IF list[listIt[Handler].of] = {} THEN "drop" ELSE "entry"
    BY <1>0, <2>1 DEF TypeOK, AfterList
  <2>3. table[mapIt[Handler].at] = listIt[Handler].of
    BY <2>1 DEF HandlerInv, IteratorsCurrent
  <2>4. ListAtHand'
    BY <2>1, <2>2 DEF ListAtHand
  <2>5. NoEmptyList'
    BY <1>0, <2>1, <2>2, <2>3 DEF NoEmptyList, Filed
  <2>. QED
    BY <2>4, <2>5
<1>13. CASE DropEntry(Handler)
  <2>1. /\ pc[Handler] = "drop" /\ pc' = [pc EXCEPT ![Handler] = "entry"]
        /\ table' = [table EXCEPT ![mapIt[Handler].at] = None] /\ UNCHANGED <<list, lock>>
    BY <1>13 DEF DropEntry
  <2>2. \A c \in Filed' : c \in Filed /\ c # mapIt[Handler].at /\ table'[c] = table[c]
    BY <1>0, <2>1 DEF Filed, TypeOK
  <2>3. NoEmptyList'
    BY <1>0, <2>1, <2>2 DEF NoEmptyList
  <2>4. ListAtHand'
    BY <1>0, <2>1 DEF ListAtHand, TypeOK
  <2>. QED
    BY <2>3, <2>4
<1>14. CASE LeaveCleanUp(Handler)
  BY <1>0, <1>14 DEF ListAtHand, NoEmptyList, Filed, TypeOK, mapVars, LeaveCleanUp
<1>15. CASE \/ BeginListener(Handler) \/ CopyEntry(Handler) \/ BeginGroup(Handler)
            \/ ReadWeak(Handler) \/ EndGroup(Handler)
  <2>1. /\ UNCHANGED <<table, list, lock>>
        /\ pc[Handler] \in {"dump", "copy", "read"} /\ pc'[Handler] \in {"dump", "copy", "read"}
    BY <1>0, <1>15
    DEF BeginListener, CopyEntry, BeginGroup, ReadWeak, EndGroup, mapVars, TypeOK
  <2>. QED
    BY <1>0, <2>1 DEF ListAtHand, NoEmptyList, Filed
<1>16. CASE UNCHANGED vars
  BY <1>16 DEF ListAtHand, NoEmptyList, Filed, vars, mapVars
<1>. QED
  BY HandlerSteps, <1>1, <1>2, <1>3, <1>4, <1>5, <1>6, <1>7, <1>8, <1>9, <1>10, <1>11,
     <1>12, <1>13, <1>14, <1>15, <1>16 DEF Look

\* The map holds no empty list but the one cleanUp() is working on: with dumps
\* from the handler only, it never grows by classes without objects.
THEOREM DropsEmptyLists == ASSUME Callers = {} PROVE Spec => []NoEmptyList
<1>1. Init => ListAtHand /\ NoEmptyList
  BY NoneAssumption DEF Init, ListAtHand, NoEmptyList, Filed, Threads
<1>2. HandlerInv /\ ListAtHand /\ NoEmptyList /\ [Next]_vars => ListAtHand' /\ NoEmptyList'
  BY ListAtHandStep
<1>. QED
  BY HandlerOnly, <1>1, <1>2, PTL DEF Spec

----------------------------------------------------------------------------
(* What a dump reports, with any number of threads that call dumpNow.      *)

\* An object that a message carries is live: the message's closure holds it.
OffersLive ==
  /\ call \in Offers => Target[call] \in live
  /\ \A i \in DOMAIN queue : queue[i] \in Offers => Target[queue[i]] \in live

\* Where t's cleanUp() has been, no list of the map holds a weak of an object
\* that was cleared when it began; and the listener reads such lists only.
CleanedBy(t) ==
  LET m == mapIt[t] i == listIt[t] p == pc[t]
  IN /\ gone[t] \cap live = {}
     /\ p \in {"entry", "weak", "remove", "drop"} =>
          \A c \in Filed \ m.todo : \A w \in list[table[c]] : Target[w] \in gone[t] =>
            /\ p \in {"weak", "remove"} /\ c = m.at /\ table[c] = i.of
            /\ w \in i.left \/ (p = "remove" /\ w = i.last)
     /\ p \in {"dump", "copy", "read"} =>
          \A c \in Filed : \A w \in list[table[c]] : Target[w] \notin gone[t]
     /\ \A l \in entries[t] : \A w \in list[l] : Target[w] \notin gone[t]
     /\ p = "read" => \A w \in i.left : Target[w] \notin gone[t]
     /\ \A w \in seen[t] : Target[w] \notin gone[t]
     /\ p \notin {"copy", "read"} => entries[t] = {} /\ seen[t] = {}

FreshInv == KindInv /\ OffersLive /\ \A t \in Threads : CleanedBy(t)

\* The four steps that change the map or a list.
LEMMA MapSteps ==
  ASSUME [Next]_vars
  PROVE  \/ AddToList \/ PutList
         \/ \E u \in Threads : RemoveWeak(u) \/ DropEntry(u)
         \/ UNCHANGED mapVars
  BY DEF Next, Message, ThreadStep, CleanUpStep, ListenerStep, Stopped, AsyncOffer, Dump, Collect,
     DumpNow, BeginOffer, BeginDump, Take, EndDump, EndListener, EndDumpNow, EnterCleanUp, NextEntry,
     NextWeak, EndList, LeaveCleanUp, BeginListener, CopyEntry, BeginGroup, ReadWeak, EndGroup,
     FailFast, vars

\* Messages keep their objects alive until they are filed.
LEMMA OffersLiveStep ==
  ASSUME KindInv, OffersLive, [Next]_vars
  PROVE  OffersLive' /\ live' \subseteq live
<1>1. ASSUME NEW m \in Offers \cup Dumps, queue' = Append(queue, m),
             UNCHANGED <<live, call>>, m \in Offers => Target[m] \in live
      PROVE  OffersLive'
  BY <1>1 DEF OffersLive, KindInv, TypeOK
<1>2. CASE (\E w \in Offers : AsyncOffer(w)) \/ (\E d \in Dumps : Dump(d))
  BY <1>1, <1>2, CallsAssumption DEF AsyncOffer, Dump, Enqueue
<1>3. CASE \E o \in Objects : Collect(o)
  BY <1>3 DEF Collect, OffersLive, callVars, KindInv, TypeOK
<1>4. CASE BeginOffer \/ BeginDump
  <2>1. queue # <<>> /\ call' = Head(queue) /\ queue' = Tail(queue) /\ live' = live
    BY <1>4 DEF BeginOffer, BeginDump, Take
  <2>. QED
    BY <2>1 DEF OffersLive, KindInv, TypeOK
<1>5. CASE AddToList \/ PutList \/ EndDump
  BY <1>5, NoneAssumption DEF AddToList, PutList, EndOffer, EndDump, EndListener, OffersLive
<1>6. CASE UNCHANGED <<live, queue, call>>
  BY <1>6 DEF OffersLive
<1>. QED
  BY <1>2, <1>3, <1>4, <1>5, <1>6
  DEF Next, Message, ThreadStep, CleanUpStep, ListenerStep, Stopped, AsyncOffer, Dump, Collect,
     DumpNow, BeginOffer, BeginDump, Take, AddToList, PutList, EndOffer,
     EndDump, EndListener, EndDumpNow, EnterCleanUp, NextEntry, RemoveWeak, DropEntry,
     NextWeak, EndList, LeaveCleanUp, BeginListener, CopyEntry, BeginGroup, ReadWeak, EndGroup,
     FailFast, vars, callVars

\* No step puts a weak into the map whose object is cleared.
LEMMA NoDeadAdded ==
  ASSUME KindInv, OffersLive, [Next]_vars, NEW G, G \cap live = {}
  PROVE  /\ \A l \in Offers : \A w \in list'[l] : Target[w] \in G => w \in list[l]
         /\ \A c \in Filed' : \/ c \in Filed /\ table'[c] = table[c]
                              \/ \A w \in list'[table'[c]] : Target[w] \notin G
<1>0. TypeOK /\ Positions
  BY DEF KindInv
<1>1. CASE AddToList
  <2>1. call \in Offers /\ Target[call] \notin G /\ found \in Offers
    BY <1>0, <1>1 DEF AddToList, EndOffer, Positions, OffersLive, TypeOK
  <2>. QED
    BY <1>0, <1>1, <2>1 DEF AddToList, TypeOK, Filed
<1>2. CASE PutList
  <2>1. call \in Offers /\ Target[call] \notin G /\ ClassFor(call) \in Classes
    BY <1>0, <1>2, TargetAssumption, ClassAssumption
    DEF PutList, EndOffer, Positions, OffersLive, ClassFor
  <2>2. \A l \in Offers : list'[l] = IF l = call THEN {call} ELSE list[l]
    BY <1>0, <1>2 DEF PutList, TypeOK
  <2>3. \A c \in Classes : table'[c] = IF c = ClassFor(call) THEN call ELSE table[c]
    BY <1>0, <1>2 DEF PutList, TypeOK
  <2>. QED
    BY <1>0, <2>1, <2>2, <2>3 DEF Filed
<1>3. ASSUME NEW u \in Threads, RemoveWeak(u)
      PROVE  /\ \A l \in Offers : list'[l] \subseteq list[l]
             /\ table' = table
  BY <1>0, <1>3 DEF RemoveWeak, TypeOK
<1>4. ASSUME NEW u \in Threads, DropEntry(u)
      PROVE  list' = list /\ \A c \in Classes : table'[c] \in {None, table[c]}
  BY <1>0, <1>4 DEF DropEntry, TypeOK
<1>5. CASE UNCHANGED mapVars
  BY <1>5 DEF mapVars, Filed
<1>. QED
  BY MapSteps, <1>1, <1>2, <1>3, <1>4, <1>5 DEF Filed

\* What a thread keeps to itself while the others run.
Kept(t) ==
  /\ pc'[t] = pc[t] /\ gone'[t] = gone[t] /\ entries'[t] = entries[t] /\ seen'[t] = seen[t]
  /\ mapIt'[t].todo = mapIt[t].todo /\ mapIt'[t].at = mapIt[t].at
  /\ listIt'[t].of = listIt[t].of /\ listIt'[t].left = listIt[t].left
  /\ listIt'[t].last = listIt[t].last

\* Steps of t outside cleanUp() and the listener.
Outside(t) ==
  /\ pc[t] \in {"idle", "add", "lock", "threw"} /\ pc'[t] \in {"idle", "add", "lock", "threw"}
  /\ gone'[t] = gone[t] /\ entries'[t] = entries[t] /\ seen'[t] = seen[t]

\* A step is one of t's own or leaves what t keeps alone.
LEMMA StepsOf ==
  ASSUME KindInv, [Next]_vars, NEW t \in Threads
  PROVE  \/ Kept(t) \/ Outside(t) \/ CleanUpStep(t) \/ ListenerStep(t)
         \/ EndListener(t) \/ FailFast(t)
<1>0. TypeOK /\ Positions /\ Handler \in Threads /\ Callers \subseteq Threads
  BY DEF KindInv, Threads
<1>1. CASE \/ \E w \in Offers : AsyncOffer(w)
           \/ \E d \in Dumps : Dump(d)
           \/ \E o \in Objects : Collect(o)
           \/ UNCHANGED vars
  BY <1>1 DEF AsyncOffer, Dump, Collect, vars, Kept, dumpVars
<1>2. ASSUME NEW u \in Callers, DumpNow(u) PROVE Kept(t) \/ Outside(t)
  BY <1>0, <1>2 DEF DumpNow, Kept, Outside, dumpVars, TypeOK
<1>3. CASE BeginOffer \/ BeginDump
  BY <1>0, <1>3 DEF BeginOffer, BeginDump, Take, Kept, Outside, dumpVars, TypeOK
<1>4. CASE AddToList
  <2>1. found \in Offers
    BY <1>0, <1>4 DEF AddToList, TypeOK
  <2>2. \A u \in Threads : /\ listIt'[u].of = listIt[u].of /\ listIt'[u].left = listIt[u].left
                           /\ listIt'[u].last = listIt[u].last
    BY <1>0, <1>4, <2>1, OutdateListType DEF AddToList, TypeOK
  <2>. QED
    BY <1>0, <1>4, <2>2 DEF AddToList, EndOffer, Kept, Outside, dumpVars, TypeOK
<1>5. CASE PutList
  <2>1. \A u \in Threads : mapIt'[u].todo = mapIt[u].todo /\ mapIt'[u].at = mapIt[u].at
    BY <1>0, <1>5, OutdateMapType DEF PutList, TypeOK
  <2>. QED
    BY <1>0, <1>5, <2>1 DEF PutList, EndOffer, Kept, Outside, dumpVars, TypeOK
<1>6. ASSUME NEW u \in Threads, u # t,
             \/ EndListener(u) \/ EnterCleanUp(u) \/ NextEntry(u)
             \/ NextWeak(u) \/ EndList(u) \/ LeaveCleanUp(u) \/ FailFast(u)
      PROVE  Kept(t)
  BY <1>0, <1>6 DEF EndListener, EnterCleanUp, NextEntry, NextWeak, EndList, LeaveCleanUp,
     FailFast, Kept, dumpVars, TypeOK
<1>7. ASSUME NEW u \in Threads, u # t, ListenerStep(u)
      PROVE  Kept(t)
  BY <1>0, <1>7 DEF ListenerStep, BeginListener, CopyEntry, BeginGroup, ReadWeak, EndGroup,
     Kept, dumpVars, TypeOK
<1>8. ASSUME NEW u \in Threads, u # t, RemoveWeak(u)
      PROVE  Kept(t)
  <2>1. listIt[u].of \in Offers
    BY <1>0, <1>8 DEF RemoveWeak, Positions
  <2>2. \A v \in Threads : /\ listIt'[v].of = listIt[v].of /\ listIt'[v].left = listIt[v].left
                           /\ listIt'[v].last = listIt[v].last
    BY <1>0, <1>8, <2>1, OutdateListType DEF RemoveWeak, TypeOK
  <2>. QED
    BY <1>0, <1>8, <2>2 DEF RemoveWeak, Kept, dumpVars, TypeOK
<1>9. ASSUME NEW u \in Threads, u # t, DropEntry(u)
      PROVE  Kept(t)
  <2>1. \A v \in Threads : mapIt'[v].todo = mapIt[v].todo /\ mapIt'[v].at = mapIt[v].at
    BY <1>0, <1>9, OutdateMapType DEF DropEntry, Removed, TypeOK
  <2>. QED
    BY <1>0, <1>9, <2>1 DEF DropEntry, Kept, dumpVars, TypeOK
<1>. QED
  BY <1>0, <1>1, <1>2, <1>3, <1>4, <1>5, <1>6, <1>7, <1>8, <1>9
  DEF Next, Message, ThreadStep, CleanUpStep, EndDump, EndDumpNow, Stopped

\* cleanUp() of t leaves only live weaks behind it, and the listener of t
\* reads what it left.
LEMMA CleanedByStep ==
  ASSUME KindInv, OffersLive, NEW t \in Threads, CleanedBy(t), [Next]_vars
  PROVE  CleanedBy(t)'
<1>0. TypeOK /\ Positions /\ live' \subseteq live
  BY OffersLiveStep DEF KindInv
<1>1. /\ \A l \in Offers : \A w \in list'[l] : Target[w] \in gone[t] => w \in list[l]
      /\ \A c \in Filed' : \/ c \in Filed /\ table'[c] = table[c]
                           \/ \A w \in list'[table'[c]] : Target[w] \notin gone[t]
  BY NoDeadAdded DEF CleanedBy
<1>2. \A c \in Filed : table[c] \in Offers
  BY <1>0 DEF Filed, TypeOK
<1>3. entries[t] \subseteq Offers
  BY <1>0 DEF TypeOK
<1>4. gone'[t] = gone[t] => gone'[t] \cap live' = {}
  BY <1>0 DEF CleanedBy
<1>5. CASE Kept(t)
  BY <1>1, <1>2, <1>3, <1>4, <1>5 DEF Kept, CleanedBy
<1>6. CASE Outside(t)
  BY <1>1, <1>2, <1>3, <1>4, <1>6 DEF Outside, CleanedBy
<1>7. CASE EnterCleanUp(t)
  BY <1>0, <1>7 DEF EnterCleanUp, CleanedBy, MapIterator, TypeOK, mapVars, Filed
<1>8. CASE NextEntry(t)
  <2>1. PICK c \in mapIt[t].todo :
          /\ mapIt' = [mapIt EXCEPT ![t].todo = @ \ {c}, ![t].at = c]
          /\ listIt' = [listIt EXCEPT ![t] = ListIterator(table[c])]
    BY <1>8 DEF NextEntry
  <2>2. /\ mapIt'[t].todo = mapIt[t].todo \ {c} /\ mapIt'[t].at = c
        /\ listIt'[t].of = table[c] /\ listIt'[t].left = list[table[c]]
    BY <1>0, <2>1 DEF TypeOK, MapIterators, ListIterator
  <2>3. /\ pc[t] = "entry" /\ pc'[t] = "weak" /\ gone' = gone /\ entries' = entries
        /\ seen' = seen /\ UNCHANGED <<table, list>>
    BY <1>0, <1>8 DEF NextEntry, TypeOK, mapVars, dumpVars
  <2>. QED
    BY <1>4, <2>2, <2>3 DEF CleanedBy, Filed
<1>9. CASE NextWeak(t)
  <2>1. PICK w \in listIt[t].left :
          /\ listIt' = [listIt EXCEPT ![t].left = @ \ {w}, ![t].last = w]
          /\ pc' = [pc EXCEPT ![t] = IF Cleared(w) THEN "remove" ELSE "weak"]
    BY <1>9 DEF NextWeak
  <2>2. /\ listIt'[t].left = listIt[t].left \ {w} /\ listIt'[t].last = w
        /\ listIt'[t].of = listIt[t].of
    BY <1>0, <2>1 DEF TypeOK, ListIterators
  <2>3. /\ pc[t] = "weak" /\ pc'[t] = IF Cleared(w) THEN "remove" ELSE "weak"
        /\ gone' = gone /\ entries' = entries
        /\ seen' = seen /\ UNCHANGED <<table, list, mapIt>>
    BY <1>0, <1>9, <2>1 DEF NextWeak, TypeOK, mapVars, dumpVars
  <2>4. ~Cleared(w) => Target[w] \notin gone[t]
    BY DEF Cleared, CleanedBy
  <2>. QED
    BY <1>4, <2>2, <2>3, <2>4 DEF CleanedBy, Filed
<1>10. CASE RemoveWeak(t)
  <2>1. listIt[t].of \in Offers
    BY <1>0, <1>10 DEF RemoveWeak, Positions
  <2>2. /\ listIt'[t].of = listIt[t].of /\ listIt'[t].left = listIt[t].left
        /\ listIt'[t].last = listIt[t].last
    BY <1>0, <1>10, <2>1, OutdateListType DEF RemoveWeak, TypeOK
  <2>3. /\ pc[t] = "remove" /\ pc'[t] = "weak" /\ gone' = gone /\ entries' = entries
        /\ seen' = seen /\ UNCHANGED <<table, mapIt>>
        /\ listIt[t].last \notin list'[listIt[t].of]
    BY <1>0, <1>10, <2>1 DEF RemoveWeak, TypeOK, mapVars, dumpVars
  <2>4. \A c \in Filed' : c \in Filed /\ table'[c] = table[c]
    BY <2>3 DEF Filed
  <2>. QED
    BY <1>1, <1>2, <1>3, <1>4, <2>2, <2>3, <2>4 DEF CleanedBy
<1>11. CASE EndList(t)
  BY <1>0, <1>4, <1>11 DEF EndList, AfterList, CleanedBy, TypeOK, mapVars, dumpVars, Filed
<1>12. CASE DropEntry(t)
  <2>1. mapIt'[t].todo = mapIt[t].todo /\ mapIt'[t].at = mapIt[t].at
    BY <1>0, <1>12, OutdateMapType DEF DropEntry, Removed, TypeOK
  <2>2. /\ pc[t] = "drop" /\ pc'[t] = "entry" /\ gone' = gone /\ entries' = entries
        /\ seen' = seen /\ UNCHANGED <<list, listIt>>
    BY <1>0, <1>12 DEF DropEntry, TypeOK, dumpVars
  <2>. QED
    BY <1>1, <1>4, <2>1, <2>2 DEF CleanedBy
<1>13. CASE LeaveCleanUp(t)
  BY <1>0, <1>4, <1>13 DEF LeaveCleanUp, CleanedBy, TypeOK, mapVars, dumpVars, Filed
<1>14. CASE BeginListener(t)
  BY <1>0, <1>4, <1>14 DEF BeginListener, CleanedBy, TypeOK, mapVars, dumpVars, Filed
<1>15. CASE CopyEntry(t)
  <2>1. PICK c \in mapIt[t].todo : entries' = [entries EXCEPT ![t] = @ \cup {table[c]}]
    BY <1>15 DEF CopyEntry
  <2>2. c \in Filed
    BY <1>0, <1>15 DEF CopyEntry, Positions
  <2>. QED
    BY <1>0, <1>4, <1>15, <2>1, <2>2 DEF CopyEntry, CleanedBy, TypeOK, mapVars, Filed
<1>16. CASE BeginGroup(t)
  BY <1>0, <1>4, <1>16 DEF BeginGroup, ListIterator, CleanedBy, TypeOK, mapVars, Filed
<1>17. CASE ReadWeak(t)
  <2>1. PICK w \in listIt[t].left :
          /\ listIt' = [listIt EXCEPT ![t].left = @ \ {w}]
          /\ seen' = [seen EXCEPT ![t] = @ \cup {w}]
    BY <1>17 DEF ReadWeak
  <2>2. listIt'[t].left = listIt[t].left \ {w} /\ seen'[t] = seen[t] \cup {w}
    BY <1>0, <2>1 DEF TypeOK, ListIterators
  <2>. QED
    BY <1>4, <1>17, <2>2 DEF ReadWeak, CleanedBy, mapVars, Filed
<1>18. CASE EndGroup(t)
  BY <1>0, <1>4, <1>18 DEF EndGroup, CleanedBy, TypeOK, mapVars, dumpVars, Filed
<1>19. CASE EndListener(t)
  BY <1>0, <1>19 DEF EndListener, CleanedBy, TypeOK, mapVars, Filed
<1>20. CASE FailFast(t)
  BY <1>0, <1>20 DEF FailFast, CleanedBy, TypeOK, mapVars, Filed
<1>. QED
  BY StepsOf, <1>5, <1>6, <1>7, <1>8, <1>9, <1>10, <1>11, <1>12, <1>13, <1>14, <1>15,
     <1>16, <1>17, <1>18, <1>19, <1>20 DEF CleanUpStep, ListenerStep

\* No dump, on the handler or on a caller of dumpNow, counts an object that was
\* cleared before its own cleanUp() began: whatever the other threads do to the
\* map, they add weaks of live objects only.
THEOREM NoStaleReport == Spec => []FreshReport
<1>1. Init => FreshInv
  BY KindInit, NoneAssumption DEF Init, FreshInv, OffersLive, CleanedBy, Threads
<1>2. FreshInv /\ [Next]_vars => FreshInv'
  <2> SUFFICES ASSUME FreshInv, [Next]_vars PROVE FreshInv'
    OBVIOUS
  <2>1. KindInv'
    BY TypeStep, PositionsStep DEF FreshInv, KindInv
  <2>2. OffersLive'
    BY OffersLiveStep DEF FreshInv
  <2>3. ASSUME NEW t \in Threads PROVE CleanedBy(t)'
    BY CleanedByStep DEF FreshInv
  <2>. QED
    BY <2>1, <2>2, <2>3 DEF FreshInv
<1>3. FreshInv => FreshReport
  BY DEF FreshInv, CleanedBy, FreshReport
<1>. QED
  BY <1>1, <1>2, <1>3, PTL DEF Spec

----------------------------------------------------------------------------
(* What cleanUp() takes out of the map, with Callers = {}.                  *)

\* With dumps from the handler only, cleanUp() takes cleared references out of
\* the map and nothing else does: the comment on cleanUp() is true of a program
\* that never calls dumpNow.
THEOREM CleanUpDropsCleared == ASSUME Callers = {} PROVE Spec => DropsOnlyCleared
<1>1. ASSUME HandlerInv, [Next]_vars
      PROVE  \A w \in Offers : InMap(w) /\ ~InMap(w)' => Target[w] \notin live
  <2>0. Threads = {Handler} /\ TypeOK /\ Positions
    BY <1>1 DEF Threads, HandlerInv, KindInv
  <2>1. CASE AddToList
    <3>1. found \in Offers /\ \A l \in Offers : list[l] \subseteq list'[l]
      BY <2>0, <2>1 DEF AddToList, TypeOK
    <3>. QED
      BY <2>0, <2>1, <3>1 DEF AddToList, InMap, Filed, TypeOK
  <2>2. CASE PutList
    <3>1. call \in Offers /\ table[ClassFor(call)] = None
      BY <1>1, <2>0, <2>2 DEF HandlerInv, FoundIsCurrent, Positions, PutList, EndOffer
    <3>2. \A c \in Filed : c \in Filed' /\ table'[c] = table[c] /\ list'[table[c]] = list[table[c]]
      BY <1>1, <2>0, <2>2, <3>1 DEF HandlerInv, MessagesOnce, Filed, TypeOK, PutList
    <3>. QED
      BY <3>2 DEF InMap
  <2>3. CASE RemoveWeak(Handler)
    <3>1. /\ Target[listIt[Handler].last] \notin live /\ UNCHANGED table
          /\ \A l \in Offers : list[l] \ {listIt[Handler].last} \subseteq list'[l]
      BY <1>1, <2>0, <2>3 DEF HandlerInv, IteratorsCurrent, RemoveWeak, TypeOK
    <3>. QED
      BY <2>0, <3>1 DEF InMap, Filed, TypeOK
  <2>4. CASE DropEntry(Handler)
    <3>1. /\ list[table[mapIt[Handler].at]] = {} /\ UNCHANGED list
          /\ \A c \in Classes : c # mapIt[Handler].at => table'[c] = table[c]
      BY <1>1, <2>0, <2>4 DEF HandlerInv, IteratorsCurrent, DropEntry, TypeOK
    <3>. QED
      BY <3>1 DEF InMap, Filed
  <2>5. CASE UNCHANGED mapVars
    BY <2>5 DEF InMap, Filed, mapVars
  <2>6. CASE Look(Handler)
    BY <2>0, <2>5, <2>6, LookFrame
  <2>. QED
    BY <1>1, HandlerSteps, <2>1, <2>2, <2>3, <2>4, <2>5, <2>6
    DEF AsyncOffer, Dump, Collect, BeginOffer, BeginDump, Take, EndDump, EndListener, vars
<1>. QED
  BY HandlerOnly, <1>1, PTL DEF Spec, DropsOnlyCleared

----------------------------------------------------------------------------
(* The collector keeps the promise of DumpService, with Callers = {}.       *)

\* Messages are handled in the order of the calls: a dump that is not running
\* and not answered is in the queue, behind every call made before it.
InOrder ==
  /\ pc[Handler] = "idle" => call = None
  /\ \A d \in Dumps : before[d] \subseteq posted /\ d \notin before[d]
  /\ \A d \in Dumps \cap posted : d \in done \/ d = call \/ \E i \in DOMAIN queue : queue[i] = d
  /\ \A d \in done : d \in posted /\ d # call /\ \A i \in DOMAIN queue : queue[i] # d
  /\ call \in Dumps => \A i \in DOMAIN queue : queue[i] \notin before[call]
  /\ \A i, j \in DOMAIN queue : queue[j] \in Dumps /\ queue[i] \in before[queue[j]] => i < j

\* Only offers that were made are filed, and so counted.
OnlyPosted ==
  /\ \A l \in Offers : list[l] \subseteq posted
  /\ pc[Handler] = "read" => listIt[Handler].left \subseteq posted
  /\ seen[Handler] \subseteq posted

\* The listener has counted a list, is reading it, or has it still to come.
AllCounted ==
  LET m == mapIt[Handler] i == listIt[Handler] p == pc[Handler]
  IN p \in {"copy", "read"} =>
       \A c \in Filed :
         \/ c \in m.todo
         \/ table[c] \in entries[Handler]
         \/ p = "read" /\ i.of = table[c] /\ list[table[c]] \subseteq seen[Handler] \cup i.left
         \/ list[table[c]] \subseteq seen[Handler]

ServeInv == HandlerInv /\ InOrder /\ OnlyPosted /\ AllCounted

\* A message in an appended queue is an old one or the new one, which is last.
LEMMA AppendElements ==
  ASSUME NEW S, NEW q \in Seq(S), NEW x \in S, NEW i \in DOMAIN Append(q, x)
  PROVE  \/ i \in DOMAIN q /\ Append(q, x)[i] = q[i]
         \/ i = Len(q) + 1 /\ Append(q, x)[i] = x
  OBVIOUS

\* The tail of a queue is the queue without its head, one place further on.
LEMMA TailElements ==
  ASSUME NEW S, NEW q \in Seq(S), q # <<>>, NEW i \in DOMAIN Tail(q)
  PROVE  i + 1 \in DOMAIN q /\ Tail(q)[i] = q[i + 1] /\ 1 \in DOMAIN q /\ q[1] = Head(q)
  OBVIOUS

\* Posting a message puts it behind all others.
LEMMA InOrderPost ==
  ASSUME KindInv, MessagesOnce, InOrder, NEW m \in Offers \cup Dumps, m \notin posted,
         queue' = Append(queue, m), posted' = posted \cup {m}, UNCHANGED <<call, done, pc>>,
         \A d \in Dumps : before'[d] = IF d = m THEN posted ELSE before[d]
  PROVE  InOrder'
<1>0. queue \in Seq(Offers \cup Dumps)
  BY DEF KindInv, TypeOK
<1>1. /\ \A i \in DOMAIN queue : i \in DOMAIN queue' /\ queue'[i] = queue[i]
      /\ \E i \in DOMAIN queue' : queue'[i] = m
  BY <1>0, AppendKeeps
<1>2. \A i \in DOMAIN queue' : \/ i \in DOMAIN queue /\ queue'[i] = queue[i]
                               \/ i = Len(queue) + 1 /\ queue'[i] = m
  BY <1>0, AppendElements
<1>3. /\ \A d \in Dumps : before'[d] \subseteq posted' /\ d \notin before'[d]
      /\ \A d \in Dumps \cap posted' :
           d \in done' \/ d = call' \/ \E i \in DOMAIN queue' : queue'[i] = d
  BY <1>1 DEF InOrder
<1>8. pc'[Handler] = "idle" => call' = None
  BY DEF InOrder
<1>4. call # m
  BY NoneAssumption DEF MessagesOnce
<1>5. \A d \in done' : d \in posted' /\ d # call' /\ \A i \in DOMAIN queue' : queue'[i] # d
  BY <1>2 DEF InOrder
<1>6. call' \in Dumps => \A i \in DOMAIN queue' : queue'[i] \notin before'[call']
  BY <1>2, <1>4 DEF InOrder
<1>7. ASSUME NEW i \in DOMAIN queue', NEW j \in DOMAIN queue',
             queue'[j] \in Dumps, queue'[i] \in before'[queue'[j]]
      PROVE  i < j
  <2>1. CASE j \in DOMAIN queue /\ queue'[j] = queue[j]
    <3>1. queue[j] # m /\ queue'[i] # m
      BY <1>7, <2>1 DEF MessagesOnce, InOrder
    <3>. QED
      BY <1>2, <1>7, <2>1, <3>1 DEF InOrder
  <2>2. CASE j = Len(queue) + 1 /\ queue'[j] = m
    <3>1. i \in DOMAIN queue
      BY <1>2, <1>7, <2>2
    <3>. QED
      BY <1>0, <2>2, <3>1
  <2>. QED
    BY <1>2, <2>1, <2>2
<1>. QED
  BY <1>3, <1>5, <1>6, <1>7, <1>8 DEF InOrder

\* The oldest message is taken first.
LEMMA InOrderTake ==
  ASSUME KindInv, MessagesOnce, InOrder, call \notin Dumps, queue # <<>>,
         call' = Head(queue), queue' = Tail(queue), UNCHANGED <<posted, before, done>>,
         pc'[Handler] # "idle"
  PROVE  InOrder'
<1>0. queue \in Seq(Offers \cup Dumps)
  BY DEF KindInv, TypeOK
<1>1. \A i \in DOMAIN queue' : i + 1 \in DOMAIN queue /\ queue'[i] = queue[i + 1]
  BY <1>0, TailElements
<1>2. 1 \in DOMAIN queue /\ queue[1] = call' /\ \A i \in DOMAIN queue' : i \in Nat /\ i >= 1
  BY <1>0
<1>3. \A i \in DOMAIN queue : \/ queue[i] = call'
                              \/ \E j \in DOMAIN queue' : queue'[j] = queue[i]
  BY <1>0, TailKeeps
<1>4. \A d \in Dumps \cap posted' :
        d \in done' \/ d = call' \/ \E i \in DOMAIN queue' : queue'[i] = d
  BY <1>3 DEF InOrder
<1>5. \A d \in done' : d \in posted' /\ d # call' /\ \A i \in DOMAIN queue' : queue'[i] # d
  BY <1>1, <1>2 DEF InOrder
<1>6. call' \in Dumps => \A i \in DOMAIN queue' : queue'[i] \notin before'[call']
  BY <1>1, <1>2 DEF InOrder
<1>7. ASSUME NEW i \in DOMAIN queue', NEW j \in DOMAIN queue',
             queue'[j] \in Dumps, queue'[i] \in before'[queue'[j]]
      PROVE  i < j
  <2>1. i + 1 < j + 1
    BY <1>1, <1>7 DEF InOrder
  <2>. QED
    BY <1>2, <2>1
<1>. QED
  BY <1>4, <1>5, <1>6, <1>7 DEF InOrder

\* The order of the messages is kept.
LEMMA InOrderStep ==
  ASSUME Callers = {}, HandlerInv, InOrder, [Next]_vars
  PROVE  InOrder'
<1>0. Threads = {Handler} /\ TypeOK /\ Positions /\ KindInv /\ MessagesOnce
  BY DEF Threads, HandlerInv, KindInv
<1>1. ASSUME NEW w \in Offers, AsyncOffer(w) PROVE InOrder'
  <2>1. \A d \in Dumps : before'[d] = IF d = w THEN posted ELSE before[d]
    BY <1>1, CallsAssumption DEF AsyncOffer
  <2>. QED
    BY <1>0, <1>1, <2>1, InOrderPost DEF AsyncOffer, Enqueue, dumpVars
<1>2. ASSUME NEW d \in Dumps, Dump(d) PROVE InOrder'
  <2>1. \A e \in Dumps : before'[e] = IF e = d THEN posted ELSE before[e]
    BY <1>0, <1>2 DEF Dump, TypeOK
  <2>. QED
    BY <1>0, <1>2, <2>1, InOrderPost DEF Dump, Enqueue, dumpVars
<1>3. CASE BeginOffer \/ BeginDump
  <2>1. /\ queue # <<>> /\ call' = Head(queue) /\ queue' = Tail(queue)
        /\ pc[Handler] = "idle" /\ UNCHANGED <<posted, before, done>>
    BY <1>3 DEF BeginOffer, BeginDump, Take, dumpVars
  <2>2. call \notin Dumps
    BY <2>1, NoneAssumption DEF InOrder
  <2>3. pc'[Handler] # "idle"
    BY <1>0, <1>3 DEF BeginOffer, BeginDump, TypeOK
  <2>. QED
    BY <1>0, <2>1, <2>2, <2>3, InOrderTake
<1>4. CASE AddToList \/ PutList
  <2>1. call' = None /\ UNCHANGED <<queue, posted, before, done>> /\ call \in Offers
    BY <1>0, <1>4 DEF AddToList, PutList, EndOffer, dumpVars, Positions
  <2>. QED
    BY <1>0, <2>1, NoneAssumption, CallsAssumption DEF InOrder, TypeOK
<1>5. CASE EndDump
  <2>1. /\ call' = None /\ done' = done \cup {call} /\ UNCHANGED <<queue, posted, before>>
        /\ call \in Dumps
    BY <1>0, <1>5 DEF EndDump, EndListener, Positions, Points
  <2>. QED
    BY <1>0, <2>1, NoneAssumption DEF InOrder, MessagesOnce, TypeOK
<1>6. CASE /\ UNCHANGED <<queue, posted, before, call, done>>
           /\ pc'[Handler] = "idle" => pc[Handler] = "idle"
  BY <1>6 DEF InOrder
<1>7. CASE Look(Handler)
  <2>1. UNCHANGED <<callVars, done>> /\ pc'[Handler] # "idle"
    BY <1>0, <1>7 DEF Look, EnterCleanUp, NextEntry, NextWeak, EndList, LeaveCleanUp, BeginListener,
       CopyEntry, BeginGroup, ReadWeak, EndGroup, dumpVars, TypeOK, AfterList
  <2>. QED
    BY <1>6, <2>1 DEF callVars
<1>. QED
  BY <1>0, HandlerSteps, <1>1, <1>2, <1>3, <1>4, <1>5, <1>6, <1>7
  DEF Collect, RemoveWeak, DropEntry, vars, callVars, dumpVars, TypeOK

\* Only calls that were made reach a list and a report.
LEMMA OnlyPostedStep ==
  ASSUME Callers = {}, HandlerInv, OnlyPosted, [Next]_vars
  PROVE  OnlyPosted'
<1>0. Threads = {Handler} /\ TypeOK /\ Positions
  BY DEF Threads, HandlerInv, KindInv
<1>1. CASE (\E w \in Offers : AsyncOffer(w)) \/ (\E d \in Dumps : Dump(d))
  BY <1>1 DEF AsyncOffer, Dump, OnlyPosted, mapVars, dumpVars
<1>2. CASE AddToList \/ PutList
  <2>1. call \in Offers \cap posted /\ pc'[Handler] = "idle" /\ UNCHANGED <<posted, seen>>
    BY <1>0, <1>2, NoneAssumption
    DEF AddToList, PutList, EndOffer, HandlerInv, MessagesOnce, Positions, TypeOK, dumpVars
  <2>2. \A l \in Offers : list'[l] \subseteq list[l] \cup {call}
    BY <1>0, <1>2 DEF AddToList, PutList, TypeOK
  <2>. QED
    BY <2>1, <2>2 DEF OnlyPosted
<1>3. CASE RemoveWeak(Handler)
  BY <1>0, <1>3 DEF RemoveWeak, OnlyPosted, TypeOK, callVars, dumpVars
<1>4. CASE BeginGroup(Handler)
  BY <1>0, <1>4 DEF BeginGroup, ListIterator, OnlyPosted, TypeOK, callVars, mapVars
<1>5. CASE ReadWeak(Handler)
  <2>1. PICK w \in listIt[Handler].left :
          /\ listIt' = [listIt EXCEPT ![Handler].left = @ \ {w}]
          /\ seen' = [seen EXCEPT ![Handler] = @ \cup {w}]
    BY <1>5 DEF ReadWeak
  <2>2. listIt'[Handler].left = listIt[Handler].left \ {w} /\ seen'[Handler] = seen[Handler] \cup {w}
    BY <1>0, <2>1 DEF TypeOK, ListIterators
  <2>. QED
    BY <1>5, <2>1, <2>2 DEF ReadWeak, OnlyPosted, callVars, mapVars
<1>6. CASE EndDump
  BY <1>0, <1>6 DEF EndDump, EndListener, OnlyPosted, mapVars, TypeOK
<1>7. CASE /\ UNCHANGED <<posted, list, seen>> /\ pc'[Handler] # "read"
  BY <1>7 DEF OnlyPosted
<1>8. CASE UNCHANGED <<posted, list, seen, pc, listIt>>
  BY <1>8 DEF OnlyPosted
<1>. QED
  BY <1>0, HandlerSteps, <1>1, <1>2, <1>3, <1>4, <1>5, <1>6, <1>7, <1>8
  DEF Collect, BeginOffer, BeginDump, Take, DropEntry, Look, EnterCleanUp, NextEntry, NextWeak,
      EndList, AfterList, LeaveCleanUp, BeginListener, CopyEntry, EndGroup,
      vars, callVars, mapVars, dumpVars, TypeOK

\* The listener skips no list, and the map stays as it is while it reads.
LEMMA AllCountedStep ==
  ASSUME Callers = {}, HandlerInv, AllCounted, [Next]_vars
  PROVE  AllCounted'
<1>0. Threads = {Handler} /\ TypeOK /\ Positions
  BY DEF Threads, HandlerInv, KindInv
<1>1. CASE pc'[Handler] \notin {"copy", "read"}
  BY <1>1 DEF AllCounted
<1>2. CASE UNCHANGED <<pc, mapIt, listIt, entries, seen, table, list>>
  BY <1>2 DEF AllCounted, Filed
<1>3. CASE BeginListener(Handler)
  BY <1>0, <1>3 DEF BeginListener, MapIterator, AllCounted, TypeOK, mapVars, Filed
<1>4. CASE CopyEntry(Handler)
  <2>1. PICK c \in mapIt[Handler].todo :
          /\ mapIt' = [mapIt EXCEPT ![Handler].todo = @ \ {c}]
          /\ entries' = [entries EXCEPT ![Handler] = @ \cup {table[c]}]
    BY <1>4 DEF CopyEntry
  <2>2. /\ mapIt'[Handler].todo = mapIt[Handler].todo \ {c}
        /\ entries'[Handler] = entries[Handler] \cup {table[c]}
    BY <1>0, <2>1 DEF TypeOK, MapIterators
  <2>. QED
    BY <1>4, <2>2 DEF CopyEntry, AllCounted, mapVars, Filed
<1>5. CASE BeginGroup(Handler)
  <2>1. PICK l \in entries[Handler] :
          /\ entries' = [entries EXCEPT ![Handler] = @ \ {l}]
          /\ listIt' = [listIt EXCEPT ![Handler] = ListIterator(l)]
    BY <1>5 DEF BeginGroup
  <2>2. /\ entries'[Handler] = entries[Handler] \ {l}
        /\ listIt'[Handler].of = l /\ listIt'[Handler].left = list[l] /\ pc'[Handler] = "read"
    BY <1>0, <1>5, <2>1 DEF BeginGroup, TypeOK, ListIterator
  <2>. QED
    BY <1>5, <2>2 DEF BeginGroup, AllCounted, mapVars, Filed
<1>6. CASE ReadWeak(Handler)
  <2>1. PICK w \in listIt[Handler].left :
          /\ listIt' = [listIt EXCEPT ![Handler].left = @ \ {w}]
          /\ seen' = [seen EXCEPT ![Handler] = @ \cup {w}]
    BY <1>6 DEF ReadWeak
  <2>2. /\ listIt'[Handler].left = listIt[Handler].left \ {w}
        /\ listIt'[Handler].of = listIt[Handler].of
        /\ seen'[Handler] = seen[Handler] \cup {w}
    BY <1>0, <2>1 DEF TypeOK, ListIterators
  <2>. QED
    BY <1>6, <2>2 DEF ReadWeak, AllCounted, mapVars, Filed
<1>7. CASE EndGroup(Handler)
  BY <1>0, <1>7 DEF EndGroup, AllCounted, TypeOK, mapVars, dumpVars, Filed
<1>. QED
  BY <1>0, HandlerSteps, <1>1, <1>2, <1>3, <1>4, <1>5, <1>6, <1>7
  DEF AsyncOffer, Dump, Collect, BeginOffer, BeginDump, Take, AddToList, PutList, EndOffer,
      RemoveWeak, DropEntry, EndDump, EndListener,
      Look, EnterCleanUp, NextEntry, NextWeak, EndList, AfterList, LeaveCleanUp,
      vars, callVars, mapVars, dumpVars, TypeOK

\* What the service knows of the state is changed by these steps only.
LEMMA ServiceStep ==
  ASSUME Callers = {}, ServeInv, [Next]_vars
  PROVE  [Service!Next]_(Service!vars)
<1>0. Threads = {Handler} /\ TypeOK /\ Positions /\ HandlerInv
  BY DEF Threads, HandlerInv, KindInv, ServeInv
<1>1. ASSUME NEW w \in Offers, AsyncOffer(w) PROVE Service!Offer(w)
  BY <1>1 DEF AsyncOffer, Service!Offer, dumpVars
<1>2. ASSUME NEW d \in Dumps, Dump(d) PROVE Service!Request(d)
  BY <1>2 DEF Dump, Service!Request, dumpVars
<1>3. ASSUME NEW o \in Objects, Collect(o) PROVE Service!Collect(o)
  BY <1>3 DEF Collect, Service!Collect, callVars, dumpVars
<1>4. CASE EndDump
  <2>1. /\ pc[Handler] = "copy" /\ mapIt[Handler].todo = {} /\ entries[Handler] = {}
        /\ done' = done \cup {call} /\ report' = [report EXCEPT ![call] = seen[Handler]]
        /\ UNCHANGED <<live, posted, before>>
    BY <1>4 DEF EndDump, EndListener
  <2>2. call \in Dumps /\ call \in posted \ done
    BY <1>0, <2>1, NoneAssumption DEF Positions, Points, HandlerInv, MessagesOnce, ServeInv, InOrder
  <2>3. before[call] \cap Dumps \subseteq done
    BY <2>2 DEF ServeInv, InOrder
  <2>4. \A c \in Filed : list[table[c]] \subseteq seen[Handler]
    BY <2>1 DEF ServeInv, AllCounted
  <2>5. ASSUME NEW w \in before[call] \cap Offers, Target[w] \in live PROVE w \in seen[Handler]
    <3>1. w \in posted /\ w # call /\ \A i \in DOMAIN queue : queue[i] # w
      BY <2>2, CallsAssumption DEF ServeInv, InOrder
    <3>2. table[ClassFor(w)] # None /\ w \in list[table[ClassFor(w)]]
      BY <1>0, <2>5, <3>1 DEF HandlerInv, NoLostRef
    <3>3. ClassFor(w) \in Filed
      BY <3>2, TargetAssumption, ClassAssumption DEF ClassFor, Filed
    <3>. QED
      BY <2>4, <3>2, <3>3
  <2>6. seen[Handler] \subseteq posted \cap Offers
    BY <1>0 DEF ServeInv, OnlyPosted, TypeOK
  <2>7. Service!Owed(call) \subseteq seen[Handler]
    BY <2>5 DEF Service!Owed
  <2>8. Service!Deliver(call)
    BY <2>1, <2>2, <2>3, <2>6, <2>7 DEF Service!Deliver
  <2>. QED
    BY <2>2, <2>8 DEF Service!Next
<1>5. CASE UNCHANGED <<live, posted, before, done, report>>
  BY <1>5 DEF Service!vars
<1>. QED
  BY HandlerSteps, <1>0, <1>1, <1>2, <1>3, <1>4, <1>5
  DEF Service!Next, BeginOffer, BeginDump, Take, AddToList, PutList, EndOffer,
      RemoveWeak, DropEntry, Look, EnterCleanUp, NextEntry, NextWeak, EndList, LeaveCleanUp,
      BeginListener, CopyEntry, BeginGroup, ReadWeak, EndGroup, vars, callVars, dumpVars

\* The collector, used from its handler only, implements the service that
\* ReferenceMgr promises: dumps are answered in the order of the calls, and a
\* report counts every object offered before the dump that is still live, and
\* nothing that was never offered.
THEOREM ServesDumps == ASSUME Callers = {} PROVE Spec => Service!Safety
<1>1. Init => InOrder /\ OnlyPosted /\ AllCounted
  BY NoneAssumption DEF Init, InOrder, OnlyPosted, AllCounted, Threads
<1>2. ASSUME HandlerInv, InOrder, OnlyPosted, AllCounted, [Next]_vars
      PROVE  InOrder' /\ OnlyPosted' /\ AllCounted'
  BY <1>2, InOrderStep, OnlyPostedStep, AllCountedStep
<1>3. Spec => []ServeInv
  BY HandlerOnly, <1>1, <1>2, PTL DEF Spec, ServeInv
<1>4. Init => Service!Init
  BY DEF Init, Service!Init
<1>5. ServeInv /\ [Next]_vars => [Service!Next]_(Service!vars)
  BY ServiceStep
<1>. QED
  BY <1>3, <1>4, <1>5, PTL DEF Spec, Service!Safety
=============================================================================
