-------------------------- MODULE ReferenceKernel --------------------------
(* The collector of referencedumps (ReferenceKernel.kt, behind the facade   *)
(* ReferenceMgr.java): instrumented code offers every object it creates, a  *)
(* HandlerThread files a weak reference for it in a map from class to list, *)
(* and a dump drops the cleared references and hands the map to a listener. *)
(*                                                                          *)
(* A call of asyncOffer names the ReferenceWeak it makes, and the ArrayList *)
(* it makes when its class has none.  Only the order of the looper's queue  *)
(* matters to the properties: a list is the set of its weaks, iterated in   *)
(* any order.  One step is one call of a HashMap, ArrayList or iterator, so *)
(* steps of threads that share the map interleave between those calls.      *)
EXTENDS Naturals, Sequences

CONSTANTS Offers,    \* calls of asyncOffer with a non-null object
          Dumps,     \* calls of dump
          Objects, Classes,
          Target,    \* the object a call of asyncOffer offers
          ClassOf,   \* the class of an object
          Handler,   \* the HandlerThread
          Callers,   \* the threads that call dumpNow
          None       \* Java's null

ASSUME CallsAssumption == Offers \cap Dumps = {}
ASSUME TargetAssumption == Target \in [Offers -> Objects]
ASSUME ClassAssumption == ClassOf \in [Objects -> Classes]
ASSUME ThreadsAssumption == Handler \notin Callers
ASSUME NoneAssumption == None \notin Offers \cup Dumps \cup Classes \cup Callers \cup {Handler}

Threads == Callers \cup {Handler}

VARIABLES
  live,     \* objects the garbage collector has not cleared
  queue,    \* the looper's message queue, in the order of Handler.post
  posted,   \* calls made so far
  before,   \* per dump, the calls made before it (history)
  call,     \* the message the handler is running
  found,    \* what offer() read from the map
  table,    \* referenceWeakMap: the list filed under a class, or None
  list,     \* the contents of each ArrayList
  pc,       \* where each thread is
  lock,     \* the holder of the monitor of cleanUp()
  mapIt,    \* each thread's iterator over the map
  listIt,   \* each thread's iterator over a list
  entries,  \* lists the listener copied from the map and has not read
  seen,     \* weaks the listener has counted in the running dump
  gone,     \* objects already cleared when the running cleanUp() began (history)
  done,     \* dumps whose listener has returned (history)
  report    \* what the listener counted for them (history)

callVars == <<queue, posted, before, call, found>>
mapVars  == <<table, list>>
dumpVars == <<entries, seen, gone, done, report>>
vars == <<live, callVars, mapVars, pc, lock, mapIt, listIt, dumpVars>>

ClassFor(w) == ClassOf[Target[w]]
Filed == {c \in Classes : table[c] # None}

\* Handler.post, referenceWeakMap[clazz], weak.get() == null, if (list.isEmpty()),
\* and the monitor once t has left the synchronized method by an exception.
\* The definition above each is a slip that a run must notice.
PostAtFront(m) == <<m>> \o queue
Enqueue(m) == Append(queue, m)
LookupKey(c) == c
Lookup(c) == table[c]
NeverCleared(w) == FALSE
AlwaysCleared(w) == TRUE
Cleared(w) == Target[w] \notin live
KeepEmptyList(l) == "entry"
AfterList(l) == IF list[l] = {} THEN "drop" ELSE "entry"
NotReleased(t) == lock
Released(t) == IF lock = t THEN None ELSE lock

\* An iterator is stale once what it iterates was resized otherwise than through
\* its own remove(), by whatever thread: its expectedModCount no longer matches.
\* hasNext() looks at what was there at creation: Android's ArrayList keeps a
\* limit, HashMap the next node.
MapIterators  == [todo : SUBSET Classes, at : Classes \cup {None}, stale : BOOLEAN]
ListIterators == [of : Offers \cup {None}, left : SUBSET Offers,
                  last : Offers \cup {None}, stale : BOOLEAN]
MapIterator   == [todo |-> Filed, at |-> None, stale |-> FALSE]
ListIterator(l) == [of |-> l, left |-> list[l], last |-> None, stale |-> FALSE]
NoMapIt  == [todo |-> {}, at |-> None, stale |-> FALSE]
NoListIt == [of |-> None, left |-> {}, last |-> None, stale |-> FALSE]

\* The iterators over the map, or over list l, once it was resized: all of them go
\* stale but those of `through`, by which an element was removed.
OutdateMap(through) ==
  [u \in Threads |-> [mapIt[u] EXCEPT !.stale = @ \/ (u \notin through /\ mapIt[u] # NoMapIt)]]
OutdateList(through, l) ==
  [u \in Threads |-> [listIt[u] EXCEPT !.stale = @ \/ (u \notin through /\ listIt[u].of = l)]]

Init ==
  /\ live = Objects
  /\ queue = <<>> /\ posted = {} /\ before = [d \in Dumps |-> {}]
  /\ call = None /\ found = None
  /\ table = [c \in Classes |-> None] /\ list = [w \in Offers |-> {}]
  /\ pc = [t \in Threads |-> "idle"] /\ lock = None
  /\ mapIt = [t \in Threads |-> NoMapIt] /\ listIt = [t \in Threads |-> NoListIt]
  /\ entries = [t \in Threads |-> {}] /\ seen = [t \in Threads |-> {}]
  /\ gone = [t \in Threads |-> {}]
  /\ done = {} /\ report = [d \in Dumps |-> {}]

----------------------------------------------------------------------------
(* The application and the runtime.                                         *)

\* Slip: the object is filed at once, by the thread that offers it, which may be
\* the handler in the midst of its listener.
OfferInPlace(w) ==
  /\ w \notin posted /\ Target[w] \in live
  /\ posted' = posted \cup {w}
  /\ LET c == ClassFor(w) IN
     IF table[c] = None
     THEN /\ list' = [list EXCEPT ![w] = {w}] /\ table' = [table EXCEPT ![c] = w]
          /\ mapIt' = OutdateMap({}) /\ UNCHANGED listIt
     ELSE /\ list' = [list EXCEPT ![table[c]] = @ \cup {w}] /\ listIt' = OutdateList({}, table[c])
          /\ UNCHANGED <<table, mapIt>>
  /\ UNCHANGED <<live, queue, before, call, found, pc, lock, dumpVars>>

\* Any thread offers an object it holds: the message's closure holds it too.  The
\* thread may be the handler, whose listener may be woven code that creates objects.
AsyncOffer(w) ==
  /\ w \notin posted /\ Target[w] \in live
  /\ queue' = Enqueue(w) /\ posted' = posted \cup {w}
  /\ UNCHANGED <<live, before, call, found, mapVars, pc, lock, mapIt, listIt, dumpVars>>

Dump(d) ==
  /\ d \notin posted
  /\ queue' = Enqueue(d) /\ posted' = posted \cup {d}
  /\ before' = [before EXCEPT ![d] = posted]
  /\ UNCHANGED <<live, call, found, mapVars, pc, lock, mapIt, listIt, dumpVars>>

\* The application lets go of an object that no message holds, and the
\* collector clears every weak reference to it.
Collect(o) ==
  /\ o \in live
  /\ \A w \in Offers : Target[w] = o => w # call /\ \A i \in DOMAIN queue : queue[i] # w
  /\ live' = live \ {o}
  /\ UNCHANGED <<callVars, mapVars, pc, lock, mapIt, listIt, dumpVars>>

\* A thread calls dumpNow (again, if it caught what the last call threw).
DumpNow(t) ==
  /\ t \in Callers /\ pc[t] \in {"idle", "threw"}
  /\ pc' = [pc EXCEPT ![t] = "lock"]
  /\ UNCHANGED <<live, callVars, mapVars, lock, mapIt, listIt, dumpVars>>

----------------------------------------------------------------------------
(* The handler thread's messages.                                           *)

Take ==
  /\ pc[Handler] = "idle" /\ queue # <<>>
  /\ call' = Head(queue) /\ queue' = Tail(queue)
  /\ UNCHANGED <<live, posted, before, mapVars, lock, mapIt, listIt, dumpVars>>

BeginOffer ==
  /\ Take /\ Head(queue) \in Offers
  /\ found' = Lookup(ClassFor(Head(queue)))
  /\ pc' = [pc EXCEPT ![Handler] = "add"]

BeginDump ==
  /\ Take /\ Head(queue) \in Dumps
  /\ pc' = [pc EXCEPT ![Handler] = "lock"]
  /\ UNCHANGED found

EndOffer ==
  /\ pc[Handler] = "add"
  /\ pc' = [pc EXCEPT ![Handler] = "idle"] /\ call' = None /\ found' = None
  /\ UNCHANGED <<live, queue, posted, before, lock, dumpVars>>

AddToList ==
  /\ EndOffer /\ found # None
  /\ list' = [list EXCEPT ![found] = @ \cup {call}]
  /\ listIt' = OutdateList({}, found)
  /\ UNCHANGED <<table, mapIt>>

PutList ==
  /\ EndOffer /\ found = None
  /\ list' = [list EXCEPT ![call] = {call}]
  /\ table' = [table EXCEPT ![ClassFor(call)] = call]
  /\ mapIt' = OutdateMap({})
  /\ UNCHANGED listIt

----------------------------------------------------------------------------
(* cleanUp(), under the kernel's monitor, on the handler or on a caller.    *)

EnterCleanUp(t) ==
  /\ pc[t] = "lock" /\ lock = None
  /\ lock' = t /\ pc' = [pc EXCEPT ![t] = "entry"]
  /\ mapIt' = [mapIt EXCEPT ![t] = MapIterator]
  /\ gone' = [gone EXCEPT ![t] = Objects \ live]
  /\ UNCHANGED <<live, callVars, mapVars, listIt, entries, seen, done, report>>

NextEntry(t) ==
  /\ pc[t] = "entry" /\ ~mapIt[t].stale
  /\ \E c \in mapIt[t].todo :
       /\ mapIt' = [mapIt EXCEPT ![t].todo = @ \ {c}, ![t].at = c]
       /\ listIt' = [listIt EXCEPT ![t] = ListIterator(table[c])]
  /\ pc' = [pc EXCEPT ![t] = "weak"]
  /\ UNCHANGED <<live, callVars, mapVars, lock, dumpVars>>

NextWeak(t) ==
  /\ pc[t] = "weak" /\ ~listIt[t].stale
  /\ \E w \in listIt[t].left :
       /\ listIt' = [listIt EXCEPT ![t].left = @ \ {w}, ![t].last = w]
       /\ pc' = [pc EXCEPT ![t] = IF Cleared(w) THEN "remove" ELSE "weak"]
  /\ UNCHANGED <<live, callVars, mapVars, lock, mapIt, dumpVars>>

RemoveWeak(t) ==
  /\ pc[t] = "remove" /\ ~listIt[t].stale
  /\ list' = [list EXCEPT ![listIt[t].of] = @ \ {listIt[t].last}]
  /\ listIt' = OutdateList({t}, listIt[t].of)
  /\ pc' = [pc EXCEPT ![t] = "weak"]
  /\ UNCHANGED <<live, callVars, table, lock, mapIt, dumpVars>>

\* `if (list.isEmpty())`: what it answers is acted on in the next step.
EndList(t) ==
  /\ pc[t] = "weak" /\ listIt[t].left = {}
  /\ pc' = [pc EXCEPT ![t] = AfterList(listIt[t].of)]
  /\ listIt' = [listIt EXCEPT ![t] = NoListIt]
  /\ UNCHANGED <<live, callVars, mapVars, lock, mapIt, dumpVars>>

\* mapIterator.remove().  The slip is the map's own remove(), by key.
RemovedByKey(t) == OutdateMap({})
Removed(t) == OutdateMap({t})
DropEntry(t) ==
  /\ pc[t] = "drop" /\ ~mapIt[t].stale
  /\ table' = [table EXCEPT ![mapIt[t].at] = None]
  /\ mapIt' = Removed(t)
  /\ pc' = [pc EXCEPT ![t] = "entry"]
  /\ UNCHANGED <<live, callVars, list, lock, listIt, dumpVars>>

LeaveCleanUp(t) ==
  /\ pc[t] = "entry" /\ mapIt[t].todo = {}
  /\ lock' = None /\ pc' = [pc EXCEPT ![t] = "dump"]
  /\ mapIt' = [mapIt EXCEPT ![t] = NoMapIt]
  /\ UNCHANGED <<live, callVars, mapVars, listIt, dumpVars>>

----------------------------------------------------------------------------
(* The listener: OnDefaultDumpListener, or one of dumpNow that reads the    *)
(* map the same way.  It runs without the monitor.                          *)

BeginListener(t) ==
  /\ pc[t] = "dump"
  /\ mapIt' = [mapIt EXCEPT ![t] = MapIterator]
  /\ pc' = [pc EXCEPT ![t] = "copy"]
  /\ UNCHANGED <<live, callVars, mapVars, lock, listIt, dumpVars>>

CopyEntry(t) ==
  /\ pc[t] = "copy" /\ ~mapIt[t].stale
  /\ \E c \in mapIt[t].todo :
       /\ mapIt' = [mapIt EXCEPT ![t].todo = @ \ {c}]
       /\ entries' = [entries EXCEPT ![t] = @ \cup {table[c]}]
  /\ UNCHANGED <<live, callVars, mapVars, pc, lock, listIt, seen, gone, done, report>>

BeginGroup(t) ==
  /\ pc[t] = "copy" /\ mapIt[t].todo = {}
  /\ \E l \in entries[t] :
       /\ entries' = [entries EXCEPT ![t] = @ \ {l}]
       /\ listIt' = [listIt EXCEPT ![t] = ListIterator(l)]
  /\ pc' = [pc EXCEPT ![t] = "read"]
  /\ UNCHANGED <<live, callVars, mapVars, lock, mapIt, seen, gone, done, report>>

ReadWeak(t) ==
  /\ pc[t] = "read" /\ ~listIt[t].stale
  /\ \E w \in listIt[t].left :
       /\ listIt' = [listIt EXCEPT ![t].left = @ \ {w}]
       /\ seen' = [seen EXCEPT ![t] = @ \cup {w}]
  /\ UNCHANGED <<live, callVars, mapVars, pc, lock, mapIt, entries, gone, done, report>>

EndGroup(t) ==
  /\ pc[t] = "read" /\ listIt[t].left = {}
  /\ listIt' = [listIt EXCEPT ![t] = NoListIt]
  /\ pc' = [pc EXCEPT ![t] = "copy"]
  /\ UNCHANGED <<live, callVars, mapVars, lock, mapIt, dumpVars>>

EndListener(t) ==
  /\ pc[t] = "copy" /\ mapIt[t].todo = {} /\ entries[t] = {}
  /\ pc' = [pc EXCEPT ![t] = "idle"]
  /\ mapIt' = [mapIt EXCEPT ![t] = NoMapIt]
  /\ seen' = [seen EXCEPT ![t] = {}] /\ gone' = [gone EXCEPT ![t] = {}]
  /\ UNCHANGED <<live, queue, posted, before, found, mapVars, lock, listIt, entries>>

EndDump ==
  /\ EndListener(Handler)
  /\ done' = done \cup {call} /\ report' = [report EXCEPT ![call] = seen[Handler]]
  /\ call' = None

EndDumpNow(t) ==
  /\ t \in Callers /\ EndListener(t)
  /\ UNCHANGED <<done, report, call>>

\* next() or remove() of a stale iterator: ConcurrentModificationException.
\* A thread that holds the monitor releases it; the exception goes to the
\* caller of dumpNow, or ends the handler thread and so the process.
FailFast(t) ==
  /\ \/ pc[t] \in {"entry", "copy"} /\ mapIt[t].todo # {} /\ mapIt[t].stale
     \/ pc[t] = "drop" /\ mapIt[t].stale
     \/ pc[t] \in {"weak", "read"} /\ listIt[t].left # {} /\ listIt[t].stale
     \/ pc[t] = "remove" /\ listIt[t].stale
  /\ pc' = [pc EXCEPT ![t] = "threw"]
  /\ lock' = Released(t)
  /\ mapIt' = [mapIt EXCEPT ![t] = NoMapIt] /\ listIt' = [listIt EXCEPT ![t] = NoListIt]
  /\ entries' = [entries EXCEPT ![t] = {}] /\ seen' = [seen EXCEPT ![t] = {}]
  /\ gone' = [gone EXCEPT ![t] = {}]
  /\ UNCHANGED <<live, callVars, mapVars, done, report>>

----------------------------------------------------------------------------
Message == BeginOffer \/ BeginDump \/ AddToList \/ PutList \/ EndDump

CleanUpStep(t) == EnterCleanUp(t) \/ NextEntry(t) \/ NextWeak(t) \/ RemoveWeak(t)
                    \/ EndList(t) \/ DropEntry(t) \/ LeaveCleanUp(t)
ListenerStep(t) == BeginListener(t) \/ CopyEntry(t) \/ BeginGroup(t)
                     \/ ReadWeak(t) \/ EndGroup(t)
ThreadStep(t) == CleanUpStep(t) \/ ListenerStep(t) \/ EndDumpNow(t) \/ FailFast(t)

Running == pc[Handler] # "threw"

\* The application may make no more calls, and an uncaught exception ends it.
Stopped ==
  /\ ~Running \/ (queue = <<>> /\ \A t \in Threads : pc[t] \in {"idle", "threw"})
  /\ UNCHANGED vars

Next ==
  \/ Running /\ (\E w \in Offers : AsyncOffer(w))
  \/ Running /\ (\E d \in Dumps : Dump(d))
  \/ Running /\ (\E o \in Objects : Collect(o))
  \/ Running /\ (\E t \in Callers : DumpNow(t))
  \/ Running /\ Message
  \/ Running /\ (\E t \in Threads : ThreadStep(t))
  \/ Stopped

Spec == Init /\ [][Next]_vars

\* The looper and every thread that has entered the kernel keep running.
Fairness ==
  /\ WF_vars(Running /\ (Message \/ ThreadStep(Handler)))
  /\ \A t \in Callers : WF_vars(Running /\ ThreadStep(t))
FairSpec == Spec /\ Fairness

----------------------------------------------------------------------------
Points == {"idle", "add", "lock", "entry", "weak", "remove", "drop",
           "dump", "copy", "read", "threw"}

\* Every variable holds a value of its kind, in every configuration.
TypeOK ==
  /\ live \subseteq Objects
  /\ queue \in Seq(Offers \cup Dumps) /\ posted \subseteq Offers \cup Dumps
  /\ before \in [Dumps -> SUBSET (Offers \cup Dumps)]
  /\ call \in Offers \cup Dumps \cup {None} /\ found \in Offers \cup {None}
  /\ table \in [Classes -> Offers \cup {None}] /\ list \in [Offers -> SUBSET Offers]
  /\ pc \in [Threads -> Points] /\ lock \in Threads \cup {None}
  /\ mapIt \in [Threads -> MapIterators] /\ listIt \in [Threads -> ListIterators]
  /\ entries \in [Threads -> SUBSET Offers] /\ seen \in [Threads -> SUBSET Offers]
  /\ gone \in [Threads -> SUBSET Objects]
  /\ done \subseteq Dumps /\ report \in [Dumps -> SUBSET Offers]

\* TypeOK is not inductive alone: which message the handler runs and what the
\* iterators hold follow from where each thread is.
Positions ==
  /\ pc[Handler] = "add" => call \in Offers
  /\ pc[Handler] \in Points \ {"idle", "add"} => call \in Dumps
  /\ \A t \in Threads :
       /\ ~mapIt[t].stale => mapIt[t].todo \subseteq Filed
       /\ pc[t] \in {"weak", "remove", "drop"} => mapIt[t].at \in Classes \ mapIt[t].todo
       /\ pc[t] \in {"weak", "remove", "read"} => listIt[t].of \in Offers
       /\ pc[t] = "remove" => listIt[t].last \in Offers

KindInv == TypeOK /\ Positions

\* The map keeps what it was given.  Once the handler has filed an object that
\* is still live, its weak reference stays in the list filed under its class,
\* whatever cleanUp() removed meanwhile.
NoLostRef ==
  \A w \in posted \cap Offers :
    \/ Target[w] \notin live
    \/ w = call
    \/ \E i \in DOMAIN queue : queue[i] = w
    \/ table[ClassFor(w)] # None /\ w \in list[table[ClassFor(w)]]

\* No empty list stays in the map: cleanUp() may empty a list only while it
\* works on that very entry, and removes it before it goes on.
NoEmptyList ==
  \A c \in Filed :
    \/ list[table[c]] # {}
    \/ \E t \in Threads : lock = t /\ mapIt[t].at = c /\ pc[t] \in {"weak", "drop"}

OneListPerClass == \A c, e \in Filed : table[c] = table[e] => c = e

\* A dump never counts an object that the collector had cleared before the
\* dump's cleanUp() began, whatever other threads do to the map meanwhile.
FreshReport == \A t \in Threads : \A w \in seen[t] : Target[w] \notin gone[t]

\* While only the handler touches the map no iterator ever fails, and the process
\* survives every dump: nothing is filed while cleanUp() or the listener iterates,
\* though objects are offered then (asyncOffer posts), and cleanUp() removes through
\* the iterators it has.
NoException == \A t \in Threads : pc[t] # "threw"

\* cleanUp() drops cleared references only ("clear the empty references",
\* ReferenceKernel.kt:46): no step takes a live object's weak out of the map.
InMap(w) == \E c \in Filed : w \in list[table[c]]
DropsOnlyCleared ==
  [][\A w \in Offers : InMap(w) /\ ~InMap(w)' => Target[w] \notin live]_vars

\* A thread inside cleanUp() gives the monitor back, also when an iterator
\* throws: a failed dumpNow never blocks the dumps that follow.
MonitorReleased == \A t \in Threads : (lock = t) ~> (lock # t \/ ~Running)

\* Why NoLostRef and NoException hold when only the handler reads the map.

\* A message is in one place: once in the queue, or running; and the weak of an
\* offer that is still to be filed names no list.
MessagesOnce ==
  /\ \A i \in DOMAIN queue : queue[i] \in posted /\ queue[i] # call
  /\ \A i, j \in DOMAIN queue : queue[i] = queue[j] => i = j
  /\ call # None => call \in posted
  /\ \A c \in Filed : table[c] \in posted /\ table[c] # call
                       /\ \A i \in DOMAIN queue : queue[i] # table[c]

\* offer() acts on what the map still holds.
FoundIsCurrent ==
  /\ call \in Offers => pc[Handler] = "add"
  /\ pc[Handler] = "add" => found = table[ClassFor(call)]

\* cleanUp() looks at what the map still holds, and nothing is being iterated when
\* an offer is filed.
IteratorsCurrent ==
  LET m == mapIt[Handler] i == listIt[Handler] p == pc[Handler]
  IN /\ ~m.stale /\ ~i.stale
     /\ p \notin {"entry", "weak", "remove", "drop", "copy", "read"} => m = NoMapIt
     /\ p \notin {"weak", "remove", "read"} => i = NoListIt
     /\ p \in {"weak", "remove", "drop"} => table[m.at] # None
     /\ p \in {"weak", "remove"} => i.of = table[m.at]
     /\ p = "remove" => Target[i.last] \notin live
     /\ p = "drop" => list[table[m.at]] = {}

HandlerInv ==
  /\ KindInv /\ MessagesOnce /\ FoundIsCurrent /\ OneListPerClass /\ IteratorsCurrent
  /\ NoLostRef /\ NoException

\* What the kernel promises its users while only the handler reads the map.
Service == INSTANCE DumpService WITH
  Offers <- Offers, Dumps <- Dumps, Objects <- Objects, Target <- Target,
  live <- live, posted <- posted, before <- before, done <- done, report <- report
ServiceSpec == Service!Spec
=============================================================================
