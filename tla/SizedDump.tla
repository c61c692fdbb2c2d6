----------------------------- MODULE SizedDump -----------------------------
(* The listener of referencedumpsview (OnDumpWithSizeListener.kt): a click  *)
(* of the overlay queues a flag and asks the kernel for a dump; a dump that *)
(* takes a true flag sizes every reference on a thread pool, in recycled    *)
(* DumpSizeTasks, and the task that counts down to zero prints the report.  *)
(*                                                                          *)
(* The kernel is ReferenceKernel used from its handler only.  Pool threads  *)
(* never change the map, so a message of the handler is one step here, but  *)
(* for the submission of tasks, which the pool runs as they come.  A        *)
(* reference stands for its object too: it is cleared when it leaves live.  *)
EXTENDS Integers, Sequences, FiniteSets

CONSTANTS Refs, Classes, ClassFor,
          Dumps,    \* calls of ReferenceMgr.dump(), by a click or from elsewhere
          Workers,  \* the pool's threads: corePoolSize, its queue being unbounded
          MaxFree,  \* the pool of tasks takes one more while it has at most these: 150
          MaxTasks, \* bound: DumpSizeTasks ever made
          AtLeastP, \* Build.VERSION.SDK_INT >= P
          None

Tasks == 1..MaxTasks

ASSUME ClassAssumption == ClassFor \in [Refs -> Classes]
ASSUME CallsAssumption == Refs \cap Dumps = {}
ASSUME FiniteAssumption == IsFiniteSet(Workers) /\ IsFiniteSet(Refs)
ASSUME BoundsAssumption == MaxFree \in Nat /\ MaxTasks \in Nat /\ AtLeastP \in BOOLEAN
ASSUME NoneAssumption == None \notin Refs \cup Dumps \cup Tasks

VARIABLES
  live,      \* references whose object is not cleared
  posted,    \* calls made
  mailbox,   \* the handler's message queue
  table,     \* the kernel's map: the list of a class, named by its first reference
  list,      \* the contents of each list
  extra,     \* references whose ReferenceWeak.extra holds a size, not null
  flags,     \* dumpSize, the queue of flags
  click,     \* the click whose flag is queued and whose dump() is still to come
  wish,      \* the button of the click, with size or not; None for no click (history)
  mode,      \* how a dump was served: "sized", "plain", or "no" (history)
  copy,      \* per sized dump, HashMap(classMap): the lists the map held
  counted,   \* per sized dump, the references counted into it (history)
  count,     \* per sized dump, its AtomicInteger
  submit,    \* the sized dump the handler is submitting, and what is left of it
  made,      \* DumpSizeTasks made so far
  task,      \* the fields of each task
  free,      \* dumpSizeTasks, the pool of recycled tasks
  pending,   \* tasks executed and not yet started
  pc, at,    \* per worker: where it is, and the task it runs
  entries,   \* per worker: the lists its report has still to read
  it,        \* per worker: its iterator over a list
  shown,     \* per worker: the references its report has read
  printed,   \* per dump, how many reports ended (history)
  died       \* an exception left a pool thread: Android kills the process

kernelVars == <<live, posted, mailbox, table, list>>
flagVars   == <<flags, click, wish, mode>>
dumpVars   == <<copy, counted, submit>>
taskVars   == <<made, task, free, pending>>
readVars   == <<entries, it, shown>>
vars == <<kernelVars, extra, flagVars, dumpVars, count, taskVars, pc, at, readVars,
          printed, died>>

\* Maps and lists are iterated in some fixed order.
First(S) == CHOOSE x \in S : TRUE

Filed == {c \in Classes : table[c] # None}
FieldsFor(r, d) == [ref |-> r, dump |-> d]
NoFields == [ref |-> None, dump |-> None]
NoIt == [of |-> None, left |-> {}, stale |-> FALSE]
NoSubmit == [dump |-> None, left |-> {}]

\* The iterators of the pool over the lists in L, which the handler resized.
Outdate(L) ==
  [p \in Workers |-> [it[p] EXCEPT !.stale = @ \/ it[p].of \in L]]

Init ==
  /\ live = Refs /\ posted = {} /\ mailbox = <<>>
  /\ table = [c \in Classes |-> None] /\ list = [r \in Refs |-> {}]
  /\ extra = {}
  /\ flags = <<>> /\ click = None
  /\ wish = [d \in Dumps |-> None] /\ mode = [d \in Dumps |-> "no"]
  /\ copy = [d \in Dumps |-> {}] /\ counted = [d \in Dumps |-> {}]
  /\ count = [d \in Dumps |-> 0] /\ submit = NoSubmit
  /\ made = 0 /\ task = [k \in Tasks |-> NoFields] /\ free = {} /\ pending = {}
  /\ pc = [p \in Workers |-> "idle"] /\ at = [p \in Workers |-> None]
  /\ entries = [p \in Workers |-> {}] /\ it = [p \in Workers |-> NoIt]
  /\ shown = [p \in Workers |-> {}]
  /\ printed = [d \in Dumps |-> 0] /\ died = FALSE

----------------------------------------------------------------------------
(* The application, its user and the collector.                             *)

Post(m) ==
  /\ m \notin posted
  /\ posted' = posted \cup {m} /\ mailbox' = Append(mailbox, m)

Offer(r) ==
  /\ r \in live /\ Post(r)
  /\ UNCHANGED <<live, table, list, extra, flagVars, dumpVars, count, taskVars, pc, at,
                 readVars, printed, died>>

\* DumpView's listeners: dumpWithSize(flag), then ReferenceMgr.dump().
Click(d, withSize) ==
  /\ click = None /\ d \notin posted
  /\ flags' = Append(flags, withSize)
  /\ click' = d /\ wish' = [wish EXCEPT ![d] = withSize]
  /\ UNCHANGED <<kernelVars, extra, mode, dumpVars, count, taskVars, pc, at, readVars,
                 printed, died>>

ClickDump ==
  /\ click # None /\ Post(click) /\ click' = None
  /\ UNCHANGED <<live, table, list, extra, flags, wish, mode, dumpVars, count, taskVars,
                 pc, at, readVars, printed, died>>

DirectDump(d) ==
  /\ d # click /\ Post(d)
  /\ UNCHANGED <<live, table, list, extra, flagVars, dumpVars, count, taskVars, pc, at,
                 readVars, printed, died>>

Collect(r) ==
  /\ r \in live /\ \A i \in DOMAIN mailbox : mailbox[i] # r
  /\ live' = live \ {r}
  /\ UNCHANGED <<posted, mailbox, table, list, extra, flagVars, dumpVars, count, taskVars,
                 pc, at, readVars, printed, died>>

----------------------------------------------------------------------------
(* The kernel's handler.                                                    *)

Take(m) ==
  /\ submit = NoSubmit /\ mailbox # <<>> /\ m = Head(mailbox)
  /\ mailbox' = Tail(mailbox)
  /\ UNCHANGED <<live, posted>>

RunOffer(r) ==
  /\ r \in Refs /\ Take(r)
  /\ LET c == ClassFor[r]
         l == IF table[c] = None THEN r ELSE table[c]
     IN /\ table' = [table EXCEPT ![c] = l]
        /\ list' = [list EXCEPT ![l] = @ \cup {r}]
        /\ it' = Outdate({l})
  /\ UNCHANGED <<extra, flagVars, dumpVars, count, taskVars, pc, at, entries, shown,
                 printed, died>>

\* cleanUp(), then the poll of a flag: no flag means a plain dump.
CleanUp ==
  LET cleaned == {l \in Refs : ~(list[l] \subseteq live) /\ \E c \in Filed : table[c] = l}
  IN /\ list' = [l \in Refs |-> IF l \in cleaned THEN list[l] \cap live ELSE list[l]]
     /\ table' = [c \in Classes |->
                    IF table[c] = None \/ list'[table[c]] = {} THEN None ELSE table[c]]
     /\ it' = Outdate(cleaned)

WithSize == flags # <<>> /\ Head(flags)
PeekFlag == UNCHANGED flags  \* a slip
Poll == flags' = IF flags = <<>> THEN flags ELSE Tail(flags)

\* dump(classMap, false): printed on the handler, which alone changes lists.
RunPlain(d) ==
  /\ d \in Dumps /\ Take(d) /\ CleanUp
  /\ ~(WithSize /\ AtLeastP) /\ Poll
  /\ mode' = [mode EXCEPT ![d] = "plain"]
  /\ printed' = [printed EXCEPT ![d] = @ + 1]
  /\ UNCHANGED <<extra, click, wish, dumpVars, count, taskVars, pc, at, entries, shown, died>>

\* doDumpWithSize(HashMap(classMap)): the count, before any task is submitted.
RunSized(d) ==
  /\ d \in Dumps /\ Take(d) /\ CleanUp
  /\ WithSize /\ AtLeastP /\ Poll
  /\ mode' = [mode EXCEPT ![d] = "sized"]
  /\ LET lists == {table'[c] : c \in {e \in Classes : table'[e] # None}}
         refs  == UNION {list'[l] : l \in lists}
     IN /\ copy' = [copy EXCEPT ![d] = lists]
        /\ counted' = [counted EXCEPT ![d] = refs]
        /\ count' = [count EXCEPT ![d] = Cardinality(refs)]
        /\ submit' = IF refs = {} THEN NoSubmit ELSE [dump |-> d, left |-> refs]
  /\ UNCHANGED <<extra, click, wish, taskVars, pc, at, entries, shown, printed, died>>

\* The task getDumpSizeTask hands out: a recycled one if the pool has one.
SharedTask == 1  \* a slip
NextTask == IF free = {} THEN made + 1 ELSE CHOOSE k \in free : TRUE

\* executor.execute(getDumpSizeTask(rw, countAtomic, classMap)) for the next
\* reference, in the fixed order of the map.
Execute ==
  /\ submit # NoSubmit
  /\ LET r == First(submit.left)
         k == NextTask
     IN /\ k \in Tasks
        /\ made' = IF free = {} THEN k ELSE made
        /\ free' = free \ {k}
        /\ task' = [task EXCEPT ![k] = FieldsFor(r, submit.dump)]
        /\ pending' = pending \cup {k}
        /\ submit' = IF submit.left = {r} THEN NoSubmit ELSE [submit EXCEPT !.left = @ \ {r}]
  /\ UNCHANGED <<kernelVars, extra, flagVars, copy, counted, count, pc, at, readVars,
                 printed, died>>

----------------------------------------------------------------------------
(* DumpSizeTask.run() on a thread of the pool.                              *)

Start(p, k) ==
  /\ pc[p] = "idle" /\ k \in pending
  /\ pending' = pending \ {k}
  /\ pc' = [pc EXCEPT ![p] = "size"] /\ at' = [at EXCEPT ![p] = k]
  /\ UNCHANGED <<kernelVars, extra, flagVars, dumpVars, count, made, task, free, readVars,
                 printed, died>>

\* referenceWeak?.let: dumpSize always answers a size, zero for a cleared
\* reference and when sizing throws.
Size(p) ==
  /\ pc[p] = "size"
  /\ extra' = extra \cup ({task[at[p]].ref} \ {None})
  /\ pc' = [pc EXCEPT ![p] = "count"]
  /\ UNCHANGED <<kernelVars, flagVars, dumpVars, count, taskVars, at, readVars, printed, died>>

\* decrementAndGet() <= 0, and two ways to get it wrong.
LastButOne(d) == count[d] <= 2
NotDecremented(d) == count[d] <= 0
Last(d) == count[d] <= 1

\* countAtomic?.decrementAndGet() ?: 1 <= 0, then referenceWeakMap?.let.
Count(p) ==
  /\ pc[p] = "count"
  /\ LET d == task[at[p]].dump
     IN IF d # None
        THEN /\ count' = [count EXCEPT ![d] = @ - 1]
             /\ pc' = [pc EXCEPT ![p] = IF Last(d) THEN "report" ELSE "check"]
             /\ entries' = [entries EXCEPT ![p] = IF Last(d) THEN copy[d] ELSE {}]
        ELSE /\ pc' = [pc EXCEPT ![p] = "check"] /\ UNCHANGED <<count, entries>>
  /\ UNCHANGED <<kernelVars, extra, flagVars, dumpVars, taskVars, at, it, shown, printed, died>>

\* dump(rwm, true): the copied map is private, its lists are the kernel's.
BeginGroup(p) ==
  /\ pc[p] = "report"
  /\ entries[p] # {}
  /\ LET l == First(entries[p])
     IN /\ entries' = [entries EXCEPT ![p] = @ \ {l}]
        /\ it' = [it EXCEPT ![p] = [of |-> l, left |-> list[l], stale |-> FALSE]]
  /\ pc' = [pc EXCEPT ![p] = "group"]
  /\ UNCHANGED <<kernelVars, extra, flagVars, dumpVars, count, taskVars, at, shown, printed,
                 died>>

ReadRef(p) ==
  /\ pc[p] = "group" /\ ~it[p].stale
  /\ it[p].left # {}
  /\ LET r == First(it[p].left)
     IN /\ it' = [it EXCEPT ![p].left = @ \ {r}]
        /\ shown' = [shown EXCEPT ![p] = @ \cup {r}]
  /\ UNCHANGED <<kernelVars, extra, flagVars, dumpVars, count, taskVars, pc, at, entries,
                 printed, died>>

EndGroup(p) ==
  /\ pc[p] = "group" /\ it[p].left = {}
  /\ it' = [it EXCEPT ![p] = NoIt]
  /\ pc' = [pc EXCEPT ![p] = "report"]
  /\ UNCHANGED <<kernelVars, extra, flagVars, dumpVars, count, taskVars, at, entries, shown,
                 printed, died>>

\* ConcurrentModificationException out of groupBy, uncaught on the pool thread.
FailFast(p) ==
  /\ pc[p] = "group" /\ it[p].stale /\ it[p].left # {}
  /\ died' = TRUE
  /\ UNCHANGED <<kernelVars, extra, flagVars, dumpVars, count, taskVars, pc, at, readVars,
                 printed>>

EndReport(p) ==
  /\ pc[p] = "report" /\ entries[p] = {}
  /\ printed' = [printed EXCEPT ![task[at[p]].dump] = @ + 1]
  /\ shown' = [shown EXCEPT ![p] = {}]
  /\ pc' = [pc EXCEPT ![p] = "check"]
  /\ UNCHANGED <<kernelVars, extra, flagVars, dumpVars, count, taskVars, at, entries, it, died>>

\* putDumpSizeTask: the size is tested before the pool's lock is taken.
Full == Cardinality(free) > MaxFree
Check(p) ==
  /\ pc[p] = "check"
  /\ IF Full
     THEN pc' = [pc EXCEPT ![p] = "idle"] /\ at' = [at EXCEPT ![p] = None]
     ELSE pc' = [pc EXCEPT ![p] = "put"] /\ UNCHANGED at
  /\ UNCHANGED <<kernelVars, extra, flagVars, dumpVars, count, taskVars, readVars, printed,
                 died>>

Put(p) ==
  /\ pc[p] = "put"
  /\ task' = [task EXCEPT ![at[p]] = NoFields]
  /\ free' = free \cup {at[p]}
  /\ pc' = [pc EXCEPT ![p] = "idle"] /\ at' = [at EXCEPT ![p] = None]
  /\ UNCHANGED <<kernelVars, extra, flagVars, dumpVars, count, made, pending, readVars,
                 printed, died>>

----------------------------------------------------------------------------
HandlerStep ==
  \/ \E r \in Refs : RunOffer(r)
  \/ \E d \in Dumps : RunPlain(d) \/ RunSized(d)
  \/ Execute

WorkerStep(p) ==
  \/ \E k \in Tasks : Start(p, k)
  \/ Size(p) \/ Count(p)
  \/ BeginGroup(p) \/ ReadRef(p) \/ EndGroup(p) \/ FailFast(p) \/ EndReport(p)
  \/ Check(p) \/ Put(p)

\* Nothing happens in a killed process, nor when nobody asks for anything.
Stopped ==
  /\ died \/ (mailbox = <<>> /\ click = None /\ submit = NoSubmit /\ pending = {}
              /\ \A p \in Workers : pc[p] = "idle")
  /\ UNCHANGED vars

Next ==
  \/ ~died /\ (\E r \in Refs : Offer(r) \/ Collect(r))
  \/ ~died /\ (\E d \in Dumps, s \in BOOLEAN : Click(d, s))
  \/ ~died /\ ClickDump
  \/ ~died /\ (\E d \in Dumps : DirectDump(d))
  \/ ~died /\ HandlerStep
  \/ ~died /\ (\E p \in Workers : WorkerStep(p))
  \/ Stopped

Spec == Init /\ [][Next]_vars

\* The handler, the pool's threads and a click already being handled go on.
Fairness ==
  /\ WF_vars(~died /\ ClickDump) /\ WF_vars(~died /\ HandlerStep)
  /\ \A p \in Workers : WF_vars(~died /\ WorkerStep(p))
FairSpec == Spec /\ Fairness

----------------------------------------------------------------------------
\* Every variable holds a value of its kind.
TypeOK ==
  /\ live \subseteq Refs /\ posted \subseteq Refs \cup Dumps
  /\ mailbox \in Seq(Refs \cup Dumps)
  /\ table \in [Classes -> Refs \cup {None}] /\ list \in [Refs -> SUBSET Refs]
  /\ extra \subseteq Refs
  /\ flags \in Seq(BOOLEAN) /\ click \in Dumps \cup {None}
  /\ wish \in [Dumps -> BOOLEAN \cup {None}] /\ mode \in [Dumps -> {"no", "plain", "sized"}]
  /\ copy \in [Dumps -> SUBSET Refs] /\ counted \in [Dumps -> SUBSET Refs]
  /\ count \in [Dumps -> Int]
  /\ submit \in [dump : Dumps \cup {None}, left : SUBSET Refs]
  /\ made \in 0..MaxTasks /\ free \subseteq Tasks /\ pending \subseteq Tasks
  /\ task \in [Tasks -> [ref : Refs \cup {None}, dump : Dumps \cup {None}]]
  /\ pc \in [Workers -> {"idle", "size", "count", "report", "group", "check", "put"}]
  /\ at \in [Workers -> Tasks \cup {None}]
  /\ entries \in [Workers -> SUBSET Refs] /\ shown \in [Workers -> SUBSET Refs]
  /\ it \in [Workers -> [of : Refs \cup {None}, left : SUBSET Refs, stale : BOOLEAN]]
  /\ printed \in [Dumps -> Nat] /\ died \in BOOLEAN

\* A dump is printed at most once, however its tasks interleave.
PrintedOnce == \A d \in Dumps : printed[d] <= 1

\* The report starts only when every reference counted into the dump has its
\* size: none of them is summed up as null.
SizedBeforeReport ==
  \A p \in Workers : pc[p] \in {"report", "group"} =>
    counted[task[at[p]].dump] \subseteq extra

\* A task object is never in two hands: recycled, waiting and running exclude
\* each other, and no two threads run the same one.
OneOwner ==
  /\ free \cap pending = {}
  /\ \A p \in Workers : at[p] # None =>
       /\ at[p] \notin free \cup pending
       /\ \A q \in Workers : at[q] = at[p] => q = p

\* As long as only clicks ask for dumps, each is served with the flag of its own
\* button, although the flag and the dump travel through two queues.
OwnFlag ==
  (\A d \in Dumps \cap posted : wish[d] # None) =>
    \A d \in Dumps : mode[d] # "no" => mode[d] = IF wish[d] /\ AtLeastP THEN "sized" ELSE "plain"

\* Every sized dump that counted a reference gets its report, unless an
\* iterator over a list that changed kills the process first.
SizedPrinted == \A d \in Dumps : (counted[d] # {}) ~> (printed[d] = 1 \/ died)

=============================================================================
