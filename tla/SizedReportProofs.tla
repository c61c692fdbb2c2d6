------------------------- MODULE SizedReportProofs -------------------------
(* The tasks and the countdown of a sized dump, for any number of           *)
(* references, dumps and threads.  A recycled DumpSizeTask is never in two  *)
(* hands; the AtomicInteger counts what is not yet sized, so one thread,    *)
(* the last, reports, and it finds every size there; and the flags of the   *)
(* clicks: a dump is served in the mode its own click asked for.            *)
EXTENDS SizedDump, FiniteSetTheorems, TLAPS

Steps == {"idle", "size", "count", "report", "group", "check", "put"}

TaskTypes ==
  /\ made \in 0..MaxTasks
  /\ free \subseteq 1..made /\ pending \subseteq 1..made
  /\ pc \in [Workers -> Steps] /\ at \in [Workers -> Tasks \cup {None}]

\* A worker has a task from its start to the end of run(), and the task was made.
HasTask ==
  \A p \in Workers :
    /\ at[p] # None <=> pc[p] # "idle"
    /\ at[p] # None => at[p] \in 1..made

TaskInv == TaskTypes /\ HasTask /\ OneOwner

\* What the invariant speaks of, but for where a worker is inside its task.
ownVars == <<made, free, pending, at>>
-----------------------------------------------------------------------------
\* At first no task is made.
LEMMA InitInv == Init => TaskInv
  BY BoundsAssumption DEF Init, TaskInv, TaskTypes, HasTask, OneOwner, Steps

\* A worker goes on with its task.
LEMMA GoesOn ==
  ASSUME TaskInv, NEW p \in Workers, NEW s \in Steps \ {"idle"}, pc[p] # "idle",
         pc' = [pc EXCEPT ![p] = s], UNCHANGED ownVars
  PROVE  TaskInv'
  <1>1. TaskTypes'
    BY DEF TaskInv, TaskTypes, ownVars
  <1>2. HasTask'
    BY DEF TaskInv, TaskTypes, HasTask, ownVars
  <1>3. OneOwner'
    BY DEF TaskInv, OneOwner, ownVars
  <1> QED
    BY <1>1, <1>2, <1>3 DEF TaskInv

\* Steps that concern neither tasks nor workers.
LEMMA Elsewhere ==
  ASSUME TaskInv, UNCHANGED <<ownVars, pc>>
  PROVE  TaskInv'
  BY DEF TaskInv, TaskTypes, HasTask, OneOwner, ownVars

\* The task handed out is recycled or new: nobody has it.
LEMMA NextIsUnused ==
  ASSUME TaskInv
  PROVE  /\ NextTask \notin pending
         /\ \A p \in Workers : at[p] # NextTask \/ at[p] = None
         /\ free = {} => NextTask = made + 1
         /\ free # {} => NextTask \in free
  <1>1. CASE free = {}
    <2>1. NextTask = made + 1
      BY <1>1 DEF NextTask
    <2> QED
      BY <1>1, <2>1 DEF TaskInv, TaskTypes, HasTask
  <1>2. CASE free # {}
    <2>1. NextTask \in free
      BY <1>2 DEF NextTask
    <2> QED
      BY <1>2, <2>1 DEF TaskInv, OneOwner
  <1> QED
    BY <1>1, <1>2

\* The handler takes a task from the pool, or makes one, and hands it over.
LEMMA ExecuteKeeps == ASSUME TaskInv, Execute PROVE TaskInv'
  <1> DEFINE k == NextTask
  <1>1. /\ k \in Tasks /\ made' = (IF free = {} THEN k ELSE made)
        /\ free' = free \ {k} /\ pending' = pending \cup {k}
        /\ UNCHANGED <<pc, at>>
    BY DEF Execute
  <1>2. /\ k \notin pending /\ \A p \in Workers : at[p] # k \/ at[p] = None
        /\ free = {} => k = made + 1
        /\ free # {} => k \in free
    BY NextIsUnused
  <1> HIDE DEF k
  <1>3. made' \in 0..MaxTasks /\ made <= made' /\ k \in 1..made'
    BY <1>1, <1>2, BoundsAssumption DEF TaskInv, TaskTypes, Tasks
  <1>4. 1..made \subseteq 1..made'
    BY <1>3 DEF TaskInv, TaskTypes
  <1>5. TaskTypes'
    BY <1>1, <1>3, <1>4 DEF TaskInv, TaskTypes
  <1>6. HasTask'
    BY <1>1, <1>4 DEF TaskInv, HasTask
  <1>7. OneOwner'
    BY <1>1, <1>2 DEF TaskInv, OneOwner
  <1> QED
    BY <1>5, <1>6, <1>7 DEF TaskInv

\* A thread of the pool takes a waiting task, which then waits no more.
LEMMA StartKeeps ==
  ASSUME TaskInv, NEW p \in Workers, NEW k \in Tasks, Start(p, k)
  PROVE  TaskInv'
  <1>1. /\ pc[p] = "idle" /\ k \in pending /\ pending' = pending \ {k}
        /\ pc' = [pc EXCEPT ![p] = "size"] /\ at' = [at EXCEPT ![p] = k]
        /\ UNCHANGED <<made, free>>
    BY DEF Start
  <1>2. k # None
    BY NoneAssumption
  <1>3. TaskTypes'
    BY <1>1 DEF TaskInv, TaskTypes, Steps
  <1>4. HasTask'
    BY <1>1, <1>2 DEF TaskInv, TaskTypes, HasTask
  <1>5. OneOwner'
    BY <1>1, <1>2 DEF TaskInv, TaskTypes, OneOwner
  <1> QED
    BY <1>3, <1>4, <1>5 DEF TaskInv

\* A finished task that finds the pool full is dropped; one that does not is on
\* its way into it, still in its thread's hand.
LEMMA CheckKeeps ==
  ASSUME TaskInv, NEW p \in Workers, Check(p)
  PROVE  TaskInv'
  <1>1. CASE Full
    <2>1. /\ pc' = [pc EXCEPT ![p] = "idle"] /\ at' = [at EXCEPT ![p] = None]
          /\ UNCHANGED <<made, free, pending>>
      BY <1>1 DEF Check, taskVars
    <2>2. TaskTypes'
      BY <2>1 DEF TaskInv, TaskTypes, Steps
    <2>3. HasTask'
      BY <2>1 DEF TaskInv, TaskTypes, HasTask
    <2>4. OneOwner'
      BY <2>1 DEF TaskInv, TaskTypes, OneOwner
    <2> QED
      BY <2>2, <2>3, <2>4 DEF TaskInv
  <1>2. CASE ~Full
    <2>1. pc[p] # "idle" /\ pc' = [pc EXCEPT ![p] = "put"] /\ UNCHANGED ownVars
      BY <1>2 DEF Check, taskVars, ownVars
    <2> QED
      BY <2>1, GoesOn DEF Steps
  <1> QED
    BY <1>1, <1>2

\* The pool takes the task its thread lets go.
LEMMA PutKeeps ==
  ASSUME TaskInv, NEW p \in Workers, Put(p)
  PROVE  TaskInv'
  <1>1. /\ pc[p] = "put" /\ free' = free \cup {at[p]}
        /\ pc' = [pc EXCEPT ![p] = "idle"] /\ at' = [at EXCEPT ![p] = None]
        /\ UNCHANGED <<made, pending>>
    BY DEF Put
  <1>2. at[p] # None /\ at[p] \in 1..made
    BY <1>1 DEF TaskInv, HasTask
  <1>3. TaskTypes'
    BY <1>1, <1>2 DEF TaskInv, TaskTypes, Steps
  <1>4. HasTask'
    BY <1>1 DEF TaskInv, TaskTypes, HasTask
  <1>5. OneOwner'
    BY <1>1, <1>2 DEF TaskInv, TaskTypes, OneOwner
  <1> QED
    BY <1>3, <1>4, <1>5 DEF TaskInv

\* Every step of a thread of the pool.
LEMMA WorkerKeeps ==
  ASSUME TaskInv, NEW p \in Workers, WorkerStep(p)
  PROVE  TaskInv'
  <1>1. ASSUME NEW k \in Tasks, Start(p, k) PROVE TaskInv'
    BY <1>1, StartKeeps
  <1>2. CASE Size(p)
    <2>1. pc[p] # "idle" /\ pc' = [pc EXCEPT ![p] = "count"] /\ UNCHANGED ownVars
      BY <1>2 DEF Size, taskVars, ownVars
    <2> QED
      BY <2>1, GoesOn DEF Steps
  <1>3. CASE Count(p)
    <2>1. /\ pc[p] # "idle" /\ UNCHANGED ownVars
          /\ \/ pc' = [pc EXCEPT ![p] = "report"]
             \/ pc' = [pc EXCEPT ![p] = "check"]
      BY <1>3 DEF Count, taskVars, ownVars
    <2> QED
      BY <2>1, GoesOn DEF Steps
  <1>4. CASE BeginGroup(p)
    <2>1. pc[p] # "idle" /\ pc' = [pc EXCEPT ![p] = "group"] /\ UNCHANGED ownVars
      BY <1>4 DEF BeginGroup, taskVars, ownVars
    <2> QED
      BY <2>1, GoesOn DEF Steps
  <1>5. CASE EndGroup(p)
    <2>1. pc[p] # "idle" /\ pc' = [pc EXCEPT ![p] = "report"] /\ UNCHANGED ownVars
      BY <1>5 DEF EndGroup, taskVars, ownVars
    <2> QED
      BY <2>1, GoesOn DEF Steps
  <1>6. CASE EndReport(p)
    <2>1. pc[p] # "idle" /\ pc' = [pc EXCEPT ![p] = "check"] /\ UNCHANGED ownVars
      BY <1>6 DEF EndReport, taskVars, ownVars
    <2> QED
      BY <2>1, GoesOn DEF Steps
  <1>7. CASE ReadRef(p) \/ FailFast(p)
    BY <1>7, Elsewhere DEF ReadRef, FailFast, taskVars, ownVars
  <1>8. CASE Check(p)
    BY <1>8, CheckKeeps
  <1>9. CASE Put(p)
    BY <1>9, PutKeeps
  <1> QED
    BY <1>1, <1>2, <1>3, <1>4, <1>5, <1>6, <1>7, <1>8, <1>9 DEF WorkerStep

\* Every step.
LEMMA NextKeeps == TaskInv /\ [Next]_vars => TaskInv'
  <1> SUFFICES ASSUME TaskInv, [Next]_vars PROVE TaskInv'
    OBVIOUS
  <1>1. ASSUME NEW r \in Refs, Offer(r) \/ Collect(r) \/ RunOffer(r) PROVE TaskInv'
    BY <1>1, Elsewhere DEF Offer, Collect, RunOffer, taskVars, ownVars
  <1>2. ASSUME NEW d \in Dumps, NEW s \in BOOLEAN, Click(d, s) PROVE TaskInv'
    BY <1>2, Elsewhere DEF Click, taskVars, ownVars
  <1>3. CASE ClickDump
    BY <1>3, Elsewhere DEF ClickDump, taskVars, ownVars
  <1>4. ASSUME NEW d \in Dumps, DirectDump(d) \/ RunPlain(d) \/ RunSized(d) PROVE TaskInv'
    BY <1>4, Elsewhere DEF DirectDump, RunPlain, RunSized, taskVars, ownVars
  <1>5. CASE Execute
    BY <1>5, ExecuteKeeps
  <1>6. ASSUME NEW p \in Workers, WorkerStep(p) PROVE TaskInv'
    BY <1>6, WorkerKeeps
  <1>7. CASE UNCHANGED vars
    BY <1>7, Elsewhere DEF vars, taskVars, ownVars
  <1> QED
    BY <1>1, <1>2, <1>3, <1>4, <1>5, <1>6, <1>7 DEF Next, HandlerStep, Stopped

\* A DumpSizeTask is free, waiting for a thread or run by one thread, and
\* never two of these at once: getDumpSizeTask and putDumpSizeTask keep their
\* promise for any number of references, dumps and threads.
THEOREM TasksOwned == Spec => []OneOwner
  <1>1. TaskInv => OneOwner
    BY DEF TaskInv
  <1> QED
    BY <1>1, InitInv, NextKeeps, PTL DEF Spec
-----------------------------------------------------------------------------
(* The countdown.                                                          *)

Types ==
  /\ posted \subseteq Refs \cup Dumps /\ mailbox \in Seq(Refs \cup Dumps)
  /\ table \in [Classes -> Refs \cup {None}] /\ list \in [Refs -> SUBSET Refs]
  /\ counted \in [Dumps -> SUBSET Refs] /\ count \in [Dumps -> Int]
  /\ task \in [Tasks -> [ref : Refs \cup {None}, dump : Dumps \cup {None}]]
  /\ printed \in [Dumps -> Nat]
  /\ \/ submit = NoSubmit
     \/ submit \in [dump : Dumps, left : (SUBSET Refs) \ {{}}]

\* A call is in the mailbox once, and was made.
InMail(m) == \E i \in 1..Len(mailbox) : mailbox[i] = m
Queued ==
  /\ \A i \in 1..Len(mailbox) : mailbox[i] \in posted
  /\ \A i, j \in 1..Len(mailbox) : mailbox[i] = mailbox[j] => i = j
Served(d) == d \in posted /\ ~InMail(d)

\* The references of d still to be submitted, the tasks of d still to be
\* counted down, and the threads that report d.
Left(d) == IF submit.dump = d THEN submit.left ELSE {}
Waiting(d) ==
  {k \in Tasks : /\ task[k].dump = d
                 /\ k \in pending \/ \E p \in Workers : at[p] = k /\ pc[p] \in {"size", "count"}}
Reports(p, d) == pc[p] \in {"report", "group"} /\ task[at[p]].dump = d

\* Nothing happens for a dump before the handler serves it.
Fresh ==
  \A d \in Dumps : ~Served(d) =>
    /\ submit.dump # d /\ Waiting(d) = {} /\ counted[d] = {} /\ printed[d] = 0
    /\ \A p \in Workers : ~Reports(p, d)

\* The counter is the work that is left.
Counts == \A d \in Dumps : count[d] = Cardinality(Left(d)) + Cardinality(Waiting(d))

\* A thread that reports a dump is the only one, and the counter has run out.
OneReport ==
  /\ \A p \in Workers : pc[p] \in {"report", "group"} => task[at[p]].dump \in Dumps
  /\ \A d \in Dumps, p \in Workers : Reports(p, d) =>
       count[d] = 0 /\ printed[d] = 0 /\ \A q \in Workers : Reports(q, d) => q = p
  /\ \A d \in Dumps : printed[d] = 0 \/ (printed[d] = 1 /\ count[d] = 0)

\* A counted reference has its size or is part of the work that is left.
Sizes ==
  /\ \A d \in Dumps : \A r \in counted[d] :
       r \in extra \/ r \in Left(d) \/ \E k \in Waiting(d) : task[k].ref = r
  /\ \A p \in Workers : pc[p] = "count" => task[at[p]].ref \in extra \cup {None}

Countdown == Fresh /\ Counts /\ OneReport /\ Sizes

\* A pending click is of a dump.
Clicked == click \in Dumps \cup {None}

ReportInv == TaskInv /\ Types /\ Queued /\ Countdown /\ Clicked
-----------------------------------------------------------------------------
\* What is counted is finite.
LEMMA WorkIsFinite ==
  ASSUME Types, NEW d \in Dumps
  PROVE  /\ IsFiniteSet(Left(d)) /\ IsFiniteSet(Waiting(d))
         /\ Cardinality(Left(d)) \in Nat /\ Cardinality(Waiting(d)) \in Nat
  <1>1. Left(d) \subseteq Refs
    BY DEF Types, Left, NoSubmit
  <1>2. Waiting(d) \subseteq 1..MaxTasks
    BY DEF Waiting, Tasks
  <1>3. IsFiniteSet(1..MaxTasks)
    BY FS_Interval, BoundsAssumption
  <1>4. IsFiniteSet(Left(d)) /\ IsFiniteSet(Waiting(d))
    BY <1>1, <1>2, <1>3, FS_Subset, FiniteAssumption
  <1> QED
    BY <1>4, FS_CardinalityType

\* When the counter has run out, no work is left.
LEMMA NoWorkLeft ==
  ASSUME Types, Counts, NEW d \in Dumps, count[d] = 0
  PROVE  Left(d) = {} /\ Waiting(d) = {}
  <1>1. Cardinality(Left(d)) = 0 /\ Cardinality(Waiting(d)) = 0
    BY WorkIsFinite DEF Counts
  <1> QED
    BY <1>1, WorkIsFinite, FS_EmptySet

\* A call that is made joins the mailbox, unserved.
LEMMA PostQueues ==
  ASSUME Types, Queued, NEW m \in Refs \cup Dumps, Post(m)
  PROVE  /\ posted' \subseteq Refs \cup Dumps /\ mailbox' \in Seq(Refs \cup Dumps)
         /\ Queued' /\ \A d : Served(d)' <=> Served(d)
  <1>1. m \notin posted /\ posted' = posted \cup {m} /\ mailbox' = Append(mailbox, m)
    BY DEF Post
  <1>2. /\ mailbox' \in Seq(Refs \cup Dumps) /\ Len(mailbox') = Len(mailbox) + 1
        /\ Len(mailbox) \in Nat /\ mailbox'[Len(mailbox) + 1] = m
        /\ \A i \in 1..Len(mailbox) : mailbox'[i] = mailbox[i]
    BY <1>1 DEF Types
  <1>3. Queued'
    BY <1>1, <1>2 DEF Queued
  <1>4. ASSUME NEW d PROVE InMail(d)' <=> (InMail(d) \/ d = m)
    <2>1. ASSUME InMail(d)' PROVE InMail(d) \/ d = m
      BY <1>2, <2>1 DEF InMail
    <2>2. ASSUME InMail(d) PROVE InMail(d)'
      BY <1>2, <2>2 DEF InMail
    <2>3. ASSUME d = m PROVE InMail(d)'
      BY <1>2, <2>3 DEF InMail
    <2> QED
      BY <2>1, <2>2, <2>3 DEF InMail
  <1> QED
    BY <1>1, <1>2, <1>3, <1>4 DEF Types, Served, Queued

\* The message that is taken was not served, and now is.
LEMMA TakeServes ==
  ASSUME Types, Queued, NEW m, Take(m)
  PROVE  /\ submit = NoSubmit /\ posted' = posted /\ mailbox' \in Seq(Refs \cup Dumps)
         /\ Queued' /\ ~Served(m) /\ \A d : Served(d)' <=> (Served(d) \/ d = m)
  <1>1. /\ mailbox # <<>> /\ m = Head(mailbox) /\ mailbox' = Tail(mailbox)
        /\ posted' = posted /\ submit = NoSubmit
    BY DEF Take
  <1>2. /\ mailbox' \in Seq(Refs \cup Dumps) /\ Len(mailbox') = Len(mailbox) - 1
        /\ Len(mailbox) \in Nat \ {0} /\ mailbox[1] = m
        /\ \A i \in 1..Len(mailbox) - 1 : mailbox'[i] = mailbox[i + 1]
    BY <1>1 DEF Types
  <1>3. Queued'
    BY <1>1, <1>2 DEF Queued
  <1>4. InMail(m) /\ m \in posted
    BY <1>2 DEF InMail, Queued
  <1>5. ASSUME NEW d PROVE InMail(d)' <=> (InMail(d) /\ d # m)
    <2>1. ASSUME InMail(d)' PROVE InMail(d) /\ d # m
      <3>1. PICK i \in 1..Len(mailbox) - 1 : mailbox[i + 1] = d
        BY <1>2, <2>1 DEF InMail
      <3> QED
        BY <1>2, <3>1 DEF InMail, Queued
    <2>2. ASSUME InMail(d), d # m PROVE InMail(d)'
      <3>1. PICK i \in 1..Len(mailbox) : mailbox[i] = d
        BY <2>2 DEF InMail
      <3>2. i - 1 \in 1..Len(mailbox) - 1 /\ mailbox'[i - 1] = d
        BY <1>2, <2>2, <3>1
      <3> QED
        BY <1>2, <3>2 DEF InMail
    <2> QED
      BY <2>1, <2>2 DEF InMail
  <1> QED
    BY <1>1, <1>2, <1>3, <1>4, <1>5 DEF Served

\* Steps that serve no dump and leave the work alone.
LEMMA SameWork ==
  ASSUME Countdown, \A d \in Dumps : Served(d)' <=> Served(d),
         UNCHANGED <<extra, counted, count, submit, task, pending, pc, at, printed>>
  PROVE  Countdown'
  <1>1. \A d \in Dumps : Left(d)' = Left(d) /\ Waiting(d)' = Waiting(d)
    BY DEF Left, Waiting
  <1>2. \A d \in Dumps, p \in Workers : Reports(p, d)' <=> Reports(p, d)
    BY DEF Reports
  <1>3. Fresh' /\ Counts'
    BY <1>1, <1>2 DEF Countdown, Fresh, Counts
  <1>4. OneReport' /\ Sizes'
    BY <1>1, <1>2 DEF Countdown, OneReport, Sizes
  <1> QED
    BY <1>3, <1>4 DEF Countdown

\* Steps of a thread of the pool that change neither who has which task to
\* count nor who reports.
LEMMA SameHands ==
  ASSUME Countdown, UNCHANGED <<posted, mailbox, counted, count, submit, printed, extra>>,
         \A d \in Dumps : Waiting(d)' = Waiting(d),
         \A d \in Dumps, p \in Workers : Reports(p, d)' <=> Reports(p, d),
         \A d \in Dumps : \A k \in Waiting(d) : task'[k] = task[k],
         \A p \in Workers : pc'[p] \in {"report", "group"} => task'[at'[p]].dump \in Dumps,
         \A p \in Workers : pc'[p] = "count" => task'[at'[p]].ref \in extra \cup {None}
  PROVE  Countdown'
  <1>1. \A d \in Dumps : Left(d)' = Left(d) /\ (Served(d)' <=> Served(d))
    BY DEF Left, Served, InMail
  <1>2. Fresh'
    BY <1>1 DEF Countdown, Fresh
  <1>3. Counts'
    BY <1>1 DEF Countdown, Counts
  <1>4. OneReport'
    BY DEF Countdown, OneReport
  <1>5. Sizes'
    BY <1>1 DEF Countdown, Sizes
  <1> QED
    BY <1>2, <1>3, <1>4, <1>5 DEF Countdown

-----------------------------------------------------------------------------
\* The handler's steps.

\* At first nothing was called.
LEMMA InitReport == Init => ReportInv
  <1> SUFFICES ASSUME Init PROVE ReportInv
    OBVIOUS
  <1>1. Types /\ Queued
    BY NoneAssumption DEF Init, Types, Queued, NoFields
  <1>2. \A d \in Dumps : Left(d) = {} /\ Waiting(d) = {} /\ submit.dump # d
    BY NoneAssumption DEF Init, Left, Waiting, NoSubmit, NoFields
  <1>3. Fresh
    BY <1>2 DEF Init, Fresh, Reports
  <1>4. Counts
    <2>1. ASSUME NEW d \in Dumps PROVE count[d] = Cardinality(Left(d)) + Cardinality(Waiting(d))
      <3>1. Cardinality(Left(d)) = 0 /\ Cardinality(Waiting(d)) = 0
        BY <1>2, FS_EmptySet
      <3> QED
        BY <3>1 DEF Init
    <2> QED
      BY <2>1 DEF Counts
  <1>5. OneReport /\ Sizes
    BY DEF Init, OneReport, Sizes, Reports
  <1>6. Clicked
    BY DEF Init, Clicked
  <1> QED
    BY <1>1, <1>3, <1>4, <1>5, <1>6, InitInv DEF ReportInv, Countdown

\* An offer is filed: the lists change, not the work.
LEMMA FilesOffer ==
  ASSUME ReportInv, NEW r \in Refs, RunOffer(r)
  PROVE  Types' /\ Queued' /\ Countdown'
  <1>1. /\ Take(r) /\ ClassFor[r] \in Classes
        /\ UNCHANGED <<extra, counted, count, submit, task, pending, pc, at, printed>>
    BY ClassAssumption DEF RunOffer, dumpVars, taskVars
  <1>2. table' \in [Classes -> Refs \cup {None}] /\ list' \in [Refs -> SUBSET Refs]
    <2>1. PICK l \in Refs : /\ table' = [table EXCEPT ![ClassFor[r]] = l]
                            /\ list' = [list EXCEPT ![l] = @ \cup {r}]
      BY <1>1 DEF RunOffer, ReportInv, Types
    <2> QED
      BY <2>1 DEF ReportInv, Types
  <1>3. /\ posted' = posted /\ mailbox' \in Seq(Refs \cup Dumps) /\ Queued'
        /\ \A d \in Dumps : Served(d)' <=> Served(d)
    BY <1>1, TakeServes, CallsAssumption DEF ReportInv
  <1>4. Types'
    BY <1>1, <1>2, <1>3 DEF ReportInv, Types
  <1>5. Countdown'
    BY <1>1, <1>3, SameWork DEF ReportInv
  <1> QED
    BY <1>3, <1>4, <1>5

\* cleanUp() leaves a map of lists.
LEMMA CleanUpTypes ==
  ASSUME Types, CleanUp
  PROVE  table' \in [Classes -> Refs \cup {None}] /\ list' \in [Refs -> SUBSET Refs]
  <1>1. PICK cleaned \in SUBSET Refs :
          /\ list' = [l \in Refs |-> IF l \in cleaned THEN list[l] \cap live ELSE list[l]]
          /\ table' = [c \in Classes |->
                         IF table[c] = None \/ list'[table[c]] = {} THEN None ELSE table[c]]
    <2> DEFINE S == {l \in Refs : ~(list[l] \subseteq live) /\ \E c \in Filed : table[c] = l}
    <2>1. S \in SUBSET Refs
      OBVIOUS
    <2> QED
      BY <2>1 DEF CleanUp
  <1> QED
    BY <1>1 DEF Types

\* A plain dump is printed as it is served.
LEMMA PrintsPlain ==
  ASSUME ReportInv, NEW d \in Dumps, RunPlain(d)
  PROVE  Types' /\ Queued' /\ Countdown'
  <1>1. /\ Take(d) /\ CleanUp /\ printed' = [printed EXCEPT ![d] = @ + 1]
        /\ UNCHANGED <<extra, counted, count, submit, task, pending, pc, at>>
    BY DEF RunPlain, dumpVars, taskVars
  <1>2. /\ submit = NoSubmit /\ posted' = posted /\ mailbox' \in Seq(Refs \cup Dumps)
        /\ Queued' /\ ~Served(d) /\ \A e : Served(e)' <=> (Served(e) \/ e = d)
    BY <1>1, TakeServes DEF ReportInv
  <1>3. Types'
    BY <1>1, <1>2, CleanUpTypes DEF ReportInv, Types
  <1>4. \A e \in Dumps : Left(e)' = Left(e) /\ Waiting(e)' = Waiting(e)
    BY <1>1 DEF Left, Waiting
  <1>5. \A e \in Dumps, p \in Workers : Reports(p, e)' <=> Reports(p, e)
    BY <1>1 DEF Reports
  <1>6. Fresh' /\ Counts'
    BY <1>1, <1>2, <1>4, <1>5 DEF ReportInv, Countdown, Fresh, Counts, Types
  <1>7. Left(d) = {} /\ Waiting(d) = {} /\ printed[d] = 0 /\ \A p \in Workers : ~Reports(p, d)
    BY <1>2 DEF ReportInv, Countdown, Fresh, Left
  <1>8. count[d] = 0
    BY <1>7, FS_EmptySet DEF ReportInv, Countdown, Counts
  <1>9. OneReport'
    BY <1>1, <1>5, <1>7, <1>8 DEF ReportInv, Countdown, OneReport, Types
  <1>10. Sizes'
    BY <1>1, <1>4 DEF ReportInv, Countdown, Sizes
  <1> QED
    BY <1>2, <1>3, <1>6, <1>9, <1>10 DEF Countdown

\* A sized dump starts its countdown at the number of references, all of them
\* still to be submitted.
LEMMA StartsCountdown ==
  ASSUME ReportInv, NEW d \in Dumps, RunSized(d)
  PROVE  Types' /\ Queued' /\ Countdown'
  <1>1. /\ Take(d) /\ CleanUp
        /\ UNCHANGED <<extra, task, pending, pc, at, printed>>
    BY DEF RunSized, taskVars
  <1>2. /\ submit = NoSubmit /\ posted' = posted /\ mailbox' \in Seq(Refs \cup Dumps)
        /\ Queued' /\ ~Served(d) /\ \A e : Served(e)' <=> (Served(e) \/ e = d)
    BY <1>1, TakeServes DEF ReportInv
  <1>3. table' \in [Classes -> Refs \cup {None}] /\ list' \in [Refs -> SUBSET Refs]
    BY <1>1, CleanUpTypes DEF ReportInv
  <1>4. PICK refs \in SUBSET Refs :
          /\ counted' = [counted EXCEPT ![d] = refs]
          /\ count' = [count EXCEPT ![d] = Cardinality(refs)]
          /\ submit' = IF refs = {} THEN NoSubmit ELSE [dump |-> d, left |-> refs]
    <2> DEFINE refs == UNION {list'[l] : l \in {table'[c] : c \in {e \in Classes : table'[e] # None}}}
    <2>1. refs \in SUBSET Refs
      BY <1>3
    <2>2. /\ counted' = [counted EXCEPT ![d] = refs]
          /\ count' = [count EXCEPT ![d] = Cardinality(refs)]
          /\ submit' = IF refs = {} THEN NoSubmit ELSE [dump |-> d, left |-> refs]
      BY DEF RunSized
    <2> QED
      BY <2>1, <2>2
  <1>5. IsFiniteSet(refs) /\ Cardinality(refs) \in Nat
    BY FiniteAssumption, FS_Subset, FS_CardinalityType
  <1>6. Types'
    <2>1. counted' \in [Dumps -> SUBSET Refs] /\ count' \in [Dumps -> Int]
      BY <1>4, <1>5 DEF ReportInv, Types
    <2>2. \/ submit' = NoSubmit
          \/ submit' \in [dump : Dumps, left : (SUBSET Refs) \ {{}}]
      BY <1>4
    <2>3. task' \in [Tasks -> [ref : Refs \cup {None}, dump : Dumps \cup {None}]]
      BY <1>1 DEF ReportInv, Types
    <2> QED
      BY <1>1, <1>2, <1>3, <2>1, <2>2, <2>3 DEF ReportInv, Types
  <1>7. Waiting(d) = {} /\ printed[d] = 0 /\ \A p \in Workers : ~Reports(p, d)
    BY <1>2 DEF ReportInv, Countdown, Fresh
  <1>8. /\ \A e \in Dumps : Waiting(e)' = Waiting(e)
        /\ \A e \in Dumps, p \in Workers : Reports(p, e)' <=> Reports(p, e)
    BY <1>1 DEF Waiting, Reports
  <1>9. /\ Left(d)' = refs
        /\ \A e \in Dumps \ {d} : Left(e) = {} /\ Left(e)' = {} /\ submit'.dump # e
    BY <1>2, <1>4, NoneAssumption DEF Left, NoSubmit
  <1>10. Fresh'
    BY <1>1, <1>2, <1>4, <1>8, <1>9 DEF ReportInv, Countdown, Fresh, Types
  <1>11. Counts'
    <2>1. count'[d] = Cardinality(Left(d)') + Cardinality(Waiting(d)')
      <3>1. Cardinality(Left(d)') = Cardinality(refs) /\ Cardinality(Waiting(d)') = 0
        BY <1>7, <1>8, <1>9, FS_EmptySet
      <3> QED
        BY <1>4, <1>5, <3>1 DEF ReportInv, Types
    <2>2. \A e \in Dumps \ {d} : count'[e] = Cardinality(Left(e)') + Cardinality(Waiting(e)')
      BY <1>4, <1>8, <1>9 DEF ReportInv, Types, Countdown, Counts
    <2> QED
      BY <2>1, <2>2 DEF Counts
  <1>12. OneReport'
    BY <1>1, <1>4, <1>7, <1>8 DEF ReportInv, Countdown, OneReport, Types
  <1>13. Sizes'
    <2>1. \A r \in counted'[d] : r \in Left(d)'
      BY <1>4, <1>9 DEF ReportInv, Types
    <2>2. \A e \in Dumps \ {d} : counted'[e] = counted[e] /\ Left(e)' = Left(e)
      BY <1>4, <1>9 DEF ReportInv, Types
    <2> QED
      BY <1>1, <1>8, <2>1, <2>2 DEF ReportInv, Countdown, Sizes
  <1> QED
    BY <1>2, <1>6, <1>10, <1>11, <1>12, <1>13 DEF Countdown

\* The next reference goes from what is left into a task nobody has.
LEMMA HandsOver ==
  ASSUME ReportInv, Execute
  PROVE  Types' /\ Countdown'
  <1>1. /\ submit # NoSubmit /\ NextTask \in Tasks
        /\ task' = [task EXCEPT ![NextTask] = FieldsFor(First(submit.left), submit.dump)]
        /\ pending' = pending \cup {NextTask}
        /\ submit' = IF submit.left = {First(submit.left)} THEN NoSubmit
                     ELSE [submit EXCEPT !.left = @ \ {First(submit.left)}]
        /\ UNCHANGED <<posted, mailbox, table, list, extra, counted, count, pc, at, printed>>
    BY DEF Execute, kernelVars
  <1>2. PICK k \in Tasks, d \in Dumps, r \in submit.left :
          /\ k = NextTask /\ r \in Refs
          /\ submit = [dump |-> d, left |-> submit.left] /\ submit.left \subseteq Refs
          /\ task' = [task EXCEPT ![k] = FieldsFor(r, d)]
          /\ pending' = pending \cup {k}
          /\ submit' = IF submit.left = {r} THEN NoSubmit ELSE [submit EXCEPT !.left = @ \ {r}]
    <2>1. /\ submit.dump \in Dumps /\ submit.left \subseteq Refs /\ submit.left # {}
          /\ submit = [dump |-> submit.dump, left |-> submit.left]
      BY <1>1 DEF ReportInv, Types
    <2>2. First(submit.left) \in submit.left
      BY <2>1 DEF First
    <2> QED
      BY <1>1, <2>1, <2>2
  <1>3. k \notin pending /\ \A p \in Workers : at[p] # k
    BY <1>2, NextIsUnused, NoneAssumption DEF ReportInv
  <1>4. task' \in [Tasks -> [ref : Refs \cup {None}, dump : Dumps \cup {None}]]
    BY <1>2 DEF ReportInv, Types, FieldsFor
  <1>5. \/ submit' = NoSubmit
        \/ submit' \in [dump : Dumps, left : (SUBSET Refs) \ {{}}]
    BY <1>1, <1>2
  <1>6. Types'
    BY <1>1, <1>4, <1>5 DEF ReportInv, Types
  <1>7. /\ task'[k].dump = d /\ task'[k].ref = r
        /\ \A j \in Tasks \ {k} : task'[j] = task[j]
    BY <1>2 DEF ReportInv, Types, FieldsFor
  <1>8. /\ k \notin Waiting(d) /\ Waiting(d)' = Waiting(d) \cup {k}
        /\ \A e \in Dumps \ {d} : Waiting(e)' = Waiting(e)
    BY <1>1, <1>2, <1>3, <1>7 DEF Waiting
  <1>9. /\ r \in Left(d) /\ Left(d)' = Left(d) \ {r}
        /\ \A e \in Dumps \ {d} : Left(e)' = Left(e) /\ submit'.dump # e
    <2>1. Left(d) = submit.left /\ \A e \in Dumps \ {d} : Left(e) = {}
      BY <1>2 DEF Left
    <2>2. CASE submit.left = {r}
      BY <1>1, <1>2, <2>1, <2>2, NoneAssumption DEF Left, NoSubmit
    <2>3. CASE submit.left # {r}
      <3>1. submit' = [dump |-> d, left |-> submit.left \ {r}]
        BY <1>1, <1>2, <2>3
      <3> QED
        BY <1>2, <2>1, <3>1 DEF Left
    <2> QED
      BY <2>2, <2>3
  <1>10. \A e \in Dumps, p \in Workers : Reports(p, e)' <=> Reports(p, e)
    BY <1>1, <1>3, <1>7 DEF Reports, ReportInv, TaskInv, TaskTypes, HasTask
  <1>11. \A e : Served(e)' <=> Served(e)
    BY <1>1 DEF Served, InMail
  <1>12. Served(d)
    BY <1>2 DEF ReportInv, Countdown, Fresh
  <1>13. Fresh'
    BY <1>1, <1>8, <1>9, <1>10, <1>11, <1>12 DEF ReportInv, Countdown, Fresh
  <1>14. Counts'
    <2>1. /\ Cardinality(Waiting(d)') = Cardinality(Waiting(d)) + 1
          /\ Cardinality(Left(d)') = Cardinality(Left(d)) - 1
      <3>1. IsFiniteSet(Waiting(d)) /\ IsFiniteSet(Left(d))
        BY WorkIsFinite DEF ReportInv
      <3>2. Cardinality(Waiting(d)') = Cardinality(Waiting(d)) + 1
        BY <1>8, <3>1, FS_AddElement
      <3>3. Cardinality(Left(d)') = Cardinality(Left(d)) - 1
        BY <1>9, <3>1, FS_RemoveElement
      <3> QED
        BY <3>2, <3>3
    <2>2. /\ count[d] = Cardinality(Left(d)) + Cardinality(Waiting(d))
          /\ Cardinality(Left(d)) \in Nat /\ Cardinality(Waiting(d)) \in Nat
      BY <1>2, WorkIsFinite DEF ReportInv, Countdown, Counts
    <2>3. count'[d] = Cardinality(Left(d)') + Cardinality(Waiting(d)')
      BY <1>1, <2>1, <2>2
    <2> QED
      BY <1>1, <1>8, <1>9, <2>3 DEF ReportInv, Countdown, Counts
  <1>15. OneReport'
    <2>1. \A p \in Workers : pc[p] \in {"report", "group"} => at[p] \in Tasks \ {k}
      BY <1>3 DEF ReportInv, TaskInv, TaskTypes, HasTask
    <2> QED
      BY <1>1, <1>7, <1>10, <2>1 DEF ReportInv, Countdown, OneReport
  <1>16. Sizes'
    <2>1. \A p \in Workers : pc[p] = "count" => at[p] \in Tasks \ {k}
      BY <1>3 DEF ReportInv, TaskInv, TaskTypes, HasTask
    <2>2. \A e \in Dumps : Waiting(e) \subseteq Tasks \ {k}
      BY <1>3, <1>7, <1>8 DEF Waiting
    <2>3. ASSUME NEW e \in Dumps, NEW q \in counted[e]
          PROVE  q \in extra \/ q \in Left(e)' \/ \E j \in Waiting(e)' : task'[j].ref = q
      <3>1. q \in extra \/ q \in Left(e) \/ \E j \in Waiting(e) : task[j].ref = q
        BY DEF ReportInv, Countdown, Sizes
      <3>2. \A j \in Waiting(e) : j \in Waiting(e)' /\ task'[j] = task[j]
        BY <1>7, <1>8, <2>2
      <3>3. q \in Left(e) => q \in Left(e)' \/ (e = d /\ q = r)
        BY <1>9
      <3> QED
        BY <1>7, <1>8, <3>1, <3>2, <3>3
    <2>4. \A p \in Workers : pc[p] = "count" => task'[at[p]].ref \in extra \cup {None}
      BY <1>7, <2>1 DEF ReportInv, Countdown, Sizes
    <2> QED
      BY <1>1, <2>3, <2>4 DEF Sizes
  <1> QED
    BY <1>6, <1>13, <1>14, <1>15, <1>16 DEF Countdown

-----------------------------------------------------------------------------
\* The steps of the pool's threads.

\* Sizing: the task stays counted, and its reference gets a size.
LEMMA SizesOne ==
  ASSUME ReportInv, NEW p \in Workers, Size(p)
  PROVE  Countdown'
  <1>1. /\ pc[p] = "size" /\ pc' = [pc EXCEPT ![p] = "count"]
        /\ extra' = extra \cup ({task[at[p]].ref} \ {None})
        /\ UNCHANGED <<posted, mailbox, counted, count, submit, task, pending, at, printed>>
    BY DEF Size, kernelVars, dumpVars, taskVars
  <1>2. /\ \A d \in Dumps : Waiting(d)' = Waiting(d) /\ Left(d)' = Left(d)
        /\ \A d : Served(d)' <=> Served(d)
        /\ \A d \in Dumps, q \in Workers : Reports(q, d)' <=> Reports(q, d)
    BY <1>1 DEF ReportInv, TaskInv, TaskTypes, Waiting, Left, Served, InMail, Reports
  <1>3. Fresh' /\ Counts'
    BY <1>1, <1>2 DEF ReportInv, Countdown, Fresh, Counts
  <1>4. OneReport'
    BY <1>1, <1>2 DEF ReportInv, TaskInv, TaskTypes, Countdown, OneReport
  <1>5. Sizes'
    BY <1>1, <1>2 DEF ReportInv, TaskInv, TaskTypes, Countdown, Sizes
  <1> QED
    BY <1>3, <1>4, <1>5 DEF Countdown

\* Counting down takes the task out of what is waiting; the thread that takes
\* the last one reports.
LEMMA CountsOne ==
  ASSUME ReportInv, NEW p \in Workers, Count(p)
  PROVE  count' \in [Dumps -> Int] /\ Countdown'
  <1>1. /\ pc[p] = "count"
        /\ UNCHANGED <<posted, mailbox, counted, submit, task, pending, at, printed, extra>>
    BY DEF Count, kernelVars, dumpVars, taskVars
  <1>2. PICK k \in Tasks, d \in Dumps \cup {None} :
          k = at[p] /\ d = task[k].dump /\ k \notin pending /\ \A q \in Workers \ {p} : at[q] # k
    BY <1>1 DEF ReportInv, TaskInv, TaskTypes, HasTask, OneOwner, Types
  <1>3. \A e : (Left(e)' = Left(e)) /\ (Served(e)' <=> Served(e))
    BY <1>1 DEF Left, Served, InMail
  <1>4. CASE d = None
    <2>1. pc' = [pc EXCEPT ![p] = "check"] /\ count' = count
      BY <1>2, <1>4 DEF Count
    <2>2. \A e \in Dumps : Waiting(e)' = Waiting(e)
      BY <1>1, <1>2, <1>4, <2>1, NoneAssumption DEF Waiting, ReportInv, TaskInv, TaskTypes
    <2>3. \A e \in Dumps, q \in Workers : Reports(q, e)' <=> Reports(q, e)
      BY <1>1, <2>1 DEF Reports, ReportInv, TaskInv, TaskTypes
    <2>4. /\ \A q \in Workers : pc'[q] \in {"report", "group"} => task'[at'[q]].dump \in Dumps
          /\ \A q \in Workers : pc'[q] = "count" => task'[at'[q]].ref \in extra \cup {None}
      BY <1>1, <2>1 DEF ReportInv, TaskInv, TaskTypes, Countdown, OneReport, Sizes
    <2>5. Countdown'
      BY <1>1, <2>1, <2>2, <2>3, <2>4, SameHands DEF ReportInv
    <2> QED
      BY <2>1, <2>5 DEF ReportInv, Types
  <1>5. CASE d # None
    <2>1. d \in Dumps
      BY <1>2, <1>5
    <2>2. /\ count' = [count EXCEPT ![d] = @ - 1]
          /\ pc' = [pc EXCEPT ![p] = IF Last(d) THEN "report" ELSE "check"]
      BY <1>2, <1>5 DEF Count
    <2>3. count' \in [Dumps -> Int] /\ count'[d] = count[d] - 1
          /\ \A e \in Dumps \ {d} : count'[e] = count[e]
      BY <2>1, <2>2 DEF ReportInv, Types
    <2>4. /\ k \in Waiting(d) /\ Waiting(d)' = Waiting(d) \ {k}
          /\ \A e \in Dumps \ {d} : Waiting(e)' = Waiting(e) /\ k \notin Waiting(e)
      BY <1>1, <1>2, <2>2 DEF Waiting, ReportInv, TaskInv, TaskTypes
    <2>5. \A e \in Dumps, q \in Workers :
            Reports(q, e)' <=> Reports(q, e) \/ (q = p /\ e = d /\ Last(d))
      BY <1>1, <1>2, <2>2 DEF Reports, ReportInv, TaskInv, TaskTypes
    <2>6. Served(d)
      BY <2>1, <2>4 DEF ReportInv, Countdown, Fresh
    <2>7. Fresh'
      BY <1>1, <1>3, <2>4, <2>5, <2>6 DEF ReportInv, Countdown, Fresh
    <2>8. /\ count[d] = Cardinality(Left(d)) + Cardinality(Waiting(d))
          /\ Cardinality(Left(d)) \in Nat /\ Cardinality(Waiting(d)) \in Nat
          /\ Cardinality(Waiting(d)') = Cardinality(Waiting(d)) - 1
          /\ Cardinality(Waiting(d)') \in Nat
      <3>1. IsFiniteSet(Waiting(d))
        BY <2>1, WorkIsFinite DEF ReportInv
      <3>2. IsFiniteSet(Waiting(d)')
        BY <2>4, <3>1, FS_RemoveElement
      <3>3. Cardinality(Waiting(d)') = Cardinality(Waiting(d)) - 1
        BY <2>4, <3>1, FS_RemoveElement
      <3> QED
        BY <2>1, <3>2, <3>3, WorkIsFinite, FS_CardinalityType DEF ReportInv, Countdown, Counts
    <2>9. Counts'
      <3>1. count'[d] = Cardinality(Left(d)') + Cardinality(Waiting(d)')
        BY <1>3, <2>3, <2>8
      <3> QED
        BY <1>3, <2>3, <2>4, <3>1 DEF ReportInv, Countdown, Counts
    <2>10. count[d] >= 1 /\ (Last(d) <=> count[d] = 1)
      BY <2>8 DEF Last
    <2>11. printed[d] = 0 /\ \A q \in Workers : ~Reports(q, d)
      BY <2>1, <2>10 DEF ReportInv, Countdown, OneReport
    <2>12. OneReport'
      <3>1. \A q \in Workers : pc'[q] \in {"report", "group"} => task'[at'[q]].dump \in Dumps
        BY <1>1, <1>2, <2>1, <2>2 DEF ReportInv, TaskInv, TaskTypes, Countdown, OneReport
      <3>2. \A e \in Dumps, q \in Workers : Reports(q, e)' =>
              count'[e] = 0 /\ printed'[e] = 0 /\ \A o \in Workers : Reports(o, e)' => o = q
        <4>1. \A q \in Workers : Reports(q, d)' =>
                count'[d] = 0 /\ printed'[d] = 0 /\ \A o \in Workers : Reports(o, d)' => o = q
          BY <1>1, <2>1, <2>3, <2>5, <2>10, <2>11
        <4>2. \A e \in Dumps \ {d}, q \in Workers : Reports(q, e)' =>
                count'[e] = 0 /\ printed'[e] = 0 /\ \A o \in Workers : Reports(o, e)' => o = q
          BY <1>1, <2>3, <2>5 DEF ReportInv, Countdown, OneReport
        <4> QED
          BY <4>1, <4>2
      <3>3. \A e \in Dumps : printed'[e] = 0 \/ (printed'[e] = 1 /\ count'[e] = 0)
        BY <1>1, <2>3, <2>11 DEF ReportInv, Countdown, OneReport
      <3> QED
        BY <3>1, <3>2, <3>3 DEF OneReport
    <2>13. Sizes'
      <3>1. task[k].ref \in extra \cup {None}
        BY <1>1, <1>2 DEF ReportInv, Countdown, Sizes
      <3>2. ASSUME NEW e \in Dumps, NEW r \in counted[e]
            PROVE  r \in extra \/ r \in Left(e)' \/ \E j \in Waiting(e)' : task[j].ref = r
        <4>1. r # None
          BY NoneAssumption DEF ReportInv, Types
        <4>2. \A j \in Waiting(e) : j = k \/ j \in Waiting(e)'
          BY <2>4
        <4>3. r \in extra \/ r \in Left(e) \/ \E j \in Waiting(e) : task[j].ref = r
          BY DEF ReportInv, Countdown, Sizes
        <4> QED
          BY <1>3, <3>1, <4>1, <4>2, <4>3
      <3>3. \A q \in Workers : pc'[q] = "count" => task[at[q]].ref \in extra \cup {None}
        BY <2>2 DEF ReportInv, TaskInv, TaskTypes, Countdown, Sizes
      <3> QED
        BY <1>1, <3>2, <3>3 DEF Sizes
    <2> QED
      BY <2>3, <2>7, <2>9, <2>12, <2>13 DEF Countdown
  <1> QED
    BY <1>4, <1>5

\* A report that ends is the only print of its dump.
LEMMA PrintsSized ==
  ASSUME ReportInv, NEW p \in Workers, EndReport(p)
  PROVE  printed' \in [Dumps -> Nat] /\ Countdown'
  <1>1. /\ pc[p] = "report" /\ pc' = [pc EXCEPT ![p] = "check"]
        /\ printed' = [printed EXCEPT ![task[at[p]].dump] = @ + 1]
        /\ UNCHANGED <<posted, mailbox, counted, count, submit, task, pending, at, extra>>
    BY DEF EndReport, kernelVars, dumpVars, taskVars
  <1>2. PICK d \in Dumps : d = task[at[p]].dump
    BY <1>1 DEF ReportInv, Countdown, OneReport
  <1>3. /\ Reports(p, d) /\ printed[d] = 0 /\ count[d] = 0
        /\ \A q \in Workers : Reports(q, d) => q = p
    BY <1>1, <1>2 DEF ReportInv, Countdown, OneReport, Reports
  <1>4. /\ printed' \in [Dumps -> Nat] /\ printed'[d] = 1
        /\ \A e \in Dumps \ {d} : printed'[e] = printed[e]
    BY <1>1, <1>2, <1>3 DEF ReportInv, Types
  <1>5. /\ \A e \in Dumps : Waiting(e)' = Waiting(e) /\ Left(e)' = Left(e)
        /\ \A e : Served(e)' <=> Served(e)
    BY <1>1 DEF ReportInv, TaskInv, TaskTypes, Waiting, Left, Served, InMail
  <1>6. \A e \in Dumps, q \in Workers : Reports(q, e)' <=> Reports(q, e) /\ q # p
    BY <1>1 DEF Reports, ReportInv, TaskInv, TaskTypes
  <1>7. Served(d)
    BY <1>3 DEF ReportInv, Countdown, Fresh
  <1>8. Fresh'
    BY <1>1, <1>4, <1>5, <1>6, <1>7 DEF ReportInv, Countdown, Fresh
  <1>9. Counts'
    BY <1>1, <1>5 DEF ReportInv, Countdown, Counts
  <1>10. OneReport'
    <2>1. \A q \in Workers : pc'[q] \in {"report", "group"} => task'[at'[q]].dump \in Dumps
      BY <1>1 DEF ReportInv, TaskInv, TaskTypes, Countdown, OneReport
    <2>2. \A e \in Dumps, q \in Workers : Reports(q, e)' =>
            count'[e] = 0 /\ printed'[e] = 0 /\ \A o \in Workers : Reports(o, e)' => o = q
      BY <1>1, <1>3, <1>4, <1>6 DEF ReportInv, Countdown, OneReport
    <2>3. \A e \in Dumps : printed'[e] = 0 \/ (printed'[e] = 1 /\ count'[e] = 0)
      BY <1>1, <1>3, <1>4 DEF ReportInv, Countdown, OneReport
    <2> QED
      BY <2>1, <2>2, <2>3 DEF OneReport
  <1>11. Sizes'
    BY <1>1, <1>5 DEF ReportInv, TaskInv, TaskTypes, Countdown, Sizes
  <1> QED
    BY <1>4, <1>8, <1>9, <1>10, <1>11 DEF Countdown

\* A thread that starts a task takes it over from the queue, uncounted.
LEMMA MovesTask ==
  ASSUME ReportInv, NEW p \in Workers, NEW k \in Tasks, Start(p, k)
  PROVE  Countdown'
  <1>1. /\ pc[p] = "idle" /\ k \in pending /\ pending' = pending \ {k}
        /\ pc' = [pc EXCEPT ![p] = "size"] /\ at' = [at EXCEPT ![p] = k]
        /\ UNCHANGED <<posted, mailbox, counted, count, submit, task, printed, extra>>
    BY DEF Start, kernelVars, dumpVars
  <1>2. at[p] = None
    BY <1>1 DEF ReportInv, TaskInv, HasTask
  <1>3. \A d \in Dumps : Waiting(d)' = Waiting(d)
    BY <1>1, <1>2, NoneAssumption DEF Waiting, ReportInv, TaskInv, TaskTypes
  <1>4. \A d \in Dumps, q \in Workers : Reports(q, d)' <=> Reports(q, d)
    BY <1>1 DEF Reports, ReportInv, TaskInv, TaskTypes
  <1>5. /\ \A q \in Workers : pc'[q] \in {"report", "group"} => task'[at'[q]].dump \in Dumps
        /\ \A q \in Workers : pc'[q] = "count" => task'[at'[q]].ref \in extra \cup {None}
    BY <1>1 DEF ReportInv, TaskInv, TaskTypes, Countdown, OneReport, Sizes
  <1> QED
    BY <1>1, <1>3, <1>4, <1>5, SameHands DEF ReportInv

\* Reading the lists, and leaving them.
LEMMA ReadsLists ==
  ASSUME ReportInv, NEW p \in Workers,
         BeginGroup(p) \/ ReadRef(p) \/ EndGroup(p) \/ FailFast(p)
  PROVE  Countdown'
  <1>1. /\ UNCHANGED <<posted, mailbox, counted, count, submit, task, pending, at, printed, extra>>
        /\ \/ pc' = pc
           \/ /\ pc[p] \in {"report", "group"}
              /\ \E s \in {"report", "group"} : pc' = [pc EXCEPT ![p] = s]
    BY DEF BeginGroup, ReadRef, EndGroup, FailFast, kernelVars, dumpVars, taskVars
  <1>2. \A q \in Workers :
          /\ pc'[q] \in {"report", "group"} <=> pc[q] \in {"report", "group"}
          /\ pc'[q] = pc[q] \/ pc[q] \in {"report", "group"}
    BY <1>1 DEF ReportInv, TaskInv, TaskTypes
  <1>3. \A d \in Dumps : Waiting(d)' = Waiting(d)
    BY <1>1, <1>2 DEF Waiting
  <1>4. \A d \in Dumps, q \in Workers : Reports(q, d)' <=> Reports(q, d)
    BY <1>1, <1>2 DEF Reports
  <1>5. /\ \A q \in Workers : pc'[q] \in {"report", "group"} => task'[at'[q]].dump \in Dumps
        /\ \A q \in Workers : pc'[q] = "count" => task'[at'[q]].ref \in extra \cup {None}
    BY <1>1, <1>2 DEF ReportInv, Countdown, OneReport, Sizes
  <1> QED
    BY <1>1, <1>3, <1>4, <1>5, SameHands DEF ReportInv

\* A task that was counted is dropped or recycled.
LEMMA LetsGo ==
  ASSUME ReportInv, NEW p \in Workers, Check(p) \/ Put(p)
  PROVE  /\ task' \in [Tasks -> [ref : Refs \cup {None}, dump : Dumps \cup {None}]]
         /\ Countdown'
  <1>1. /\ pc[p] \in {"check", "put"} /\ \E s \in {"idle", "put"} : pc' = [pc EXCEPT ![p] = s]
        /\ \A q \in Workers \ {p} : at'[q] = at[q]
        /\ task' = task \/ task' = [task EXCEPT ![at[p]] = NoFields]
        /\ UNCHANGED <<posted, mailbox, counted, count, submit, pending, printed, extra>>
    BY DEF Check, Put, kernelVars, dumpVars, taskVars, ReportInv, TaskInv, TaskTypes
  <1>2. PICK k \in Tasks :
          k = at[p] /\ k \notin pending /\ \A q \in Workers \ {p} : at[q] # k
    BY <1>1 DEF ReportInv, TaskInv, TaskTypes, HasTask, OneOwner
  <1>3. /\ task' \in [Tasks -> [ref : Refs \cup {None}, dump : Dumps \cup {None}]]
        /\ \A j \in Tasks \ {k} : task'[j] = task[j]
    <2>1. CASE task' = task
      BY <2>1 DEF ReportInv, Types
    <2>2. CASE task' = [task EXCEPT ![k] = NoFields]
      BY <2>2 DEF ReportInv, Types, NoFields
    <2> QED
      BY <1>1, <1>2, <2>1, <2>2
  <1>4. /\ \A q \in Workers \ {p} : pc'[q] = pc[q]
        /\ pc'[p] \in {"idle", "put"}
    BY <1>1 DEF ReportInv, TaskInv, TaskTypes
  <1>5. \A d \in Dumps : Waiting(d)' = Waiting(d) /\ k \notin Waiting(d)
    BY <1>1, <1>2, <1>3, <1>4 DEF Waiting
  <1>6. \A q \in Workers : pc[q] # "idle" => at[q] \in Tasks
    BY DEF ReportInv, TaskInv, TaskTypes, HasTask
  <1>7. \A d \in Dumps, q \in Workers : Reports(q, d)' <=> Reports(q, d)
    BY <1>1, <1>2, <1>3, <1>4, <1>6 DEF Reports
  <1>8. /\ \A q \in Workers : pc'[q] \in {"report", "group"} => task'[at'[q]].dump \in Dumps
        /\ \A q \in Workers : pc'[q] = "count" => task'[at'[q]].ref \in extra \cup {None}
    BY <1>1, <1>2, <1>3, <1>4, <1>6 DEF ReportInv, Countdown, OneReport, Sizes
  <1>9. \A d \in Dumps : \A j \in Waiting(d) : task'[j] = task[j]
    BY <1>3, <1>5 DEF Waiting
  <1>10. Countdown'
    BY <1>1, <1>5, <1>7, <1>8, <1>9, SameHands DEF ReportInv
  <1> QED
    BY <1>3, <1>10

-----------------------------------------------------------------------------
\* Every step of a thread of the pool.
LEMMA WorkerCounts ==
  ASSUME ReportInv, NEW p \in Workers, WorkerStep(p)
  PROVE  Types' /\ Queued' /\ Countdown'
  <1>1. /\ UNCHANGED <<posted, mailbox, table, list, counted, submit>>
        /\ \/ count' = count
           \/ Count(p)
        /\ \/ printed' = printed
           \/ EndReport(p)
        /\ \/ task' = task
           \/ Put(p)
    BY DEF WorkerStep, Start, Size, Count, BeginGroup, ReadRef, EndGroup, FailFast,
           EndReport, Check, Put, kernelVars, dumpVars, taskVars
  <1>2. Countdown'
    BY SizesOne, CountsOne, PrintsSized, MovesTask, ReadsLists, LetsGo DEF WorkerStep
  <1>3. /\ count' \in [Dumps -> Int] /\ printed' \in [Dumps -> Nat]
        /\ task' \in [Tasks -> [ref : Refs \cup {None}, dump : Dumps \cup {None}]]
    BY <1>1, CountsOne, PrintsSized, LetsGo DEF ReportInv, Types
  <1>4. Types'
    BY <1>1, <1>3 DEF ReportInv, Types
  <1>5. Queued'
    BY <1>1 DEF ReportInv, Queued
  <1> QED
    BY <1>2, <1>4, <1>5

\* A call that is made.
LEMMA CallCounts ==
  ASSUME ReportInv, NEW m \in Refs \cup Dumps, Post(m),
         UNCHANGED <<table, list, extra, counted, count, submit, task, pending, pc, at, printed>>
  PROVE  Types' /\ Queued' /\ Countdown'
  <1>1. /\ posted' \subseteq Refs \cup Dumps /\ mailbox' \in Seq(Refs \cup Dumps)
        /\ Queued' /\ \A d : Served(d)' <=> Served(d)
    BY PostQueues DEF ReportInv
  <1>2. Types'
    BY <1>1 DEF ReportInv, Types
  <1>3. Countdown'
    BY <1>1, SameWork DEF ReportInv
  <1> QED
    BY <1>1, <1>2, <1>3

\* Nothing of the work is touched.
LEMMA NothingCounts ==
  ASSUME ReportInv, UNCHANGED <<posted, mailbox, table, list, extra, counted, count, submit,
                                task, pending, pc, at, printed>>
  PROVE  Types' /\ Queued' /\ Countdown'
  <1>1. \A d \in Dumps : Served(d)' <=> Served(d)
    BY DEF Served, InMail
  <1>2. Types' /\ Queued'
    BY DEF ReportInv, Types, Queued
  <1>3. Countdown'
    BY <1>1, SameWork DEF ReportInv
  <1> QED
    BY <1>2, <1>3

\* Every step.
LEMMA NextReport == ReportInv /\ [Next]_vars => ReportInv'
  <1> SUFFICES ASSUME ReportInv, [Next]_vars PROVE ReportInv'
    OBVIOUS
  <1>1. TaskInv'
    BY NextKeeps DEF ReportInv
  <1>2. ASSUME NEW r \in Refs, Offer(r) PROVE Types' /\ Queued' /\ Countdown'
    BY <1>2, CallCounts DEF Offer, dumpVars, taskVars
  <1>3. ASSUME NEW r \in Refs, Collect(r) PROVE Types' /\ Queued' /\ Countdown'
    BY <1>3, NothingCounts DEF Collect, dumpVars, taskVars
  <1>4. ASSUME NEW d \in Dumps, NEW s \in BOOLEAN, Click(d, s)
        PROVE  Types' /\ Queued' /\ Countdown'
    BY <1>4, NothingCounts DEF Click, kernelVars, dumpVars, taskVars
  <1>5. ASSUME ClickDump PROVE Types' /\ Queued' /\ Countdown'
    <2>1. click \in Dumps
      BY <1>5 DEF ClickDump, ReportInv, Clicked
    <2> QED
      BY <1>5, <2>1, CallCounts DEF ClickDump, dumpVars, taskVars
  <1>6. ASSUME NEW d \in Dumps, DirectDump(d) PROVE Types' /\ Queued' /\ Countdown'
    BY <1>6, CallCounts DEF DirectDump, dumpVars, taskVars
  <1>7. ASSUME NEW r \in Refs, RunOffer(r) PROVE Types' /\ Queued' /\ Countdown'
    BY <1>7, FilesOffer
  <1>8. ASSUME NEW d \in Dumps, RunPlain(d) \/ RunSized(d)
        PROVE  Types' /\ Queued' /\ Countdown'
    BY <1>8, PrintsPlain, StartsCountdown
  <1>9. ASSUME Execute PROVE Types' /\ Queued' /\ Countdown'
    <2>1. Queued'
      BY <1>9 DEF Execute, kernelVars, ReportInv, Queued
    <2> QED
      BY <1>9, <2>1, HandsOver
  <1>10. ASSUME NEW p \in Workers, WorkerStep(p) PROVE Types' /\ Queued' /\ Countdown'
    BY <1>10, WorkerCounts
  <1>11. ASSUME UNCHANGED vars PROVE Types' /\ Queued' /\ Countdown'
    BY <1>11, NothingCounts DEF vars, kernelVars, dumpVars, taskVars
  <1>12. Types' /\ Queued' /\ Countdown'
    BY <1>2, <1>3, <1>4, <1>5, <1>6, <1>7, <1>8, <1>9, <1>10, <1>11
       DEF Next, HandlerStep, Stopped
  <1>13. Clicked'
    <2>1. click' \in {click, None} \cup Dumps
      BY DEF Next, HandlerStep, WorkerStep, Stopped, Offer, Collect, Click, ClickDump, DirectDump,
             RunOffer, RunPlain, RunSized, Execute, Start, Size, Count, BeginGroup, ReadRef,
             EndGroup, FailFast, EndReport, Check, Put, vars, flagVars
    <2> QED
      BY <2>1 DEF ReportInv, Clicked
  <1> QED
    BY <1>1, <1>12, <1>13 DEF ReportInv

\* The countdown's invariant holds in every reachable state.
LEMMA ReportInvariance == Spec => []ReportInv
  BY InitReport, NextReport, PTL DEF Spec

\* However the tasks of the pool interleave, and whatever dumps overlap, no
\* dump is printed twice: decrementAndGet() elects one thread.
THEOREM PrintsOnce == Spec => []PrintedOnce
  <1>1. ReportInv => PrintedOnce
    BY DEF ReportInv, Countdown, OneReport, PrintedOnce
  <1> QED
    BY <1>1, ReportInvariance, PTL

\* The thread that reports a dump finds the size of every reference that was
\* counted into it: the countdown starts before the first task is submitted and
\* a task counts only after it sized.
THEOREM SizesFirst == Spec => []SizedBeforeReport
  <1>1. ASSUME ReportInv PROVE SizedBeforeReport
    <2>1. SUFFICES ASSUME NEW p \in Workers, pc[p] \in {"report", "group"}
                   PROVE  counted[task[at[p]].dump] \subseteq extra
      BY DEF SizedBeforeReport
    <2>2. PICK d \in Dumps : d = task[at[p]].dump
      BY <1>1, <2>1 DEF ReportInv, Countdown, OneReport
    <2>3. count[d] = 0
      BY <1>1, <2>1, <2>2 DEF ReportInv, Countdown, OneReport, Reports
    <2>4. Left(d) = {} /\ Waiting(d) = {}
      BY <1>1, <2>3, NoWorkLeft DEF ReportInv, Countdown
    <2> QED
      BY <1>1, <2>2, <2>4 DEF ReportInv, Countdown, Sizes
  <1> QED
    BY <1>1, ReportInvariance, PTL
-----------------------------------------------------------------------------
(* The flags and the dumps they belong to travel in step: a click pushes    *)
(* its flag before it posts its dump, and both queues are first in first    *)
(* out, so the handler takes each dump with the flag of its own click.       *)
\* Every dump was asked for by a click.
OnlyClicks == \A d \in Dumps \cap posted : wish[d] # None

ClickTypes ==
  /\ flags \in Seq(BOOLEAN) /\ wish \in [Dumps -> BOOLEAN \cup {None}]
  /\ mode \in [Dumps -> {"no", "plain", "sized"}]
  /\ \A d \in Dumps : mode[d] # "no" => d \in posted
  /\ \A d \in Dumps : wish[d] # None => d \in posted \/ d = click

\* The mailbox holds n dumps, at the places pos, and the flags are those of
\* their clicks in the same order; then comes the flag of a click that has not
\* posted its dump yet.
Places(n, pos) ==
  /\ \A i \in 1..n : pos[i] \in 1..Len(mailbox) /\ mailbox[pos[i]] \in Dumps
  /\ \A i, j \in 1..n : i < j => pos[i] < pos[j]
  /\ \A k \in 1..Len(mailbox) : mailbox[k] \in Dumps => \E i \in 1..n : pos[i] = k
Flags(n, pos) ==
  /\ Len(flags) = IF click = None THEN n ELSE n + 1
  /\ \A i \in 1..n : flags[i] = wish[mailbox[pos[i]]]
  /\ click # None => flags[n + 1] = wish[click]
Matched == \E n \in Nat : \E pos \in [1..n -> Nat] : Places(n, pos) /\ Flags(n, pos)

ServedAsWished ==
  \A d \in Dumps : mode[d] # "no" => mode[d] = IF wish[d] /\ AtLeastP THEN "sized" ELSE "plain"

FlagInv == ClickTypes /\ (OnlyClicks => Matched /\ ServedAsWished)

\* A call that is no dump keeps the places.
LEMMA PlacesOffer ==
  ASSUME Types, NEW n \in Nat, NEW pos \in [1..n -> Nat], Places(n, pos),
         NEW r \in Refs, mailbox' = Append(mailbox, r)
  PROVE  Places(n, pos)' /\ \A i \in 1..n : mailbox'[pos[i]] = mailbox[pos[i]]
  <1>1. /\ Len(mailbox) \in Nat /\ Len(mailbox') = Len(mailbox) + 1 /\ mailbox'[Len(mailbox) + 1] = r
        /\ \A k \in 1..Len(mailbox) : mailbox'[k] = mailbox[k]
    BY DEF Types
  <1>2. r \notin Dumps
    BY CallsAssumption
  <1> QED
    BY <1>1, <1>2 DEF Places

\* The dump of a click takes the last place.
LEMMA PlacesDump ==
  ASSUME Types, NEW n \in Nat, NEW pos \in [1..n -> Nat], Places(n, pos),
         NEW d \in Dumps, mailbox' = Append(mailbox, d)
  PROVE  \E q \in [1..(n + 1) -> Nat] :
           /\ Places(n + 1, q)' /\ mailbox'[q[n + 1]] = d
           /\ \A i \in 1..n : mailbox'[q[i]] = mailbox[pos[i]]
  <1>a. PICK L : L = Len(mailbox)
    OBVIOUS
  <1>b. PICK q : q = [i \in 1..(n + 1) |-> IF i = n + 1 THEN L + 1 ELSE pos[i]]
    OBVIOUS
  <1>1. /\ L \in Nat /\ Len(mailbox') = L + 1 /\ mailbox'[L + 1] = d
        /\ \A k \in 1..L : mailbox'[k] = mailbox[k]
    BY <1>a DEF Types
  <1>2. q[n + 1] = L + 1 /\ \A i \in 1..n : q[i] = pos[i]
    BY <1>b
  <1>3. \A i \in 1..n : pos[i] \in 1..L /\ mailbox[pos[i]] \in Dumps
    BY <1>a DEF Places
  <1>4. q \in [1..(n + 1) -> Nat]
    BY <1>1, <1>b
  <1>c. \A i \in 1..(n + 1) : (i = n + 1 /\ q[i] = L + 1) \/ (i \in 1..n /\ q[i] = pos[i])
    BY <1>2
  <1>5. \A i \in 1..(n + 1) : q[i] \in 1..Len(mailbox') /\ mailbox'[q[i]] \in Dumps
    BY <1>1, <1>3, <1>c
  <1>6. \A i, j \in 1..(n + 1) : i < j => q[i] < q[j]
    <2> SUFFICES ASSUME NEW i \in 1..(n + 1), NEW j \in 1..(n + 1), i < j PROVE q[i] < q[j]
      OBVIOUS
    <2>1. i \in 1..n /\ q[i] = pos[i]
      BY <1>c
    <2>2. CASE j = n + 1
      BY <1>1, <1>2, <1>3, <2>1, <2>2
    <2>3. CASE j \in 1..n
      BY <1>2, <2>1, <2>3 DEF Places
    <2> QED
      BY <1>c, <2>2, <2>3
  <1>7. ASSUME NEW k \in 1..Len(mailbox'), mailbox'[k] \in Dumps
        PROVE  \E i \in 1..(n + 1) : q[i] = k
    <2>1. CASE k = L + 1
      BY <1>2, <2>1
    <2>2. CASE k # L + 1
      <3>1. k \in 1..L /\ mailbox[k] \in Dumps
        BY <1>1, <1>7, <2>2, <1>a
      <3>2. PICK i \in 1..n : pos[i] = k
        BY <3>1, <1>a DEF Places
      <3>3. i \in 1..(n + 1) /\ q[i] = k
        BY <1>2, <3>2
      <3> QED
        BY <3>3
    <2> QED
      BY <2>1, <2>2
  <1>8. Places(n + 1, q)'
    BY <1>5, <1>6, <1>7 DEF Places
  <1> QED
    BY <1>1, <1>2, <1>3, <1>4, <1>8

\* When an offer leaves the mailbox every dump moves up.
LEMMA PlacesTakeOffer ==
  ASSUME Types, NEW n \in Nat, NEW pos \in [1..n -> Nat], Places(n, pos),
         mailbox # <<>>, mailbox' = Tail(mailbox), Head(mailbox) \notin Dumps
  PROVE  \E q \in [1..n -> Nat] :
           Places(n, q)' /\ \A i \in 1..n : mailbox'[q[i]] = mailbox[pos[i]]
  <1>a. PICK q : q = [i \in 1..n |-> pos[i] - 1]
    OBVIOUS
  <1>1. /\ Len(mailbox') = Len(mailbox) - 1 /\ Len(mailbox) \in Nat \ {0}
        /\ mailbox[1] = Head(mailbox)
        /\ \A k \in 1..(Len(mailbox) - 1) : mailbox'[k] = mailbox[k + 1]
    BY DEF Types
  <1>2. \A i \in 1..n : pos[i] \in 2..Len(mailbox) /\ q[i] = pos[i] - 1 /\ q[i] + 1 = pos[i]
    BY <1>1, <1>a DEF Places
  <1>3. \A i \in 1..n : q[i] \in 1..Len(mailbox') /\ mailbox'[q[i]] = mailbox[pos[i]]
    BY <1>1, <1>2
  <1>4. q \in [1..n -> Nat]
    BY <1>2, <1>a
  <1>5. \A i, j \in 1..n : i < j => q[i] < q[j]
    BY <1>2 DEF Places
  <1>6. ASSUME NEW k \in 1..Len(mailbox'), mailbox'[k] \in Dumps
        PROVE  \E i \in 1..n : q[i] = k
    <2>1. k + 1 \in 1..Len(mailbox) /\ mailbox[k + 1] \in Dumps
      BY <1>1, <1>6
    <2>2. PICK i \in 1..n : pos[i] = k + 1
      BY <2>1 DEF Places
    <2> QED
      BY <1>2, <2>2
  <1>7. Places(n, q)'
    BY <1>2, <1>3, <1>5, <1>6 DEF Places
  <1> QED
    BY <1>3, <1>4, <1>7

\* A dump that leaves the mailbox was the first of them.
LEMMA PlacesTakeDump ==
  ASSUME Types, NEW n \in Nat, NEW pos \in [1..n -> Nat], Places(n, pos),
         mailbox # <<>>, mailbox' = Tail(mailbox), Head(mailbox) \in Dumps
  PROVE  /\ n - 1 \in Nat /\ pos[1] = 1 /\ mailbox[1] = Head(mailbox)
         /\ \E q \in [1..(n - 1) -> Nat] :
              /\ Places(n - 1, q)'
              /\ \A i \in 1..(n - 1) : mailbox'[q[i]] = mailbox[pos[i + 1]]
  <1>a. PICK q : q = [i \in 1..(n - 1) |-> pos[i + 1] - 1]
    OBVIOUS
  <1>1. /\ Len(mailbox') = Len(mailbox) - 1 /\ Len(mailbox) \in Nat \ {0}
        /\ mailbox[1] = Head(mailbox)
        /\ \A k \in 1..(Len(mailbox) - 1) : mailbox'[k] = mailbox[k + 1]
    BY DEF Types
  <1>2. PICK f \in 1..n : pos[f] = 1
    BY <1>1 DEF Places
  <1>3. f = 1
    <2>1. 1 \in 1..n /\ pos[1] \in 1..Len(mailbox)
      BY <1>2 DEF Places
    <2>2. 1 < f => pos[1] < pos[f]
      BY <2>1 DEF Places
    <2> QED
      BY <1>2, <2>1, <2>2
  <1>4. n - 1 \in Nat /\ \A i \in 1..(n - 1) : i + 1 \in 1..n
    BY <1>2
  <1>5. \A i \in 1..(n - 1) : /\ pos[i + 1] \in 2..Len(mailbox) /\ q[i] = pos[i + 1] - 1
                              /\ q[i] + 1 = pos[i + 1]
    <2> SUFFICES ASSUME NEW i \in 1..(n - 1)
                 PROVE  /\ pos[i + 1] \in 2..Len(mailbox) /\ q[i] = pos[i + 1] - 1
                        /\ q[i] + 1 = pos[i + 1]
      OBVIOUS
    <2>1. i + 1 \in 1..n /\ 1 \in 1..n /\ 1 < i + 1
      BY <1>4
    <2>2. pos[1] < pos[i + 1] /\ pos[i + 1] \in 1..Len(mailbox)
      BY <2>1 DEF Places
    <2> QED
      BY <1>2, <1>3, <1>a, <2>2
  <1>6. \A i \in 1..(n - 1) : q[i] \in 1..Len(mailbox') /\ mailbox'[q[i]] = mailbox[pos[i + 1]]
    BY <1>1, <1>5
  <1>7. q \in [1..(n - 1) -> Nat]
    BY <1>5, <1>a
  <1>8. \A i, j \in 1..(n - 1) : i < j => q[i] < q[j]
    <2> SUFFICES ASSUME NEW i \in 1..(n - 1), NEW j \in 1..(n - 1), i < j PROVE q[i] < q[j]
      OBVIOUS
    <2>1. pos[i + 1] < pos[j + 1]
      BY <1>4 DEF Places
    <2> QED
      BY <1>5, <2>1
  <1>9. ASSUME NEW k \in 1..Len(mailbox'), mailbox'[k] \in Dumps
        PROVE  \E i \in 1..(n - 1) : q[i] = k
    <2>1. k + 1 \in 1..Len(mailbox) /\ mailbox[k + 1] \in Dumps
      BY <1>1, <1>9
    <2>2. PICK i \in 1..n : pos[i] = k + 1
      BY <2>1 DEF Places
    <2>3. i # 1
      BY <1>2, <1>3, <2>2, <1>1
    <2>4. i - 1 \in 1..(n - 1) /\ (i - 1) + 1 = i
      BY <2>3
    <2>5. q[i - 1] = pos[i] - 1
      BY <1>5, <2>4
    <2>6. q[i - 1] = k
      BY <1>1, <2>2, <2>5
    <2> QED
      BY <2>4, <2>6
  <1>10. \A i \in 1..(n - 1) : mailbox'[q[i]] \in Dumps
    BY <1>4, <1>6 DEF Places
  <1>11. Places(n - 1, q)'
    BY <1>6, <1>8, <1>9, <1>10 DEF Places
  <1> QED
    BY <1>1, <1>2, <1>3, <1>4, <1>6, <1>7, <1>11

\* The application offers a reference.
LEMMA OfferKeepsFlags ==
  ASSUME ReportInv, FlagInv, NEW r \in Refs, Offer(r)
  PROVE  FlagInv'
  <1>1. /\ posted' = posted \cup {r} /\ mailbox' = Append(mailbox, r)
        /\ UNCHANGED <<flags, click, wish, mode>>
    BY DEF Offer, Post, flagVars
  <1>2. r \notin Dumps
    BY CallsAssumption
  <1>3. ClickTypes'
    BY <1>1 DEF FlagInv, ClickTypes
  <1>4. ASSUME OnlyClicks' PROVE Matched' /\ ServedAsWished'
    <2>1. OnlyClicks
      BY <1>1, <1>4 DEF OnlyClicks
    <2>m. PICK n \in Nat : \E pos \in [1..n -> Nat] : Places(n, pos) /\ Flags(n, pos)
      BY <2>1 DEF FlagInv, Matched
    <2>2. PICK pos \in [1..n -> Nat] : Places(n, pos) /\ Flags(n, pos)
      BY <2>m
    <2>3. Places(n, pos)' /\ \A i \in 1..n : mailbox'[pos[i]] = mailbox[pos[i]]
      BY <1>1, <2>2, PlacesOffer DEF ReportInv
    <2>4. Flags(n, pos)'
      BY <1>1, <2>2, <2>3 DEF Flags
    <2> QED
      BY <1>1, <2>1, <2>3, <2>4 DEF FlagInv, Matched, ServedAsWished
  <1> QED
    BY <1>3, <1>4 DEF FlagInv

\* A click queues its flag.
LEMMA ClickKeepsFlags ==
  ASSUME ReportInv, FlagInv, NEW d \in Dumps, NEW s \in BOOLEAN, Click(d, s)
  PROVE  FlagInv'
  <1>1. /\ click = None /\ d \notin posted /\ flags' = Append(flags, s)
        /\ click' = d /\ wish' = [wish EXCEPT ![d] = s]
        /\ UNCHANGED <<posted, mailbox, mode>>
    BY DEF Click, kernelVars
  <1>2. flags' \in Seq(BOOLEAN)
    BY <1>1 DEF FlagInv, ClickTypes
  <1>3. ClickTypes'
    BY <1>1, <1>2, NoneAssumption DEF FlagInv, ClickTypes
  <1>4. \A e \in posted : e # d
    BY <1>1
  <1>5. ASSUME OnlyClicks' PROVE Matched' /\ ServedAsWished'
    <2>1. OnlyClicks
      BY <1>1, <1>5 DEF OnlyClicks, FlagInv, ClickTypes
    <2>m. PICK n \in Nat : \E pos \in [1..n -> Nat] : Places(n, pos) /\ Flags(n, pos)
      BY <2>1 DEF FlagInv, Matched
    <2>2. PICK pos \in [1..n -> Nat] : Places(n, pos) /\ Flags(n, pos)
      BY <2>m
    <2>3. Places(n, pos)'
      BY <1>1, <2>2 DEF Places
    <2>4. /\ flags \in Seq(BOOLEAN) /\ Len(flags) = n
          /\ \A i \in 1..n : flags[i] = wish[mailbox[pos[i]]]
      BY <1>1, <2>2 DEF Flags, FlagInv, ClickTypes
    <2>5. /\ Len(flags') = n + 1 /\ flags'[n + 1] = s
          /\ \A i \in 1..n : flags'[i] = flags[i]
      BY <1>1, <2>4
    <2>6. \A i \in 1..n : mailbox[pos[i]] \in posted \cap Dumps
      BY <2>2 DEF Places, ReportInv, Queued
    <2>7. \A i \in 1..n : wish'[mailbox[pos[i]]] = wish[mailbox[pos[i]]]
      BY <1>1, <1>4, <2>6 DEF FlagInv, ClickTypes
    <2>8. wish'[d] = s /\ click' # None
      BY <1>1, NoneAssumption DEF FlagInv, ClickTypes
    <2>9. Flags(n, pos)'
      BY <1>1, <2>4, <2>5, <2>7, <2>8 DEF Flags
    <2>10. ServedAsWished'
      BY <1>1, <2>1 DEF FlagInv, ClickTypes, ServedAsWished
    <2> QED
      BY <2>3, <2>9, <2>10 DEF Matched
  <1> QED
    BY <1>3, <1>5 DEF FlagInv

\* The dump of the click takes the last place, as its flag did.
LEMMA ClickDumpKeepsFlags ==
  ASSUME ReportInv, FlagInv, ClickDump
  PROVE  FlagInv'
  <1>1. /\ click # None /\ posted' = posted \cup {click} /\ mailbox' = Append(mailbox, click)
        /\ click' = None /\ UNCHANGED <<flags, wish, mode>>
    BY DEF ClickDump, Post
  <1>2. click \in Dumps
    BY <1>1 DEF ReportInv, Clicked
  <1>3. ClickTypes'
    BY <1>1 DEF FlagInv, ClickTypes
  <1>4. ASSUME OnlyClicks' PROVE Matched' /\ ServedAsWished'
    <2>1. OnlyClicks
      BY <1>1, <1>4 DEF OnlyClicks
    <2>m. PICK n \in Nat : \E pos \in [1..n -> Nat] : Places(n, pos) /\ Flags(n, pos)
      BY <2>1 DEF FlagInv, Matched
    <2>2. PICK pos \in [1..n -> Nat] : Places(n, pos) /\ Flags(n, pos)
      BY <2>m
    <2>3. Types
      BY DEF ReportInv
    <2>5. PICK q \in [1..(n + 1) -> Nat] :
            /\ Places(n + 1, q)' /\ mailbox'[q[n + 1]] = click
            /\ \A i \in 1..n : mailbox'[q[i]] = mailbox[pos[i]]
      BY <1>1, <1>2, <2>2, <2>3, PlacesDump
    <2>6. ASSUME NEW i \in 1..(n + 1) PROVE flags[i] = wish[mailbox'[q[i]]]
      <3>1. CASE i = n + 1
        BY <1>1, <2>2, <2>5, <3>1 DEF Flags
      <3>2. CASE i # n + 1
        <4>1. i \in 1..n
          BY <3>2
        <4> QED
          BY <2>2, <2>5, <4>1 DEF Flags
      <3> QED
        BY <3>1, <3>2
    <2>7. Flags(n + 1, q)'
      BY <1>1, <2>2, <2>6 DEF Flags
    <2>8. ServedAsWished'
      BY <1>1, <2>1 DEF FlagInv, ServedAsWished
    <2> QED
      BY <2>5, <2>7, <2>8 DEF Matched
  <1> QED
    BY <1>3, <1>4 DEF FlagInv

\* A dump from elsewhere ends what the property assumes.
LEMMA DirectKeepsFlags ==
  ASSUME ReportInv, FlagInv, NEW d \in Dumps, DirectDump(d)
  PROVE  FlagInv'
  <1>1. /\ d # click /\ d \notin posted /\ posted' = posted \cup {d}
        /\ UNCHANGED <<flags, click, wish, mode>>
    BY DEF DirectDump, Post, flagVars
  <1>2. wish[d] = None
    BY <1>1 DEF FlagInv, ClickTypes
  <1>3. ~OnlyClicks'
    BY <1>1, <1>2 DEF OnlyClicks
  <1> QED
    BY <1>1, <1>3 DEF FlagInv, ClickTypes

\* The handler takes an offer.
LEMMA RunOfferKeepsFlags ==
  ASSUME ReportInv, FlagInv, NEW r \in Refs, RunOffer(r)
  PROVE  FlagInv'
  <1>1. /\ mailbox # <<>> /\ r = Head(mailbox) /\ mailbox' = Tail(mailbox)
        /\ UNCHANGED <<posted, flags, click, wish, mode>>
    BY DEF RunOffer, Take, flagVars
  <1>2. Head(mailbox) \notin Dumps
    BY <1>1, CallsAssumption
  <1>3. ClickTypes'
    BY <1>1 DEF FlagInv, ClickTypes
  <1>4. ASSUME OnlyClicks' PROVE Matched' /\ ServedAsWished'
    <2>1. OnlyClicks
      BY <1>1, <1>4 DEF OnlyClicks
    <2>m. PICK n \in Nat : \E pos \in [1..n -> Nat] : Places(n, pos) /\ Flags(n, pos)
      BY <2>1 DEF FlagInv, Matched
    <2>2. PICK pos \in [1..n -> Nat] : Places(n, pos) /\ Flags(n, pos)
      BY <2>m
    <2>3. Types
      BY DEF ReportInv
    <2>4. PICK q \in [1..n -> Nat] :
            Places(n, q)' /\ \A i \in 1..n : mailbox'[q[i]] = mailbox[pos[i]]
      BY <1>1, <1>2, <2>2, <2>3, PlacesTakeOffer
    <2>5. Flags(n, q)'
      BY <1>1, <2>2, <2>4 DEF Flags
    <2>6. ServedAsWished'
      BY <1>1, <2>1 DEF FlagInv, ServedAsWished
    <2> QED
      BY <2>4, <2>5, <2>6 DEF Matched
  <1> QED
    BY <1>3, <1>4 DEF FlagInv

\* The handler takes a dump, and the first flag is that of its click.
LEMMA RunDumpKeepsFlags ==
  ASSUME ReportInv, FlagInv, NEW d \in Dumps, RunPlain(d) \/ RunSized(d)
  PROVE  FlagInv'
  <1>1. /\ mailbox # <<>> /\ d = Head(mailbox) /\ mailbox' = Tail(mailbox)
        /\ Poll /\ UNCHANGED <<posted, click, wish>>
        /\ mode' = [mode EXCEPT ![d] = IF WithSize /\ AtLeastP THEN "sized" ELSE "plain"]
    <2>1. CASE RunPlain(d)
      BY <2>1 DEF RunPlain, Take
    <2>2. CASE RunSized(d)
      BY <2>2 DEF RunSized, Take
    <2> QED
      BY <2>1, <2>2
  <1>2. Head(mailbox) = mailbox[1] /\ d \in posted
    BY <1>1 DEF ReportInv, Types, Queued
  <1>3. flags \in Seq(BOOLEAN)
    BY DEF FlagInv, ClickTypes
  <1>4. flags' \in Seq(BOOLEAN)
    <2>1. flags = <<>> \/ Tail(flags) \in Seq(BOOLEAN)
      BY <1>3
    <2> QED
      BY <1>1, <1>3, <2>1 DEF Poll
  <1>5. /\ mode' \in [Dumps -> {"no", "plain", "sized"}]
        /\ \A e \in Dumps : e # d => mode'[e] = mode[e]
        /\ mode'[d] = IF WithSize /\ AtLeastP THEN "sized" ELSE "plain"
    BY <1>1 DEF FlagInv, ClickTypes
  <1>6. ClickTypes'
    BY <1>1, <1>2, <1>4, <1>5 DEF FlagInv, ClickTypes
  <1>7. ASSUME OnlyClicks' PROVE Matched' /\ ServedAsWished'
    <2>1. OnlyClicks
      BY <1>1, <1>7 DEF OnlyClicks
    <2>m. PICK n \in Nat : \E pos \in [1..n -> Nat] : Places(n, pos) /\ Flags(n, pos)
      BY <2>1 DEF FlagInv, Matched
    <2>2. PICK pos \in [1..n -> Nat] : Places(n, pos) /\ Flags(n, pos)
      BY <2>m
    <2>3. /\ n - 1 \in Nat /\ pos[1] = 1
          /\ \E q \in [1..(n - 1) -> Nat] :
               /\ Places(n - 1, q)'
               /\ \A i \in 1..(n - 1) : mailbox'[q[i]] = mailbox[pos[i + 1]]
      BY <1>1, <2>2, PlacesTakeDump DEF ReportInv
    <2>4. PICK q \in [1..(n - 1) -> Nat] :
            /\ Places(n - 1, q)'
            /\ \A i \in 1..(n - 1) : mailbox'[q[i]] = mailbox[pos[i + 1]]
      BY <2>3
    <2>5. Len(flags) >= n /\ flags # <<>> /\ flags[1] = wish[d] /\ Head(flags) = flags[1]
      BY <1>1, <1>2, <1>3, <2>2, <2>3 DEF Flags
    <2>6. /\ flags' = Tail(flags) /\ Len(flags') = Len(flags) - 1
          /\ \A i \in 1..(Len(flags) - 1) : flags'[i] = flags[i + 1]
      BY <1>1, <1>3, <2>5 DEF Poll
    <2>7. Flags(n - 1, q)'
      <3>1. Len(flags') = IF click' = None THEN n - 1 ELSE (n - 1) + 1
        BY <1>1, <2>2, <2>3, <2>6 DEF Flags
      <3>2. ASSUME NEW i \in 1..(n - 1) PROVE flags'[i] = wish'[mailbox'[q[i]]]
        <4>1. i + 1 \in 1..n /\ i \in 1..(Len(flags) - 1)
          BY <1>3, <2>3, <2>5, <2>2 DEF Flags
        <4> QED
          BY <1>1, <2>2, <2>4, <2>6, <4>1 DEF Flags
      <3>3. ASSUME click' # None PROVE flags'[(n - 1) + 1] = wish'[click']
        <4>1. Len(flags) = n + 1 /\ flags[n + 1] = wish[click]
          BY <1>1, <2>2, <3>3 DEF Flags
        <4>2. (n - 1) + 1 = n /\ n \in 1..(Len(flags) - 1)
          BY <2>3, <4>1
        <4> QED
          BY <1>1, <2>6, <4>1, <4>2
      <3> QED
        BY <3>1, <3>2, <3>3 DEF Flags
    <2>8. mode'[d] = IF wish[d] /\ AtLeastP THEN "sized" ELSE "plain"
      BY <1>5, <2>5 DEF WithSize
    <2>9. ServedAsWished'
      BY <1>1, <1>5, <2>1, <2>8 DEF FlagInv, ServedAsWished
    <2> QED
      BY <2>3, <2>4, <2>7, <2>9 DEF Matched
  <1> QED
    BY <1>6, <1>7 DEF FlagInv

\* Every other step leaves both queues alone.
LEMMA FlagStep == ASSUME ReportInv, FlagInv, [Next]_vars PROVE FlagInv'
  <1>1. ASSUME UNCHANGED <<posted, mailbox, flagVars>> PROVE FlagInv'
    <2>1. ClickTypes' <=> ClickTypes
      BY <1>1 DEF flagVars, ClickTypes
    <2>2. OnlyClicks' <=> OnlyClicks
      BY <1>1 DEF flagVars, OnlyClicks
    <2>3. ServedAsWished' <=> ServedAsWished
      BY <1>1 DEF flagVars, ServedAsWished
    <2>4. \A n, pos : Places(n, pos)' <=> Places(n, pos)
      BY <1>1 DEF Places
    <2>5. \A n, pos : Flags(n, pos)' <=> Flags(n, pos)
      BY <1>1 DEF flagVars, Flags
    <2> QED
      BY <2>1, <2>2, <2>3, <2>4, <2>5 DEF FlagInv, Matched
  <1>2. ASSUME NEW r \in Refs, Collect(r) PROVE FlagInv'
    BY <1>1, <1>2 DEF Collect
  <1>3. CASE Execute
    BY <1>1, <1>3 DEF Execute, kernelVars
  <1>4. ASSUME NEW p \in Workers, WorkerStep(p) PROVE FlagInv'
    BY <1>1, <1>4 DEF WorkerStep, Start, Size, Count, BeginGroup, ReadRef, EndGroup, FailFast,
       EndReport, Check, Put, kernelVars
  <1>5. CASE UNCHANGED vars
    BY <1>1, <1>5 DEF vars, kernelVars
  <1> QED
    BY <1>2, <1>3, <1>4, <1>5, OfferKeepsFlags, ClickKeepsFlags, ClickDumpKeepsFlags,
       DirectKeepsFlags, RunOfferKeepsFlags, RunDumpKeepsFlags DEF Next, HandlerStep, Stopped

\* As long as only clicks ask for dumps, each is served as its own button says,
\* for any number of clicks, offers and threads: the two queues stay in step.
THEOREM OwnFlags == Spec => []OwnFlag
  <1>1. Init => FlagInv
    <2> SUFFICES ASSUME Init PROVE FlagInv
      OBVIOUS
    <2>1. ClickTypes /\ ServedAsWished
      BY DEF Init, ClickTypes, ServedAsWished
    <2>2. PICK pos : pos = [i \in 1..0 |-> 0]
      OBVIOUS
    <2>3. pos \in [1..0 -> Nat] /\ Places(0, pos) /\ Flags(0, pos)
      BY <2>2 DEF Init, Places, Flags
    <2> QED
      BY <2>1, <2>3 DEF FlagInv, Matched
  <1>2. ReportInv /\ FlagInv /\ [Next]_vars => FlagInv'
    BY FlagStep
  <1>3. FlagInv => OwnFlag
    BY DEF FlagInv, OwnFlag, OnlyClicks, ServedAsWished
  <1> QED
    BY ReportInvariance, <1>1, <1>2, <1>3, PTL DEF Spec
=============================================================================
