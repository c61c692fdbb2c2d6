----------------------- MODULE HunterTransformProofs -----------------------
(* What HunterTransform's run shows for a jar and a file holds for any     *)
(* inputs, variants, settings and number of builds: an empty run copies    *)
(* all there is, and incremental builds end where a full one would.        *)
EXTENDS HunterTransform, TLAPS

Mode(e, k) == [empty |-> e, known |-> k]

\* What weaving source k of input i leaves, and what copying it leaves.
WovenFrom(i, k, c) == IF k = 0 THEN Absent ELSE [form |-> WovenForm(i, c), of |-> k]
Copied(k) == [form |-> "raw", of |-> k]

Outputs == [form : {"absent"} \cup Forms, of : Versions]

Types ==
  /\ src \in [Inputs -> Versions] /\ known \in BOOLEAN /\ emptyRun \in BOOLEAN
  /\ out \in [Variants -> [Inputs -> Outputs]]
  /\ seen \in [Variants -> {None} \cup [Inputs -> Versions]]
  /\ building \in Variants \cup {None} /\ incremental \in BOOLEAN
  /\ todo \subseteq Inputs /\ tasks \subseteq Inputs /\ failed \in BOOLEAN
  /\ modes \in [Variants -> [all : SUBSET Modes, last : Modes]]

Idle == building = None => todo = {} /\ tasks = {} /\ ~failed

\* A build knows how it builds; what it weaves exists.
Running ==
  building # None =>
    /\ incremental = (seen[building] # None)
    /\ modes[building].last = Mode(emptyRun, known)
    /\ modes[building].last \in modes[building].all
    /\ todo \cap tasks = {}
    /\ ~incremental => \A i \in todo : src[i] # 0
    /\ ~emptyRun => \A i \in tasks : src[i] # 0

\* What was built was built somehow.
SomeMode == \A v \in Variants : seen[v] # None => modes[v].all # {}

\* As long as nothing failed, an input that is done has what the whole build
\* owes it, and one not yet looked at has what the last build left.
Done == Inputs \ (todo \cup tasks)
CopiedSoFar ==
  building # None /\ ~failed /\ emptyRun =>
    \A i \in Done : src[i] # 0 => out[building][i] = Copied(src[i])
WovenSoFar ==
  building # None /\ ~failed =>
    \A c \in BOOLEAN : modes[building].all = {Mode(FALSE, c)} =>
      /\ \A i \in Done : out[building][i] = WovenFrom(i, src[i], c)
      /\ incremental => \A i \in todo : out[building][i] = WovenFrom(i, seen[building][i], c)

BuildInv ==
  /\ Types /\ Idle /\ Running /\ SomeMode /\ CopiedSoFar /\ WovenSoFar
  /\ EmptyCopies /\ WovenIsFull
-----------------------------------------------------------------------------
\* At first nothing is built.
LEMMA InitBuild == Init => BuildInv
  <1> SUFFICES ASSUME Init PROVE BuildInv
    OBVIOUS
  <1>1. Types
    <2>1. src \in [Inputs -> Versions]
      BY BoundAssumption DEF Init, Versions
    <2>2. Absent \in Outputs
      BY BoundAssumption DEF Absent, Outputs, Versions
    <2>3. modes \in [Variants -> [all : SUBSET Modes, last : Modes]]
      BY DEF Init, Modes
    <2> QED
      BY <2>1, <2>2, <2>3 DEF Init, Types
  <1>2. Idle /\ Running /\ CopiedSoFar /\ WovenSoFar
    BY DEF Init, Idle, Running, CopiedSoFar, WovenSoFar
  <1>3. SomeMode /\ EmptyCopies /\ WovenIsFull
    BY DEF Init, SomeMode, EmptyCopies, WovenIsFull, Built
  <1> QED
    BY <1>1, <1>2, <1>3 DEF BuildInv

\* The last builds of the variants stand as long as only another one's output
\* changes.
LEMMA OthersStand ==
  ASSUME BuildInv, UNCHANGED <<seen, building, modes>>,
         \A v \in Variants \ {building} : out'[v] = out[v]
  PROVE  SomeMode' /\ EmptyCopies' /\ WovenIsFull'
  <1>1. SomeMode'
    BY DEF BuildInv, SomeMode
  <1>2. EmptyCopies'
    BY DEF BuildInv, EmptyCopies, Built
  <1>3. WovenIsFull'
    BY DEF BuildInv, WovenIsFull, Built, WovenForm
  <1> QED
    BY <1>1, <1>2, <1>3

\* Between two builds the outputs stand.
LEMMA Between ==
  ASSUME BuildInv, building = None, UNCHANGED <<out, seen, buildVars, todo, tasks, failed>>,
         src' \in [Inputs -> Versions], known' \in BOOLEAN, emptyRun' \in BOOLEAN
  PROVE  BuildInv'
  <1>1. Types'
    BY DEF BuildInv, Types, buildVars
  <1>2. Idle' /\ Running' /\ CopiedSoFar' /\ WovenSoFar'
    BY DEF BuildInv, Idle, Running, CopiedSoFar, WovenSoFar, buildVars
  <1>3. SomeMode' /\ EmptyCopies' /\ WovenIsFull'
    BY OthersStand DEF buildVars
  <1> QED
    BY <1>1, <1>2, <1>3 DEF BuildInv

\* A build begins: what it will not look at is gone, and has no output.
LEMMA Begins == ASSUME BuildInv, NEW v \in Variants, Begin(v) PROVE BuildInv'
  <1>1. /\ building = None /\ building' = v /\ UNCHANGED <<src, seen, tasks, failed>>
        /\ incremental' = (seen[v] # None)
        /\ known' = (known \/ v \notin manifests) /\ emptyRun' = EmptyRun(v)
        /\ out' = IF incremental' THEN out ELSE [out EXCEPT ![v] = DeleteAll(v)]
        /\ todo' = {i \in Inputs : src[i] # 0 \/ (incremental' /\ seen[v][i] # 0)}
    BY DEF Begin, ParseManifest
  <1>2. v # None /\ tasks = {} /\ ~failed
    BY <1>1, NoneAssumption DEF BuildInv, Idle
  <1>3. emptyRun' \in BOOLEAN /\ known' \in BOOLEAN /\ incremental' \in BOOLEAN
    <2>1. EmptyRun(v) \in BOOLEAN
      <3>1. Name[v] \in {"debug", "release", "other"} /\ emptyRun \in BOOLEAN
        BY NameAssumption DEF BuildInv, Types
      <3>2. CASE Name[v] = "debug"
        BY <3>2 DEF EmptyRun
      <3>3. CASE Name[v] = "release"
        BY <3>3 DEF EmptyRun
      <3>4. CASE Name[v] = "other"
        BY <3>1, <3>4 DEF EmptyRun
      <3> QED
        BY <3>1, <3>2, <3>3, <3>4
    <2>2. known \in BOOLEAN
      BY DEF BuildInv, Types
    <2> QED
      BY <1>1, <2>1, <2>2
  <1> DEFINE m == Mode(emptyRun', known')
  <1>4. /\ modes' \in [Variants -> [all : SUBSET Modes, last : Modes]]
        /\ modes'[v].last = m
        /\ modes'[v].all = {m} \cup IF incremental' THEN modes[v].all ELSE {}
        /\ \A u \in Variants \ {v} : modes'[u] = modes[u]
    <2>1. m \in Modes
      BY <1>3 DEF Modes, Mode
    <2>2. modes' = [modes EXCEPT ![v].last = m,
                                 ![v].all = {m} \cup IF incremental' THEN @ ELSE {}]
      BY DEF Begin, Mode
    <2> HIDE DEF m
    <2> QED
      BY <2>1, <2>2 DEF BuildInv, Types
  <1> HIDE DEF m
  <1>5. out' \in [Variants -> [Inputs -> Outputs]] /\ \A u \in Variants \ {v} : out'[u] = out[u]
    <2>1. DeleteAll(v) \in [Inputs -> Outputs]
      BY BoundAssumption DEF DeleteAll, Absent, Outputs, Versions
    <2> QED
      BY <1>1, <2>1 DEF BuildInv, Types
  <1>6. Types'
    BY <1>1, <1>3, <1>4, <1>5 DEF BuildInv, Types
  <1>7. Idle' /\ Running'
    BY <1>1, <1>2, <1>4 DEF Idle, Running, m
  <1>8. SomeMode'
    BY <1>1, <1>4 DEF BuildInv, SomeMode
  <1>9. EmptyCopies' /\ WovenIsFull'
    <2>1. \A u \in Variants : Built(u)' => u # v /\ Built(u)
      BY <1>1, NoneAssumption DEF Built
    <2>2. EmptyCopies'
      BY <1>1, <1>4, <1>5, <2>1 DEF BuildInv, EmptyCopies
    <2>3. WovenIsFull'
      BY <1>1, <1>4, <1>5, <2>1 DEF BuildInv, WovenIsFull, WovenForm
    <2> QED
      BY <2>2, <2>3
  <1>10. CopiedSoFar'
    BY <1>1 DEF CopiedSoFar, Done
  <1>11. WovenSoFar'
    <2>1. \A c \in BOOLEAN : Built(v) /\ modes[v].all = {Mode(FALSE, c)} =>
            \A i \in Inputs : out[v][i] = WovenFrom(i, seen[v][i], c)
      BY DEF BuildInv, WovenIsFull, WovenFrom, Mode
    <2>2. ASSUME NEW c \in BOOLEAN, modes'[v].all = {Mode(FALSE, c)}
          PROVE  /\ \A i \in Inputs \ todo' : out'[v][i] = WovenFrom(i, src[i], c)
                 /\ incremental' => \A i \in todo' : out'[v][i] = WovenFrom(i, seen[v][i], c)
      <3>1. CASE incremental'
        <4>1. modes[v].all # {}
          BY <1>1, <3>1 DEF BuildInv, SomeMode
        <4>2. modes[v].all \subseteq {Mode(FALSE, c)}
          BY <1>4, <2>2, <3>1
        <4>3. modes[v].all = {Mode(FALSE, c)}
          BY <4>1, <4>2
        <4>4. Built(v)
          BY <1>1, <1>2, <3>1 DEF Built
        <4>5. \A i \in Inputs : out[v][i] = WovenFrom(i, seen[v][i], c)
          BY <2>1, <4>3, <4>4
        <4> QED
          BY <1>1, <3>1, <4>5 DEF WovenFrom
      <3>2. CASE ~incremental'
        BY <1>1, <3>2 DEF BuildInv, Types, DeleteAll, WovenFrom
      <3> QED
        BY <3>1, <3>2
    <2>3. Done' = Inputs \ todo'
      BY <1>1, <1>2 DEF Done
    <2>4. \A c \in BOOLEAN : modes'[v].all = {Mode(FALSE, c)} =>
            /\ \A i \in Done' : out'[v][i] = WovenFrom(i, src'[i], c)
            /\ incremental' => \A i \in todo' : out'[v][i] = WovenFrom(i, seen'[v][i], c)
      BY <1>1, <2>2, <2>3
    <2> QED
      BY <1>1, <2>4 DEF WovenSoFar, WovenFrom, WovenForm, Mode
  <1> QED
    BY <1>6, <1>7, <1>8, <1>9, <1>10, <1>11 DEF BuildInv

-----------------------------------------------------------------------------
\* The steps of a build.

\* Such a step knows the variant, and leaves the other outputs, the sources and
\* how the build runs.
SameBuild == UNCHANGED <<src, known, emptyRun, seen, building, incremental, modes>>

\* Unchanged inputs keep their output: it is of the source there is.
LEMMA KeepsUnchanged == ASSUME BuildInv, NEW i \in Inputs, NotChanged(i) PROVE BuildInv'
  <1>1. /\ SameBuild /\ UNCHANGED <<failed, out, tasks>>
        /\ i \in todo /\ todo' = todo \ {i}
        /\ incremental /\ ~emptyRun /\ src[i] = seen[building][i]
    BY DEF NotChanged, Look, ByStatus, Changed, SameBuild, settingVars, buildVars
  <1>2. building # None /\ i \notin tasks
    BY <1>1 DEF BuildInv, Idle, Running
  <1>3. Types' /\ Idle' /\ Running' /\ CopiedSoFar'
    BY <1>1, <1>2 DEF BuildInv, Types, Idle, Running, CopiedSoFar, SameBuild
  <1>4. WovenSoFar'
    <2>1. Done' = Done \cup {i}
      BY <1>1, <1>2 DEF Done, BuildInv, Types
    <2> QED
      BY <1>1, <2>1 DEF BuildInv, WovenSoFar, SameBuild, WovenFrom, WovenForm, Mode
  <1>5. SomeMode' /\ EmptyCopies' /\ WovenIsFull'
    BY <1>1, OthersStand DEF SameBuild
  <1> QED
    BY <1>3, <1>4, <1>5 DEF BuildInv

\* The outputs of a variant change at one input.
LEMMA OneOutput ==
  ASSUME BuildInv, building # None, NEW i \in Inputs, NEW o \in Outputs, SameBuild,
         out' = [out EXCEPT ![building][i] = o]
  PROVE  /\ out' \in [Variants -> [Inputs -> Outputs]]
         /\ out'[building][i] = o
         /\ \A j \in Inputs \ {i} : out'[building][j] = out[building][j]
         /\ SomeMode' /\ EmptyCopies' /\ WovenIsFull'
  <1>1. PICK v \in Variants : v = building
    BY DEF BuildInv, Types
  <1>2. out \in [Variants -> [Inputs -> Outputs]]
    BY DEF BuildInv, Types
  <1>3. out' = [out EXCEPT ![v] = [out[v] EXCEPT ![i] = o]]
    BY <1>1, <1>2
  <1>4. \A u \in Variants \ {building} : out'[u] = out[u]
    BY <1>1, <1>2, <1>3
  <1>5. SomeMode' /\ EmptyCopies' /\ WovenIsFull'
    BY <1>4, OthersStand DEF SameBuild
  <1> QED
    BY <1>1, <1>2, <1>3, <1>5

\* A source that is gone takes its output with it.
LEMMA RemovesGone == ASSUME BuildInv, NEW i \in Inputs, Remove(i) PROVE BuildInv'
  <1>1. /\ SameBuild /\ UNCHANGED <<failed, tasks>>
        /\ i \in todo /\ todo' = todo \ {i}
        /\ incremental /\ ~emptyRun /\ src[i] = 0
        /\ out' = [out EXCEPT ![building][i] = Absent]
    BY DEF Remove, Look, ByStatus, SameBuild, settingVars, buildVars
  <1>2. building # None /\ i \notin tasks
    BY <1>1 DEF BuildInv, Idle, Running
  <1>3. Absent \in Outputs
    BY BoundAssumption DEF Absent, Outputs, Versions
  <1>4. /\ out' \in [Variants -> [Inputs -> Outputs]]
        /\ out'[building][i] = Absent
        /\ \A j \in Inputs \ {i} : out'[building][j] = out[building][j]
        /\ SomeMode' /\ EmptyCopies' /\ WovenIsFull'
    BY <1>1, <1>2, <1>3, OneOutput
  <1>5. Types' /\ Idle' /\ Running' /\ CopiedSoFar'
    BY <1>1, <1>2, <1>4 DEF BuildInv, Types, Idle, Running, CopiedSoFar, SameBuild
  <1>6. WovenSoFar'
    <2>1. Done' = Done \cup {i} /\ i \notin todo'
      BY <1>1, <1>2 DEF Done, BuildInv, Types
    <2>2. Done \subseteq Inputs /\ todo \subseteq Inputs
      BY DEF Done, BuildInv, Types
    <2>3. \A c : WovenFrom(i, src[i], c) = Absent
      BY <1>1 DEF WovenFrom
    <2> QED
      BY <1>1, <1>4, <2>1, <2>2, <2>3
         DEF BuildInv, WovenSoFar, SameBuild, WovenFrom, WovenForm, Mode
  <1> QED
    BY <1>4, <1>5, <1>6 DEF BuildInv

\* A submitted input is not done yet; one to be woven has a source.
LEMMA Submits == ASSUME BuildInv, NEW i \in Inputs, Submit(i) PROVE BuildInv'
  <1>1. /\ SameBuild /\ UNCHANGED <<failed, out>>
        /\ i \in todo /\ todo' = todo \ {i} /\ tasks' = tasks \cup {i}
        /\ incremental /\ ~emptyRun => src[i] # 0
    BY DEF Submit, Look, ByStatus, SameBuild, settingVars, buildVars
  <1>2. building # None /\ (~emptyRun => src[i] # 0)
    BY <1>1 DEF BuildInv, Idle, Running
  <1>3. Types' /\ Idle' /\ Running'
    BY <1>1, <1>2 DEF BuildInv, Types, Idle, Running, SameBuild
  <1>4. CopiedSoFar' /\ WovenSoFar'
    <2>1. Done' = Done /\ todo' \subseteq todo
      BY <1>1 DEF Done
    <2>2. CopiedSoFar'
      BY <1>1, <2>1 DEF BuildInv, CopiedSoFar, SameBuild, Copied
    <2>3. WovenSoFar'
      BY <1>1, <2>1 DEF BuildInv, WovenSoFar, SameBuild, WovenFrom, WovenForm, Mode
    <2> QED
      BY <2>2, <2>3
  <1>5. SomeMode' /\ EmptyCopies' /\ WovenIsFull'
    BY <1>1, OthersStand DEF SameBuild
  <1> QED
    BY <1>3, <1>4, <1>5 DEF BuildInv

\* The directory of an empty run is copied at once.
LEMMA CopiesDirectory == ASSUME BuildInv, CopyDirectory PROVE BuildInv'
  <1>1. /\ SameBuild /\ UNCHANGED <<failed, tasks>>
        /\ todo \cap Files # {} /\ todo' = todo \ (todo \cap Files) /\ emptyRun
    BY DEF CopyDirectory, Look, SameBuild, settingVars, buildVars
  <1>2. PICK v \in Variants : v = building
    BY <1>1 DEF BuildInv, Types, Idle
  <1> DEFINE copied == [i \in Inputs |-> IF i \in Files /\ src[i] # 0
                                         THEN Copied(src[i]) ELSE out[v][i]]
  <1>3. out' = [out EXCEPT ![v] = copied]
    BY <1>2 DEF CopyDirectory, Copied
  <1>4. copied \in [Inputs -> Outputs]
    BY DEF BuildInv, Types, Outputs, Copied, Forms
  <1> HIDE DEF copied
  <1>5. /\ out' \in [Variants -> [Inputs -> Outputs]] /\ out'[v] = copied
        /\ \A u \in Variants \ {v} : out'[u] = out[u]
    BY <1>3, <1>4 DEF BuildInv, Types
  <1>6. Types' /\ Idle' /\ Running'
    BY <1>1, <1>5 DEF BuildInv, Types, Idle, Running, SameBuild
  <1>7. CopiedSoFar'
    <2>1. \A i \in Done' : i \in Done \/ i \in Files
      BY <1>1 DEF Done
    <2>2. \A i \in Inputs : src[i] # 0 /\ i \in Files => copied[i] = Copied(src[i])
      BY DEF copied
    <2>3. \A i \in Inputs : i \notin Files => copied[i] = out[v][i]
      BY DEF copied
    <2>4. Done' \subseteq Inputs
      BY DEF Done
    <2> QED
      BY <1>1, <1>2, <1>5, <2>1, <2>2, <2>3, <2>4 DEF BuildInv, CopiedSoFar, SameBuild, Copied
  <1>8. WovenSoFar'
    <2>1. modes[v].last \in modes[v].all /\ modes[v].last.empty
      BY <1>1, <1>2, NoneAssumption DEF BuildInv, Running, Mode
    <2>2. \A c \in BOOLEAN : modes[v].all # {Mode(FALSE, c)}
      BY <2>1 DEF Mode
    <2> QED
      BY <1>1, <1>2, <2>2 DEF WovenSoFar, SameBuild, Mode
  <1>9. SomeMode' /\ EmptyCopies' /\ WovenIsFull'
    BY <1>1, <1>2, <1>5, OthersStand DEF SameBuild
  <1> QED
    BY <1>6, <1>7, <1>8, <1>9 DEF BuildInv

\* A task that succeeds leaves what its build owes the input.
LEMMA RunsTask == ASSUME BuildInv, NEW i \in Inputs, RunTask(i) PROVE BuildInv'
  <1> DEFINE o == [form |-> IF emptyRun THEN "raw" ELSE WovenForm(i, known), of |-> src[i]]
  <1>1. /\ SameBuild /\ UNCHANGED <<failed, todo>>
        /\ i \in tasks /\ tasks' = tasks \ {i}
        /\ out' = [out EXCEPT ![building][i] = o]
    BY DEF RunTask, Finish, SameBuild, settingVars, buildVars
  <1>2. building # None /\ i \notin todo /\ (~emptyRun => src[i] # 0)
    BY <1>1 DEF BuildInv, Idle, Running
  <1>3. o \in Outputs
    BY DEF BuildInv, Types, Outputs, Forms, WovenForm
  <1>4. emptyRun => o = Copied(src[i])
    BY DEF Copied
  <1>5. ~emptyRun => o = WovenFrom(i, src[i], known)
    BY <1>2 DEF WovenFrom
  <1> HIDE DEF o
  <1>6. PICK p \in Outputs : p = o
    BY <1>3
  <1>7. /\ out' \in [Variants -> [Inputs -> Outputs]]
        /\ out'[building][i] = p
        /\ \A j \in Inputs \ {i} : out'[building][j] = out[building][j]
        /\ SomeMode' /\ EmptyCopies' /\ WovenIsFull'
    BY <1>1, <1>2, <1>6, OneOutput
  <1>8. Types' /\ Idle' /\ Running'
    BY <1>1, <1>7 DEF BuildInv, Types, Idle, Running, SameBuild
  <1>9. Done' = Done \cup {i} /\ Done \subseteq Inputs \ {i} /\ todo \subseteq Inputs \ {i}
    BY <1>1, <1>2 DEF Done, BuildInv, Types
  <1>10. CopiedSoFar'
    BY <1>1, <1>4, <1>6, <1>7, <1>9 DEF BuildInv, CopiedSoFar, SameBuild, Copied
  <1>11. WovenSoFar'
    <2>1. \A c \in BOOLEAN : modes[building].all = {Mode(FALSE, c)} => ~emptyRun /\ known = c
      <3>1. modes[building].last = Mode(emptyRun, known) /\ modes[building].last \in modes[building].all
        BY <1>2 DEF BuildInv, Running
      <3> QED
        BY <3>1 DEF Mode
    <2>2. \A c \in BOOLEAN : modes[building].all = {Mode(FALSE, c)} => p = WovenFrom(i, src[i], c)
      BY <1>5, <1>6, <2>1
    <2> QED
      BY <1>1, <1>7, <1>9, <2>2
         DEF BuildInv, WovenSoFar, SameBuild, WovenFrom, WovenForm, Mode
  <1> QED
    BY <1>7, <1>8, <1>10, <1>11 DEF BuildInv

\* A task that throws fails its build, which then owes nothing.
LEMMA ThrowsTask == ASSUME BuildInv, NEW i \in Inputs, ThrowTask(i) PROVE BuildInv'
  <1>1. /\ SameBuild /\ failed' = TRUE /\ UNCHANGED todo
        /\ i \in tasks /\ tasks' = tasks \ {i}
        /\ \/ out' = [out EXCEPT ![building][i] = out[building][i]]
           \/ out' = [out EXCEPT ![building][i] = [form |-> "partial", of |-> src[i]]]
    BY DEF ThrowTask, Finish, SameBuild, settingVars, buildVars
  <1>2. building # None
    BY <1>1 DEF BuildInv, Idle
  <1>3. /\ out[building][i] \in Outputs
        /\ [form |-> "partial", of |-> src[i]] \in Outputs
    BY <1>2 DEF BuildInv, Types, Outputs, Forms
  <1>4. PICK o \in Outputs : out' = [out EXCEPT ![building][i] = o]
    BY <1>1, <1>3
  <1>5. /\ out' \in [Variants -> [Inputs -> Outputs]]
        /\ SomeMode' /\ EmptyCopies' /\ WovenIsFull'
    BY <1>1, <1>2, <1>4, OneOutput
  <1>6. Types' /\ Idle' /\ Running'
    BY <1>1, <1>2, <1>5 DEF BuildInv, Types, Idle, Running, SameBuild
  <1>7. CopiedSoFar' /\ WovenSoFar'
    BY <1>1 DEF CopiedSoFar, WovenSoFar
  <1> QED
    BY <1>5, <1>6, <1>7 DEF BuildInv

\* A build that ends without failure has done every input.
LEMMA Ends == ASSUME BuildInv, End PROVE BuildInv'
  <1>1. /\ building # None /\ todo = {} /\ (tasks = {} \/ failed)
        /\ building' = None /\ tasks' = {} /\ failed' = FALSE /\ todo' = {}
        /\ seen' = [seen EXCEPT ![building] = IF failed THEN None ELSE src]
        /\ UNCHANGED <<src, known, emptyRun, out, incremental, modes>>
    BY DEF End, settingVars
  <1>2. PICK v \in Variants : v = building
    BY <1>1 DEF BuildInv, Types
  <1>3. /\ seen' \in [Variants -> {None} \cup [Inputs -> Versions]]
        /\ seen'[v] = IF failed THEN None ELSE src
        /\ \A u \in Variants \ {v} : seen'[u] = seen[u]
    BY <1>1, <1>2 DEF BuildInv, Types
  <1>4. Types'
    BY <1>1, <1>3 DEF BuildInv, Types
  <1>5. Idle' /\ Running' /\ CopiedSoFar' /\ WovenSoFar'
    BY <1>1 DEF Idle, Running, CopiedSoFar, WovenSoFar
  <1>6. modes[v].last = Mode(emptyRun, known) /\ modes[v].last \in modes[v].all
    BY <1>1, <1>2 DEF BuildInv, Running
  <1>7. SomeMode'
    BY <1>1, <1>3, <1>6 DEF BuildInv, SomeMode
  <1>8. \A u \in Variants \ {v} : Built(u)' => Built(u)
    BY <1>1, <1>2, <1>3 DEF Built
  <1>9. Built(v)' => ~failed /\ seen'[v] = src /\ Done = Inputs
    BY <1>1, <1>3 DEF Built, Done
  <1>10. EmptyCopies'
    <2>1. Built(v)' /\ modes[v].last.empty =>
            \A i \in Inputs : src[i] # 0 => out[v][i] = Copied(src[i])
      BY <1>1, <1>2, <1>6, <1>9 DEF BuildInv, CopiedSoFar, Mode
    <2>2. \A u \in Variants \ {v} : Built(u)' /\ modes[u].last.empty =>
            \A i \in Inputs : seen'[u][i] # 0 => out[u][i] = Copied(seen'[u][i])
      BY <1>3, <1>8 DEF BuildInv, EmptyCopies, Copied
    <2> QED
      BY <1>1, <1>9, <2>1, <2>2 DEF EmptyCopies, Copied
  <1>11. WovenIsFull'
    <2>1. \A c \in BOOLEAN : Built(v)' /\ modes[v].all = {Mode(FALSE, c)} =>
            \A i \in Inputs : out[v][i] = WovenFrom(i, src[i], c)
      BY <1>1, <1>2, <1>9 DEF BuildInv, WovenSoFar
    <2>2. \A u \in Variants \ {v}, c \in BOOLEAN : Built(u)' /\ modes[u].all = {Mode(FALSE, c)} =>
            \A i \in Inputs : out[u][i] = WovenFrom(i, seen'[u][i], c)
      BY <1>3, <1>8 DEF BuildInv, WovenIsFull, WovenFrom, Mode
    <2> QED
      BY <1>1, <1>9, <2>1, <2>2 DEF WovenIsFull, WovenFrom, WovenForm, Mode
  <1> QED
    BY <1>4, <1>5, <1>7, <1>10, <1>11 DEF BuildInv

-----------------------------------------------------------------------------
\* Every step.
LEMMA NextBuild == BuildInv /\ [Next]_vars => BuildInv'
  <1> SUFFICES ASSUME BuildInv, [Next]_vars PROVE BuildInv'
    OBVIOUS
  <1>1. ASSUME NEW i \in Inputs, NEW k \in Versions, Edit(i, k) PROVE BuildInv'
    <2>1. /\ building = None /\ src' \in [Inputs -> Versions]
          /\ known' \in BOOLEAN /\ emptyRun' \in BOOLEAN
          /\ UNCHANGED <<out, seen, buildVars, todo, tasks, failed>>
      BY <1>1 DEF Edit, BuildInv, Types
    <2> QED
      BY <2>1, Between
  <1>2. ASSUME EditManifest PROVE BuildInv'
    <2>1. /\ building = None /\ src' \in [Inputs -> Versions]
          /\ known' \in BOOLEAN /\ emptyRun' \in BOOLEAN
          /\ UNCHANGED <<out, seen, buildVars, todo, tasks, failed>>
      BY <1>2 DEF EditManifest, BuildInv, Types
    <2> QED
      BY <2>1, Between
  <1>3. ASSUME NEW s \in Settings, NEW d \in BOOLEAN, Invoke(s, d) PROVE BuildInv'
    <2>1. /\ building = None /\ src' \in [Inputs -> Versions]
          /\ known' \in BOOLEAN /\ emptyRun' \in BOOLEAN
          /\ UNCHANGED <<out, seen, buildVars, todo, tasks, failed>>
      BY <1>3 DEF Invoke, BuildInv, Types
    <2> QED
      BY <2>1, Between
  <1>4. ASSUME NEW v \in Variants, Begin(v) PROVE BuildInv'
    BY <1>4, Begins
  <1>5. ASSUME Build PROVE BuildInv'
    BY <1>5, KeepsUnchanged, RemovesGone, Submits, RunsTask, ThrowsTask, CopiesDirectory, Ends
       DEF Build
  <1>6. CASE UNCHANGED vars
    <2>1. Types' /\ Idle' /\ Running'
      BY <1>6 DEF vars, settingVars, buildVars, BuildInv, Types, Idle, Running
    <2>2. CopiedSoFar' /\ WovenSoFar'
      BY <1>6 DEF vars, settingVars, buildVars, BuildInv, CopiedSoFar, WovenSoFar, Done,
                  Copied, WovenFrom, WovenForm, Mode
    <2>3. SomeMode' /\ EmptyCopies' /\ WovenIsFull'
      BY <1>6, OthersStand DEF vars, buildVars
    <2> QED
      BY <2>1, <2>2, <2>3 DEF BuildInv
  <1> QED
    BY <1>1, <1>2, <1>3, <1>4, <1>5, <1>6 DEF Next

\* The builds' invariant holds in every reachable state.
LEMMA BuildInvariance == Spec => []BuildInv
  BY InitBuild, NextBuild, PTL DEF Spec

\* After any builds, with any of them incremental or failed, a build that
\* succeeds leaves what weaving all its sources from nothing would, as long as
\* it was always woven with the same knowledge of the components.
THEOREM WeavesAsFull == Spec => []WovenIsFull
  <1>1. BuildInv => WovenIsFull
    BY DEF BuildInv
  <1> QED
    BY <1>1, BuildInvariance, PTL

\* An empty run replaces every woven class that still has a source by its copy.
THEOREM EmptyRunCopies == Spec => []EmptyCopies
  <1>1. BuildInv => EmptyCopies
    BY DEF BuildInv
  <1> QED
    BY <1>1, BuildInvariance, PTL
=============================================================================
