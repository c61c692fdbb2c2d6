--------------------------- MODULE AndroidProofs ---------------------------
(* Theorems about the two components that Android itself calls back: what  *)
(* the runs show for three agents and one update (JvmtiAgent) and for two  *)
(* activities and two tasks (OverlayLife) holds for any number.            *)
(* The invariant of the agent says how far init has come by what is        *)
(* attached, bound and searched; that of the overlay, that the tasks that  *)
(* trigger recycles and the activities it counts agree.                    *)
EXTENDS JvmtiAgent, OverlayLife, SequenceTheorems, FiniteSetTheorems, TLAPS

-----------------------------------------------------------------------------
(* JvmtiAgent                                                              *)

Files == [version : Nat, whole : BOOLEAN]
Steps == {"idle", "path", "delete", "copy", "write", "attach", "loaded", "call"} \cup Natives

\* No placeholder is ever behind a native at rest: 0 is Unbound.
AgentTypes ==
  /\ version \in Nat /\ agentSo \in Files
  /\ pc \in Steps /\ isLoad \in BOOLEAN /\ codePath \in BOOLEAN
  /\ agents \in Seq(Files)
  /\ bound \in [Natives -> 0..Len(agents)]
  /\ searched \in BOOLEAN /\ declares \in BOOLEAN
  /\ probes \in 0..Len(agents)
  /\ result \in [answer : {"none", "size", "error", "unlinked"}, loaded : BOOLEAN]
  /\ aborted \in BOOLEAN

\* The natives are registered after an agent was attached, in order.
AttachedBefore ==
  /\ pc \in Natives \cup {"loaded"} => Len(agents) > 0
  /\ pc \in {"redefineClass", "retransformClasses", "loaded"} => bound["getObjectSize"] > 0
  /\ isLoad => bound["getObjectSize"] > 0

\* The path is set before anything is attached, and searched with the first bind.
PathBefore ==
  /\ pc \in Steps \ {"idle", "call", "path"} => codePath
  /\ Len(agents) > 0 => codePath
  /\ \A m \in Natives : bound[m] > 0 => searched

FileCurrent ==
  /\ pc \in {"write", "attach"} => agentSo.version = version
  /\ pc = "attach" => agentSo.whole

AgentInv == AgentTypes /\ AttachedBefore /\ PathBefore /\ FileCurrent
            /\ SizesAreReal /\ AgentCurrent /\ HelperVisible
-----------------------------------------------------------------------------
\* At first nothing is attached, bound or searched.
LEMMA AgentInitInv == AgentInit => AgentInv
  <1> SUFFICES ASSUME AgentInit PROVE AgentInv
    OBVIOUS
  <1>1. AgentTypes
    <2>1. agents \in Seq(Files) /\ Len(agents) = 0
      BY EmptySeq DEF AgentInit
    <2>2. bound \in [Natives -> 0..Len(agents)] /\ probes \in 0..Len(agents)
      BY <2>1 DEF AgentInit, Unbound
    <2>3. agentSo \in Files /\ pc \in Steps
      BY DEF AgentInit, NoFile, Files, Steps
    <2>4. result \in [answer : {"none", "size", "error", "unlinked"}, loaded : BOOLEAN]
      BY DEF AgentInit
    <2> QED
      BY <2>1, <2>2, <2>3, <2>4 DEF AgentInit, AgentTypes
  <1>2. AttachedBefore /\ PathBefore /\ FileCurrent
    BY DEF AgentInit, AttachedBefore, PathBefore, FileCurrent, Natives, Steps, Unbound
  <1>3. SizesAreReal /\ AgentCurrent /\ HelperVisible
    BY DEF AgentInit, SizesAreReal, AgentCurrent, HelperVisible
  <1> QED
    BY <1>1, <1>2, <1>3 DEF AgentInv

\* What a new process starts with satisfies the invariant whatever the file holds.
LEMMA RestartInv ==
  ASSUME AgentInv, Restarted, version' \in Nat, agentSo' = agentSo
  PROVE  AgentInv'
  <1>1. AgentTypes'
    <2>1. agents' \in Seq(Files) /\ Len(agents') = 0
      BY EmptySeq DEF Restarted
    <2>2. bound' \in [Natives -> 0..Len(agents')] /\ probes' \in 0..Len(agents')
      BY <2>1 DEF Restarted, Unbound
    <2>3. result' \in [answer : {"none", "size", "error", "unlinked"}, loaded : BOOLEAN]
      BY DEF Restarted
    <2> QED
      BY <2>1, <2>2, <2>3 DEF AgentInv, AgentTypes, Restarted, Steps
  <1>2. (AttachedBefore /\ PathBefore /\ FileCurrent)'
    BY DEF Restarted, AttachedBefore, PathBefore, FileCurrent, Natives, Steps, Unbound
  <1>3. (SizesAreReal /\ AgentCurrent /\ HelperVisible)'
    BY DEF Restarted, SizesAreReal, AgentCurrent, HelperVisible
  <1> QED
    BY <1>1, <1>2, <1>3 DEF AgentInv

\* Every step of init, of the natives and of the runtime keeps the invariant.
LEMMA AgentNextInv == AgentInv /\ [AgentNext]_agentVars => AgentInv'
  <1> SUFFICES ASSUME AgentInv, [AgentNext]_agentVars PROVE AgentInv'
    OBVIOUS
  <1> USE DEF AgentInv, Steps, Natives, Files
  <1>1. CASE ObjectSize
    <2>1. AgentTypes'
      BY <1>1 DEF ObjectSize, AgentTypes, disk, loader, runtime, classes
    <2>2. (AttachedBefore /\ PathBefore /\ FileCurrent)'
      BY <1>1 DEF ObjectSize, AgentTypes, AttachedBefore, PathBefore, FileCurrent, disk, loader, runtime, classes
    <2>3. (SizesAreReal /\ AgentCurrent /\ HelperVisible)'
      BY <1>1 DEF ObjectSize, AgentTypes, AttachedBefore, SizesAreReal, AgentCurrent, HelperVisible, disk, loader, runtime, classes
    <2> QED
      BY <2>1, <2>2, <2>3
  <1>2. CASE SetPath
    <2>1. AgentTypes'
      BY <1>2 DEF SetPath, AgentTypes, disk, loader, runtime, classes, Goes, After, Order
    <2>2. (AttachedBefore /\ PathBefore /\ FileCurrent)'
      BY <1>2 DEF SetPath, AgentTypes, AttachedBefore, PathBefore, FileCurrent, disk, loader, runtime, classes, Goes, After, Order
    <2>3. (SizesAreReal /\ AgentCurrent /\ HelperVisible)'
      BY <1>2 DEF SetPath, AgentTypes, AttachedBefore, SizesAreReal, AgentCurrent, HelperVisible, disk, loader, runtime, classes, Goes, After, Order
    <2> QED
      BY <2>1, <2>2, <2>3
  <1>3. CASE DeleteAgent
    <2>1. AgentTypes'
      BY <1>3 DEF DeleteAgent, AgentTypes, disk, loader, runtime, classes, Goes, After, Order, NoFile
    <2>2. (AttachedBefore /\ PathBefore /\ FileCurrent)'
      BY <1>3 DEF DeleteAgent, AgentTypes, AttachedBefore, PathBefore, FileCurrent, disk, loader, runtime, classes, Goes, After, Order, NoFile
    <2>3. (SizesAreReal /\ AgentCurrent /\ HelperVisible)'
      BY <1>3 DEF DeleteAgent, AgentTypes, AttachedBefore, SizesAreReal, AgentCurrent, HelperVisible, disk, loader, runtime, classes, Goes, After, Order, NoFile
    <2> QED
      BY <2>1, <2>2, <2>3
  <1>4. CASE BeginCopy
    <2>1. AgentTypes'
      BY <1>4 DEF BeginCopy, AgentTypes, disk, loader, runtime, classes, Goes, After, Order
    <2>2. (AttachedBefore /\ PathBefore /\ FileCurrent)'
      BY <1>4 DEF BeginCopy, AgentTypes, AttachedBefore, PathBefore, FileCurrent, disk, loader, runtime, classes, Goes, After, Order
    <2>3. (SizesAreReal /\ AgentCurrent /\ HelperVisible)'
      BY <1>4 DEF BeginCopy, AgentTypes, AttachedBefore, SizesAreReal, AgentCurrent, HelperVisible, disk, loader, runtime, classes, Goes, After, Order
    <2> QED
      BY <2>1, <2>2, <2>3
  <1>5. CASE EndCopy
    <2>1. AgentTypes'
      BY <1>5 DEF EndCopy, AgentTypes, disk, loader, runtime, classes, Goes, After, Order
    <2>2. (AttachedBefore /\ PathBefore /\ FileCurrent)'
      BY <1>5 DEF EndCopy, AgentTypes, AttachedBefore, PathBefore, FileCurrent, disk, loader, runtime, classes, Goes, After, Order
    <2>3. (SizesAreReal /\ AgentCurrent /\ HelperVisible)'
      BY <1>5 DEF EndCopy, AgentTypes, AttachedBefore, SizesAreReal, AgentCurrent, HelperVisible, disk, loader, runtime, classes, Goes, After, Order
    <2> QED
      BY <2>1, <2>2, <2>3
  <1>6. CASE EndInit
    <2>1. AgentTypes'
      BY <1>6 DEF EndInit, AgentTypes, disk, loader, runtime, classes
    <2>2. (AttachedBefore /\ PathBefore /\ FileCurrent)'
      BY <1>6 DEF EndInit, AgentTypes, AttachedBefore, PathBefore, FileCurrent, disk, loader, runtime, classes
    <2>3. (SizesAreReal /\ AgentCurrent /\ HelperVisible)'
      BY <1>6 DEF EndInit, AgentTypes, AttachedBefore, SizesAreReal, AgentCurrent, HelperVisible, disk, loader, runtime, classes
    <2> QED
      BY <2>1, <2>2, <2>3
  <1>7. CASE Fail
    <2>1. AgentTypes'
      BY <1>7 DEF Fail, AgentTypes, disk, loader, runtime, classes, Failing
    <2>2. (AttachedBefore /\ PathBefore /\ FileCurrent)'
      BY <1>7 DEF Fail, AgentTypes, AttachedBefore, PathBefore, FileCurrent, disk, loader, runtime, classes, Failing
    <2>3. (SizesAreReal /\ AgentCurrent /\ HelperVisible)'
      BY <1>7 DEF Fail, AgentTypes, AttachedBefore, SizesAreReal, AgentCurrent, HelperVisible, disk, loader, runtime, classes, Failing
    <2> QED
      BY <2>1, <2>2, <2>3
  <1>8. CASE GetObjectSize
    <2>1. AgentTypes'
      BY <1>8 DEF GetObjectSize, AgentTypes, disk, loader, runtime, classes, Answers, Unbound, Placeholder
    <2>2. (AttachedBefore /\ PathBefore /\ FileCurrent)'
      BY <1>8 DEF GetObjectSize, AgentTypes, AttachedBefore, PathBefore, FileCurrent, disk, loader, runtime, classes, Answers, Unbound, Placeholder
    <2>3. (SizesAreReal /\ AgentCurrent /\ HelperVisible)'
      BY <1>8 DEF GetObjectSize, AgentTypes, AttachedBefore, SizesAreReal, AgentCurrent, HelperVisible, disk, loader, runtime, classes, Answers, Unbound, Placeholder
    <2> QED
      BY <2>1, <2>2, <2>3
  <1>9. CASE AgentOnAttach
    <2>1. agents' \in Seq(Files) /\ Len(agents') = Len(agents) + 1
      BY <1>9, AppendProperties DEF AgentOnAttach, AgentTypes
    <2>2. AgentTypes'
      BY <1>9, <2>1 DEF AgentOnAttach, Goes, After, Order, AgentTypes, disk, loader, runtime, classes
    <2>3. (AttachedBefore /\ PathBefore /\ FileCurrent)'
      BY <1>9, <2>1 DEF AgentOnAttach, Goes, After, Order, AgentTypes, AttachedBefore, PathBefore, FileCurrent, disk, loader, runtime, classes
    <2>4. agentSo = [version |-> version, whole |-> TRUE]
      BY <1>9 DEF AgentOnAttach, Goes, AgentTypes, FileCurrent
    <2>5. AgentCurrent'
      <3> SUFFICES ASSUME NEW k \in DOMAIN agents'
                   PROVE  agents'[k] = [version |-> version, whole |-> TRUE]
        BY <1>9 DEF AgentOnAttach, AgentCurrent, disk
      <3>0. DOMAIN agents' = 1..(Len(agents) + 1)
        BY <2>1
      <3>1. agents \in Seq(Files) /\ agents' = Append(agents, agentSo) /\ agentSo \in Files
        BY <1>9 DEF AgentOnAttach, AgentTypes
      <3>2. k \in 1..Len(agents) \/ k = Len(agents) + 1
        BY <3>0, <3>1
      <3>3. CASE k \in 1..Len(agents)
        <4>1. agents'[k] = agents[k] /\ k \in DOMAIN agents
          BY <3>1, <3>3, AppendProperties
        <4> QED
          BY <4>1 DEF AgentCurrent
      <3>4. CASE k = Len(agents) + 1
        BY <2>4, <3>1, <3>4, AppendProperties
      <3> QED
        BY <3>2, <3>3, <3>4
    <2>6. (SizesAreReal /\ HelperVisible)'
      BY <1>9 DEF AgentOnAttach, SizesAreReal, HelperVisible, disk, loader, runtime, classes
    <2> QED
      BY <2>2, <2>3, <2>5, <2>6
  <1>10. ASSUME NEW m \in Natives, Register(m)
         PROVE  AgentInv'
    <2>1. Len(agents) \in Nat /\ Len(agents) > 0 /\ codePath
      BY <1>10 DEF Register, Goes, AgentTypes, AttachedBefore, PathBefore
    <2> agents # <<>>
      BY <2>1, EmptySeq
    <2>2. bound' = [bound EXCEPT ![m] = Len(agents)] /\ searched'
      BY <1>10, <2>1 DEF Register, Rebound, Searched
    <2>3. AgentTypes'
      BY <1>10, <2>1, <2>2 DEF Register, Goes, After, Order, AgentTypes, disk, loader, runtime, classes
    <2>4. (AttachedBefore /\ PathBefore /\ FileCurrent)'
      BY <1>10, <2>1, <2>2 DEF Register, Goes, After, Order, AgentTypes, AttachedBefore, PathBefore, FileCurrent, disk, loader, runtime, classes
    <2>5. (SizesAreReal /\ AgentCurrent /\ HelperVisible)'
      BY <1>10, <2>2 DEF Register, SizesAreReal, AgentCurrent, HelperVisible, disk, loader, runtime, classes
    <2> QED
      BY <2>3, <2>4, <2>5
  <1>11. CASE RetransformClasses
    BY <1>11 DEF RetransformClasses, Transformed, AgentTypes, AttachedBefore, PathBefore, FileCurrent,
                 SizesAreReal, AgentCurrent, HelperVisible, disk, loader, runtime, classes
  <1>12. ASSUME NEW has \in BOOLEAN, RedefineClass(has)
         PROVE  AgentInv'
    BY <1>12 DEF RedefineClass, Transformed, AgentTypes, AttachedBefore, PathBefore, FileCurrent,
                 SizesAreReal, AgentCurrent, HelperVisible, disk, loader, runtime, classes
  <1>13. ASSUME NEW app \in BOOLEAN, BindOther(app)
         PROVE  AgentInv'
    <2>1. searched' \in BOOLEAN /\ (searched => searched') /\ aborted' \in BOOLEAN
      BY <1>13 DEF BindOther, Searched, AgentTypes
    <2> QED
      BY <1>13, <2>1 DEF BindOther, AgentTypes, AttachedBefore, PathBefore, FileCurrent,
                         SizesAreReal, AgentCurrent, HelperVisible, disk, loader, runtime, classes
  <1>14. CASE Restart
    BY <1>14, RestartInv DEF Restart, AgentTypes, disk
  <1>15. CASE Update
    <2>1. version' \in Nat
      BY <1>15 DEF Update, AgentTypes
    <2> QED
      BY <1>15, <2>1, RestartInv DEF Update
  <1>16. CASE UNCHANGED agentVars
    BY <1>16 DEF agentVars, AgentTypes, AttachedBefore, PathBefore, FileCurrent,
                 SizesAreReal, AgentCurrent, HelperVisible, disk, loader, runtime, classes
  <1> QED
    BY <1>1, <1>2, <1>3, <1>4, <1>5, <1>6, <1>7, <1>8, <1>9, <1>10, <1>11, <1>12, <1>13, <1>14, <1>15, <1>16
    DEF AgentNext

\* The invariant holds in every reachable state.
THEOREM AgentInvariant == AgentSpec => []AgentInv
  BY AgentInitInv, AgentNextInv, PTL DEF AgentSpec

\* A size is never a placeholder's undefined answer, and once init has
\* succeeded an agent answers, for any number of failures, restarts, updates
\* and agents.
THEOREM RealSizes == AgentSpec => []SizesAreReal
  <1>1. AgentInv => SizesAreReal
    BY DEF AgentInv
  <1> QED
    BY <1>1, AgentInvariant, PTL

\* No process ever attaches a partial copy, or one of an older application.
THEOREM CurrentAgents == AgentSpec => []AgentCurrent
  <1>1. AgentInv => AgentCurrent
    BY DEF AgentInv
  <1> QED
    BY <1>1, AgentInvariant, PTL

\* A probed Activity finds its helper.
THEOREM VisibleHelper == AgentSpec => []HelperVisible
  <1>1. AgentInv => HelperVisible
    BY DEF AgentInv
  <1> QED
    BY <1>1, AgentInvariant, PTL
-----------------------------------------------------------------------------
(* OverlayLife                                                             *)

TaskTypes ==
  /\ curShowHideRun \in ShowHides \cup {None} /\ poll \subseteq ShowHides /\ made \in Nat
  /\ needShow \in [ShowHides -> BOOLEAN] /\ posted \in [ShowHides -> Nat]
Types == TaskTypes /\ attached \in BOOLEAN /\ asked \in {"nothing", "dialog", "settings"}

\* resumeCount counts what is resumed.
Counted == IsFiniteSet(resumed) /\ resumeCount = Cardinality(resumed)

\* The current task is not in the pool: trigger gives it back before it takes one.
NotRecycled == curShowHideRun \notin poll

\* Nothing comes to the front before the callbacks are registered.
QuietBefore ==
  ~windowPop => resumed = {} /\ asked = "nothing" /\ ~obeyed /\ ~Pending

OverlayInv == Types /\ Counted /\ NotRecycled /\ QuietBefore /\ OneTask /\ Settled
-----------------------------------------------------------------------------
\* At first nothing is resumed, made or posted.
LEMMA OverlayInitInv == Init => OverlayInv
  <1> SUFFICES ASSUME Init PROVE OverlayInv
    OBVIOUS
  <1>1. Types /\ NotRecycled
    BY DEF Init, Types, TaskTypes, NotRecycled
  <1>2. Counted
    BY FS_EmptySet DEF Init, Counted
  <1>3. ~Pending
    BY DEF Init, Pending
  <1>4. QuietBefore /\ OneTask /\ Settled
    BY <1>3 DEF Init, QuietBefore, OneTask, Settled, Pending
  <1> QED
    BY <1>1, <1>2, <1>4 DEF OverlayInv

\* Trigger takes back the task that was posted and posts one, which wants what
\* it is told, whatever the pool holds.
LEMMA TriggerPosts ==
  ASSUME NEW show \in BOOLEAN, TaskTypes, NotRecycled, OneTask, Trigger(show)
  PROVE  /\ TaskTypes' /\ NotRecycled' /\ ~died' /\ Pending'
         /\ \A t \in ShowHides : posted'[t] > 0 =>
              t = curShowHideRun' /\ posted'[t] = 1 /\ needShow'[t] = show
  <1> DEFINE old  == curShowHideRun
             pool == Released(old)
             new  == IF pool = {} THEN made + 1 ELSE CHOOSE t \in pool : TRUE
  <1>1. /\ new \in ShowHides
        /\ died' = (died \/ old \in poll)
        /\ made' = IF pool = {} THEN new ELSE made
        /\ poll' = pool \ {new}
        /\ curShowHideRun' = new
        /\ needShow' = [needShow EXCEPT ![new] = show]
        /\ posted' = [Removed(old) EXCEPT ![new] = @ + 1]
    BY DEF Trigger
  <1> HIDE DEF pool, new
  <1>2. ~died'
    BY <1>1 DEF NotRecycled, OneTask
  <1>3. poll' \subseteq ShowHides /\ made' \in Nat /\ curShowHideRun' \in ShowHides \cup {None}
    <2>1. pool \subseteq ShowHides
      BY DEF pool, Released, TaskTypes
    <2>2. new \in Nat
      BY <1>1, BoundsAssumption DEF ShowHides
    <2> QED
      BY <1>1, <2>1, <2>2 DEF TaskTypes
  <1>4. Removed(old) \in [ShowHides -> Nat] /\ \A t \in ShowHides : Removed(old)[t] = 0
    BY BoundsAssumption DEF Removed, TaskTypes, OneTask
  <1>5. posted' \in [ShowHides -> Nat] /\ \A t \in ShowHides : posted'[t] = IF t = new THEN 1 ELSE 0
    BY <1>1, <1>4
  <1>6. needShow' \in [ShowHides -> BOOLEAN] /\ needShow'[new] = show
    BY <1>1 DEF TaskTypes
  <1>7. Pending'
    BY <1>1, <1>5 DEF Pending
  <1>8. NotRecycled'
    BY <1>1 DEF NotRecycled
  <1> QED
    BY <1>1, <1>2, <1>3, <1>5, <1>6, <1>7, <1>8 DEF TaskTypes

\* An activity that comes to the front leaves one task posted, to show.
LEMMA ResumedInv ==
  ASSUME NEW a, OverlayInv, OnResumed(a)
  PROVE  (TaskTypes /\ Counted /\ NotRecycled /\ OneTask)' /\ Pending' /\ resumed' # {}
  <1>1. Counted' /\ resumeCount' > 0 /\ resumed' # {}
    BY FS_AddElement, FS_CardinalityType DEF OnResumed, OverlayInv, Counted
  <1>2. NeedShow(resumeCount') = TRUE
    BY <1>1 DEF NeedShow
  <1>3. Trigger(TRUE)
    BY <1>2 DEF OnResumed
  <1> QED
    BY <1>1, <1>3, TriggerPosts DEF OverlayInv, Types, OneTask

\* A pause leaves one task posted, which wants what the other activities say.
LEMMA PausedInv ==
  ASSUME NEW a, OverlayInv, OnPaused(a)
  PROVE  OverlayInv'
  <1>1. Counted' /\ resumeCount' = Cardinality(resumed') /\ resumeCount' \in Nat
    <2>1. /\ IsFiniteSet(resumed \ {a})
          /\ Cardinality(resumed \ {a}) = Cardinality(resumed) - 1
      BY FS_RemoveElement DEF OnPaused, OverlayInv, Counted
    <2>2. Cardinality(resumed \ {a}) \in Nat
      BY <2>1, FS_CardinalityType
    <2> QED
      BY <2>1, <2>2 DEF OnPaused, OverlayInv, Counted, Decremented
  <1>2. NeedShow(resumeCount') = (resumed' # {})
    BY <1>1, FS_EmptySet DEF NeedShow, Counted
  <1>3. Trigger(resumed' # {})
    BY <1>2 DEF OnPaused
  <1>4. windowPop
    BY DEF OnPaused, OverlayInv, QuietBefore
  <1>5. (TaskTypes /\ NotRecycled /\ OneTask)' /\ Pending'
    BY <1>3, TriggerPosts DEF OverlayInv, OneTask, Types
  <1> QED
    BY <1>1, <1>4, <1>5 DEF OnPaused, OverlayInv, Types, QuietBefore, Settled

\* Every callback, message and change of the permission keeps the invariant.
LEMMA OverlayNextInv == OverlayInv /\ [Next]_vars => OverlayInv'
  <1> SUFFICES ASSUME OverlayInv, [Next]_vars PROVE OverlayInv'
    OBVIOUS
  <1>1. CASE ProviderOnCreate
    <2>1. Pending' = Pending /\ ~Pending /\ resumed' = {} /\ windowPop' /\ ~obeyed'
      BY <1>1 DEF ProviderOnCreate, AttachDumpView, OverlayInv, QuietBefore, Pending, lifeVars, taskVars
    <2>2. Types'
      BY <1>1 DEF ProviderOnCreate, AttachDumpView, OverlayInv, Types, TaskTypes, taskVars
    <2>3. (Counted /\ NotRecycled /\ OneTask)'
      BY <1>1 DEF ProviderOnCreate, OverlayInv, Counted, NotRecycled, OneTask, lifeVars, taskVars
    <2> QED
      BY <2>1, <2>2, <2>3 DEF OverlayInv, QuietBefore, Settled
  <1>2. ASSUME NEW a \in All, Resume(a) PROVE OverlayInv'
    <2>1. (TaskTypes /\ Counted /\ NotRecycled /\ OneTask)' /\ Pending' /\ windowPop'
      BY <1>2, ResumedInv DEF Resume
    <2>2. Types'
      BY <1>2, <2>1 DEF Resume, OverlayInv, Types
    <2> QED
      BY <2>1, <2>2 DEF OverlayInv, QuietBefore, Settled
  <1>3. ASSUME NEW a \in All, OnPaused(a) PROVE OverlayInv'
    BY <1>3, PausedInv
  <1>4. ASSUME NEW t \in ShowHides, Run(t) PROVE OverlayInv'
    <2>1. /\ t = curShowHideRun /\ posted[t] = 1 /\ needShow[t] = (resumed # {})
          /\ \A u \in ShowHides : posted'[u] = 0
      BY <1>4 DEF Run, OverlayInv, Types, TaskTypes, OneTask
    <2>2. ~Pending' /\ windowPop
      BY <1>4, <2>1 DEF Run, OverlayInv, QuietBefore, Pending
    <2>3. Types' /\ Counted' /\ NotRecycled'
      BY <1>4 DEF Run, Attached, OverlayInv, Types, TaskTypes, Counted, NotRecycled, lifeVars
    <2>4. OneTask'
      BY <1>4, <2>1 DEF Run, OverlayInv, OneTask
    <2>5. Settled'
      BY <1>4, <2>1 DEF Run, Attached, Settled, lifeVars
    <2> QED
      BY <1>4, <2>2, <2>3, <2>4, <2>5 DEF Run, OverlayInv, QuietBefore
  <1>5. CASE LogicPermission
    <2>1. (TaskTypes /\ Counted /\ NotRecycled /\ OneTask)' /\ Pending' /\ windowPop'
      BY <1>5, ResumedInv DEF LogicPermission, AttachDumpView, OverlayInv, QuietBefore
    <2>2. Types'
      BY <1>5, <2>1 DEF LogicPermission, AttachDumpView, OverlayInv, Types
    <2> QED
      BY <2>1, <2>2 DEF OverlayInv, QuietBefore, Settled
  <1>6. CASE SetPermission
    BY <1>6 DEF SetPermission, OverlayInv, Types, TaskTypes, Counted, NotRecycled, QuietBefore, OneTask, Settled,
                Pending, lifeVars, taskVars
  <1>7. CASE UNCHANGED vars
    BY <1>7 DEF vars, OverlayInv, Types, TaskTypes, Counted, NotRecycled, QuietBefore, OneTask, Settled,
                Pending, lifeVars, taskVars
  <1> QED
    BY <1>1, <1>2, <1>3, <1>4, <1>5, <1>6, <1>7 DEF Next

\* The invariant holds in every reachable state.
LEMMA OverlayInvariance == FairSpec => []OverlayInv
  BY OverlayInitInv, OverlayNextInv, PTL DEF FairSpec
-----------------------------------------------------------------------------
\* However many activities come and go and however many tasks are recycled, at
\* most one is posted, once, and it wants what the activities say
\* (ActivityLife.trigger).
THEOREM OnlyOneTask == FairSpec => []OneTask
  <1>1. OverlayInv => OneTask
    BY DEF OverlayInv
  <1> QED
    BY <1>1, OverlayInvariance, PTL

\* When the last task has run with the permission, the overlay is there exactly
\* when an activity is (ShowHide.run, attachDumpView).
THEOREM SettlesAsActivities == FairSpec => []Settled
  <1>1. OverlayInv => Settled
    BY DEF OverlayInv
  <1> QED
    BY <1>1, OverlayInvariance, PTL
=============================================================================
