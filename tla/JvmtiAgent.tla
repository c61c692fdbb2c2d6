----------------------------- MODULE JvmtiAgent -----------------------------
(* The agent's life (JVMTIHelper.init and native-lib.cpp): the library is  *)
(* copied to agent.so, the copy is attached as an agent, the library is    *)
(* loaded, and registering its placeholder natives raises the events by    *)
(* which the agent puts its own functions in their place.  agent.so stays  *)
(* when the process dies, by itself or for an update of the application.   *)
(* An agent is known by its place among those attached in this process.    *)
EXTENDS Integers, Sequences

CONSTANTS
  MaxVersion,   \* bound: the last update of the application
  MaxAgents     \* bound: agents attached in one process

ASSUME BoundAssumption == MaxVersion \in Nat /\ MaxAgents \in Nat

VARIABLES
  version,   \* the installed application
  agentSo,   \* agent.so, or NoFile
  pc,        \* what ObjectCalculator.objectSize does next
  isLoad,    \* ObjectCalculator.isLoad
  codePath,  \* packageCodePath has been set
  agents,    \* the copies attached, each with its own localJvmtiEnv
  bound,     \* the function behind each native method
  searched,  \* the package is in the boot class path
  declares,  \* android.app.Activity, as last defined, has onCreate(Bundle)
  probes,    \* calls of printEnter in it
  result,    \* the last getObjectSize, and isLoad then
  aborted    \* the runtime has stopped the process

disk == <<version, agentSo>>
loader == <<isLoad, codePath>>
runtime == <<agents, bound, searched>>
classes == <<declares, probes>>
agentVars == <<disk, pc, loader, runtime, classes, result, aborted>>

NoFile == [version |-> 0, whole |-> FALSE]
Unbound == 0
Placeholder == -1
Natives == {"getObjectSize", "redefineClass", "retransformClasses"}
Failing == {"path", "copy", "write", "attach", "getObjectSize"}

\* The order of init; the natives are registered one after the other.
Order == [path |-> "delete", delete |-> "copy", copy |-> "write", write |-> "attach",
          attach |-> "getObjectSize", getObjectSize |-> "redefineClass",
          redefineClass |-> "retransformClasses", retransformClasses |-> "loaded"]

\* Slips: the library is loaded before the agent; a file that is there is used.
LoadedFirst(step) ==
  [Order EXCEPT !.write = "getObjectSize", !.retransformClasses = "attach", !.attach = "loaded"][step]
ReuseFile(step) == IF step = "path" /\ agentSo # NoFile THEN "attach" ELSE Order[step]
After(step) == Order[step]

Goes(step) == pc = step /\ pc' = After(step) /\ ~aborted /\ UNCHANGED aborted
-----------------------------------------------------------------------------
(* ObjectCalculator.objectSize on Android P or later (it answers -1         *)
(* before): loadJmvTI, with init, and then the call.                       *)
ObjectSize ==
  /\ pc = "idle" /\ ~aborted
  /\ pc' = IF isLoad THEN "call" ELSE "path"
  /\ UNCHANGED <<disk, loader, runtime, classes, result, aborted>>

SetPath ==
  /\ Goes("path")
  /\ codePath' = TRUE
  /\ UNCHANGED <<disk, isLoad, runtime, classes, result>>

DeleteAgent ==
  /\ Goes("delete")
  /\ agentSo' = NoFile
  /\ UNCHANGED <<version, loader, runtime, classes, result>>

\* Files.copy throws when the file is there; it is in place before it is whole.
BeginCopy ==
  /\ agentSo = NoFile
  /\ Goes("copy")
  /\ agentSo' = [version |-> version, whole |-> FALSE]
  /\ UNCHANGED <<version, loader, runtime, classes, result>>

EndCopy ==
  /\ Goes("write")
  /\ agentSo' = [agentSo EXCEPT !.whole = TRUE]
  /\ UNCHANGED <<version, loader, runtime, classes, result>>

\* Agent_OnAttach in the copy: its localJvmtiEnv is set, its events are on.
AgentOnAttach ==
  /\ Len(agents) < MaxAgents
  /\ Goes("attach")
  /\ agents' = Append(agents, agentSo)
  /\ UNCHANGED <<disk, loader, bound, searched, classes, result>>

\* NativeMethodBind of a helper's native: every agent offers its function, the
\* last one's is taken, and each puts the package into the boot class path.
Rebound == IF agents = <<>> THEN Placeholder ELSE Len(agents)
StillSearched == searched   \* a slip
Searched == searched \/ (agents # <<>> /\ codePath)

\* JNI_OnLoad of the library that loadLibrary opened, native after native.
Register(m) ==
  /\ Goes(m)
  /\ bound' = [bound EXCEPT ![m] = Rebound]
  /\ searched' = Searched
  /\ UNCHANGED <<disk, loader, agents, classes, result>>

EndInit ==
  /\ pc = "loaded" /\ ~aborted
  /\ isLoad' = TRUE /\ pc' = "call"
  /\ UNCHANGED <<disk, codePath, runtime, classes, result, aborted>>

\* Whatever init throws is caught: the next call tries again.
Fail ==
  /\ pc \in Failing /\ ~aborted
  /\ pc' = "call"
  /\ UNCHANGED <<disk, loader, runtime, classes, result, aborted>>

\* A placeholder has no return statement: what it answers is undefined.
Answers == IF bound["getObjectSize"] = Unbound THEN {"unlinked"}
           ELSE IF bound["getObjectSize"] = Placeholder THEN {"size", "error", "junk"}
           ELSE {"size", "error"}

GetObjectSize ==
  /\ pc = "call" /\ ~aborted
  /\ \E a \in Answers : result' = [answer |-> a, loaded |-> isLoad]
  /\ pc' = "idle"
  /\ UNCHANGED <<disk, loader, runtime, classes, aborted>>
-----------------------------------------------------------------------------
(* The other natives, and the runtime.                                     *)
\* Each agent's ClassTransform, one after the other, adds a probe.
Transformed(has) == IF has THEN Len(agents) ELSE 0

\* Retransformation starts from the class as it was last defined.
RetransformClasses ==
  /\ pc = "idle" /\ ~aborted
  /\ bound["retransformClasses"] > 0
  /\ probes' = Transformed(declares)
  /\ UNCHANGED <<disk, pc, loader, runtime, declares, result, aborted>>

\* redefineClass of Activity, unless Allocate or RedefineClasses fails.
RedefineClass(has) ==
  /\ pc = "idle" /\ ~aborted
  /\ bound["redefineClass"] > 0
  /\ declares' = has /\ probes' = Transformed(has)
  /\ UNCHANGED <<disk, pc, loader, runtime, result, aborted>>

\* NativeMethodBind of another method: from an application class FindClass
\* finds the helper, from a boot class only in the boot class path, and
\* GetStaticMethodID of no class stops the process.
BindOther(ofApplication) ==
  /\ agents # <<>> /\ ~aborted
  /\ aborted' = (~ofApplication /\ ~searched)
  /\ searched' = IF ofApplication THEN Searched ELSE searched
  /\ UNCHANGED <<disk, pc, loader, agents, bound, classes, result>>

\* A new process finds the file, and nothing else.
Restarted ==
  /\ pc' = "idle" /\ isLoad' = FALSE /\ codePath' = FALSE
  /\ agents' = <<>> /\ bound' = [m \in Natives |-> Unbound] /\ searched' = FALSE
  /\ declares' = TRUE /\ probes' = 0
  /\ result' = [answer |-> "none", loaded |-> FALSE] /\ aborted' = FALSE

Restart == Restarted /\ UNCHANGED disk
Update ==
  /\ version < MaxVersion
  /\ version' = version + 1
  /\ Restarted
  /\ UNCHANGED agentSo

AgentInit ==
  /\ version = 1 /\ agentSo = NoFile
  /\ pc = "idle" /\ isLoad = FALSE /\ codePath = FALSE
  /\ agents = <<>> /\ bound = [m \in Natives |-> Unbound] /\ searched = FALSE
  /\ declares = TRUE /\ probes = 0
  /\ result = [answer |-> "none", loaded |-> FALSE] /\ aborted = FALSE

AgentNext ==
  \/ ObjectSize \/ SetPath \/ DeleteAgent \/ BeginCopy \/ EndCopy \/ AgentOnAttach
  \/ (\E m \in Natives : Register(m)) \/ EndInit \/ Fail \/ GetObjectSize
  \/ RetransformClasses \/ (\E has \in BOOLEAN : RedefineClass(has))
  \/ (\E app \in BOOLEAN : BindOther(app)) \/ Restart \/ Update

AgentSpec == AgentInit /\ [][AgentNext]_agentVars
-----------------------------------------------------------------------------
\* getObjectSize never runs a placeholder, whose answer is undefined, however
\* often init fails and is tried again; and once the calculator believes that
\* the agent is loaded, an agent answers (JVMTIHelper.init
\* attaches first and loads then).
SizesAreReal ==
  /\ result.answer # "junk"
  /\ result.loaded => result.answer # "unlinked"

\* An attached agent is a whole copy of the installed application's library,
\* also when the process was killed in the midst of a copy, or the
\* application updated, before.
AgentCurrent == \A k \in DOMAIN agents : agents[k] = [version |-> version, whole |-> TRUE]

\* A probed Activity, which is a boot class, finds JVMTIHelper: the package
\* is in the boot class path before any probe (ClassTransform,
\* AddToBootstrapClassLoaderSearch).
HelperVisible == probes > 0 => searched
=============================================================================
