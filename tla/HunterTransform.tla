-------------------------- MODULE HunterTransform --------------------------
(* The build-time transform of reference_plugin (HunterTransform.java, with *)
(* BaseWeaver.java and ReferenceComponentFind.java): over many builds of    *)
(* several variants it copies or weaves jars and the files of a directory,  *)
(* all of them or only those that changed.                                  *)
(*                                                                          *)
(* The content of an input is a version, 0 when there is none.  Gradle      *)
(* decides whether the task runs at all, and whether incrementally: neither *)
(* depends on the settings of the plugin, which declares no inputs of its   *)
(* own.  inDuplicatedClassSafeMode() is false here, so no dex is cleaned.   *)
EXTENDS Naturals

CONSTANTS Jars, Files,  \* jar inputs; files of the one directory input
          Weavable,     \* inputs for which isWeavableClass holds
          Components,   \* those that hold components of the manifest
          Variants,
          Name,         \* the name of a variant: "debug", "release" or another
          Settings,     \* the values runVariant is given
          MaxVersion,   \* bound: contents of an input
          None

Inputs == Jars \cup Files

ASSUME InputsAssumption == Jars \cap Files = {} /\ Components \subseteq Weavable
ASSUME NameAssumption == Name \in [Variants -> {"debug", "release", "other"}]
ASSUME SettingsAssumption == Settings \subseteq {"DEBUG", "RELEASE", "ALWAYS", "NEVER"}
ASSUME NoneAssumption == None \notin Variants
ASSUME BoundAssumption == MaxVersion \in Nat \ {0}

Versions == 0..MaxVersion
Absent == [form |-> "absent", of |-> 0]
Forms == {"raw", "woven", "bare", "partial"}
Contents == {Absent} \cup [form : Forms, of : Versions \ {0}]
Modes == [empty : BOOLEAN, known : BOOLEAN]

VARIABLES
  src,        \* the sources
  setting,    \* runVariant in build.gradle
  known,      \* ReferenceComponentFind holds the components, a static of the daemon
  emptyRun,
  manifests,  \* variants whose manifest task is up to date
  out,        \* what each variant's output holds for each input
  seen,       \* the sources of a variant's last build, or None if that failed
  building,   \* the variant being built, or None
  incremental,
  todo,       \* inputs transform() has still to look at
  tasks,      \* tasks submitted to the executor and not yet finished
  failed,     \* one of them threw
  modes       \* how a variant was built since its last full build, and last (history)

settingVars == <<src, setting, known, emptyRun, manifests>>
buildVars   == <<building, incremental, modes>>
vars == <<settingVars, out, seen, buildVars, todo, tasks, failed>>

Init ==
  /\ src \in [Inputs -> {0, 1}] /\ setting \in Settings
  /\ known = FALSE /\ emptyRun = FALSE /\ manifests = {}
  /\ out = [v \in Variants |-> [i \in Inputs |-> Absent]]
  /\ seen = [v \in Variants |-> None]
  /\ building = None /\ incremental = FALSE /\ todo = {} /\ tasks = {} /\ failed = FALSE
  /\ modes = [v \in Variants |-> [all |-> {}, last |-> [empty |-> FALSE, known |-> FALSE]]]

----------------------------------------------------------------------------
(* Between two builds.                                                      *)

Edit(i, k) ==
  /\ building = None /\ k # src[i]
  /\ src' = [src EXCEPT ![i] = k]
  /\ UNCHANGED <<setting, known, emptyRun, manifests, out, seen, buildVars, todo, tasks, failed>>

\* A manifest edited elsewhere than in its components.
EditManifest ==
  /\ building = None /\ manifests # {} /\ manifests' = {}
  /\ UNCHANGED <<src, setting, known, emptyRun, out, seen, buildVars, todo, tasks, failed>>

\* A new invocation of Gradle makes a new transform, perhaps in a new daemon
\* and with another setting.
Invoke(s, sameDaemon) ==
  /\ building = None
  /\ setting' = s /\ emptyRun' = FALSE /\ known' = (known /\ sameDaemon)
  /\ UNCHANGED <<src, manifests, out, seen, buildVars, todo, tasks, failed>>

----------------------------------------------------------------------------
(* One build of a variant.                                                  *)

\* A build type or flavour of another name keeps what the last build left.
EmptyRun(v) ==
  CASE Name[v] = "debug"   -> setting \in {"RELEASE", "NEVER"}
    [] Name[v] = "release" -> setting \in {"DEBUG", "NEVER"}
    [] OTHER -> emptyRun

\* outputProvider.deleteAll()
KeepAll(v) == out[v]  \* a slip
DeleteAll(v) == [i \in Inputs |-> Absent]

\* parseXml runs only if the manifest task does.
ParseManifest(v) ==
  /\ known' = (known \/ v \notin manifests)
  /\ manifests' = manifests \cup {v}

\* The manifest task, then transform() up to its loop over the inputs.
Begin(v) ==
  /\ building = None /\ seen[v] # src
  /\ building' = v /\ incremental' = (seen[v] # None)
  /\ ParseManifest(v)
  /\ emptyRun' = EmptyRun(v)
  /\ out' = IF incremental' THEN out ELSE [out EXCEPT ![v] = DeleteAll(v)]
  /\ todo' = {i \in Inputs : src[i] # 0 \/ (incremental' /\ seen[v][i] # 0)}
  /\ modes' = LET m == [empty |-> emptyRun', known |-> known']
              IN [modes EXCEPT ![v].last = m,
                               ![v].all = {m} \cup IF incremental' THEN @ ELSE {}]
  /\ UNCHANGED <<src, setting, seen, tasks, failed>>

StatusOnly == incremental  \* a slip
ByStatus == incremental /\ ~emptyRun
Changed(i) == src[i] # seen[building][i]

Look(S) ==
  /\ S \subseteq todo /\ todo' = todo \ S
  /\ UNCHANGED <<settingVars, seen, buildVars, failed>>

NotChanged(i) ==
  /\ Look({i}) /\ ByStatus /\ ~Changed(i)
  /\ UNCHANGED <<out, tasks>>

\* forceDelete of a jar's output, delete of a file's
Remove(i) ==
  /\ Look({i}) /\ ByStatus /\ Changed(i) /\ src[i] = 0
  /\ out' = [out EXCEPT ![building][i] = Absent]
  /\ UNCHANGED tasks

\* transformJar, transformSingleFile, or transformDir for one of its files; an
\* empty run submits every jar, a removed one too.
Submit(i) ==
  /\ Look({i})
  /\ IF ByStatus THEN Changed(i) /\ src[i] # 0 ELSE i \in Jars \/ ~emptyRun
  /\ tasks' = tasks \cup {i}
  /\ UNCHANGED out

\* transformDir of an empty run: copyDirectory deletes nothing.
CopyDirectory ==
  /\ todo \cap Files # {} /\ Look(todo \cap Files) /\ ~ByStatus /\ emptyRun
  /\ out' = [out EXCEPT ![building] =
               [i \in Inputs |-> IF i \in Files /\ src[i] # 0
                                 THEN [form |-> "raw", of |-> src[i]] ELSE @[i]]]
  /\ UNCHANGED tasks

Finish(i, content) ==
  /\ i \in tasks /\ tasks' = tasks \ {i}
  /\ out' = [out EXCEPT ![building][i] = content]
  /\ UNCHANGED <<settingVars, seen, buildVars, todo>>

\* Copying a jar that is gone fails.
Missing(i) == src[i] = 0

WovenForm(i, c) == IF i \notin Weavable THEN "raw"
                   ELSE IF i \in Components /\ ~c THEN "bare" ELSE "woven"

\* copyFile, weaveJar or weaveSingleClassToFile.
RunTask(i) ==
  /\ ~(emptyRun /\ Missing(i))
  /\ Finish(i, [form |-> IF emptyRun THEN "raw" ELSE WovenForm(i, known), of |-> src[i]])
  /\ UNCHANGED failed

\* A class that cannot be woven leaves a truncated jar; a file's output is
\* touched but not yet overwritten.
ThrowTask(i) ==
  /\ IF emptyRun THEN Missing(i) /\ Finish(i, out[building][i])
     ELSE /\ i \in Weavable
          /\ Finish(i, IF i \in Files /\ out[building][i] # Absent THEN out[building][i]
                       ELSE [form |-> "partial", of |-> src[i]])
  /\ failed' = TRUE

\* waitForTasksWithQuickFail(true): Gradle rebuilds all after a failure.
End ==
  /\ building # None /\ todo = {} /\ (tasks = {} \/ failed)
  /\ seen' = [seen EXCEPT ![building] = IF failed THEN None ELSE src]
  /\ building' = None /\ tasks' = {} /\ failed' = FALSE
  /\ UNCHANGED <<settingVars, out, incremental, modes, todo>>

----------------------------------------------------------------------------
Build ==
  \/ \E i \in Inputs : NotChanged(i) \/ Remove(i) \/ Submit(i) \/ RunTask(i) \/ ThrowTask(i)
  \/ CopyDirectory
  \/ End

Next ==
  \/ \E i \in Inputs, k \in Versions : Edit(i, k)
  \/ EditManifest
  \/ \E s \in Settings, d \in BOOLEAN : Invoke(s, d)
  \/ \E v \in Variants : Begin(v)
  \/ Build

Spec == Init /\ [][Next]_vars

----------------------------------------------------------------------------
\* Every variable holds a value of its kind.
TypeOK ==
  /\ src \in [Inputs -> Versions] /\ setting \in Settings
  /\ known \in BOOLEAN /\ emptyRun \in BOOLEAN /\ manifests \subseteq Variants
  /\ out \in [Variants -> [Inputs -> Contents]]
  /\ \A v \in Variants : seen[v] = None \/ seen[v] \in [Inputs -> Versions]
  /\ building \in Variants \cup {None} /\ incremental \in BOOLEAN
  /\ todo \subseteq Inputs /\ tasks \subseteq Inputs /\ failed \in BOOLEAN
  /\ modes \in [Variants -> [all : SUBSET Modes, last : Modes]]

\* v was built without failure, and nothing is going on with it.
Built(v) == seen[v] # None /\ building # v

\* Incremental builds end where a full one would: as long as a variant was
\* always woven, in the same knowledge of the components, its output is what
\* weaving its sources from nothing gives.
WovenIsFull ==
  \A v \in Variants : \A c \in BOOLEAN :
    Built(v) /\ modes[v].all = {[empty |-> FALSE, known |-> c]} =>
      \A i \in Inputs :
        out[v][i] = IF seen[v][i] = 0 THEN Absent
                    ELSE [form |-> WovenForm(i, c), of |-> seen[v][i]]

\* An empty run leaves no woven class of a source that exists, whatever the
\* builds before it did.
EmptyCopies ==
  \A v \in Variants : Built(v) /\ modes[v].last.empty =>
    \A i \in Inputs : seen[v][i] # 0 => out[v][i] = [form |-> "raw", of |-> seen[v][i]]

=============================================================================
