---------------------------- MODULE OverlayLife ----------------------------
(* When the overlay is shown: ActivityLife.kt, WindowPop.kt,                *)
(* PermissionActivity.kt and AutoShowProvider.kt.  Everything but the       *)
(* permission happens on the main thread, one callback or message a step.   *)
(*                                                                          *)
(* isShown is whether the view was added: addView and removeView set its    *)
(* parent before they return.  Delays are not kept: a posted task runs at   *)
(* any time after it was posted, unless it is removed before.  A new        *)
(* instance of PermissionActivity after a rotation is left out.             *)
EXTENDS Naturals, FiniteSets

CONSTANTS Activities,          \* the application's own, one or more of them resumed at a time
          PermissionActivity,
          AtLeastM,            \* Build.VERSION.SDK_INT >= M
          MaxTasks,            \* bound: ShowHides ever made
          None

All == Activities \cup {PermissionActivity}
ShowHides == 1..MaxTasks

ASSUME ActivitiesAssumption == IsFiniteSet(Activities) /\ PermissionActivity \notin Activities
ASSUME BoundsAssumption == AtLeastM \in BOOLEAN /\ MaxTasks \in Nat /\ None \notin ShowHides

VARIABLES
  canDrawOverlays, \* the permission, changed by the user in another process
  windowPop,       \* it was made, and the callbacks registered
  attached,        \* popView.isShown
  resumed,         \* activities between onResume and onPause
  resumeCount,
  curShowHideRun,
  needShow,        \* the field of each ShowHide
  made,            \* ShowHides made
  poll,            \* the pool of recycled ShowHides
  posted,          \* how often each is posted to the main handler
  died,            \* Pools threw: already in the pool
  asked,           \* what PermissionActivity waits for: "dialog", "settings" or nothing
  launched,        \* PermissionActivity: "no", "started", "created"
  obeyed           \* the last ShowHide that ran found the permission (history)

taskVars == <<curShowHideRun, needShow, made, poll, posted, died>>
lifeVars == <<resumed, resumeCount>>
vars == <<canDrawOverlays, windowPop, attached, lifeVars, taskVars, asked, launched, obeyed>>

floatingPermissionOk == ~AtLeastM \/ canDrawOverlays

Init ==
  /\ canDrawOverlays \in BOOLEAN
  /\ windowPop = FALSE /\ attached = FALSE
  /\ resumed = {} /\ resumeCount = 0
  /\ curShowHideRun = None /\ needShow = [t \in ShowHides |-> FALSE]
  /\ made = 0 /\ poll = {} /\ posted = [t \in ShowHides |-> 0] /\ died = FALSE
  /\ asked = "nothing" /\ launched = "no" /\ obeyed = FALSE

----------------------------------------------------------------------------
(* ActivityLife.trigger                                                     *)

NotRemoved(t) == posted  \* a slip
Removed(t) == IF t = None THEN posted ELSE [posted EXCEPT ![t] = 0]

\* SimplePool(2) throws on an instance that it already holds.
Released(t) == IF t = None \/ Cardinality(poll) = 2 THEN poll ELSE poll \cup {t}

Trigger(show) ==
  LET old  == curShowHideRun
      pool == Released(old)
      new  == IF pool = {} THEN made + 1 ELSE CHOOSE t \in pool : TRUE
  IN /\ new \in ShowHides
     /\ died' = (died \/ old \in poll)
     /\ made' = IF pool = {} THEN new ELSE made
     /\ poll' = pool \ {new}
     /\ curShowHideRun' = new
     /\ needShow' = [needShow EXCEPT ![new] = show]
     /\ posted' = [Removed(old) EXCEPT ![new] = @ + 1]

\* Both callbacks show while some activity is resumed; and two ways to get
\* that wrong.
Decremented(n) == n - 1
AtLeastZero(n) == n >= 0
MoreThanOne(n) == n > 1
NeedShow(n) == n > 0

OnResumed(a) ==
  /\ a \notin resumed /\ resumed' = resumed \cup {a}
  /\ resumeCount' = resumeCount + 1
  /\ Trigger(NeedShow(resumeCount'))

OnPaused(a) ==
  /\ a \in resumed /\ resumed' = resumed \ {a}
  /\ resumeCount' = Decremented(resumeCount)
  /\ Trigger(NeedShow(resumeCount'))
  /\ UNCHANGED <<canDrawOverlays, windowPop, attached, asked, launched, obeyed>>

\* ShowHide.run on the main handler: nothing at all without the permission.
Attached(t) == IF floatingPermissionOk THEN needShow[t] ELSE attached
Run(t) ==
  /\ posted[t] > 0 /\ posted' = [posted EXCEPT ![t] = @ - 1]
  /\ attached' = Attached(t)
  /\ obeyed' = floatingPermissionOk
  /\ UNCHANGED <<canDrawOverlays, windowPop, lifeVars, curShowHideRun, needShow, made, poll,
                 died, asked, launched>>

----------------------------------------------------------------------------
(* AutoShowProvider and PermissionActivity                                  *)

\* WindowPop.attachDumpView
AttachDumpView ==
  /\ windowPop' = TRUE
  /\ IF floatingPermissionOk
     THEN attached' = TRUE /\ UNCHANGED launched
     ELSE launched' = "started" /\ UNCHANGED attached

\* Before any activity of the process.
ProviderOnCreate ==
  /\ ~windowPop /\ AttachDumpView
  /\ UNCHANGED <<canDrawOverlays, lifeVars, taskVars, asked, obeyed>>

\* An activity comes to the front; PermissionActivity only while it waits for
\* nothing, otherwise it comes with a result.
Resume(a) ==
  /\ windowPop /\ OnResumed(a)
  /\ IF a = PermissionActivity
     THEN /\ launched # "no" /\ asked = "nothing"
          /\ launched' = "created"
          /\ asked' = IF launched = "started" THEN "dialog" ELSE "nothing"
     ELSE UNCHANGED <<asked, launched>>
  /\ UNCHANGED <<canDrawOverlays, windowPop, attached, obeyed>>

\* logicPermission, when a dialog or the settings give their result; the
\* system resumes the activity in the same message.
LogicPermission ==
  /\ asked # "nothing"
  /\ IF floatingPermissionOk
     THEN AttachDumpView /\ asked' = "nothing"
     ELSE asked' \in {"dialog", "settings"} /\ UNCHANGED <<windowPop, attached, launched>>
  /\ OnResumed(PermissionActivity)
  /\ UNCHANGED <<canDrawOverlays, obeyed>>

\* The user grants or revokes the permission.
SetPermission ==
  /\ canDrawOverlays' = ~canDrawOverlays
  /\ UNCHANGED <<windowPop, attached, lifeVars, taskVars, asked, launched, obeyed>>

----------------------------------------------------------------------------
Next ==
  \/ ProviderOnCreate
  \/ \E a \in All : Resume(a) \/ OnPaused(a)
  \/ \E t \in ShowHides : Run(t)
  \/ LogicPermission
  \/ SetPermission

\* The main looper runs what is posted.
Fairness == \A t \in ShowHides : WF_vars(Run(t))
FairSpec == Init /\ [][Next]_vars /\ Fairness

----------------------------------------------------------------------------
\* Every variable holds a value of its kind.
TypeOK ==
  /\ canDrawOverlays \in BOOLEAN /\ windowPop \in BOOLEAN /\ attached \in BOOLEAN
  /\ resumed \subseteq All /\ resumeCount \in 0..Cardinality(All)
  /\ curShowHideRun \in ShowHides \cup {None} /\ needShow \in [ShowHides -> BOOLEAN]
  /\ made \in 0..MaxTasks /\ poll \subseteq ShowHides /\ posted \in [ShowHides -> Nat]
  /\ died \in BOOLEAN
  /\ asked \in {"nothing", "dialog", "settings"} /\ launched \in {"no", "started", "created"}
  /\ obeyed \in BOOLEAN

Pending == \E t \in ShowHides : posted[t] > 0

\* ShowHides are recycled with a field that the next trigger overwrites: none is
\* given back twice, only the last one is posted, only once, and it wants what
\* the activities say.
OneTask ==
  /\ ~died
  /\ \A t \in ShowHides : posted[t] > 0 =>
       t = curShowHideRun /\ posted[t] = 1 /\ needShow[t] = (resumed # {})

\* When nothing is posted and the last task found the permission, the overlay
\* is there exactly when an activity is.
Settled == obeyed /\ ~Pending => attached = (resumed # {})

\* The last activity's pause takes the overlay away, and a resumed activity
\* gets it, unless the activities change their mind or the permission goes.
FollowsActivities ==
  /\ (resumed = {} /\ Pending) ~> (~attached \/ resumed # {} \/ ~floatingPermissionOk)
  /\ (resumed # {} /\ Pending) ~> (attached \/ resumed = {} \/ ~floatingPermissionOk)
============================================================================
