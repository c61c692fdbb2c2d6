---------------------------- MODULE DumpService ----------------------------
(* What ReferenceMgr promises, without saying how: a call of asyncOffer or  *)
(* dump returns at once; every dump is answered, in the order of the calls; *)
(* its report counts every object offered before it that is still live, and *)
(* nothing that was never offered.                                          *)
CONSTANTS Offers, Dumps, Objects, Target

VARIABLES live, posted, before, done, report

vars == <<live, posted, before, done, report>>

Init ==
  /\ live = Objects /\ posted = {} /\ done = {}
  /\ before = [d \in Dumps |-> {}] /\ report = [d \in Dumps |-> {}]

Offer(w) ==
  /\ w \notin posted /\ Target[w] \in live
  /\ posted' = posted \cup {w}
  /\ UNCHANGED <<live, before, done, report>>

Request(d) ==
  /\ d \notin posted
  /\ posted' = posted \cup {d} /\ before' = [before EXCEPT ![d] = posted]
  /\ UNCHANGED <<live, done, report>>

Collect(o) ==
  /\ o \in live /\ live' = live \ {o}
  /\ UNCHANGED <<posted, before, done, report>>

Owed(d) == {w \in before[d] \cap Offers : Target[w] \in live}

Deliver(d) ==
  /\ d \in posted \ done /\ before[d] \cap Dumps \subseteq done
  /\ done' = done \cup {d}
  /\ \E S \in SUBSET (posted \cap Offers) :
       Owed(d) \subseteq S /\ report' = [report EXCEPT ![d] = S]
  /\ UNCHANGED <<live, posted, before>>

Next ==
  \/ \E w \in Offers : Offer(w)
  \/ \E d \in Dumps : Request(d) \/ Deliver(d)
  \/ \E o \in Objects : Collect(o)

Safety == Init /\ [][Next]_vars
Spec == Safety /\ \A d \in Dumps : WF_vars(Deliver(d))
=============================================================================
