---------------------------- MODULE MCSizedDump ----------------------------
(* Small instances of SizedDump: a few references of one or two classes.    *)
EXTENDS SizedDump, TLC

CONSTANTS r1, r2, c1, c2

TwoRefs == {r1, r2}
TwoClasses == {c1, c2}

Apart == [r \in Refs |-> IF r = r2 THEN c2 ELSE c1]
=============================================================================
