----------------------------- MODULE Interning -----------------------------
(* What the string pool of slicer's dex IR promises (dex_ir.h,             *)
(* strings_map and strings_lookup): a text is given an index once, keeps   *)
(* it for ever, and shares it with no other text.                          *)

CONSTANTS Text, Index

VARIABLE index         \* the texts in the pool, and the index of each

Init == index = [t \in {} |-> t]

Intern(t, i) ==
  /\ t \notin DOMAIN index
  /\ \A u \in DOMAIN index : index[u] # i
  /\ index' = [u \in DOMAIN index \cup {t} |-> IF u = t THEN i ELSE index[u]]

Next == \E t \in Text, i \in Index : Intern(t, i)
Spec == Init /\ [][Next]_index
-----------------------------------------------------------------------------
=============================================================================
