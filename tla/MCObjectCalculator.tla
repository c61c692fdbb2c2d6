------------------------ MODULE MCObjectCalculator ------------------------
(* Small instances of ObjectCalculator.                                     *)
EXTENDS ObjectCalculator, TLC

CONSTANTS a, b, c, s

\* a is an array of b twice, null and the string s, and b holds a: a cycle and a
\* shared object.
CyclicObjects == {a, b, s}
OneString == {s}
CyclicFields == a :> <<b, Null, s, b>> @@ b :> <<a>> @@ s :> <<>>
CyclicSize == a :> 1 @@ b :> 10 @@ s :> 100
Characters == s :> 0

\* A walk of a can fail with b on its work list; c has nothing to do with them.
ApartObjects == {a, b, c}
ApartFields == a :> <<b>> @@ b :> <<>> @@ c :> <<>>
ApartSize == a :> 1 @@ b :> 10 @@ c :> 100

NoStrings == [x \in {} |-> 0]
=============================================================================
