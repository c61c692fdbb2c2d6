------------------------- MODULE MCReferenceKernel -------------------------
(* Small instances of ReferenceKernel: three objects, two of one class, so  *)
(* that a list can be emptied, dropped and made again; and two of one class *)
(* for more threads.                                                        *)
EXTENDS ReferenceKernel, TLC

CONSTANTS w1, w2, w3, o1, o2, o3, c1, c2

ThreeOffers == {w1, w2, w3}
ThreeObjects == {o1, o2, o3}
TwoClasses == {c1, c2}
ThreeTargets == w1 :> o1 @@ w2 :> o2 @@ w3 :> o3
SharedClass == o1 :> c1 @@ o2 :> c1 @@ o3 :> c2

TwoOffers == {w1, w2}
TwoObjects == {o1, o2}
OneClass == {c1}
TwoTargets == w1 :> o1 @@ w2 :> o2
SameClass == o1 :> c1 @@ o2 :> c1
=============================================================================
