------------------------- MODULE MCHunterTransform -------------------------
(* Small instances of HunterTransform: a jar, and a class file with a       *)
(* component of the manifest.                                               *)
EXTENDS HunterTransform, TLC

CONSTANTS jar, act, v1

OneJar == {jar}
OneFile == {act}
Woven == {jar, act}
Activities == {act}
OneVariant == {v1}
Debug == [v \in Variants |-> "debug"]
=============================================================================
