--------------------------- MODULE MCOverlayLife ---------------------------
(* A small instance of OverlayLife: two activities beside the permission's. *)
EXTENDS OverlayLife, TLC

CONSTANTS a1, a2

TwoActivities == {a1, a2}
=============================================================================
