---------------------------- MODULE MCStringPool ----------------------------
(* Two partitions that start with 2 buckets and hashes that collide, so    *)
(* that a handful of texts makes the table grow twice.                     *)
EXTENDS StringPool, TLC

MCText == 1..8
\* A text of the file that no class needs may stay unread.
MCFile == <<3, 1, 4, 2>>
MCHashOf == <<0, 6, 0, 12, 6, 0, 5, 4>>
=============================================================================
