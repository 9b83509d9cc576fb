--------------------------- MODULE MCWriteBehind ---------------------------
(* Small instances of WriteBehind. *)
EXTENDS WriteBehind

CONSTANTS c1, c2
=============================================================================
