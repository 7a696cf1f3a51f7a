--------------------------- MODULE MCVariableLock ---------------------------
(* An instance of VariableLock for TLC. *)
EXTENDS VariableLock

CONSTANTS t1, t2, t3, x, y, l1, l2, l3, l4
=============================================================================
