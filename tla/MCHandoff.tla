----------------------------- MODULE MCHandoff ------------------------------
(* A call of Handoff as a model value. *)
EXTENDS Handoff

CONSTANT c1
=============================================================================
