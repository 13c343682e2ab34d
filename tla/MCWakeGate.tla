----------------------------- MODULE MCWakeGate -----------------------------
(* Values of the constants of WakeGate for TLC. *)
EXTENDS WakeGate

CONSTANTS q1, q2, q3, b1, x1, n1
=============================================================================
