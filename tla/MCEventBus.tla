----------------------------- MODULE MCEventBus -----------------------------
(* Instances of EventBus: events and missions as model values.              *)
EXTENDS EventBus, TLC

CONSTANTS e1, e2, e3, d1, m1, m2

TwoOfOne == e1 :> {m1} @@ e2 :> {m1}
EventAndConflict == e1 :> {m1} @@ e3 :> {m1, m2}
EventAndDanger == e1 :> {m1} @@ d1 :> {m1}
=============================================================================
