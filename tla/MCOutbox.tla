------------------------------ MODULE MCOutbox ------------------------------
(* Instances of Outbox: agents and records as model values.                 *)
EXTENDS Outbox, TLC

CONSTANTS r1, r2, r3, m1, m2, p1, p2, w1

OneMain == r1 :> "main"
PeerAndPlain == r1 :> "peer" @@ r2 :> "plain" @@ r3 :> "plain"

NoNotes == [n \in {} |-> m1]
NotesToMain == 1 :> m1 @@ 2 :> m1
=============================================================================
