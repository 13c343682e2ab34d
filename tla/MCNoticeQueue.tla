-------------------------- MODULE MCNoticeQueue --------------------------
(***************************************************************************)
(* Instances of NoticeQueue for TLC.  Every notice of the run is one model *)
(* value; these functions give its kind, batch and group.                  *)
(***************************************************************************)
EXTENDS NoticeQueue, TLC

CONSTANTS a, b, c, p1, p2, events

Symmetry == Permutations(Tasks)

\* Three single notices, two of one kind.
SingleKind == (a :> 1) @@ (b :> 1) @@ (c :> 2)
SingleBatch == [e \in Entries |-> NoBatch]
NoGroup == [e \in Entries |-> 0]

\* The owner's words, and an item of each of two groups of a batch.
OwnKinds == (a :> 1) @@ (b :> 2) @@ (c :> 3)
WordAndEvents == (a :> NoBatch) @@ (b :> events) @@ (c :> events)
TwoGroups == (a :> 0) @@ (b :> 1) @@ (c :> 2)
=============================================================================
