------------------------------ MODULE Delivery ------------------------------
(***************************************************************************)
(* What the outbox promises of a record, whatever happens to the plugin:   *)
(* it is stored first; `delivered' is written only after the record reached*)
(* an agent; an outcome is never taken back.  A record may reach agents    *)
(* more than once, also after its outcome is written.  Outbox implements   *)
(* this specification.                                                     *)
(***************************************************************************)
CONSTANT Records

VARIABLES
  state,   \* record -> its state in the store; "none" before it is stored
  reached  \* the records that reached an agent

vars == <<state, reached>>

Settled == {"delivered", "dropped", "withheld"}
States == {"none", "open"} \cup Settled

TypeOK == /\ state \in [Records -> States]
          /\ reached \subseteq Records

Init == /\ state = [r \in Records |-> "none"]
        /\ reached = {}

Store(r) ==
  /\ state[r] = "none"
  /\ \E s \in {"open", "withheld"} : state' = [state EXCEPT ![r] = s]
  /\ UNCHANGED reached

\* A message is sent with the stored records S in it.
Reach(S) ==
  /\ \A r \in S : state[r] \notin {"none", "withheld"}
  /\ reached' = reached \cup S
  /\ UNCHANGED state

\* Outcomes are written: D delivered, X dropped.
Settle(D, X) ==
  /\ D \subseteq reached
  /\ \A r \in D \cup X : state[r] = "open"
  /\ state' = [r \in Records |-> IF r \in D THEN "delivered"
                                 ELSE IF r \in X THEN "dropped" ELSE state[r]]
  /\ UNCHANGED reached

Next == \/ \E r \in Records : Store(r)
        \/ \E S \in SUBSET Records : Reach(S)
        \/ \E D, X \in SUBSET Records : Settle(D, X)

Spec == Init /\ [][Next]_vars
=============================================================================
