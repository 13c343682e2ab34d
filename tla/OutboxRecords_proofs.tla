------------------------ MODULE OutboxRecords_proofs ------------------------
(***************************************************************************)
(* Proofs about what becomes of the records of Outbox, for every number of *)
(* records, agents, notes and reloads: a drop is told, a note is shown     *)
(* only when it was read, no pending record is forgotten, and until a      *)
(* reload or a new Main one thing at a time delivers a record.             *)
(***************************************************************************)
EXTENDS Outbox_proofs, WellFoundedInduction, FiniteSetTheorems

-----------------------------------------------------------------------------
(* The store, as every step changes it.                                    *)

\* The gate's and the releases' writes.
HoldsSome == UNCHANGED state \/ \E S, s : s \in {"pending", "held"} /\ state' = Hold(S, s)

LEMMA CarryOnStore ==
  ASSUME NEW c, NEW d, NEW tos, CarryOn(c, d, tos)
  PROVE  HoldsSome /\ UNCHANGED <<note, predates, alert>>
  BY DEF CarryOn, HoldsSome

LEMMA BeginStore ==
  ASSUME NEW c, NEW d, Begin(c, d)
  PROVE  HoldsSome /\ UNCHANGED <<note, predates, alert>>
  BY CarryOnStore DEF Begin, HoldsSome, store

\* A step writes outcomes, or no record is dropped by it; the alert is raised
\* and cleared with the outcomes, or cleared by the end of the request.
WritesOutcome == \E D, X : Outcome(D, X) /\ (D = {} \/ UNCHANGED to) /\ UNCHANGED excused
WritesNone ==
  /\ UNCHANGED <<predates, alert, excused>>
  /\ \A r \in Records : state'[r] = "dropped" => state[r] = "dropped"

LEMMA HoldsNone ==
  ASSUME HoldsSome, UNCHANGED <<predates, alert, excused>>
  PROVE  WritesNone
  BY DEF HoldsSome, WritesNone, Hold

LEMMA WriteKinds ==
  ASSUME Inv, [Next]_vars
  PROVE  WritesOutcome \/ WritesNone \/ EndRequest
<1>1. ASSUME NEW r \in Records, Post(r) \/ Withhold(r)
      PROVE  WritesNone
  BY <1>1 DEF Post, Withhold, WritesNone, history, Inv, TypeOK
<1>2. ASSUME NEW n \in Notes, PostNote(n)
      PROVE  WritesNone
  BY <1>2 DEF PostNote, WritesNone, history
<1>3. ASSUME NEW a \in Agents, Release(a)
      PROVE  WritesNone
  BY <1>3, HoldsNone DEF Release, HoldsSome, history
<1>4. CASE (\E m \in Mains : ReplaceMain(m)) \/ EndMission \/ PeerChanges \/ Reload \/ Replacement \/ Resending \/ UNCHANGED vars
  BY <1>4 DEF ReplaceMain, EndMission, PeerChanges, Reload, Replacement, MoveQueue, ListFormer, Resending, Resume,
              ListOpen, WritesNone, store, history, vars
<1>5. ASSUME NEW r \in Records, DeliverStored(r)
      PROVE  WritesNone
  BY <1>5, BeginStore, HoldsNone DEF DeliverStored, history
<1>6. ASSUME NEW c \in Callers, Resolved(c)
      PROVE  WritesOutcome \/ WritesNone
  <2>1. (\E d, tos : CarryOn(c, d, tos)) \/ \E X : Outcome({}, X)
    BY <1>6 DEF Resolved
  <2> QED
    BY <1>6, <2>1, CarryOnStore, HoldsNone DEF Resolved, WritesOutcome, history
<1>7. ASSUME NEW l \in Loops, LoopNext(l)
      PROVE  WritesNone
  BY <1>7, BeginStore, HoldsNone DEF LoopNext, history
<1>8. ASSUME NEW a \in Agents, Take(a)
      PROVE  WritesNone
  <2>1. \E S : state' = Hold(S, "held")
    BY <1>8 DEF Take
  <2> QED
    BY <1>8, <2>1, HoldsNone DEF Take, HoldsSome, history
<1>9. ASSUME NEW a \in Agents, Reach(a)
      PROVE  WritesNone
  BY <1>9 DEF Reach, WritesNone, store
<1>10. ASSUME NEW a \in Agents, Sent(a) \/ Failed(a)
       PROVE  WritesOutcome
  <2>1. \E D, X : Outcome(D, X) /\ (D = {} \/ UNCHANGED to)
    BY <1>10 DEF Sent, Failed
  <2> QED
    BY <1>10, <2>1 DEF Sent, Failed, WritesOutcome, history
<1>11. ASSUME NEW c \in copies, Asked(c)
       PROVE  WritesOutcome \/ WritesNone
  <2>1. Outcome({}, {c.rec}) \/ UNCHANGED <<state, predates, alert>>
    BY <1>11 DEF Asked
  <2> QED
    BY <1>11, <2>1 DEF Asked, WritesOutcome, WritesNone, history
<1> QED
  BY <1>1, <1>2, <1>3, <1>4, <1>5, <1>6, <1>7, <1>8, <1>9, <1>10, <1>11 DEF Next, Environment, Answer

-----------------------------------------------------------------------------
(* A drop is told.                                                         *)

\* A delivered record created after d's drop, to the same target, of its kind.
Followed(d) ==
  \E r \in Records \ predates[d] : state[r] = "delivered" /\ to[r] = to[d] /\ Class[r] = Class[d]

LEMMA FollowedStays ==
  ASSUME Inv, KeepsSettled, NEW d \in Records, state[d] = "dropped", predates'[d] = predates[d], Followed(d)
  PROVE  Followed(d)'
  BY DEF KeepsSettled, Settled, Followed

LEMMA OutcomeTold ==
  ASSUME Inv, DropIsTold, KeepsSettled, NEW D, NEW X, Outcome(D, X),
         D = {} \/ UNCHANGED to, UNCHANGED excused
  PROVE  DropIsTold'
<1> DEFINE done == {r \in D : IsOpenRecord(r)}
           lost == {r \in X : IsOpenRecord(r)}
<1>1. /\ state' = [r \in Records |-> IF r \in done THEN "delivered" ELSE IF r \in lost THEN "dropped" ELSE state[r]]
      /\ predates' = [r \in Records |-> IF r \in lost THEN {s \in Records : IsStored(s)} ELSE predates[r]]
      /\ alert' = (lost # {} \/ (alert /\ ~(done # {} /\ DropsCovered(state', predates'))))
  BY DEF Outcome
<1>a. done # {} => UNCHANGED to
  OBVIOUS
<1> HIDE DEF done, lost
<1>2. SUFFICES ASSUME NEW d \in Records \ excused, state'[d] = "dropped", ~alert'
               PROVE  Followed(d)'
  BY DEF DropIsTold, Followed
<1>3. lost = {}
  BY <1>1, <1>2
<1>4. state[d] = "dropped" /\ predates'[d] = predates[d]
  BY <1>1, <1>2, <1>3
<1>5. CASE alert
  <2>1. DropsCovered(state', predates') /\ UNCHANGED to
    BY <1>1, <1>2, <1>5, <1>a
  <2>2. PICK r \in Records \ predates'[d] : state'[r] = "delivered" /\ to[r] = to[d] /\ Class[r] = Class[d]
    BY <1>2, <2>1 DEF DropsCovered
  <2> QED
    BY <2>1, <2>2 DEF Followed
<1>6. CASE ~alert
  BY <1>4, <1>6, FollowedStays DEF DropIsTold, Followed
<1> QED
  BY <1>5, <1>6

LEMMA ToldStep == ASSUME Inv, DropIsTold, [Next]_vars PROVE DropIsTold'
<1>1. KeepsSettled
  BY StepSound DEF Sound
<1>2. CASE WritesOutcome
  BY <1>1, <1>2, OutcomeTold DEF WritesOutcome
<1>3. CASE WritesNone
  <2>1. ASSUME NEW d \in Records \ excused', state'[d] = "dropped", ~alert'
        PROVE  Followed(d)'
    <3>1. state[d] = "dropped" /\ predates'[d] = predates[d] /\ d \notin excused /\ ~alert
      BY <1>3, <2>1 DEF WritesNone
    <3> QED
      BY <1>1, <3>1, FollowedStays DEF DropIsTold, Followed
  <2> QED
    BY <2>1 DEF DropIsTold, Followed
<1>4. CASE EndRequest
  BY <1>4 DEF EndRequest, DropIsTold
<1> QED
  BY <1>2, <1>3, <1>4, WriteKinds

\* The delivery-dropped alert stands until a record of the same target and
\* kind is delivered after every drop, or the request ends (recordOutcome and
\* clearDroppedAlert of the code).
THEOREM DropsAreTold == Spec => []DropIsTold
<1>1. Init => DropIsTold
  BY DEF Init, DropIsTold
<1>2. Inv /\ DropIsTold /\ [Next]_vars => DropIsTold'
  BY ToldStep
<1> QED
  BY <1>1, <1>2, InvHolds, PTL DEF Spec

-----------------------------------------------------------------------------
(* A note shown was read.                                                  *)

IsStoredNote(n) == note[n] # "none"
WasRead(n) == \E m \in Notes, a \in Agents : m >= n /\ <<m, a>> \in read

\* The notes stored so far have a newest one; copies carry stored notes, and
\* those of a message the agent took were read.
NotesInv ==
  /\ \E last \in Nat : \A n \in Notes : IsStoredNote(n) => n <= last
  /\ \A c \in copies : \A n \in c.lead : IsStoredNote(n)
  /\ \A c \in copies : c.stage = "taken" => \A n \in c.lead : WasRead(n)
  /\ ShownWasRead

\* A nonempty set of numbers up to `last' has a greatest one.
LEMMA HasGreatest ==
  ASSUME NEW S \in SUBSET Nat, S # {}, NEW last \in Nat, \A n \in S : n <= last
  PROVE  \E m \in S : \A n \in S : n <= m
<1> DEFINE R == OpToRel(<, Nat)
           T == {k \in Nat : \E n \in S : k = last - n}
<1>1. T \subseteq Nat /\ T # {}
  <2>1. PICK n \in S : TRUE
    OBVIOUS
  <2>2. last - n \in Nat
    BY <2>1
  <2> QED
    BY <2>1, <2>2
<1>2. PICK k \in T : \A j \in T : <<j, k>> \notin R
  BY <1>1, WFMin, NatLessThanWellFounded
<1>3. \A j \in T : ~(j < k)
  BY <1>1, <1>2 DEF OpToRel
<1>4. PICK m \in S : k = last - m
  BY <1>2
<1>5. ASSUME NEW n \in S PROVE n <= m
  <2>1. last - n \in T
    BY <1>5
  <2>2. ~(last - n < k)
    BY <1>3, <2>1
  <2> QED
    BY <1>4, <2>2
<1> QED
  BY <1>5

\* The newest of what a message carries is listed.
LEMMA NewestListed ==
  ASSUME NEW lead \in SUBSET Notes, NEW n \in lead, NEW last \in Nat, \A m \in lead : m <= last
  PROVE  \E m \in Listed(lead) : m >= n
<1>1. lead \subseteq Nat
  BY OutboxAssumption
<1>2. PICK m \in lead : \A k \in lead : k <= m
  BY <1>1, HasGreatest
<1>3. {k \in lead : k > m} = {}
  <2>1. \A k \in lead : ~(k > m)
    BY <1>1, <1>2
  <2> QED
    BY <2>1
<1>4. Cardinality({k \in lead : k > m}) = 0
  BY <1>3, FS_EmptySet
<1>5. m \in Listed(lead)
  BY <1>4, OutboxAssumption DEF Listed
<1> QED
  BY <1>1, <1>2, <1>5

\* New copies are not taken yet and carry stored notes.
NewCopy(c) == c.stage # "taken" /\ \A n \in c.lead : IsStoredNote(n)
OldOrNew == \A c \in copies' : c \in copies \/ NewCopy(c)

LEMMA AttemptLead ==
  ASSUME NEW r, NEW a, NEW tries, NEW lead, NEW by
  PROVE  /\ Attempt(r, a, tries, lead, by).lead = lead /\ Attempt(r, a, tries, lead, by).stage = "queued"
         /\ Released(r, a, lead, by).lead = lead /\ Released(r, a, lead, by).stage = "queued"
  BY DEF Attempt, Released

LEMMA LeadStored == ASSUME NEW a PROVE \A n \in Lead(a) : IsStoredNote(n)
  BY DEF Lead, IsStoredNote

LEMMA CarryOnCopies == ASSUME NEW c, NEW d, NEW tos, CarryOn(c, d, tos) PROVE OldOrNew
<1> DEFINE moved == Class[d.rec] = "main" /\ d.to # mission.main /\ IsOpenRecord(d.rec)
           at == IF moved THEN mission.main ELSE d.to
           free == HeldItems(at) \ {d.rec}
<1>1. \/ UNCHANGED copies
      \/ copies' = Put(copies, {Attempt(d.rec, at, 0, Lead(at), c)})
      \/ copies' = Put(copies, {Released(d.rec, at, Lead(at), c)}
                                 \cup {Released(r, at, {}, "release") : r \in free})
  BY DEF CarryOn
<1> HIDE DEF at, free
<1>2. PICK a, held : \/ UNCHANGED copies
                     \/ copies' = Put(copies, {Attempt(d.rec, a, 0, Lead(a), c)})
                     \/ copies' = Put(copies, {Released(d.rec, a, Lead(a), c)}
                                                \cup {Released(r, a, {}, "release") : r \in held})
  BY <1>1
<1>3. NewCopy(Attempt(d.rec, a, 0, Lead(a), c)) /\ NewCopy(Released(d.rec, a, Lead(a), c))
  BY AttemptLead, LeadStored DEF NewCopy
<1>4. \A r : NewCopy(Released(r, a, {}, "release"))
  BY AttemptLead DEF NewCopy
<1> QED
  BY <1>2, <1>3, <1>4, PutType DEF OldOrNew

LEMMA BeginCopies == ASSUME NEW c, NEW d, Begin(c, d) PROVE OldOrNew
  BY CarryOnCopies DEF Begin, OldOrNew

\* A copy moved on in the same call carries what it carried.
LEMMA MovedCopy ==
  ASSUME Inv, NotesInv, NEW c \in copies
  PROVE  /\ \A s \in {"queued", "sending", "asking"} : NewCopy([c EXCEPT !.stage = s])
         /\ c.stage = "queued" => \A a : NewCopy([c EXCEPT !.at = a])
         /\ \A r, a, tries, by : NewCopy(Attempt(r, a, tries, c.lead, by))
<1>1. c \in Copy
  BY DEF Inv, TypeOK
<1>2. \A n \in c.lead : IsStoredNote(n)
  BY DEF NotesInv
<1>3. \A s \in {"queued", "sending", "asking"} : [c EXCEPT !.stage = s].stage = s /\ [c EXCEPT !.stage = s].lead = c.lead
  BY <1>1 DEF Copy, Fields
<1>4. \A a : [c EXCEPT !.at = a].stage = c.stage /\ [c EXCEPT !.at = a].lead = c.lead
  BY <1>1 DEF Copy, Fields
<1> QED
  BY <1>2, <1>3, <1>4, AttemptLead DEF NewCopy

LEMMA CopiesStep ==
  ASSUME Inv, NotesInv, [Next]_vars, \A a \in Agents : ~Reach(a)
  PROVE  OldOrNew
<1>1. ASSUME NEW r \in Records, Post(r) \/ Withhold(r)
      PROVE  OldOrNew
  BY <1>1 DEF Post, Withhold, run, OldOrNew
<1>2. ASSUME NEW a \in Agents, Release(a)
      PROVE  OldOrNew
  <2>1. \A r : NewCopy(Released(r, a, {}, "release"))
    BY AttemptLead DEF NewCopy
  <2> QED
    BY <1>2, <2>1, PutType DEF Release, OldOrNew
<1>3. CASE \/ \E n \in Notes : PostNote(n)
           \/ (\E m \in Mains : ReplaceMain(m)) \/ EndMission \/ EndRequest \/ PeerChanges \/ Reload
           \/ ListFormer \/ Resending \/ UNCHANGED vars
  BY <1>3 DEF PostNote, ReplaceMain, EndMission, EndRequest, PeerChanges, Reload, ListFormer, Resending, Resume,
              ListOpen, OldOrNew, run, vars
<1>4. CASE MoveQueue
  <2> DEFINE moved == {c \in copies : c.stage = "queued" /\ c.at = mission.last}
             new == {[c EXCEPT !.at = mission.main] : c \in moved}
  <2>1. copies' = Put(copies \ moved, new)
    BY <1>4 DEF MoveQueue
  <2>2. ASSUME NEW c \in moved
        PROVE  NewCopy([c EXCEPT !.at = mission.main])
    BY MovedCopy
  <2>3. \A b \in new : NewCopy(b)
    BY <2>2
  <2> HIDE DEF moved, new
  <2> QED
    BY <2>1, <2>3, PutType DEF OldOrNew
<1>5. ASSUME NEW r \in Records, DeliverStored(r)
      PROVE  OldOrNew
  BY <1>5, BeginCopies DEF DeliverStored
<1>6. ASSUME NEW c \in Callers, Resolved(c)
      PROVE  OldOrNew
  <2>1. (\E d, tos : CarryOn(c, d, tos)) \/ UNCHANGED copies
    BY <1>6 DEF Resolved
  <2> QED
    BY <2>1, CarryOnCopies DEF OldOrNew
<1>7. ASSUME NEW l \in Loops, LoopNext(l)
      PROVE  OldOrNew
  BY <1>7, BeginCopies DEF LoopNext
<1>8. ASSUME NEW a \in Agents, Take(a)
      PROVE  OldOrNew
  <2>1. PICK msg \in SUBSET copies, held \in SUBSET copies :
          copies' = (copies \ msg) \cup {[b EXCEPT !.stage = "sending"] : b \in msg \ held}
    BY <1>8 DEF Take, At
  <2> QED
    BY <2>1, MovedCopy DEF OldOrNew
<1>9. ASSUME NEW a \in Agents, Sent(a)
      PROVE  OldOrNew
  BY <1>9 DEF Sent, OldOrNew
<1>10. ASSUME NEW a \in Agents, Failed(a)
       PROVE  OldOrNew
  <2>1. PICK msg \in SUBSET copies, asks \in SUBSET copies, moves \in SUBSET copies :
          copies' = Put((copies \ msg) \cup {[c EXCEPT !.stage = "asking"] : c \in asks},
                        {Attempt(c.rec, mission.main, c.tries + 1, c.lead, c.by) : c \in moves})
    <3> DEFINE msg == At(a, {"sending", "taken"})
               moves == {c \in msg : MayMove(c) /\ IsOpenRecord(c.rec)}
               asks == {c \in msg : MayAsk(c)}
    <3>1. copies' = Put((copies \ msg) \cup {[c EXCEPT !.stage = "asking"] : c \in asks},
                        {Attempt(c.rec, mission.main, c.tries + 1, c.lead, c.by) : c \in moves})
      BY <1>10 DEF Failed
    <3>2. msg \subseteq copies /\ moves \subseteq copies /\ asks \subseteq copies
      BY DEF At
    <3> HIDE DEF msg, moves, asks
    <3> QED
      BY <3>1, <3>2
  <2>2. \A b \in {[c EXCEPT !.stage = "asking"] : c \in asks} : NewCopy(b)
    BY MovedCopy
  <2>4. ASSUME NEW c \in moves
        PROVE  NewCopy(Attempt(c.rec, mission.main, c.tries + 1, c.lead, c.by))
    BY MovedCopy
  <2>3. \A b \in {Attempt(c.rec, mission.main, c.tries + 1, c.lead, c.by) : c \in moves} : NewCopy(b)
    BY <2>4
  <2> QED
    BY <2>1, <2>2, <2>3, PutType DEF OldOrNew
<1>11. ASSUME NEW c \in copies, Asked(c)
       PROVE  OldOrNew
  <2>1. copies' = copies \ {c} \/ \E a : copies' = Put(copies \ {c}, {Again(c, a)})
    BY <1>11 DEF Asked
  <2>2. ASSUME NEW a
        PROVE  NewCopy(Again(c, a))
    BY MovedCopy DEF Again
  <2>3. ASSUME NEW a, copies' = Put(copies \ {c}, {Again(c, a)})
        PROVE  OldOrNew
    <3> DEFINE b == Again(c, a)
    <3>1. NewCopy(b)
      BY <2>2
    <3>2. copies' = Put(copies \ {c}, {b})
      BY <2>3
    <3> HIDE DEF b
    <3> QED
      BY <3>1, <3>2, PutType DEF OldOrNew
  <2>4. CASE copies' = copies \ {c}
    BY <2>4 DEF OldOrNew
  <2> QED
    BY <2>1, <2>3, <2>4
<1> QED
  BY <1>1, <1>2, <1>3, <1>4, <1>5, <1>6, <1>7, <1>8, <1>9, <1>10, <1>11 DEF Next, Environment, Answer, Replacement

\* What is read stays read; notes are stored one at a time, and shown when
\* their message was sent.
LEMMA NotesWritten ==
  ASSUME Inv, NotesInv, [Next]_vars
  PROVE  /\ read \subseteq read'
         /\ \A n \in Notes : IsStoredNote(n) => IsStoredNote(n)'
         /\ \E k \in Nat : \A n \in Notes : IsStoredNote(n)' => IsStoredNote(n) \/ n = k
         /\ \A n \in Notes : note'[n] = "shown" =>
              note[n] = "shown" \/ \E c \in copies : c.stage = "taken" /\ n \in c.lead
<1>1. ASSUME NEW n \in Notes, PostNote(n)
      PROVE  /\ UNCHANGED read
             /\ \A m \in Notes : note'[m] = IF m = n THEN "stored" ELSE note[m]
  BY <1>1 DEF PostNote, history, Inv, TypeOK
<1>2. ASSUME NEW a \in Agents, Sent(a)
      PROVE  /\ UNCHANGED read
             /\ \A m \in Notes :
                  \/ note'[m] = note[m]
                  \/ note'[m] = "shown" /\ \E c \in copies : c.stage = "taken" /\ m \in c.lead
  <2>1. \A c \in At(a, {"taken"}) : c \in copies /\ c.stage = "taken"
    BY DEF At
  <2>2. note' = [n \in Notes |-> IF \E c \in At(a, {"taken"}) : n \in c.lead THEN "shown" ELSE note[n]]
    BY <1>2 DEF Sent
  <2>3. UNCHANGED read
    BY <1>2 DEF Sent, history
  <2> DEFINE taken == At(a, {"taken"})
  <2> HIDE DEF taken
  <2>4. ASSUME NEW m \in Notes
        PROVE  \/ note'[m] = note[m]
               \/ note'[m] = "shown" /\ \E c \in taken : m \in c.lead
    BY <2>2 DEF taken
  <2>5. \A c \in taken : c \in copies /\ c.stage = "taken"
    BY <2>1 DEF taken
  <2>6. ASSUME NEW m \in Notes
        PROVE  \/ note'[m] = note[m]
               \/ note'[m] = "shown" /\ \E c \in copies : c.stage = "taken" /\ m \in c.lead
    BY <2>4, <2>5
  <2> QED
    BY <2>3, <2>6
<1>4. ASSUME NEW r \in Records, DeliverStored(r) \/ Post(r) \/ Withhold(r)
      PROVE  UNCHANGED <<read, note>>
  BY <1>4, BeginStore DEF DeliverStored, Post, Withhold, history
<1>5. ASSUME NEW c \in Callers, Resolved(c)
      PROVE  UNCHANGED <<read, note>>
  <2>1. (\E d, tos : CarryOn(c, d, tos)) \/ UNCHANGED note
    BY <1>5 DEF Resolved
  <2> QED
    BY <1>5, <2>1, CarryOnStore DEF Resolved, history
<1>6. ASSUME NEW l \in Loops, LoopNext(l)
      PROVE  UNCHANGED <<read, note>>
  BY <1>6, BeginStore DEF LoopNext, history
<1>7. ASSUME NEW a \in Agents, Take(a) \/ Failed(a) \/ Release(a)
      PROVE  UNCHANGED <<read, note>>
  BY <1>7 DEF Take, Failed, Release, history
<1>8. ASSUME NEW a \in Agents, Reach(a)
      PROVE  read \subseteq read' /\ UNCHANGED note
  BY <1>8 DEF Reach, store
<1>9. CASE \/ (\E c \in copies : Asked(c)) \/ (\E m \in Mains : ReplaceMain(m)) \/ EndMission \/ EndRequest
           \/ PeerChanges \/ Reload \/ Replacement \/ Resending \/ UNCHANGED vars
  <2>1. UNCHANGED <<read, note>>
    BY <1>9 DEF Asked, ReplaceMain, EndMission, EndRequest, PeerChanges, Reload, Replacement, MoveQueue, ListFormer,
                Resending, Resume, ListOpen, store, history, vars
  <2> QED
    BY <2>1 DEF IsStoredNote
<1>10. ASSUME read \subseteq read', UNCHANGED note
       PROVE  /\ \A n \in Notes : IsStoredNote(n) <=> IsStoredNote(n)'
              /\ \A n \in Notes : note'[n] = "shown" => note[n] = "shown"
  BY <1>10 DEF IsStoredNote
<1>11. 0 \in Nat /\ Notes \subseteq Nat
  BY OutboxAssumption
<1>12. ASSUME NEW n \in Notes, PostNote(n)
       PROVE  /\ \A m \in Notes : IsStoredNote(m) => IsStoredNote(m)'
              /\ \A m \in Notes : IsStoredNote(m)' => IsStoredNote(m) \/ m = n
              /\ \A m \in Notes : note'[m] = "shown" => note[m] = "shown"
  BY <1>1, <1>12 DEF IsStoredNote
<1>13. ASSUME NEW a \in Agents, Sent(a)
       PROVE  \A m \in Notes : IsStoredNote(m) <=> IsStoredNote(m)'
  BY <1>2, <1>13 DEF IsStoredNote, NotesInv
<1> QED
  BY <1>1, <1>2, <1>4, <1>5, <1>6, <1>7, <1>8, <1>9, <1>10, <1>11, <1>12, <1>13 DEF Next, Environment, Answer

LEMMA ReachNotes ==
  ASSUME Inv, NotesInv, NEW a \in Agents, Reach(a)
  PROVE  NotesInv'
<1> DEFINE msg == At(a, {"sending"})
<1>1. /\ copies' = (copies \ msg) \cup {[c EXCEPT !.stage = "taken"] : c \in msg}
      /\ read' = read \cup (UNION {Listed(c.lead) : c \in msg}) \X {a}
      /\ UNCHANGED note
      /\ msg \subseteq copies /\ copies \subseteq Copy
  BY DEF Reach, store, At, Inv, TypeOK
<1> HIDE DEF msg
<1>2. \A n \in Notes : WasRead(n) => WasRead(n)'
  BY <1>1 DEF WasRead
<1>3. ASSUME NEW c \in msg
      PROVE  [c EXCEPT !.stage = "taken"].lead = c.lead
  BY <1>1 DEF Copy, Fields
<1>4. ASSUME NEW c \in msg, NEW n \in c.lead
      PROVE  WasRead(n)'
  <2>1. c.lead \in SUBSET Notes
    BY <1>1 DEF Copy, Fields
  <2>2. PICK last \in Nat : \A m \in Notes : IsStoredNote(m) => m <= last
    BY DEF NotesInv
  <2>3. \A m \in c.lead : m <= last
    BY <1>1, <2>1, <2>2 DEF NotesInv
  <2>4. PICK m \in Listed(c.lead) : m >= n
    BY <1>4, <2>1, <2>3, NewestListed
  <2>5. m \in Notes /\ <<m, a>> \in read'
    BY <1>1, <2>1 DEF Listed
  <2> QED
    BY <2>4, <2>5 DEF WasRead
<1>5. \A c \in copies' : \/ c \in copies
                         \/ \E b \in msg : c.lead = b.lead
  BY <1>1, <1>3
<1>6. \A c \in copies' : \A n \in c.lead : n \in Notes /\ IsStoredNote(n)
  BY <1>1, <1>5 DEF NotesInv, Copy, Fields
<1>7. \A c \in copies' : c.stage = "taken" => \A n \in c.lead : WasRead(n)'
  <2>1. ASSUME NEW c \in copies, c.stage = "taken", NEW n \in c.lead
        PROVE  WasRead(n)'
    <3>1. n \in Notes /\ WasRead(n)
      BY <1>1, <2>1 DEF NotesInv, Copy, Fields
    <3> QED
      BY <1>2, <3>1
  <2> QED
    BY <1>4, <1>5, <2>1
<1>8. ShownWasRead'
  BY <1>1, <1>2 DEF NotesInv, ShownWasRead, WasRead
<1> QED
  BY <1>1, <1>6, <1>7, <1>8 DEF NotesInv, IsStoredNote

LEMMA NotesStep == ASSUME Inv, NotesInv, [Next]_vars PROVE NotesInv'
<1>1. CASE \E a \in Agents : Reach(a)
  BY <1>1, ReachNotes
<1>2. CASE \A a \in Agents : ~Reach(a)
  <2>1. OldOrNew
    BY <1>2, CopiesStep
  <2>2. \A c \in copies : \A n \in c.lead : n \in Notes
    BY DEF Inv, TypeOK, Copy, Fields
  <2>3. Inv'
    BY StepSound DEF Sound
  <2>4. \A c \in copies' : \A n \in c.lead : n \in Notes
    BY <2>3 DEF Inv, TypeOK, Copy, Fields
  <2>5. \A n \in Notes : WasRead(n) => WasRead(n)'
    BY NotesWritten DEF WasRead
  <2>6. \E last \in Nat : \A n \in Notes : IsStoredNote(n)' => n <= last
    <3>1. PICK last \in Nat : \A n \in Notes : IsStoredNote(n) => n <= last
      BY DEF NotesInv
    <3>2. PICK k \in Nat : \A n \in Notes : IsStoredNote(n)' => IsStoredNote(n) \/ n = k
      BY NotesWritten
    <3>3. Notes \subseteq Nat
      BY OutboxAssumption
    <3>4. \A n \in Notes : IsStoredNote(n)' => n <= last + k
      BY <3>1, <3>2, <3>3
    <3>5. last + k \in Nat
      OBVIOUS
    <3> QED
      BY <3>4, <3>5
  <2>7. \A c \in copies' : \A n \in c.lead : IsStoredNote(n)'
    BY <2>1, <2>4, NotesWritten DEF NotesInv, OldOrNew, NewCopy
  <2>8. \A c \in copies' : c.stage = "taken" => \A n \in c.lead : WasRead(n)'
    BY <2>1, <2>2, <2>5 DEF NotesInv, OldOrNew, NewCopy
  <2>9. \A n \in Notes : note'[n] = "shown" => WasRead(n)'
    <3>1. \A n \in Notes : note'[n] = "shown" => WasRead(n)
      BY NotesWritten DEF NotesInv, ShownWasRead, WasRead
    <3> QED
      BY <2>5, <3>1
  <2>10. ShownWasRead'
    BY <2>9 DEF ShownWasRead, WasRead
  <2> QED
    BY <2>6, <2>7, <2>8, <2>10 DEF NotesInv
<1> QED
  BY <1>1, <1>2

\* A note is marked shown only when an agent read it or a newer one of its
\* message, whatever copies are moved, replaced, taken and lost (noTurnLeadOf
\* and the shown mark of the code).
THEOREM ShownNotesWereRead == Spec => []ShownWasRead
<1>1. Init => NotesInv
  <2> SUFFICES ASSUME Init PROVE NotesInv
    OBVIOUS
  <2>1. 0 \in Nat /\ \A n \in Notes : ~IsStoredNote(n)
    BY DEF Init, IsStoredNote
  <2> QED
    BY <2>1 DEF Init, NotesInv, ShownWasRead
<1>2. Inv /\ NotesInv /\ [Next]_vars => NotesInv'
  BY NotesStep
<1>3. NotesInv => ShownWasRead
  BY DEF NotesInv
<1> QED
  BY <1>1, <1>2, <1>3, InvHolds, PTL DEF Spec

-----------------------------------------------------------------------------
(* No pending record is forgotten.                                         *)

InCall(r) == \E c \in Callers : calls[c] # NoCall /\ calls[c].rec = r
InLoop(r) == \E l \in Loops : \E d \in left[l] : d.rec = r
InCopies(queue, r) == \E c \in queue : c.rec = r
Waits(r) == InCall(r) \/ InLoop(r) \/ InCopies(copies, r) \/ r \in parked \/ resend # "listed"

\* A stored record is delivered by its own call; a redelivery lists the
\* records of former Mains when it has delivered all it listed before.
WaitsInv ==
  /\ \A r \in Records : state[r] = "pending" => Waits(r)
  /\ \A r \in Records : calls[r] # NoCall => calls[r].rec = r
  /\ replacing # "no" => left["replace"] = {}

\* put replaces a copy by one of the same record.
LEMMA PutRecords ==
  ASSUME NEW queue, NEW new, NEW r, InCopies(queue, r) \/ InCopies(new, r)
  PROVE  InCopies(Put(queue, new), r)
  BY DEF InCopies, Put, SameKind

LEMMA AttemptRec ==
  ASSUME NEW r, NEW a, NEW tries, NEW lead, NEW by
  PROVE  Attempt(r, a, tries, lead, by).rec = r /\ Released(r, a, lead, by).rec = r
  BY DEF Attempt, Released

\* A record is delivered on in one go: it is in the queue afterwards, or the
\* gate holds it, or a release carries it already.
CarriesOn(rec) ==
  /\ \A r \in Records : InCopies(copies, r) => InCopies(copies', r)
  /\ \A r \in Records : state'[r] = "pending" => InCopies(copies', r) \/ (state[r] = "pending" /\ r # rec)

LEMMA CarryOnCarries ==
  ASSUME Inv, NEW c, NEW d, d.rec \in Records, NEW tos, CarryOn(c, d, tos)
  PROVE  CarriesOn(d.rec)
<1> DEFINE moved == Class[d.rec] = "main" /\ d.to # mission.main /\ IsOpenRecord(d.rec)
           at == IF moved THEN mission.main ELSE d.to
           unheld == IF (IF moved THEN state[d.rec] ELSE d.was) = "held" THEN {d.rec} ELSE {}
           held == HeldItems(at) \ {d.rec}
           one == Attempt(d.rec, at, 0, Lead(at), c)
           first == Released(d.rec, at, Lead(at), c)
           others == {Released(r, at, {}, "release") : r \in held}
<1>1. \/ IsReleasing(d.rec, at) /\ UNCHANGED <<state, copies>>
      \/ state' = Hold(unheld, "pending") /\ copies' = Put(copies, {one})
      \/ state' = Hold({d.rec}, "held") /\ UNCHANGED copies
      \/ state' = Hold(unheld \cup held, "pending") /\ copies' = Put(copies, {first} \cup others)
  BY DEF CarryOn
<1>2. unheld \subseteq {d.rec} /\ one.rec = d.rec /\ first.rec = d.rec
  BY AttemptRec
<1>3. ASSUME NEW r \in held
      PROVE  InCopies(others, r)
  <2>1. Released(r, at, {}, "release") \in others /\ Released(r, at, {}, "release").rec = r
    BY AttemptRec
  <2> QED
    BY <2>1 DEF InCopies
<1> HIDE DEF moved, at, unheld, held, one, first, others
<1>4. CASE IsReleasing(d.rec, at) /\ UNCHANGED <<state, copies>>
  BY <1>4 DEF IsReleasing, CarriesOn, InCopies
<1>5. CASE state' = Hold(unheld, "pending") /\ copies' = Put(copies, {one})
  <2>1. InCopies(copies', d.rec) /\ \A r \in Records : InCopies(copies, r) => InCopies(copies', r)
    <3>1. InCopies({one}, d.rec)
      BY <1>2 DEF InCopies
    <3> QED
      BY <1>5, <3>1, PutRecords
  <2>2. \A r \in Records : r # d.rec => state'[r] = state[r]
    BY <1>2, <1>5 DEF Hold
  <2> QED
    BY <2>1, <2>2 DEF CarriesOn
<1>6. CASE state' = Hold({d.rec}, "held") /\ UNCHANGED copies
  BY <1>6 DEF CarriesOn, InCopies, Hold, IsOpenRecord
<1>7. CASE state' = Hold(unheld \cup held, "pending") /\ copies' = Put(copies, {first} \cup others)
  <2>1. \A r \in held \cup {d.rec} : InCopies({first} \cup others, r)
    BY <1>2, <1>3 DEF InCopies
  <2>2. \A r : InCopies(copies, r) \/ r \in held \cup {d.rec} => InCopies(copies', r)
    BY <1>7, <2>1, PutRecords
  <2>3. \A r \in Records \ (held \cup {d.rec}) : state'[r] = state[r]
    BY <1>2, <1>7 DEF Hold
  <2> QED
    BY <2>2, <2>3 DEF CarriesOn
<1> QED
  BY <1>1, <1>4, <1>5, <1>6, <1>7

\* The call c delivers d, of which it had the only record.
LEMMA BeginWaits ==
  ASSUME Inv, WaitsInv, NEW c \in Callers, NEW d, IsGiven(d), Begin(c, d),
         calls[c] = NoCall \/ calls[c].rec = d.rec,
         \A l \in Loops : \A e \in left[l] : e \in left'[l] \/ e.rec = d.rec,
         UNCHANGED <<parked, resend>>
  PROVE  \A r \in Records : state'[r] = "pending" => Waits(r)'
<1>1. CASE /\ calls' = [calls EXCEPT ![c] = [rec |-> d.rec, to |-> d.to, was |-> d.was, stage |-> "asking"]]
           /\ Class[d.rec] = "peer" /\ UNCHANGED <<store, copies>>
  <2> DEFINE new == [rec |-> d.rec, to |-> d.to, was |-> d.was, stage |-> "asking"]
  <2>1. new \in Call /\ new.rec = d.rec
    BY <1>1 DEF IsGiven, Call
  <2>2. new # NoCall
    BY <2>1, NoCallAssumption
  <2> HIDE DEF new
  <2>3. calls' = [calls EXCEPT ![c] = new] /\ calls \in [Callers -> Call \cup {NoCall}]
    BY <1>1 DEF new, Inv, TypeOK
  <2>4. \A r \in Records : InCall(r) \/ r = d.rec => InCall(r)'
    BY <2>1, <2>2, <2>3 DEF InCall
  <2>5. \A r \in Records : InLoop(r) => InLoop(r)' \/ r = d.rec
    BY DEF InLoop
  <2>6. UNCHANGED <<state, copies>>
    BY <1>1 DEF store
  <2> QED
    BY <2>4, <2>5, <2>6 DEF WaitsInv, Waits
<1>2. CASE CarryOn(c, d, to)
  <2>1. CarriesOn(d.rec)
    BY <1>2, CarryOnCarries DEF IsGiven
  <2>2. calls' = [calls EXCEPT ![c] = NoCall] /\ calls \in [Callers -> Call \cup {NoCall}]
    BY <1>2 DEF CarryOn, Inv, TypeOK
  <2>3. \A r \in Records : InCall(r) => InCall(r)' \/ r = d.rec
    BY <2>2 DEF InCall
  <2>4. \A r \in Records : InLoop(r) => InLoop(r)' \/ r = d.rec
    BY DEF InLoop
  <2> QED
    BY <2>1, <2>3, <2>4 DEF WaitsInv, Waits, CarriesOn
<1> QED
  BY <1>1, <1>2 DEF Begin

\* Only the copies and the store change.
LEMMA CopiesWait ==
  ASSUME WaitsInv, UNCHANGED <<calls, left, resend, replacing>>, parked \subseteq parked',
         \A r \in Records : state'[r] = "pending" =>
           \/ InCopies(copies', r) \/ r \in parked'
           \/ state[r] = "pending" /\ (InCopies(copies, r) => InCopies(copies', r))
  PROVE  WaitsInv'
<1>1. \A r \in Records : state'[r] = "pending" => Waits(r)'
  BY DEF WaitsInv, Waits, InCall, InLoop
<1> QED
  BY <1>1 DEF WaitsInv

LEMMA CallsWait ==
  ASSUME Inv, WaitsInv,
         \/ \E r \in Records : Post(r) \/ DeliverStored(r)
         \/ \E c \in Callers : Resolved(c)
         \/ \E l \in Loops : LoopNext(l)
  PROVE  WaitsInv'
<1>0. /\ calls \in [Callers -> Call \cup {NoCall}] /\ left \in [Loops -> SUBSET Given]
      /\ \A l \in Loops : l \notin Records
      /\ "replace" \in Loops
  BY OutboxAssumption DEF Inv, TypeOK, Loops
<1>1. ASSUME NEW r \in Records, Post(r)
      PROVE  WaitsInv'
  <2>1. PICK a \in Agents : calls' = [calls EXCEPT ![r] = [rec |-> r, to |-> a, was |-> "pending", stage |-> "stored"]]
    BY <1>1, PostCall
  <2> DEFINE new == [rec |-> r, to |-> a, was |-> "pending", stage |-> "stored"]
  <2>2. new \in Call /\ new.rec = r
    BY DEF Call, States
  <2>3. calls' = [calls EXCEPT ![r] = new] /\ new # NoCall /\ r \in Callers
    BY <2>1, <2>2, NoCallAssumption DEF Callers
  <2> HIDE DEF new
  <2>4. /\ UNCHANGED <<left, copies, resend, replacing, parked>>
        /\ \A q \in Records : state'[q] = "pending" => q = r \/ state[q] = "pending"
    BY <1>1 DEF Post, history, Inv, TypeOK
  <2>5. \A q \in Records : InCall(q) \/ q = r => InCall(q)'
    BY <1>0, <2>2, <2>3 DEF InCall, WaitsInv
  <2>6. \A q \in Records : state'[q] = "pending" => Waits(q)'
    BY <2>4, <2>5 DEF WaitsInv, Waits, InLoop
  <2>7. \A q \in Records : calls'[q] # NoCall => calls'[q].rec = q
    BY <1>0, <2>2, <2>3 DEF WaitsInv, Callers
  <2> QED
    BY <2>4, <2>6, <2>7 DEF WaitsInv
<1>2. ASSUME NEW c \in Callers, NEW d, IsGiven(d), Begin(c, d), c \in Records => d.rec = c
      PROVE  \A q \in Records : calls'[q] # NoCall => calls'[q].rec = q
  <2>1. calls' = [calls EXCEPT ![c] = [rec |-> d.rec, to |-> d.to, was |-> d.was, stage |-> "asking"]]
        \/ calls' = [calls EXCEPT ![c] = NoCall]
    BY <1>2 DEF Begin, CarryOn
  <2> QED
    BY <1>0, <1>2, <2>1 DEF WaitsInv, Callers
<1>3. ASSUME NEW r \in Records, DeliverStored(r)
      PROVE  WaitsInv'
  <2>1. IsGiven(calls[r]) /\ Begin(r, calls[r]) /\ r \in Callers /\ calls[r].rec = r
    BY <1>3, GivenCall DEF DeliverStored, WaitsInv, Callers
  <2>2. UNCHANGED <<left, resend, replacing, parked>>
    BY <1>3 DEF DeliverStored, history
  <2>3. \A q \in Records : state'[q] = "pending" => Waits(q)'
    BY <2>1, <2>2, BeginWaits
  <2> QED
    BY <1>2, <2>1, <2>2, <2>3 DEF WaitsInv
<1>4. ASSUME NEW l \in Loops, LoopNext(l)
      PROVE  WaitsInv'
  <2>1. PICK d \in left[l] : left' = [left EXCEPT ![l] = @ \ {d}] /\ Begin(l, d)
    BY <1>4 DEF LoopNext
  <2>2. IsGiven(d) /\ l \in Callers /\ calls[l] = NoCall
    BY <1>4 DEF Inv, TypeOK, Carried, Given, IsGiven, LoopNext, Callers
  <2>3. UNCHANGED <<resend, replacing, parked>>
    BY <1>4 DEF LoopNext, history
  <2>4. /\ \A k \in Loops : \A e \in left[k] : e \in left'[k] \/ e.rec = d.rec
        /\ left["replace"] = {} => left'["replace"] = {}
    BY <1>0, <2>1
  <2>5. \A q \in Records : state'[q] = "pending" => Waits(q)'
    BY <2>1, <2>2, <2>3, <2>4, BeginWaits
  <2> QED
    BY <1>0, <1>2, <2>1, <2>2, <2>3, <2>4, <2>5 DEF WaitsInv
<1>5. ASSUME NEW c \in Callers, Resolved(c)
      PROVE  WaitsInv'
  <2> DEFINE d == calls[c]
  <2>1. IsGiven(d) /\ calls[c] # NoCall
    BY <1>5, GivenCall DEF Resolved
  <2>2. UNCHANGED <<left, resend, replacing, parked>>
    BY <1>5 DEF Resolved, history
  <2>3. calls' = [calls EXCEPT ![c] = NoCall]
    BY <1>5 DEF Resolved, CarryOn
  <2>4. \A q \in Records : InCall(q) => InCall(q)' \/ q = d.rec
    BY <1>0, <2>3 DEF InCall
  <2>5. \A q \in Records : state'[q] = "pending" => Waits(q)'
    <3>1. CASE Outcome({}, {d.rec}) /\ UNCHANGED copies
      <4>1. \A q \in Records : state'[q] = "pending" => state[q] = "pending" /\ q # d.rec
        BY <3>1 DEF Outcome, IsOpenRecord
      <4> QED
        BY <2>2, <2>4, <3>1, <4>1 DEF WaitsInv, Waits, InLoop
    <3>2. ASSUME NEW e, NEW tos, CarryOn(c, e, tos), e.rec = d.rec
          PROVE  \A q \in Records : state'[q] = "pending" => Waits(q)'
      <4>1. CarriesOn(d.rec)
        BY <2>1, <3>2, CarryOnCarries DEF IsGiven
      <4> QED
        BY <2>2, <2>4, <4>1 DEF WaitsInv, Waits, CarriesOn, InLoop
    <3>3. \/ Outcome({}, {d.rec}) /\ UNCHANGED copies
          \/ \E e, tos : CarryOn(c, e, tos) /\ e.rec = d.rec
      <4>1. \A a : [rec |-> d.rec, to |-> a, was |-> state[d.rec]].rec = d.rec
        OBVIOUS
      <4> QED
        BY <1>5, <4>1 DEF Resolved
    <3> QED
      BY <3>1, <3>2, <3>3
  <2>6. \A q \in Records : calls'[q] # NoCall => calls'[q].rec = q
    BY <1>0, <2>3 DEF WaitsInv, Callers
  <2> QED
    BY <2>2, <2>5, <2>6 DEF WaitsInv
<1> QED
  BY <1>1, <1>3, <1>4, <1>5

\* The records of a set of copies moved on.
LEMMA StageRec ==
  ASSUME Inv, NEW c \in copies
  PROVE  /\ \A s : [c EXCEPT !.stage = s].rec = c.rec
         /\ \A a : [c EXCEPT !.at = a].rec = c.rec
<1>1. c \in Copy
  BY DEF Inv, TypeOK
<1> QED
  BY <1>1 DEF Copy, Fields

\* Copies of S become copies of the same records.
LEMMA MovedOn ==
  ASSUME NEW S, NEW T, \A c \in S : \E b \in T : b.rec = c.rec,
         NEW r, InCopies(copies, r)
  PROVE  InCopies((copies \ S) \cup T, r)
  BY DEF InCopies

LEMMA TakeWaits == ASSUME Inv, WaitsInv, NEW a \in Agents, Take(a) PROVE WaitsInv'
<1>1. PICK msg \in SUBSET copies, held \in SUBSET copies :
        /\ copies' = (copies \ msg) \cup {[b EXCEPT !.stage = "sending"] : b \in msg \ held}
        /\ state' = Hold(RecordsOf(held), "held")
  BY DEF Take, At
<1> DEFINE sending == {[b EXCEPT !.stage = "sending"] : b \in msg \ held}
<1>2. ASSUME NEW b \in msg \ held
      PROVE  [b EXCEPT !.stage = "sending"] \in sending /\ [b EXCEPT !.stage = "sending"].rec = b.rec
  BY StageRec
<1>3. copies' = (copies \ msg) \cup sending
  BY <1>1
<1> HIDE DEF sending
<1>4. ASSUME NEW r \in Records, state'[r] = "pending"
      PROVE  state[r] = "pending" /\ (InCopies(copies, r) => InCopies(copies', r))
  <2>1. state[r] = "pending" /\ r \notin RecordsOf(held)
    BY <1>1, <1>4 DEF Hold, IsOpenRecord
  <2>2. ASSUME NEW c \in copies, c.rec = r
        PROVE  InCopies(copies', r)
    <3>1. c \notin held
      BY <2>1, <2>2 DEF RecordsOf
    <3>2. CASE c \in msg
      BY <1>2, <1>3, <2>2, <3>1, <3>2 DEF InCopies
    <3>3. CASE c \notin msg
      BY <1>3, <2>2, <3>3 DEF InCopies
    <3> QED
      BY <3>2, <3>3
  <2> QED
    BY <2>1, <2>2 DEF InCopies
<1> QED
  BY <1>4, CopiesWait DEF Take, history

LEMMA ReachWaits == ASSUME Inv, WaitsInv, NEW a \in Agents, Reach(a) PROVE WaitsInv'
<1> DEFINE msg == At(a, {"sending"})
           taken == {[c EXCEPT !.stage = "taken"] : c \in msg}
<1>1. msg \subseteq copies
  BY DEF At
<1>2. ASSUME NEW c \in msg
      PROVE  \E b \in taken : b.rec = c.rec
  <2>1. [c EXCEPT !.stage = "taken"] \in taken /\ [c EXCEPT !.stage = "taken"].rec = c.rec
    BY <1>1, StageRec
  <2> QED
    BY <2>1
<1>3. copies' = (copies \ msg) \cup taken
  BY DEF Reach
<1> HIDE DEF msg, taken
<1>4. \A r \in Records : InCopies(copies, r) => InCopies(copies', r)
  BY <1>2, <1>3, MovedOn
<1> QED
  BY <1>4, CopiesWait DEF Reach, store

LEMMA SentWaits == ASSUME Inv, WaitsInv, NEW a \in Agents, Sent(a) PROVE WaitsInv'
<1> DEFINE msg == At(a, {"taken"})
<1>1. copies' = copies \ msg /\ Outcome(RecordsOf(msg), {})
  BY DEF Sent
<1> HIDE DEF msg
<1>2. ASSUME NEW r \in Records, state'[r] = "pending"
      PROVE  state[r] = "pending" /\ (InCopies(copies, r) => InCopies(copies', r))
  <2>1. state[r] = "pending" /\ r \notin RecordsOf(msg)
    BY <1>1, <1>2 DEF Outcome, IsOpenRecord
  <2> QED
    BY <1>1, <2>1 DEF InCopies, RecordsOf
<1> QED
  BY <1>2, CopiesWait DEF Sent, history

LEMMA FailedWaits == ASSUME Inv, WaitsInv, NEW a \in Agents, Failed(a) PROVE WaitsInv'
<1> DEFINE msg == At(a, {"sending", "taken"})
           moves == {c \in msg : MayMove(c) /\ IsOpenRecord(c.rec)}
           asks == {c \in msg : MayAsk(c)}
           ends == {c \in msg : ~MayMove(c) /\ ~MayPark(c) /\ ~MayAsk(c)}
           parks == {b \in msg : MayPark(b)}
           asking == {[c EXCEPT !.stage = "asking"] : c \in asks}
           again == {Attempt(c.rec, mission.main, c.tries + 1, c.lead, c.by) : c \in moves}
<1>1. /\ copies' = Put((copies \ msg) \cup asking, again)
      /\ Outcome({}, RecordsOf(ends))
      /\ parked' = parked \cup {c.rec : c \in parks}
      /\ UNCHANGED <<calls, left, resend, replacing>>
  BY DEF Failed
<1>2. msg \subseteq copies
  BY DEF At
<1>3. ASSUME NEW c \in asks
      PROVE  InCopies(asking, c.rec)
  <2>1. [c EXCEPT !.stage = "asking"] \in asking /\ [c EXCEPT !.stage = "asking"].rec = c.rec
    BY <1>2, StageRec
  <2> QED
    BY <2>1 DEF InCopies
<1>4. ASSUME NEW c \in moves
      PROVE  InCopies(again, c.rec)
  <2>1. /\ Attempt(c.rec, mission.main, c.tries + 1, c.lead, c.by) \in again
        /\ Attempt(c.rec, mission.main, c.tries + 1, c.lead, c.by).rec = c.rec
    BY AttemptRec
  <2> QED
    BY <2>1 DEF InCopies
<1>5. \A c \in msg : c \in asks \/ c \in moves \/ c \in ends \/ c \in parks \/ ~IsOpenRecord(c.rec)
  OBVIOUS
<1> HIDE DEF msg, moves, asks, ends, parks, asking, again
<1>6. ASSUME NEW r \in Records, state'[r] = "pending"
      PROVE  r \in parked' \/ (state[r] = "pending" /\ (InCopies(copies, r) => InCopies(copies', r)))
  <2>1. state[r] = "pending" /\ r \notin RecordsOf(ends)
    BY <1>1, <1>6 DEF Outcome, IsOpenRecord
  <2>2. ASSUME NEW c \in copies, c.rec = r
        PROVE  r \in parked' \/ InCopies(copies', r)
    <3>1. c \notin ends /\ IsOpenRecord(c.rec)
      BY <2>1, <2>2 DEF RecordsOf, IsOpenRecord
    <3>2. CASE c \in asks
      <4>1. InCopies((copies \ msg) \cup asking, r)
        BY <1>3, <2>2, <3>2 DEF InCopies
      <4> QED
        BY <1>1, <4>1, PutRecords
    <3>3. CASE c \in moves
      <4>1. InCopies(again, r)
        BY <1>4, <2>2, <3>3
      <4> QED
        BY <1>1, <4>1, PutRecords
    <3>4. CASE c \in parks
      BY <1>1, <2>2, <3>4
    <3>5. CASE c \notin msg
      <4>1. InCopies((copies \ msg) \cup asking, r)
        BY <2>2, <3>5 DEF InCopies
      <4> QED
        BY <1>1, <4>1, PutRecords
    <3> QED
      BY <1>5, <3>1, <3>2, <3>3, <3>4, <3>5
  <2> QED
    BY <2>1, <2>2 DEF InCopies
<1> QED
  BY <1>1, <1>6, CopiesWait

LEMMA AskedWaits == ASSUME Inv, WaitsInv, NEW c \in copies, Asked(c) PROVE WaitsInv'
<1>1. UNCHANGED <<calls, left, resend, replacing, parked>>
  BY DEF Asked, history
<1>2. \/ Outcome({}, {c.rec}) /\ copies' = copies \ {c}
      \/ ~IsOpenRecord(c.rec) /\ copies' = copies \ {c} /\ UNCHANGED state
      \/ \E a : copies' = Put(copies \ {c}, {Again(c, a)}) /\ UNCHANGED state
  BY DEF Asked
<1>3. ASSUME copies' = copies \ {c}, Outcome({}, {c.rec}) \/ (~IsOpenRecord(c.rec) /\ UNCHANGED state),
             NEW r \in Records, state'[r] = "pending"
      PROVE  state[r] = "pending" /\ (InCopies(copies, r) => InCopies(copies', r))
  <2>1. state[r] = "pending" /\ r # c.rec
    BY <1>3 DEF Outcome, IsOpenRecord
  <2> QED
    BY <1>3, <2>1 DEF InCopies
<1>4. ASSUME NEW a, copies' = Put(copies \ {c}, {Again(c, a)}), UNCHANGED state,
             NEW r \in Records, state'[r] = "pending"
      PROVE  state[r] = "pending" /\ (InCopies(copies, r) => InCopies(copies', r))
  <2>1. Again(c, a).rec = c.rec
    BY AttemptRec DEF Again
  <2>2. InCopies(copies, r) => InCopies(copies \ {c}, r) \/ InCopies({Again(c, a)}, r)
    BY <2>1 DEF InCopies
  <2> QED
    BY <1>4, <2>2, PutRecords
<1> QED
  BY <1>1, <1>2, <1>3, <1>4, CopiesWait

LEMMA ReleaseWaits == ASSUME Inv, WaitsInv, NEW a \in Agents, Release(a) PROVE WaitsInv'
<1> DEFINE held == HeldItems(a)
           new == {Released(r, a, {}, "release") : r \in held}
<1>1. state' = Hold(held, "pending") /\ copies' = Put(copies, new)
  BY DEF Release
<1>2. ASSUME NEW r \in held
      PROVE  InCopies(new, r)
  <2>1. Released(r, a, {}, "release") \in new /\ Released(r, a, {}, "release").rec = r
    BY AttemptRec
  <2> QED
    BY <2>1 DEF InCopies
<1> HIDE DEF held, new
<1>3. ASSUME NEW r \in Records, state'[r] = "pending"
      PROVE  InCopies(copies', r) \/ (state[r] = "pending" /\ (InCopies(copies, r) => InCopies(copies', r)))
  <2>1. r \in held \/ state[r] = "pending"
    BY <1>1, <1>3 DEF Hold
  <2> QED
    BY <1>1, <1>2, <2>1, PutRecords
<1> QED
  BY <1>3, CopiesWait DEF Release, history

LEMMA MoveQueueWaits == ASSUME Inv, WaitsInv, MoveQueue PROVE WaitsInv'
<1> DEFINE moved == {c \in copies : c.stage = "queued" /\ c.at = mission.last}
           new == {[c EXCEPT !.at = mission.main] : c \in moved}
<1>1. copies' = Put(copies \ moved, new)
  BY DEF MoveQueue
<1>2. ASSUME NEW c \in moved
      PROVE  InCopies(new, c.rec)
  <2>1. [c EXCEPT !.at = mission.main] \in new /\ [c EXCEPT !.at = mission.main].rec = c.rec
    BY StageRec
  <2> QED
    BY <2>1 DEF InCopies
<1> HIDE DEF moved, new
<1>3. \A r : InCopies(copies, r) => InCopies(copies \ moved, r) \/ InCopies(new, r)
  BY <1>2 DEF InCopies
<1>4. \A r \in Records : InCopies(copies, r) => InCopies(copies', r)
  BY <1>1, <1>3, PutRecords
<1>5. /\ UNCHANGED <<calls, left, resend, state, parked>> /\ replacing # "no"
  BY DEF MoveQueue, store, history
<1>6. \A r \in Records : state'[r] = "pending" => Waits(r)'
  BY <1>4, <1>5 DEF WaitsInv, Waits, InCall, InLoop
<1> QED
  BY <1>5, <1>6 DEF WaitsInv

\* A redelivery lists what it takes from the others.
LEMMA ListingWaits ==
  ASSUME Inv, WaitsInv, ListFormer \/ ListOpen
  PROVE  WaitsInv'
<1>0. left \in [Loops -> SUBSET Given] /\ "resend" \in Loops /\ "replace" \in Loops
  BY DEF Inv, TypeOK, Loops
<1>1. ASSUME NEW R \in SUBSET Records, NEW r \in R, state[r] = "pending"
      PROVE  \E d \in OpenGiven(R) : d.rec = r
  <2>1. [rec |-> r, to |-> to[r], was |-> state[r]] \in OpenGiven(R)
    BY <1>1 DEF OpenGiven, IsOpenRecord
  <2>2. [rec |-> r, to |-> to[r], was |-> state[r]].rec = r
    OBVIOUS
  <2> QED
    BY <2>1, <2>2
<1>2. CASE ListFormer
  <2> DEFINE given == OpenGiven(ToFormer)
  <2>1. /\ replacing = "moved" /\ replacing' = "no" /\ left' = [left EXCEPT !["replace"] = given]
        /\ parked' = {r \in parked : to[r] \notin mission.former}
        /\ UNCHANGED <<state, calls, copies, resend>>
    BY <1>2 DEF ListFormer, store
  <2>2. \A r \in ToFormer : state[r] = "pending" => \E d \in given : d.rec = r
    BY <1>1 DEF ToFormer
  <2> HIDE DEF given
  <2>3. left["replace"] = {}
    BY <2>1 DEF WaitsInv
  <2>4. ASSUME NEW r \in Records, state'[r] = "pending"
        PROVE  Waits(r)'
    <3>1. CASE to[r] \in mission.former
      <4>1. \E d \in given : d.rec = r
        BY <2>1, <2>2, <2>4, <3>1 DEF ToFormer
      <4> QED
        BY <1>0, <2>1, <4>1 DEF Waits, InLoop
    <3>2. CASE to[r] \notin mission.former
      <4>1. InLoop(r) => InLoop(r)'
        BY <1>0, <2>1, <2>3 DEF InLoop
      <4> QED
        BY <2>1, <2>4, <3>2, <4>1 DEF WaitsInv, Waits, InCall
    <3> QED
      BY <3>1, <3>2
  <2> QED
    BY <2>1, <2>4 DEF WaitsInv
<1>3. CASE ListOpen
  <2> DEFINE given == OpenGiven(Records)
  <2>1. /\ left' = [left EXCEPT !["resend"] = given]
        /\ UNCHANGED <<state, calls, replacing>>
    BY <1>3 DEF ListOpen, store
  <2>2. \A r \in Records : state[r] = "pending" => \E d \in given : d.rec = r
    BY <1>1
  <2> HIDE DEF given
  <2>3. \A r \in Records : state'[r] = "pending" => InLoop(r)'
    BY <1>0, <2>1, <2>2 DEF InLoop
  <2>4. replacing' # "no" => left'["replace"] = {}
    BY <1>0, <2>1 DEF WaitsInv
  <2> QED
    BY <2>1, <2>3, <2>4 DEF WaitsInv, Waits
<1> QED
  BY <1>2, <1>3

LEMMA AroundWaits ==
  ASSUME Inv, WaitsInv,
         \/ \E r \in Records : Withhold(r)
         \/ \E n \in Notes : PostNote(n)
         \/ \E m \in Mains : ReplaceMain(m)
         \/ EndMission \/ EndRequest \/ PeerChanges \/ Resume \/ Reload \/ UNCHANGED vars
  PROVE  WaitsInv'
<1>1. ASSUME NEW r \in Records, Withhold(r)
      PROVE  WaitsInv'
  BY <1>1, CopiesWait DEF Withhold, Inv, TypeOK, run, history
<1>2. CASE \/ \E n \in Notes : PostNote(n)
           \/ EndMission \/ EndRequest \/ PeerChanges \/ UNCHANGED vars
  BY <1>2, CopiesWait DEF PostNote, EndMission, EndRequest, PeerChanges, run, history, store, vars
<1>3. ASSUME NEW m \in Mains, ReplaceMain(m)
      PROVE  WaitsInv'
  BY <1>3 DEF ReplaceMain, store, history, WaitsInv, Waits, InCall, InLoop, InCopies
<1>4. CASE Resume
  BY <1>4 DEF Resume, store, history, WaitsInv, Waits
<1>5. CASE Reload
  <2>1. calls' = [c \in Callers |-> NoCall] /\ resend' = "off" /\ replacing' = "no"
    BY <1>5 DEF Reload
  <2> QED
    BY <2>1 DEF WaitsInv, Waits, Callers
<1> QED
  BY <1>1, <1>2, <1>3, <1>4, <1>5

LEMMA WaitsStep == ASSUME Inv, WaitsInv, [Next]_vars PROVE WaitsInv'
<1>1. CASE Environment
  BY <1>1, CallsWait, ReleaseWaits, AroundWaits DEF Environment
<1>2. CASE (\E r \in Records : DeliverStored(r)) \/ (\E c \in Callers : Resolved(c)) \/ (\E l \in Loops : LoopNext(l))
  BY <1>2, CallsWait
<1>3. CASE \E a \in Agents : Take(a) \/ Answer(a)
  BY <1>3, TakeWaits, ReachWaits, SentWaits, FailedWaits DEF Answer
<1>4. CASE \E c \in copies : Asked(c)
  BY <1>4, AskedWaits
<1>5. CASE Replacement \/ Resending \/ UNCHANGED vars
  BY <1>5, MoveQueueWaits, ListingWaits, AroundWaits DEF Replacement, Resending
<1> QED
  BY <1>1, <1>2, <1>3, <1>4, <1>5 DEF Next

\* Outside a reload's resend, a pending record is with a call, a loop or the
\* notice queue, or its drop left it to the mission's next Main: neither the
\* gate, a release, a replaced Main nor a drop forgets one (deliverRecord,
\* onDropped and the redeliveries of the code).
THEOREM OpenRecordsAreCarried == Spec => []OpenIsCarried
<1>1. Init => WaitsInv
  BY DEF Init, WaitsInv, Callers
<1>2. Inv /\ WaitsInv /\ [Next]_vars => WaitsInv'
  BY WaitsStep
<1>3. WaitsInv => OpenIsCarried
  <2>1. ASSUME NEW r \in Records, Waits(r)
        PROVE  CallsOf(r) \cup LoopsOf(r) # {} \/ CopiesOf(r) # {} \/ r \in parked \/ resend # "listed"
    BY <2>1 DEF Waits, InCall, InLoop, InCopies, CallsOf, LoopsOf, CopiesOf
  <2> QED
    BY <2>1 DEF WaitsInv, OpenIsCarried
<1> QED
  BY <1>1, <1>2, <1>3, InvHolds, PTL DEF Spec

-----------------------------------------------------------------------------
(* One thing at a time delivers a record.                                  *)

Still == reloads = 0 /\ mission.former = {}

Single(queue) == \A b, c \in queue : b.rec = c.rec => b = c

\* Nothing is redelivered; a record is with its own call, or in one copy, or
\* with neither when the gate holds it.
Alone ==
  /\ resend = "listed" /\ replacing = "no"
  /\ \A l \in Loops : left[l] = {} /\ calls[l] = NoCall
  /\ Single(copies)
  /\ \A c \in copies : calls[c.rec] = NoCall /\ state[c.rec] # "held"
  /\ \A r \in Records : state[r] = "held" => calls[r] = NoCall

AloneInv == Still => Alone

LEMMA CopyRec == Inv => \A c \in copies : c.rec \in Records
  BY DEF Inv, TypeOK, Copy, Fields

\* Only the copies and the store change.
LEMMA CopiesAlone ==
  ASSUME Alone, UNCHANGED <<calls, left, resend, replacing>>, Single(copies'),
         \A c \in copies' : calls[c.rec] = NoCall /\ state'[c.rec] # "held",
         \A r \in Records : state'[r] = "held" => calls[r] = NoCall
  PROVE  Alone'
  BY DEF Alone, Single

LEMMA PutSingle ==
  ASSUME NEW queue, NEW new, Single(queue), Single(new), \A b \in queue : \A c \in new : b.rec # c.rec
  PROVE  Single(Put(queue, new))
  BY DEF Single, Put

LEMMA ReleasedSingle ==
  ASSUME NEW a, NEW R
  PROVE  /\ Single({Released(r, a, {}, "release") : r \in R})
         /\ \A b \in {Released(r, a, {}, "release") : r \in R} : b.rec \in R
<1>1. ASSUME NEW b \in {Released(r, a, {}, "release") : r \in R}
      PROVE  b.rec \in R /\ b = Released(b.rec, a, {}, "release")
  <2>1. PICK r \in R : b = Released(r, a, {}, "release")
    OBVIOUS
  <2> QED
    BY <2>1, AttemptRec
<1> QED
  BY <1>1 DEF Single

LEMMA CarryOnAlone ==
  ASSUME Inv, Alone, NEW r \in Records, calls[r] # NoCall, NEW d, d.rec = r, NEW tos, CarryOn(r, d, tos),
         UNCHANGED <<left, resend, replacing>>
  PROVE  Alone'
<1> DEFINE moved == Class[d.rec] = "main" /\ d.to # mission.main /\ IsOpenRecord(d.rec)
           at == IF moved THEN mission.main ELSE d.to
           unheld == IF (IF moved THEN state[d.rec] ELSE d.was) = "held" THEN {d.rec} ELSE {}
           held == HeldItems(at) \ {d.rec}
           one == Attempt(d.rec, at, 0, Lead(at), r)
           first == Released(d.rec, at, Lead(at), r)
           others == {Released(q, at, {}, "release") : q \in held}
<1>1. \/ UNCHANGED <<state, copies>>
      \/ state' = Hold(unheld, "pending") /\ copies' = Put(copies, {one})
      \/ state' = Hold({d.rec}, "held") /\ UNCHANGED copies
      \/ state' = Hold(unheld \cup held, "pending") /\ copies' = Put(copies, {first} \cup others)
  BY DEF CarryOn
<1>2. unheld \subseteq {r} /\ one.rec = r /\ first.rec = r
  BY AttemptRec
<1>3. \A q \in held : q \in Records /\ q # r /\ state[q] = "held"
  BY DEF HeldItems
<1> HIDE DEF moved, at, unheld, held, one, first
<1>4. Single(others) /\ \A b \in others : b.rec \in held
  BY ReleasedSingle
<1> HIDE DEF others
<1>5. /\ calls' = [calls EXCEPT ![r] = NoCall] /\ calls \in [Callers -> Call \cup {NoCall}]
      /\ r \notin Loops
  BY OutboxAssumption DEF CarryOn, Inv, TypeOK, Loops
<1>6. /\ Single(copies) /\ \A c \in copies : c.rec \in Records /\ c.rec # r /\ state[c.rec] # "held"
      /\ state[r] # "held"
  BY CopyRec DEF Alone
<1>7. \A q : calls[q] = NoCall /\ q \in Callers => calls'[q] = NoCall
  BY <1>5
<1>8. ASSUME Single(copies'), \A c \in copies' : c.rec \in Records /\ state'[c.rec] # "held" /\ calls'[c.rec] = NoCall,
             \A q \in Records : state'[q] = "held" => q = r \/ state[q] = "held"
      PROVE  Alone'
  <2>1. \A q \in Records : state'[q] = "held" => calls'[q] = NoCall
    BY <1>5, <1>7, <1>8 DEF Alone, Callers
  <2>2. \A l \in Loops : left'[l] = {} /\ calls'[l] = NoCall
    BY <1>7 DEF Alone, Callers
  <2> QED
    BY <1>8, <2>1, <2>2 DEF Alone, Single
<1>9. \A c \in copies : calls'[c.rec] = NoCall
  BY <1>6, <1>7 DEF Alone, Callers
<1>10. calls'[r] = NoCall /\ \A q \in held : calls'[q] = NoCall
  BY <1>3, <1>5, <1>7 DEF Alone, Callers
<1>11. CASE UNCHANGED <<state, copies>>
  BY <1>6, <1>8, <1>9, <1>11
<1>12. CASE state' = Hold(unheld, "pending") /\ copies' = Put(copies, {one})
  <2>1. Single(copies')
    BY <1>2, <1>6, <1>12, PutSingle DEF Single
  <2>2. \A c \in copies' : c \in copies \/ c = one
    BY <1>12 DEF Put
  <2>3. \A q \in Records : state'[q] = "held" => state[q] = "held"
    BY <1>12 DEF Hold
  <2> QED
    BY <1>2, <1>6, <1>8, <1>9, <1>10, <2>1, <2>2, <2>3
<1>13. CASE state' = Hold({d.rec}, "held") /\ UNCHANGED copies
  <2>1. \A q \in Records : state'[q] = "held" => q = r \/ state[q] = "held"
    BY <1>13 DEF Hold
  <2> QED
    BY <1>6, <1>8, <1>9, <1>13, <2>1
<1>14. CASE state' = Hold(unheld \cup held, "pending") /\ copies' = Put(copies, {first} \cup others)
  <2>1. \A b \in others : b.rec # r
    BY <1>3, <1>4
  <2>2. Single({first} \cup others)
    BY <1>2, <1>4, <2>1 DEF Single
  <2>3. \A b \in copies : \A c \in {first} \cup others : b.rec # c.rec
    BY <1>2, <1>4, <1>3, <1>6
  <2>4. Single(copies')
    BY <1>6, <1>14, <2>2, <2>3, PutSingle
  <2>5. \A c \in copies' : c \in copies \/ c = first \/ c \in others
    BY <1>14 DEF Put
  <2>6. \A q \in Records : state'[q] = "held" => state[q] = "held" /\ q \notin held
    BY <1>14 DEF Hold, IsOpenRecord
  <2> QED
    BY <1>2, <1>4, <1>3, <1>6, <1>8, <1>9, <1>10, <2>4, <2>5, <2>6
<1> QED
  BY <1>1, <1>11, <1>12, <1>13, <1>14

LEMMA CallsAlone ==
  ASSUME Inv, WaitsInv, Alone,
         \/ \E r \in Records : Post(r) \/ DeliverStored(r)
         \/ \E c \in Callers : Resolved(c)
  PROVE  Alone'
<1>0. /\ calls \in [Callers -> Call \cup {NoCall}] /\ \A l \in Loops : l \notin Records
      /\ \A c \in copies : c.rec \in Records
  BY CopyRec, OutboxAssumption DEF Inv, TypeOK, Loops
<1>1. ASSUME NEW r \in Records, Post(r)
      PROVE  Alone'
  <2>1. PICK a \in Agents : calls' = [calls EXCEPT ![r] = [rec |-> r, to |-> a, was |-> "pending", stage |-> "stored"]]
    BY <1>1, PostCall
  <2>2. \A q \in Callers : q # r => calls'[q] = calls[q]
    BY <1>0, <2>1
  <2>3. /\ UNCHANGED <<left, copies, resend, replacing>>
        /\ \A q \in Records : state'[q] = IF q = r THEN "pending" ELSE state[q]
    BY <1>1 DEF Post, Inv, TypeOK
  <2>4. \A c \in copies : c.rec # r
    BY <1>1 DEF Post, Inv, Carried, Sendable
  <2>5. \A c \in copies : calls'[c.rec] = NoCall /\ state'[c.rec] # "held"
    BY <1>0, <2>2, <2>3, <2>4 DEF Alone, Callers
  <2>6. \A l \in Loops : calls'[l] = NoCall
    BY <1>0, <2>2 DEF Alone, Callers
  <2>7. \A q \in Records : state'[q] = "held" => calls'[q] = NoCall
    BY <2>2, <2>3 DEF Alone, Callers
  <2> QED
    BY <2>3, <2>5, <2>6, <2>7 DEF Alone, Single
<1>2. ASSUME NEW r \in Records, DeliverStored(r)
      PROVE  Alone'
  <2>1. calls[r] # NoCall /\ calls[r].rec = r /\ Begin(r, calls[r]) /\ UNCHANGED <<left, resend, replacing>>
    BY <1>2 DEF DeliverStored, WaitsInv
  <2>2. CASE CarryOn(r, calls[r], to)
    BY <2>1, <2>2, CarryOnAlone
  <2>3. ASSUME NEW new, calls' = [calls EXCEPT ![r] = new], UNCHANGED <<store, copies>>
        PROVE  Alone'
    <3>1. \A q \in Callers : q # r => calls'[q] = calls[q]
      BY <1>0, <2>3
    <3>2. \A c \in copies : c.rec # r
      BY <2>1 DEF Alone
    <3>3. \A c \in copies : calls'[c.rec] = NoCall /\ state'[c.rec] # "held"
      BY <1>0, <2>3, <3>1, <3>2 DEF Alone, Callers, store
    <3>4. \A l \in Loops : calls'[l] = NoCall
      BY <1>0, <3>1 DEF Alone, Callers
    <3>5. \A q \in Records : state'[q] = "held" => calls'[q] = NoCall
      BY <2>1, <2>3, <3>1 DEF Alone, Callers, store
    <3> QED
      BY <2>1, <2>3, <3>3, <3>4, <3>5 DEF Alone, Single
  <2> QED
    BY <2>1, <2>2, <2>3 DEF Begin
<1>3. ASSUME NEW c \in Callers, Resolved(c)
      PROVE  Alone'
  <2>1. calls[c] # NoCall /\ UNCHANGED <<left, resend, replacing>>
    BY <1>3 DEF Resolved
  <2>2. c \in Records /\ calls[c].rec = c
    BY <2>1 DEF Alone, Callers, WaitsInv
  <2>3. CASE /\ calls' = [calls EXCEPT ![c] = NoCall]
             /\ Outcome({}, {calls[c].rec}) /\ UNCHANGED copies
    <3>1. \A q \in Callers : calls'[q] = NoCall \/ calls'[q] = calls[q]
      BY <1>0, <2>3
    <3>2. \A q \in Records : state'[q] = "held" => state[q] = "held"
      BY <2>3 DEF Outcome
    <3>3. \A b \in copies : calls'[b.rec] = NoCall /\ state'[b.rec] # "held"
      BY <1>0, <3>1, <3>2 DEF Alone, Callers
    <3>4. /\ \A l \in Loops : calls'[l] = NoCall
          /\ \A q \in Records : state'[q] = "held" => calls'[q] = NoCall
      BY <3>1, <3>2 DEF Alone, Callers
    <3> QED
      BY <2>1, <2>3, <3>3, <3>4 DEF Alone, Single
  <2>4. ASSUME NEW e, NEW tos, CarryOn(c, e, tos), e.rec = c
        PROVE  Alone'
    BY <2>1, <2>2, <2>4, CarryOnAlone
  <2>5. \A a : [rec |-> calls[c].rec, to |-> a, was |-> state[calls[c].rec]].rec = c
    BY <2>2
  <2> QED
    BY <1>3, <2>2, <2>3, <2>4, <2>5 DEF Resolved
<1> QED
  BY <1>1, <1>2, <1>3

\* Copies of S become copies of the same records, one for one.
Staged(S, s) == {[c EXCEPT !.stage = s] : c \in S}

LEMMA StageSingle ==
  ASSUME Inv, Single(copies), NEW S \in SUBSET copies, NEW s
  PROVE  /\ Single((copies \ S) \cup Staged(S, s))
         /\ \A b \in Staged(S, s) : \E c \in S : b.rec = c.rec
<1> DEFINE T == Staged(S, s)
<1>1. ASSUME NEW b \in T
      PROVE  \E c \in S : b = [c EXCEPT !.stage = s] /\ b.rec = c.rec
  <2>1. PICK c \in S : b = [c EXCEPT !.stage = s]
    BY DEF Staged
  <2> QED
    BY <2>1, StageRec
<1> HIDE DEF T
<1>2. ASSUME NEW b \in T, NEW c \in T, b.rec = c.rec
      PROVE  b = c
  BY <1>1, <1>2 DEF Single
<1>3. ASSUME NEW b \in T, NEW c \in copies \ S
      PROVE  b.rec # c.rec
  BY <1>1 DEF Single
<1>4. Single((copies \ S) \cup T)
  BY <1>2, <1>3 DEF Single
<1> QED
  BY <1>1, <1>4 DEF T

LEMMA TakeAlone == ASSUME Inv, Alone, NEW a \in Agents, Take(a) PROVE Alone'
<1>1. PICK msg \in SUBSET copies, held \in SUBSET copies :
        /\ held \subseteq msg
        /\ copies' = (copies \ msg) \cup {[b EXCEPT !.stage = "sending"] : b \in msg \ held}
        /\ state' = Hold(RecordsOf(held), "held")
  BY DEF Take, At
<1>0. PICK goes \in SUBSET copies : goes = msg \ held
  OBVIOUS
<1> DEFINE sending == Staged(goes, "sending")
<1>2. Single((copies \ goes) \cup sending) /\ \A b \in sending : \E c \in goes : b.rec = c.rec
  <2>1. Single(copies) /\ goes \in SUBSET copies
    BY DEF Alone
  <2> QED
    BY <2>1, StageSingle
<1>3. copies' = (copies \ msg) \cup sending
  BY <1>0, <1>1 DEF Staged
<1> HIDE DEF sending
<1>4. Single(copies')
  <2>1. copies' \subseteq (copies \ goes) \cup sending
    BY <1>0, <1>3
  <2> QED
    BY <1>2, <2>1 DEF Single
<1>5. \A c \in copies' : \E b \in copies \ held : c.rec = b.rec
  BY <1>0, <1>1, <1>2, <1>3
<1>6. \A c \in copies' : c.rec \in Records /\ c.rec \notin RecordsOf(held)
  BY <1>5, CopyRec DEF Alone, Single, RecordsOf
<1>7. \A r \in Records : state'[r] = "held" => state[r] = "held" \/ r \in RecordsOf(held)
  BY <1>1 DEF Hold
<1>8. \A c \in copies' : calls[c.rec] = NoCall /\ state'[c.rec] # "held"
  BY <1>5, <1>6, <1>7 DEF Alone
<1>9. \A r \in Records : state'[r] = "held" => calls[r] = NoCall
  BY <1>7 DEF Alone, RecordsOf
<1> QED
  BY <1>4, <1>8, <1>9, CopiesAlone DEF Take

LEMMA ReachAlone == ASSUME Inv, Alone, NEW a \in Agents, Reach(a) PROVE Alone'
<1> DEFINE msg == At(a, {"sending"})
           taken == Staged(msg, "taken")
<1>1. msg \in SUBSET copies
  BY DEF At
<1>2. copies' = (copies \ msg) \cup taken /\ UNCHANGED state
  BY DEF Reach, store, Staged
<1> HIDE DEF msg
<1>3. Single((copies \ msg) \cup taken) /\ \A b \in taken : \E c \in msg : b.rec = c.rec
  BY <1>1, StageSingle DEF Alone
<1> HIDE DEF taken
<1>4. \A c \in copies' : calls[c.rec] = NoCall /\ state'[c.rec] # "held"
  BY <1>1, <1>2, <1>3 DEF Alone
<1> QED
  BY <1>2, <1>3, <1>4, CopiesAlone DEF Reach, Alone

LEMMA SentAlone == ASSUME Inv, Alone, NEW a \in Agents, Sent(a) PROVE Alone'
<1>1. PICK msg, D : copies' = copies \ msg /\ Outcome(D, {})
  BY DEF Sent
<1>2. \A r \in Records : state'[r] = "held" => state[r] = "held"
  BY <1>1 DEF Outcome
<1>3. Single(copies') /\ \A c \in copies' : calls[c.rec] = NoCall /\ state'[c.rec] # "held"
  BY <1>1, <1>2, CopyRec DEF Alone, Single
<1> QED
  BY <1>2, <1>3, CopiesAlone DEF Sent, Alone

LEMMA FailedAlone == ASSUME Inv, Alone, NEW a \in Agents, Failed(a) PROVE Alone'
<1> DEFINE msg == At(a, {"sending", "taken"})
           moves == {c \in msg : MayMove(c) /\ IsOpenRecord(c.rec)}
           asks == {c \in msg : MayAsk(c)}
           asking == Staged(asks, "asking")
           again == {Attempt(c.rec, mission.main, c.tries + 1, c.lead, c.by) : c \in moves}
<1>1. copies' = Put((copies \ msg) \cup asking, again) /\ \E X : Outcome({}, X)
  BY DEF Failed, Staged
<1>2. msg \in SUBSET copies /\ asks \subseteq msg /\ moves \subseteq msg /\ asks \cap moves = {}
  BY DEF At, MayAsk, MayMove, MovesAgain
<1> HIDE DEF msg, moves, asks
<1>3. Single((copies \ asks) \cup asking) /\ \A b \in asking : \E c \in asks : b.rec = c.rec
  <2>1. asks \in SUBSET copies
    BY <1>2
  <2> QED
    BY <2>1, StageSingle DEF Alone
<1>4. ASSUME NEW b \in again
      PROVE  \E c \in moves : b = Attempt(c.rec, mission.main, c.tries + 1, c.lead, c.by) /\ b.rec = c.rec
  <2>1. PICK c \in moves : b = Attempt(c.rec, mission.main, c.tries + 1, c.lead, c.by)
    OBVIOUS
  <2> QED
    BY <2>1, AttemptRec
<1> HIDE DEF asking, again
<1>5. Single(again)
  <2>1. ASSUME NEW b \in again, NEW c \in again, b.rec = c.rec
        PROVE  b = c
    <3>1. PICK x \in moves : b = Attempt(x.rec, mission.main, x.tries + 1, x.lead, x.by) /\ b.rec = x.rec
      BY <1>4
    <3>2. PICK y \in moves : c = Attempt(y.rec, mission.main, y.tries + 1, y.lead, y.by) /\ c.rec = y.rec
      BY <1>4
    <3>3. x = y
      BY <1>2, <2>1, <3>1, <3>2 DEF Alone, Single
    <3> QED
      BY <3>1, <3>2, <3>3
  <2> QED
    BY <2>1 DEF Single
<1>6. Single((copies \ msg) \cup asking)
  BY <1>2, <1>3 DEF Single
<1>7. \A b \in (copies \ msg) \cup asking : \E c \in copies \ moves : b.rec = c.rec
  BY <1>2, <1>3
<1>8. \A b \in (copies \ msg) \cup asking : \A c \in again : b.rec # c.rec
  <2>1. ASSUME NEW b \in (copies \ msg) \cup asking, NEW c \in again
        PROVE  b.rec # c.rec
    BY <1>2, <1>4, <1>7 DEF Alone, Single
  <2> QED
    BY <2>1
<1>9. Single(copies')
  BY <1>1, <1>5, <1>6, <1>8, PutSingle
<1>10. \A b \in copies' : \E c \in copies : b.rec = c.rec
  BY <1>1, <1>2, <1>4, <1>7 DEF Put
<1>11. \A r \in Records : state'[r] = "held" => state[r] = "held"
  BY <1>1 DEF Outcome
<1>12. \A c \in copies' : calls[c.rec] = NoCall /\ state'[c.rec] # "held"
  BY <1>10, <1>11, CopyRec DEF Alone
<1> QED
  BY <1>9, <1>11, <1>12, CopiesAlone DEF Failed, Alone

LEMMA AskedAlone == ASSUME Inv, Alone, NEW c \in copies, Asked(c) PROVE Alone'
<1>1. copies' = copies \ {c} \/ \E a : copies' = Put(copies \ {c}, {Again(c, a)})
  BY DEF Asked
<1>2. (\E X : Outcome({}, X)) \/ UNCHANGED state
  BY DEF Asked
<1>3. Single(copies') /\ \A b \in copies' : \E d \in copies : b.rec = d.rec
  <2>1. ASSUME NEW a, copies' = Put(copies \ {c}, {Again(c, a)})
        PROVE  Single(copies') /\ \A b \in copies' : \E d \in copies : b.rec = d.rec
    <3>1. Again(c, a).rec = c.rec
      BY AttemptRec DEF Again
    <3>2. /\ Single(copies \ {c}) /\ Single({Again(c, a)})
          /\ \A b \in copies \ {c} : \A d \in {Again(c, a)} : b.rec # d.rec
      BY <3>1 DEF Alone, Single
    <3>3. Single(copies')
      BY <2>1, <3>2, PutSingle
    <3>4. \A b \in copies' : b \in copies \/ b = Again(c, a)
      BY <2>1 DEF Put
    <3> QED
      BY <3>1, <3>3, <3>4
  <2> QED
    BY <1>1, <2>1 DEF Alone, Single
<1>4. \A r \in Records : state'[r] = "held" => state[r] = "held"
  BY <1>2 DEF Outcome
<1>5. \A b \in copies' : calls[b.rec] = NoCall /\ state'[b.rec] # "held"
  BY <1>3, <1>4, CopyRec DEF Alone
<1> QED
  BY <1>3, <1>4, <1>5, CopiesAlone DEF Asked, Alone

LEMMA ReleaseAlone == ASSUME Inv, Alone, NEW a \in Agents, Release(a) PROVE Alone'
<1> DEFINE held == HeldItems(a)
           new == {Released(r, a, {}, "release") : r \in held}
<1>1. state' = Hold(held, "pending") /\ copies' = Put(copies, new)
  BY DEF Release
<1>2. \A r \in held : r \in Records /\ state[r] = "held"
  BY DEF HeldItems
<1> HIDE DEF held
<1>3. Single(new) /\ \A b \in new : b.rec \in held
  BY ReleasedSingle
<1> HIDE DEF new
<1>4. Single(copies')
  <2>1. \A b \in copies : \A c \in new : b.rec # c.rec
    BY <1>2, <1>3 DEF Alone
  <2> QED
    BY <1>1, <1>3, <2>1, PutSingle DEF Alone
<1>5. \A r \in Records : state'[r] = "held" => state[r] = "held" /\ r \notin held
  BY <1>1 DEF Hold, IsOpenRecord
<1>6. \A c \in copies' : c \in copies \/ c \in new
  BY <1>1 DEF Put
<1>7. \A c \in copies' : calls[c.rec] = NoCall /\ state'[c.rec] # "held"
  BY <1>2, <1>3, <1>5, <1>6, CopyRec DEF Alone
<1> QED
  BY <1>4, <1>5, <1>7, CopiesAlone DEF Release, Alone

LEMMA AroundAlone ==
  ASSUME Inv, Alone,
         \/ \E r \in Records : Withhold(r)
         \/ \E n \in Notes : PostNote(n)
         \/ EndMission \/ EndRequest \/ PeerChanges \/ UNCHANGED vars
  PROVE  Alone'
<1>1. ASSUME NEW r \in Records, Withhold(r)
      PROVE  Alone'
  <2>1. UNCHANGED run /\ \A q \in Records : state'[q] = "held" => state[q] = "held"
    BY <1>1 DEF Withhold, Inv, TypeOK
  <2> QED
    BY <2>1, CopyRec, CopiesAlone DEF Alone, run
<1>2. CASE \/ \E n \in Notes : PostNote(n)
           \/ EndMission \/ EndRequest \/ PeerChanges \/ UNCHANGED vars
  BY <1>2, CopiesAlone DEF PostNote, EndMission, EndRequest, PeerChanges, Alone, run, store, vars
<1> QED
  BY <1>1, <1>2

LEMMA AloneStep == ASSUME Inv, WaitsInv, AloneInv, [Next]_vars PROVE AloneInv'
<1>1. CASE ~Still'
  BY <1>1 DEF AloneInv
<1>2. CASE Still'
  <2>1. Still /\ ~Reload /\ \A m \in Mains : ~ReplaceMain(m)
    <3>1. ASSUME NEW m \in Mains, ReplaceMain(m)
          PROVE  FALSE
      <4>1. mission'.former = mission.former \cup {mission.main}
        BY <3>1 DEF ReplaceMain, Inv, TypeOK
      <4> QED
        BY <1>2, <4>1 DEF Still
    <3>2. ~Reload
      BY <1>2 DEF Reload, Still, Inv, TypeOK
    <3>3. EndMission => UNCHANGED reloads /\ mission'.former = mission.former
      BY DEF EndMission, Inv, TypeOK
    <3>4. UNCHANGED reloads /\ mission'.former = mission.former
      BY <3>1, <3>2, <3>3 DEF Next, Environment, Answer, Replacement, Resending, vars, world, Post, Withhold, PostNote,
           Release, EndRequest, PeerChanges, DeliverStored, Resolved, LoopNext, Take, Reach, Sent, Failed, Asked,
           MoveQueue, ListFormer, Resume, ListOpen
    <3> QED
      BY <1>2, <3>1, <3>2, <3>4 DEF Still
  <2>2. Alone
    BY <2>1 DEF AloneInv
  <2>3. ~Replacement /\ ~Resending /\ \A l \in Loops : ~LoopNext(l)
    BY <2>2 DEF Alone, Replacement, Resending, MoveQueue, ListFormer, Resume, ListOpen, LoopNext
  <2>4. CASE Environment
    BY <2>1, <2>2, <2>4, CallsAlone, ReleaseAlone, AroundAlone DEF Environment, AloneInv
  <2>5. CASE (\E r \in Records : DeliverStored(r)) \/ (\E c \in Callers : Resolved(c))
    BY <2>2, <2>5, CallsAlone DEF AloneInv
  <2>6. CASE \E a \in Agents : Take(a) \/ Answer(a)
    BY <2>2, <2>6, TakeAlone, ReachAlone, SentAlone, FailedAlone DEF Answer, AloneInv
  <2>7. CASE (\E c \in copies : Asked(c)) \/ UNCHANGED vars
    BY <2>2, <2>7, AskedAlone, AroundAlone DEF AloneInv
  <2> QED
    BY <2>3, <2>4, <2>5, <2>6, <2>7 DEF Next
<1> QED
  BY <1>1, <1>2

\* A set of at most one element.
LEMMA AtMostOne ==
  ASSUME NEW S, \A x, y \in S : x = y
  PROVE  (S = {} /\ Cardinality(S) = 0) \/ (S # {} /\ Cardinality(S) = 1)
<1>1. CASE S = {}
  BY <1>1, FS_EmptySet
<1>2. CASE S # {}
  <2>1. PICK x \in S : S = {x}
    BY <1>2
  <2> QED
    BY <1>2, <2>1, FS_Singleton
<1> QED
  BY <1>1, <1>2

\* Until the plugin is reloaded or the Main replaced, a record is with its own
\* call, or in one copy of the notice queue, or with neither: the gate, the
\* releases, the peer lookups and the drops never start a second delivery.
THEOREM OneCarrierHolds == Spec => []OneCarrier
<1>1. Init => AloneInv
  BY DEF Init, AloneInv, Alone, Single, Loops, Callers
<1>2. Inv /\ WaitsInv /\ AloneInv /\ [Next]_vars => AloneInv'
  BY AloneStep
<1>3. Inv /\ WaitsInv /\ AloneInv => OneCarrier
  <2> SUFFICES ASSUME Inv, WaitsInv, Alone, NEW r \in Records
               PROVE  Cardinality(CallsOf(r)) + Cardinality(LoopsOf(r)) + Cardinality(CopiesOf(r)) <= 1
    BY DEF AloneInv, Still, OneCarrier
  <2>1. CallsOf(r) \subseteq {r} /\ LoopsOf(r) = {}
    BY DEF CallsOf, LoopsOf, Alone, WaitsInv, Callers
  <2>2. \A b, c \in CopiesOf(r) : b = c
    BY DEF CopiesOf, Alone, Single
  <2>3. CallsOf(r) = {} \/ CopiesOf(r) = {}
    BY <2>1 DEF CallsOf, CopiesOf, Alone
  <2>4. (CallsOf(r) = {} /\ Cardinality(CallsOf(r)) = 0) \/ (CallsOf(r) # {} /\ Cardinality(CallsOf(r)) = 1)
    <3>1. \A x, y \in CallsOf(r) : x = y
      BY <2>1
    <3> QED
      BY <3>1, AtMostOne
  <2>5. (CopiesOf(r) = {} /\ Cardinality(CopiesOf(r)) = 0) \/ (CopiesOf(r) # {} /\ Cardinality(CopiesOf(r)) = 1)
    BY <2>2, AtMostOne
  <2>6. Cardinality(LoopsOf(r)) = 0
    BY <2>1, FS_EmptySet
  <2> QED
    BY <2>3, <2>4, <2>5, <2>6
<1>4. Init => WaitsInv
  BY DEF Init, WaitsInv, Callers
<1>5. Inv /\ WaitsInv /\ [Next]_vars => WaitsInv'
  BY WaitsStep
<1> QED
  BY <1>1, <1>2, <1>3, <1>4, <1>5, InvHolds, PTL DEF Spec
=============================================================================
