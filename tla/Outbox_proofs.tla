--------------------------- MODULE Outbox_proofs ---------------------------
(***************************************************************************)
(* Proofs about Outbox for every number of records, agents, notes and      *)
(* reloads: the outbox keeps the promise of Delivery, a settled record     *)
(* never changes, a record to the Main of an open mission is not dropped.  *)
(***************************************************************************)
EXTENDS Outbox, TLAPS

\* A record that was stored to be sent.
Sendable(r) == state[r] \notin {"none", "withheld"}

\* Only stored records are carried; what was taken reached its agent.
Carried ==
  /\ \A c \in Callers : calls[c] # NoCall => Sendable(calls[c].rec)
  /\ \A l \in Loops : \A d \in left[l] : Sendable(d.rec)
  /\ \A c \in copies : Sendable(c.rec) /\ (c.stage = "taken" => c.rec \in reached)

\* The wake gate holds and releases no record to a Main.
Ungated ==
  /\ \A r \in Records : state[r] = "held" => Class[r] # "main"
  /\ \A c \in copies : c.how = "release" => Class[c.rec] # "main"

\* An open record has a target.
Addressed == \A r \in Records : IsOpenRecord(r) => to[r] \in Agents

Inv == TypeOK /\ Carried /\ Ungated /\ Addressed

-----------------------------------------------------------------------------
(* What the operators write.                                               *)

LEMMA HoldType ==
  ASSUME TypeOK, NEW S, NEW s \in {"pending", "held"}
  PROVE  /\ Hold(S, s) \in [Records -> States]
         /\ \A r \in Records : Hold(S, s)[r] = state[r] \/ (IsOpenRecord(r) /\ r \in S /\ Hold(S, s)[r] = s)
  BY DEF TypeOK, Hold, States

LEMMA OutcomeType ==
  ASSUME TypeOK, NEW D, NEW X, Outcome(D, X)
  PROVE  /\ state' \in [Records -> States]
         /\ predates' \in [Records -> SUBSET Records]
         /\ alert' \in BOOLEAN
         /\ \A r \in Records : \/ state'[r] = state[r]
                               \/ IsOpenRecord(r) /\ r \in D /\ state'[r] = "delivered"
                               \/ IsOpenRecord(r) /\ r \in X /\ state'[r] = "dropped"
<1> DEFINE done == {r \in D : IsOpenRecord(r)}
           lost == {r \in X : IsOpenRecord(r)}
<1>1. state' = [r \in Records |-> IF r \in done THEN "delivered"
                                  ELSE IF r \in lost THEN "dropped" ELSE state[r]]
  BY DEF Outcome
<1>2. predates' = [r \in Records |-> IF r \in lost THEN {s \in Records : IsStored(s)} ELSE predates[r]]
  BY DEF Outcome
<1>3. alert' \in BOOLEAN
  BY DEF Outcome
<1>4. predates' \in [Records -> SUBSET Records]
  BY <1>2 DEF TypeOK
<1> QED
  BY <1>1, <1>3, <1>4 DEF TypeOK, States

LEMMA AttemptType ==
  ASSUME TypeOK, NEW r \in Records, NEW a \in Agents, NEW n \in 0..PeerRetargets,
         NEW lead \in SUBSET Notes, NEW by \in Callers \cup {"release"}
  PROVE  /\ Attempt(r, a, n, lead, by) \in Copy
         /\ Attempt(r, a, n, lead, by).rec = r
         /\ Attempt(r, a, n, lead, by).stage = "queued"
         /\ Attempt(r, a, n, lead, by).how # "release"
         /\ n = 0 => /\ Released(r, a, lead, by) \in Copy
                     /\ Released(r, a, lead, by).rec = r
                     /\ Released(r, a, lead, by).stage = "queued"
<1> DEFINE how == IF mission.open /\ a = mission.main THEN "batch" ELSE "single"
<1>1. Attempt(r, a, n, lead, by) =
        [rec |-> r, to |-> a, at |-> a, tries |-> n, lead |-> lead, by |-> by, stage |-> "queued", how |-> how]
  BY DEF Attempt
<1>2. how \in {"single", "batch"}
  OBVIOUS
<1> HIDE DEF how
<1>3. Attempt(r, a, n, lead, by) \in Copy
  BY <1>1, <1>2 DEF Copy, Fields
<1>4. ASSUME n = 0 PROVE /\ Released(r, a, lead, by) \in Copy
                         /\ Released(r, a, lead, by).rec = r
                         /\ Released(r, a, lead, by).stage = "queued"
  <2>1. Released(r, a, lead, by) =
          [rec |-> r, to |-> a, at |-> a, tries |-> 0, lead |-> lead, by |-> by, stage |-> "queued", how |-> "release"]
    BY <1>1, <1>4 DEF Released
  <2> QED
    BY <2>1, <1>4 DEF Copy, Fields
<1> QED
  BY <1>1, <1>2, <1>3, <1>4

LEMMA LeadType == ASSUME NEW a PROVE Lead(a) \in SUBSET Notes
  BY DEF Lead

\* A copy moved on keeps its record; `asking' is for a peer's copy with tries left.
LEMMA StageType ==
  ASSUME NEW c \in Copy, NEW s \in {"queued", "sending", "taken", "asking"},
         s = "asking" => Class[c.rec] = "peer" /\ c.tries < PeerRetargets
  PROVE  /\ [c EXCEPT !.stage = s] \in Copy
         /\ [c EXCEPT !.stage = s].rec = c.rec
         /\ [c EXCEPT !.stage = s].stage = s
         /\ [c EXCEPT !.stage = s].how = c.how
  BY DEF Copy, Fields

LEMMA PutType ==
  ASSUME NEW queue, NEW new
  PROVE  \A c \in Put(queue, new) : c \in queue \/ c \in new
  BY DEF Put

-----------------------------------------------------------------------------
(* deliverRecord.                                                          *)

\* A record as a delivery of it may hold it.
IsGiven(d) == d.rec \in Records /\ d.to \in Agents /\ d.was \in States /\ Sendable(d.rec)

\* What every step of a delivery keeps.
Kept ==
  /\ state' \in [Records -> States]
  /\ to' \in [Records -> Agents \cup {NoAgent}]
  /\ \A r \in Records : to'[r] = to[r] \/ (IsOpenRecord(r) /\ to'[r] \in Agents)
  /\ calls' \in [Callers -> Call \cup {NoCall}]
  /\ \A c \in Callers : calls'[c] # NoCall => Sendable(calls'[c].rec)
  /\ copies' \subseteq Copy
  /\ \A c \in copies' : Sendable(c.rec) /\ (c.stage = "taken" => c.rec \in reached)
  /\ \A c \in copies' : c.how = "release" => Class[c.rec] # "main"

\* The state is changed by the gate and releases only.
OnlyHeld ==
  /\ \A r \in Records : \/ state'[r] = state[r]
                        \/ IsOpenRecord(r) /\ state'[r] = "pending"
                        \/ IsOpenRecord(r) /\ state'[r] = "held" /\ Class[r] # "main"

LEMMA MainType == TypeOK => mission.main \in Agents /\ mission.last \in Agents /\ mission.former \subseteq Agents
  BY DEF TypeOK, Agents

LEMMA HeldType ==
  ASSUME Inv, NEW a
  PROVE  \A r \in HeldItems(a) : r \in Records /\ Sendable(r) /\ Class[r] # "main" /\ IsOpenRecord(r)
  BY DEF HeldItems, Inv, Ungated, Sendable, IsOpenRecord

LEMMA CarryOnKeeps ==
  ASSUME Inv, NEW c \in Callers, NEW d, IsGiven(d), NEW tos,
         tos \in [Records -> Agents \cup {NoAgent}],
         \A r \in Records : tos[r] = to[r] \/ (IsOpenRecord(r) /\ tos[r] \in Agents),
         CarryOn(c, d, tos)
  PROVE  Kept /\ OnlyHeld
<1> DEFINE moved == Class[d.rec] = "main" /\ d.to # mission.main /\ IsOpenRecord(d.rec)
           a == IF moved THEN mission.main ELSE d.to
           unheld == IF (IF moved THEN state[d.rec] ELSE d.was) = "held" THEN {d.rec} ELSE {}
           held == HeldItems(a) \ {d.rec}
           sent == {Attempt(d.rec, a, 0, Lead(a), c)}
           freed == {Released(r, a, {}, "release") : r \in held}
           released == {Released(d.rec, a, Lead(a), c)} \cup freed
<1>0. 0 \in 0..PeerRetargets
  BY OutboxAssumption
<1>1. a \in Agents
  BY MainType DEF IsGiven, Inv
<1>2. to' = (IF moved THEN [tos EXCEPT ![d.rec] = a] ELSE tos) /\ calls' = [calls EXCEPT ![c] = NoCall]
  BY DEF CarryOn
<1>3. \/ UNCHANGED <<state, copies>>
      \/ state' = Hold(unheld, "pending") /\ copies' = Put(copies, sent)
      \/ d.rec \in MayHold /\ state' = Hold({d.rec}, "held") /\ UNCHANGED copies
      \/ d.rec \in MayHold /\ state' = Hold(unheld \cup held, "pending") /\ copies' = Put(copies, released)
  BY DEF CarryOn
<1>4. /\ to' \in [Records -> Agents \cup {NoAgent}]
      /\ \A r \in Records : to'[r] = to[r] \/ (IsOpenRecord(r) /\ to'[r] \in Agents)
  <2> HIDE DEF a
  <2> QED
    BY <1>1, <1>2 DEF IsGiven
<1>5. /\ calls' \in [Callers -> Call \cup {NoCall}]
      /\ \A b \in Callers : calls'[b] # NoCall => Sendable(calls'[b].rec)
  BY <1>2 DEF Inv, TypeOK, Carried
<1>6. \A b \in sent : b \in Copy /\ Sendable(b.rec) /\ b.stage = "queued" /\ b.how # "release"
  <2> HIDE DEF a
  <2> QED
    BY <1>0, <1>1, AttemptType, LeadType DEF IsGiven, Inv
<1>7. ASSUME d.rec \in MayHold
      PROVE  \A b \in released : b \in Copy /\ Sendable(b.rec) /\ b.stage = "queued" /\ Class[b.rec] # "main"
  <2> HIDE DEF a
  <2>1. Released(d.rec, a, Lead(a), c) \in Copy
          /\ Released(d.rec, a, Lead(a), c).rec = d.rec /\ Released(d.rec, a, Lead(a), c).stage = "queued"
    BY <1>0, <1>1, AttemptType, LeadType DEF IsGiven, Inv
  <2>2. ASSUME NEW r \in held
        PROVE  Released(r, a, {}, "release") \in Copy
                 /\ Released(r, a, {}, "release").rec = r /\ Released(r, a, {}, "release").stage = "queued"
    BY <1>0, <1>1, AttemptType, HeldType DEF Inv
  <2>3. \A r \in held : Sendable(r) /\ Class[r] # "main"
    BY HeldType
  <2> QED
    BY <2>1, <2>2, <2>3, <1>7, OutboxAssumption DEF IsGiven
<1> HIDE DEF a, unheld, held, sent, released, moved
<1>8. /\ copies' \subseteq Copy
      /\ \A b \in copies' : Sendable(b.rec) /\ (b.stage = "taken" => b.rec \in reached)
      /\ \A b \in copies' : b.how = "release" => Class[b.rec] # "main"
  BY <1>3, <1>6, <1>7, PutType DEF Inv, TypeOK, Carried, Ungated
<1>9. state' \in [Records -> States] /\ OnlyHeld
  <2>1. CASE UNCHANGED state
    BY <2>1 DEF OnlyHeld, Inv, TypeOK
  <2>2. CASE state' = Hold(unheld, "pending") \/ state' = Hold(unheld \cup held, "pending")
    BY <2>2, HoldType DEF OnlyHeld, Inv
  <2>3. CASE d.rec \in MayHold /\ state' = Hold({d.rec}, "held")
    <3>1. Class[d.rec] # "main"
      BY <2>3, OutboxAssumption
    <3>2. /\ Hold({d.rec}, "held") \in [Records -> States]
          /\ \A r \in Records : \/ Hold({d.rec}, "held")[r] = state[r]
                                \/ IsOpenRecord(r) /\ r \in {d.rec} /\ Hold({d.rec}, "held")[r] = "held"
      BY HoldType DEF Inv
    <3> QED
      BY <2>3, <3>1, <3>2 DEF OnlyHeld
  <2> QED
    BY <1>3, <2>1, <2>2, <2>3
<1> QED
  BY <1>4, <1>5, <1>8, <1>9 DEF Kept

LEMMA BeginKeeps ==
  ASSUME Inv, NEW c \in Callers, NEW d, IsGiven(d), Begin(c, d)
  PROVE  Kept /\ OnlyHeld /\ UNCHANGED <<note, predates, alert>>
<1>1. CASE /\ Class[d.rec] = "peer"
           /\ calls' = [calls EXCEPT ![c] = [rec |-> d.rec, to |-> d.to, was |-> d.was, stage |-> "asking"]]
           /\ UNCHANGED <<store, copies>>
  <2> DEFINE asking == [rec |-> d.rec, to |-> d.to, was |-> d.was, stage |-> "asking"]
  <2>1. asking \in Call /\ asking.rec = d.rec
    BY <1>1 DEF IsGiven, Call
  <2>2. calls' = [calls EXCEPT ![c] = asking]
    BY <1>1
  <2> HIDE DEF asking
  <2>3. /\ calls' \in [Callers -> Call \cup {NoCall}]
        /\ \A b \in Callers : calls'[b] # NoCall => Sendable(calls'[b].rec)
    BY <2>1, <2>2 DEF Inv, TypeOK, Carried, IsGiven
  <2>4. UNCHANGED <<state, to, note, predates, alert, copies>>
    BY <1>1 DEF store
  <2> QED
    BY <2>3, <2>4 DEF Kept, OnlyHeld, Inv, TypeOK, Carried, Ungated
<1>2. CASE CarryOn(c, d, to)
  <2>1. to \in [Records -> Agents \cup {NoAgent}]
    BY DEF Inv, TypeOK
  <2>2. Kept /\ OnlyHeld
    BY <1>2, <2>1, CarryOnKeeps
  <2> QED
    BY <1>2, <2>2 DEF CarryOn
<1> QED
  BY <1>1, <1>2 DEF Begin

-----------------------------------------------------------------------------
(* What a step does to the store.                                          *)

\* A record stored to be sent stays one.
SendableStays == \A r \in Records : Sendable(r) => Sendable(r)'

\* A settled record keeps its state and its target.
KeepsSettled == \A r \in Records : state[r] \in Settled => state'[r] = state[r] /\ to'[r] = to[r]

\* A record to the Main of an open mission is not dropped.
KeepsMain ==
  \A r \in Records : Class[r] = "main" /\ IsOpenRecord(r) /\ state'[r] = "dropped" => ~mission.open

\* The step of Delivery this step is, or none.
Promised == Promise!Next \/ UNCHANGED Promise!vars

\* What a step may do to the store, as the rest of the state sees it.
StoreSound ==
  /\ SendableStays /\ Promised /\ KeepsSettled /\ KeepsMain
  /\ \A r \in Records : state'[r] = "held" => Class[r] # "main"
  /\ Addressed'

\* What is proved of a step.
Sound == Inv' /\ Promised /\ KeepsSettled /\ KeepsMain

LEMMA CarriedStep ==
  ASSUME SendableStays,
         calls' \in [Callers -> Call \cup {NoCall}], left' \in [Loops -> SUBSET Given], copies' \subseteq Copy,
         \A c \in Callers : calls'[c] # NoCall => Sendable(calls'[c].rec),
         \A l \in Loops : \A d \in left'[l] : Sendable(d.rec),
         \A c \in copies' : Sendable(c.rec) /\ (c.stage = "taken" => c.rec \in reached')
  PROVE  Carried'
<1>1. ASSUME NEW c \in Callers, calls'[c] # NoCall PROVE calls'[c].rec \in Records
  BY <1>1 DEF Call
<1>2. ASSUME NEW l \in Loops, NEW d \in left'[l] PROVE d.rec \in Records
  BY DEF Given
<1>3. ASSUME NEW c \in copies' PROVE c.rec \in Records
  BY DEF Copy, Fields
<1> QED
  BY <1>1, <1>2, <1>3 DEF SendableStays, Carried, Sendable

LEMMA OnlyHeldStep ==
  ASSUME Inv, OnlyHeld, state' \in [Records -> States], UNCHANGED reached,
         \A r \in Records : to'[r] = to[r] \/ (IsOpenRecord(r) /\ to'[r] \in Agents)
  PROVE  StoreSound
<1>1. SendableStays
  BY DEF OnlyHeld, SendableStays, Sendable, IsOpenRecord
<1>2. KeepsSettled
  BY DEF OnlyHeld, KeepsSettled, IsOpenRecord, Settled
<1>3. KeepsMain
  BY DEF OnlyHeld, KeepsMain, IsOpenRecord
<1>4. \A r \in Records : state'[r] = "held" => Class[r] # "main"
  BY DEF OnlyHeld, Inv, Ungated
<1>5. \A r \in Records : (IF state[r] \in {"pending", "held"} THEN "open" ELSE state[r])
                         = (IF state'[r] \in {"pending", "held"} THEN "open" ELSE state'[r])
  BY DEF OnlyHeld, IsOpenRecord
<1>6. Promised
  BY <1>5 DEF Promised, Promise!vars
<1>7. Addressed'
  BY DEF OnlyHeld, Inv, Addressed, IsOpenRecord
<1> QED
  BY <1>1, <1>2, <1>3, <1>4, <1>6, <1>7 DEF StoreSound

\* Delivered are records that reached an agent; dropped are none of an open mission's Main.
LEMMA OutcomeStep ==
  ASSUME Inv, NEW D, NEW X, Outcome(D, X), D \subseteq reached, X \subseteq Records, UNCHANGED reached,
         \A r \in X : Class[r] # "main" \/ ~mission.open,
         \A r \in Records : to'[r] = to[r] \/ (IsOpenRecord(r) /\ to'[r] \in Agents)
  PROVE  StoreSound
<1> DEFINE done == {r \in D : IsOpenRecord(r)}
           lost == {r \in X : IsOpenRecord(r)}
<1>0. state' = [r \in Records |-> IF r \in done THEN "delivered" ELSE IF r \in lost THEN "dropped" ELSE state[r]]
  BY DEF Outcome
<1>1. SendableStays
  BY <1>0 DEF SendableStays, Sendable, IsOpenRecord
<1>2. KeepsSettled
  BY <1>0 DEF KeepsSettled, IsOpenRecord, Settled
<1>3. KeepsMain
  BY <1>0 DEF KeepsMain, IsOpenRecord
<1>4. \A r \in Records : state'[r] = "held" => Class[r] # "main"
  BY <1>0 DEF Inv, Ungated
<1>5. Promise!Settle(done, lost)
  BY <1>0 DEF Promise!Settle, IsOpenRecord, Inv, TypeOK
<1>6. done \in SUBSET Records /\ lost \in SUBSET Records
  BY DEF Inv, TypeOK
<1>7. Promised
  <2> HIDE DEF done, lost
  <2>1. \E Y, Z \in SUBSET Records : Promise!Settle(Y, Z)
    BY <1>5, <1>6, Zenon DEF Promise!Settle
  <2> QED
    BY <2>1 DEF Promised, Promise!Next
<1>8. Addressed'
  BY <1>0 DEF Inv, Addressed, IsOpenRecord
<1> QED
  BY <1>1, <1>2, <1>3, <1>4, <1>7, <1>8 DEF StoreSound

\* A step that carries only what could be carried before.
LEMMA WholeStep ==
  ASSUME Inv, StoreSound, TypeOK',
         \A c \in Callers : calls'[c] # NoCall => Sendable(calls'[c].rec),
         \A l \in Loops : \A d \in left'[l] : Sendable(d.rec),
         \A c \in copies' : /\ Sendable(c.rec)
                            /\ c.stage = "taken" => c.rec \in reached'
                            /\ c.how = "release" => Class[c.rec] # "main"
  PROVE  Sound
<1>1. Carried'
  BY CarriedStep DEF StoreSound, TypeOK
<1>2. Ungated'
  BY DEF StoreSound, Ungated
<1> QED
  BY <1>1, <1>2 DEF Sound, Inv, StoreSound

\* A delivery's step, all else but the loops' lists unchanged.
LEMMA KeptStep ==
  ASSUME Inv, Kept, OnlyHeld, UNCHANGED <<note, predates, alert, world, resend, replacing, reloads, history>>,
         left' \in [Loops -> SUBSET Given], \A l \in Loops : left'[l] \subseteq left[l]
  PROVE  Sound
<1>1. StoreSound
  BY OnlyHeldStep DEF Kept, history
<1>2. TypeOK'
  BY DEF Kept, Inv, TypeOK, world, history
<1>3. Carried'
  <2>1. \A l \in Loops : \A d \in left'[l] : Sendable(d.rec)
    BY DEF Inv, Carried
  <2>2. \A c \in copies' : Sendable(c.rec) /\ (c.stage = "taken" => c.rec \in reached')
    BY DEF Kept, history
  <2> QED
    BY <1>1, <2>1, <2>2, CarriedStep DEF Kept, StoreSound
<1>4. Ungated'
  BY <1>1 DEF Kept, Ungated, StoreSound
<1> QED
  BY <1>1, <1>2, <1>3, <1>4 DEF Sound, Inv, StoreSound

-----------------------------------------------------------------------------
(* The actions.                                                            *)

LEMMA GivenCall ==
  ASSUME Inv, NEW c \in Callers, calls[c] # NoCall
  PROVE  IsGiven(calls[c]) /\ (calls[c].stage = "asking" => Class[calls[c].rec] = "peer")
  BY DEF Inv, TypeOK, Carried, Call, IsGiven

LEMMA DeliverStoredSound == ASSUME Inv, NEW r \in Records, DeliverStored(r) PROVE Sound
<1>1. Kept /\ OnlyHeld /\ UNCHANGED <<note, predates, alert>>
  BY GivenCall, BeginKeeps DEF DeliverStored, Callers
<1> QED
  BY <1>1, KeptStep DEF DeliverStored, Inv, TypeOK

LEMMA LoopNextSound == ASSUME Inv, NEW l \in Loops, LoopNext(l) PROVE Sound
<1>1. PICK d \in left[l] : left' = [left EXCEPT ![l] = @ \ {d}] /\ Begin(l, d)
  BY DEF LoopNext
<1>2. IsGiven(d)
  BY DEF Inv, TypeOK, Carried, Given, IsGiven
<1>3. Kept /\ OnlyHeld /\ UNCHANGED <<note, predates, alert>>
  BY <1>1, <1>2, BeginKeeps DEF Callers
<1>4. left' \in [Loops -> SUBSET Given] /\ \A k \in Loops : left'[k] \subseteq left[k]
  BY <1>1 DEF Inv, TypeOK
<1> QED
  BY <1>3, <1>4, KeptStep DEF LoopNext

LEMMA ResolvedSound == ASSUME Inv, NEW c \in Callers, Resolved(c) PROVE Sound
<1> DEFINE d == calls[c]
<1>1. IsGiven(d) /\ Class[d.rec] = "peer"
  BY GivenCall DEF Resolved
<1>2. CASE /\ peer = NoAgent
           /\ calls' = [calls EXCEPT ![c] = NoCall]
           /\ Outcome({}, {d.rec})
           /\ UNCHANGED <<to, note, copies>>
  <2> HIDE DEF d
  <2>1. UNCHANGED <<to, note, copies, world, left, resend, replacing, reloads, history>>
    BY <1>2 DEF Resolved
  <2>2. calls' \in [Callers -> Call \cup {NoCall}] /\ \A b \in Callers : calls'[b] # NoCall => calls'[b] = calls[b]
    BY <1>2 DEF Inv, TypeOK
  <2>3. StoreSound
    BY <1>1, <1>2, <2>1, OutcomeStep DEF IsGiven, history
  <2>4. TypeOK'
    BY <1>2, <2>1, <2>2, OutcomeType DEF Inv, TypeOK, world, history
  <2> QED
    BY <2>1, <2>2, <2>3, <2>4, WholeStep DEF Inv, TypeOK, Carried, Ungated, history
<1>3. CASE CarryOn(c, d, to)
  <2>1. to \in [Records -> Agents \cup {NoAgent}]
    BY DEF Inv, TypeOK
  <2>2. Kept /\ OnlyHeld
    BY <1>1, <1>3, <2>1, CarryOnKeeps
  <2>3. UNCHANGED <<note, predates, alert>>
    BY <1>3 DEF CarryOn
  <2> QED
    BY <2>2, <2>3, KeptStep DEF Resolved, Inv, TypeOK
<1>4. ASSUME NEW a, a \in {peer, Unknown} \ {NoAgent}, a \notin {Unknown, d.to}, IsOpenRecord(d.rec),
             CarryOn(c, [rec |-> d.rec, to |-> a, was |-> state[d.rec]], [to EXCEPT ![d.rec] = a])
      PROVE  Sound
  <2> DEFINE e == [rec |-> d.rec, to |-> a, was |-> state[d.rec]]
             tos == [to EXCEPT ![d.rec] = a]
  <2>1. a \in Agents
    BY <1>4 DEF Inv, TypeOK, Agents
  <2>2. IsGiven(e)
    BY <1>1, <2>1 DEF IsGiven, Inv, TypeOK
  <2>3. tos \in [Records -> Agents \cup {NoAgent}] /\ \A r \in Records : tos[r] = to[r] \/ (IsOpenRecord(r) /\ tos[r] \in Agents)
    <3> HIDE DEF d
    <3> QED
      BY <1>1, <1>4, <2>1 DEF Inv, TypeOK, IsGiven
  <2>4. CarryOn(c, e, tos)
    BY <1>4
  <2>5. UNCHANGED <<note, predates, alert>>
    BY <2>4 DEF CarryOn
  <2> HIDE DEF e, tos
  <2>6. Kept /\ OnlyHeld
    BY <2>2, <2>3, <2>4, CarryOnKeeps
  <2> QED
    BY <2>5, <2>6, KeptStep DEF Resolved, Inv, TypeOK
<1> QED
  BY <1>2, <1>3, <1>4 DEF Resolved

\* The state and target of no record change, nor what reached an agent.
LEMMA SameStore ==
  ASSUME Inv, UNCHANGED <<state, to, reached>>
  PROVE  StoreSound
  BY OnlyHeldStep DEF OnlyHeld, Inv, TypeOK

\* Only a record that is not stored yet changes.
LEMMA StoredStep ==
  ASSUME Inv, NEW r \in Records, state[r] = "none", NEW s \in {"pending", "withheld"}, NEW a \in Agents,
         state' = [state EXCEPT ![r] = s], to' = [to EXCEPT ![r] = a], UNCHANGED reached
  PROVE  StoreSound
<1> DEFINE shown == [q \in Records |-> IF state[q] \in {"pending", "held"} THEN "open" ELSE state[q]]
           stored == [q \in Records |-> IF state'[q] \in {"pending", "held"} THEN "open" ELSE state'[q]]
           t == IF s = "pending" THEN "open" ELSE s
<1>1. SendableStays /\ KeepsSettled /\ KeepsMain
  BY DEF SendableStays, Sendable, KeepsSettled, Settled, KeepsMain, IsOpenRecord, Inv, TypeOK
<1>2. \A q \in Records : state'[q] = "held" => Class[q] # "main"
  BY DEF Inv, TypeOK, Ungated
<1>3. shown[r] = "none" /\ t \in {"open", "withheld"} /\ stored = [shown EXCEPT ![r] = t]
  BY DEF Inv, TypeOK
<1>4. Promise!Store(r)
  BY <1>3 DEF Promise!Store
<1>5. Addressed'
  BY DEF Inv, TypeOK, Addressed, IsOpenRecord
<1> QED
  BY <1>1, <1>2, <1>4, <1>5 DEF StoreSound, Promised, Promise!Next

\* A record is stored for an agent, and its call with it.
LEMMA PostCall ==
  ASSUME Inv, NEW r \in Records, Post(r)
  PROVE  \E a \in Agents :
           /\ to' = [to EXCEPT ![r] = a]
           /\ calls' = [calls EXCEPT ![r] = [rec |-> r, to |-> a, was |-> "pending", stage |-> "stored"]]
<1> DEFINE targets == CASE Class[r] = "main" -> {mission.main} \cup mission.former
                        [] Class[r] = "peer" -> {peer} \ {NoAgent}
                        [] Class[r] = "plain" -> Workers
<1>1. targets \subseteq Agents
  <2>1. Class[r] \in {"main", "peer", "plain"}
    BY OutboxAssumption
  <2>2. {mission.main} \cup mission.former \subseteq Agents /\ {peer} \ {NoAgent} \subseteq Agents
    BY MainType DEF Inv, TypeOK, Agents
  <2> QED
    BY <2>1, <2>2 DEF Agents
<1>2. \E a \in targets :
        /\ to' = [to EXCEPT ![r] = a]
        /\ calls' = [calls EXCEPT ![r] = [rec |-> r, to |-> a, was |-> "pending", stage |-> "stored"]]
  BY DEF Post
<1> HIDE DEF targets
<1> QED
  BY <1>1, <1>2

LEMMA PostSound == ASSUME Inv, NEW r \in Records, Post(r) PROVE Sound
<1>1. PICK a \in Agents :
        /\ to' = [to EXCEPT ![r] = a]
        /\ calls' = [calls EXCEPT ![r] = [rec |-> r, to |-> a, was |-> "pending", stage |-> "stored"]]
  BY PostCall
<1> DEFINE call == [rec |-> r, to |-> a, was |-> "pending", stage |-> "stored"]
<1>3. calls' = [calls EXCEPT ![r] = call] /\ call \in Call /\ call.rec = r
  BY <1>1 DEF Call, States
<1> HIDE DEF call
<1>4. state[r] = "none" /\ state' = [state EXCEPT ![r] = "pending"]
  BY DEF Post
<1>5. StoreSound
  BY <1>1, <1>4, StoredStep DEF Post, history
<1>6. TypeOK'
  BY <1>1, <1>3, <1>4 DEF Post, Inv, TypeOK, States, world, history, Callers
<1>7. Carried'
  <2> DEFINE sends(q) == state'[q] \notin {"none", "withheld"}
  <2>1. ASSUME NEW q \in Records, Sendable(q) \/ q = r PROVE sends(q)
    BY <1>4, <2>1 DEF Sendable, Inv, TypeOK
  <2> HIDE DEF sends
  <2>2. ASSUME NEW c \in Callers, calls'[c] # NoCall PROVE sends(calls'[c].rec)
    <3>1. CASE c = r
      BY <1>3, <2>1, <3>1 DEF Inv, TypeOK
    <3>2. CASE c # r
      BY <1>3, <2>1, <2>2, <3>2 DEF Inv, TypeOK, Carried, Call
    <3> QED
      BY <3>1, <3>2
  <2>3. \A l \in Loops : \A d \in left'[l] : sends(d.rec)
    BY <2>1 DEF Post, Inv, TypeOK, Carried, Given
  <2>4. \A c \in copies' : sends(c.rec) /\ (c.stage = "taken" => c.rec \in reached')
    BY <2>1 DEF Post, Inv, TypeOK, Carried, Copy, Fields, history
  <2> QED
    BY <2>2, <2>3, <2>4 DEF Carried, Sendable, sends
<1>8. Ungated'
  BY <1>5 DEF StoreSound, Post, Inv, Ungated
<1> QED
  BY <1>5, <1>6, <1>7, <1>8 DEF Sound, Inv, StoreSound

LEMMA WithholdSound == ASSUME Inv, NEW r \in Records, Withhold(r) PROVE Sound
<1>1. PICK a \in Workers : to' = [to EXCEPT ![r] = a]
  BY DEF Withhold
<1>2. StoreSound
  BY <1>1, StoredStep DEF Withhold, Agents, history
<1>3. TypeOK'
  BY <1>1 DEF Withhold, Inv, TypeOK, States, world, run, history, Agents
<1> QED
  BY <1>2, <1>3, WholeStep DEF Withhold, Inv, Carried, Ungated, run, history

LEMMA PostNoteSound == ASSUME Inv, NEW n \in Notes, PostNote(n) PROVE Sound
<1>1. StoreSound
  BY SameStore DEF PostNote, history
<1>2. TypeOK'
  BY DEF PostNote, Inv, TypeOK, world, run, history
<1> QED
  BY <1>1, <1>2, WholeStep DEF PostNote, Inv, Carried, Ungated, run, history

LEMMA TakeSound == ASSUME Inv, NEW a \in Agents, Take(a) PROVE Sound
<1>1. PICK msg \in SUBSET copies, held \in SUBSET copies :
        /\ \A b \in held : b.rec \in MayHold
        /\ copies' = (copies \ msg) \cup {[b EXCEPT !.stage = "sending"] : b \in msg \ held}
        /\ state' = Hold(RecordsOf(held), "held")
  BY DEF Take, At
<1>2. \A b \in copies' : \/ b \in copies
                        \/ \E c \in copies : /\ b \in Copy /\ b.rec = c.rec
                                             /\ b.stage = "sending" /\ b.how = c.how
  <2>1. ASSUME NEW c \in copies
        PROVE  /\ [c EXCEPT !.stage = "sending"] \in Copy
               /\ [c EXCEPT !.stage = "sending"].rec = c.rec
               /\ [c EXCEPT !.stage = "sending"].stage = "sending"
               /\ [c EXCEPT !.stage = "sending"].how = c.how
    BY StageType DEF Inv, TypeOK
  <2> QED
    BY <1>1, <2>1
<1>3. RecordsOf(held) \subseteq {r \in Records : Class[r] # "main"}
  BY <1>1, OutboxAssumption DEF RecordsOf
<1>4. state' \in [Records -> States] /\ OnlyHeld
  BY <1>1, <1>3, HoldType DEF Inv, OnlyHeld
<1>5. StoreSound
  BY <1>4, OnlyHeldStep DEF Take, history
<1>6. TypeOK'
  BY <1>2, <1>4 DEF Take, Inv, TypeOK, world, history
<1> QED
  BY <1>2, <1>5, <1>6, WholeStep DEF Take, Inv, Carried, Ungated, history

\* The message a goes through: its records are stored ones.
LEMMA MessageType ==
  ASSUME Inv, NEW a, NEW S
  PROVE  /\ At(a, S) \subseteq copies
         /\ RecordsOf(At(a, S)) \subseteq Records
         /\ \A r \in RecordsOf(At(a, S)) : Sendable(r)
  BY DEF At, RecordsOf, Inv, TypeOK, Carried, Copy, Fields

LEMMA ReachSound == ASSUME Inv, NEW a \in Agents, Reach(a) PROVE Sound
<1> DEFINE msg == At(a, {"sending"})
           recs == RecordsOf(msg)
<1>1. recs \in SUBSET Records /\ \A r \in recs : Sendable(r)
  BY MessageType
<1>2. reached' = reached \cup recs /\ UNCHANGED <<state, to>>
  BY DEF Reach, store
<1>3. \A b \in copies' : \/ b \in copies
                        \/ \E c \in copies : /\ b \in Copy /\ b.rec = c.rec /\ b.how = c.how
                                             /\ b.rec \in recs
  <2>1. copies' = (copies \ msg) \cup {[c EXCEPT !.stage = "taken"] : c \in msg}
    BY DEF Reach
  <2>2. \A c \in msg : c \in copies /\ c \in Copy /\ c.rec \in recs
    BY MessageType DEF RecordsOf, Inv, TypeOK
  <2>3. ASSUME NEW c \in msg
        PROVE  /\ [c EXCEPT !.stage = "taken"] \in Copy
               /\ [c EXCEPT !.stage = "taken"].rec = c.rec
               /\ [c EXCEPT !.stage = "taken"].how = c.how
    BY <2>2, StageType
  <2> HIDE DEF msg, recs
  <2> QED
    BY <2>1, <2>2, <2>3
<1> HIDE DEF msg
<1>4. Promise!Reach(recs)
  BY <1>1, <1>2 DEF Promise!Reach, Sendable
<1>5. StoreSound
  <2>1. Promised
    BY <1>1, <1>4 DEF Promised, Promise!Next
  <2> QED
    BY <1>2, <2>1 DEF StoreSound, SendableStays, Sendable, KeepsSettled, KeepsMain, IsOpenRecord, Inv, Ungated, Addressed
<1>6. read' \subseteq Notes \X Agents
  <2>1. \A c \in At(a, {"sending"}) : Listed(c.lead) \subseteq Notes
    BY MessageType DEF Listed, Inv, TypeOK, Copy, Fields
  <2> QED
    BY <2>1 DEF Reach, Inv, TypeOK
<1>7. TypeOK'
  BY <1>1, <1>2, <1>3, <1>6 DEF Reach, Inv, TypeOK, store, world
<1> QED
  BY <1>2, <1>3, <1>5, <1>7, WholeStep DEF Reach, Inv, Carried, Ungated

LEMMA SentSound == ASSUME Inv, NEW a \in Agents, Sent(a) PROVE Sound
<1> DEFINE recs == RecordsOf(At(a, {"taken"}))
<1>1. recs \subseteq reached
  BY DEF RecordsOf, At, Inv, Carried
<1>2. Outcome(recs, {}) /\ UNCHANGED <<to, reached>>
  BY DEF Sent, history
<1> HIDE DEF recs
<1>3. StoreSound
  BY <1>1, <1>2, OutcomeStep
<1>4. note' \in [Notes -> {"none", "stored", "shown"}]
  BY DEF Sent, Inv, TypeOK
<1>5. TypeOK'
  BY <1>2, <1>4, OutcomeType DEF Sent, Inv, TypeOK, world, history
<1> QED
  BY <1>3, <1>5, WholeStep DEF Sent, Inv, Carried, Ungated, history

\* A copy that is sent once more, to another agent.
LEMMA AgainType ==
  ASSUME Inv, NEW c \in copies, c.tries < PeerRetargets, NEW a \in Agents
  PROVE  LET b == Attempt(c.rec, a, c.tries + 1, c.lead, c.by) IN
         b \in Copy /\ Sendable(b.rec) /\ b.stage = "queued" /\ b.how # "release"
<1>1. /\ c.rec \in Records /\ c.tries \in 0..PeerRetargets /\ c.lead \in SUBSET Notes
      /\ c.by \in Callers \cup {"release"} /\ Sendable(c.rec)
  BY DEF Inv, TypeOK, Carried, Copy, Fields
<1>2. c.tries + 1 \in 0..PeerRetargets
  BY <1>1, OutboxAssumption
<1> QED
  BY <1>1, <1>2, AttemptType DEF Inv

LEMMA FailedSound == ASSUME Inv, NEW a \in Agents, Failed(a) PROVE Sound
<1> DEFINE msg == At(a, {"sending", "taken"})
           moves == {c \in msg : MayMove(c) /\ IsOpenRecord(c.rec)}
           asks == {c \in msg : MayAsk(c)}
           ends == {c \in msg : ~MayMove(c) /\ ~MayPark(c) /\ ~MayAsk(c)}
           asking == {[c EXCEPT !.stage = "asking"] : c \in asks}
           again == {Attempt(c.rec, mission.main, c.tries + 1, c.lead, c.by) : c \in moves}
<1>1. /\ copies' = Put((copies \ msg) \cup asking, again)
      /\ to' = [r \in Records |-> IF r \in RecordsOf(moves) THEN mission.main ELSE to[r]]
      /\ Outcome({}, RecordsOf(ends))
      /\ parked' = parked \cup {c.rec : c \in {b \in msg : MayPark(b)}}
      /\ UNCHANGED <<note, world, calls, left, resend, replacing, reloads, excused, reached, read>>
  BY DEF Failed
<1>2. \A c \in msg : c \in copies /\ c \in Copy /\ c.rec \in Records
  BY MessageType DEF Inv, TypeOK, Copy, Fields
<1>3. \A b \in asking : \E c \in copies : b \in Copy /\ b.rec = c.rec /\ b.stage = "asking" /\ b.how = c.how
  <2> DEFINE ask(c) == [c EXCEPT !.stage = "asking"]
  <2>1. \A c \in asks : c \in copies /\ c \in Copy /\ Class[c.rec] = "peer" /\ c.tries < PeerRetargets
    BY <1>2 DEF MayAsk
  <2>2. asking = {ask(c) : c \in asks}
    OBVIOUS
  <2> HIDE DEF asks, asking
  <2>3. ASSUME NEW c \in asks
        PROVE  ask(c) \in Copy /\ ask(c).rec = c.rec /\ ask(c).stage = "asking" /\ ask(c).how = c.how
    BY <2>1, StageType
  <2> HIDE DEF ask
  <2> QED
    BY <2>1, <2>2, <2>3
<1>4. \A b \in again : b \in Copy /\ Sendable(b.rec) /\ b.stage = "queued" /\ b.how # "release"
  BY <1>2, AgainType, MainType DEF MayMove, Inv
<1>5. \A r \in RecordsOf(moves) : IsOpenRecord(r)
  BY DEF RecordsOf
<1>6. \A r \in RecordsOf(ends) : r \in Records /\ (Class[r] # "main" \/ ~mission.open)
  BY <1>2 DEF RecordsOf, MayPark, Inv, Ungated
<1> HIDE DEF moves, asks, ends, asking, again
<1>7. \A b \in copies' : /\ b \in Copy /\ Sendable(b.rec)
                         /\ b.stage = "taken" => b.rec \in reached
                         /\ b.how = "release" => Class[b.rec] # "main"
  BY <1>1, <1>3, <1>4, PutType DEF Inv, TypeOK, Carried, Ungated
<1>8. \A r \in Records : to'[r] = to[r] \/ (IsOpenRecord(r) /\ to'[r] \in Agents)
  BY <1>1, <1>5, MainType DEF Inv
<1>9. StoreSound
  BY <1>1, <1>6, <1>8, OutcomeStep
<1>10. TypeOK'
  <2>1. to' \in [Records -> Agents \cup {NoAgent}]
    BY <1>1, MainType DEF Inv, TypeOK
  <2>2. parked' \subseteq Records
    <3>1. \A c \in msg : c.rec \in Records
      BY <1>2
    <3> HIDE DEF msg
    <3> QED
      BY <1>1, <3>1 DEF Inv, TypeOK
  <2>3. /\ state' \in [Records -> States] /\ predates' \in [Records -> SUBSET Records]
        /\ alert' \in BOOLEAN
    BY <1>1, OutcomeType DEF Inv
  <2>4. copies' \subseteq Copy
    BY <1>7
  <2>5. UNCHANGED <<note, mission, peer, calls, left, resend, replacing, reloads, excused, reached, read>>
    BY <1>1 DEF world
  <2> QED
    BY <2>1, <2>2, <2>3, <2>4, <2>5 DEF Inv, TypeOK
<1>11. UNCHANGED <<calls, left, reached>>
  BY <1>1
<1>12. /\ \A c \in Callers : calls'[c] # NoCall => Sendable(calls'[c].rec)
       /\ \A l \in Loops : \A d \in left'[l] : Sendable(d.rec)
  BY <1>11 DEF Inv, Carried
<1> QED
  BY <1>7, <1>9, <1>10, <1>11, <1>12, WholeStep

LEMMA AskedSound == ASSUME Inv, NEW c \in copies, Asked(c) PROVE Sound
<1>1. /\ c \in Copy /\ c.rec \in Records /\ Class[c.rec] = "peer" /\ c.tries < PeerRetargets
  BY DEF Asked, Inv, TypeOK, Copy, Fields
<1>2. UNCHANGED <<note, world, calls, left, resend, replacing, reloads, history>>
  BY DEF Asked
<1>3. CASE Outcome({}, {c.rec}) /\ copies' = copies \ {c} /\ UNCHANGED to
  <2>1. StoreSound
    BY <1>1, <1>2, <1>3, OutcomeStep DEF history
  <2>2. TypeOK'
    BY <1>2, <1>3, OutcomeType DEF Inv, TypeOK, world, history
  <2> QED
    BY <1>2, <1>3, <2>1, <2>2, WholeStep DEF Inv, Carried, Ungated, history
<1>4. CASE copies' = copies \ {c} /\ UNCHANGED <<state, predates, alert, to>>
  <2>1. StoreSound
    BY <1>2, <1>4, SameStore DEF history
  <2>2. TypeOK'
    BY <1>2, <1>4 DEF Inv, TypeOK, world, history
  <2> QED
    BY <1>2, <1>4, <2>1, <2>2, WholeStep DEF Inv, Carried, Ungated, history
<1>5. ASSUME NEW a \in Peers, IsOpenRecord(c.rec),
             to' = [to EXCEPT ![c.rec] = a],
             copies' = Put(copies \ {c}, {Attempt(c.rec, a, c.tries + 1, c.lead, c.by)}),
             UNCHANGED <<state, predates, alert>>
      PROVE  Sound
  <2> DEFINE again == Attempt(c.rec, a, c.tries + 1, c.lead, c.by)
  <2>1. a \in Agents
    BY DEF Agents
  <2>2. again \in Copy /\ Sendable(again.rec) /\ again.stage = "queued" /\ again.how # "release"
    BY <1>1, <2>1, AgainType
  <2> HIDE DEF again
  <2>3. copies' = Put(copies \ {c}, {again})
    BY <1>5 DEF again
  <2>4. \A b \in copies' : b \in copies \/ b = again
    BY <2>3, PutType
  <2>5. StoreSound
    <3>1. \A r \in Records : to'[r] = to[r] \/ (IsOpenRecord(r) /\ to'[r] \in Agents)
      BY <1>1, <1>5, <2>1 DEF Inv, TypeOK
    <3>2. UNCHANGED <<state, reached>>
      BY <1>2, <1>5 DEF history
    <3>3. OnlyHeld /\ state' \in [Records -> States]
      BY <3>2 DEF OnlyHeld, Inv, TypeOK
    <3> QED
      BY <3>1, <3>2, <3>3, OnlyHeldStep
  <2>6. TypeOK'
    BY <1>2, <1>5, <2>1, <2>2, <2>4 DEF Inv, TypeOK, world, history
  <2> QED
    BY <1>2, <2>2, <2>4, <2>5, <2>6, WholeStep DEF Inv, Carried, Ungated, history
<1>6. \A a \in {peer, Unknown} : a \notin {NoAgent, Unknown, c.to} => a \in Peers
  BY DEF Inv, TypeOK
<1> QED
  BY <1>3, <1>4, <1>5, <1>6 DEF Asked, Again

LEMMA ReleaseSound == ASSUME Inv, NEW a \in Agents, Release(a) PROVE Sound
<1> DEFINE held == HeldItems(a)
           new == {Released(r, a, {}, "release") : r \in held}
<1>1. /\ state' = Hold(held, "pending") /\ copies' = Put(copies, new)
      /\ UNCHANGED <<to, note, predates, alert, world, calls, left, resend, replacing, reloads, history>>
  BY DEF Release
<1>2. \A r \in held : r \in Records /\ Sendable(r) /\ Class[r] # "main"
  BY HeldType
<1>3. \A b \in new : b \in Copy /\ Sendable(b.rec) /\ b.stage = "queued" /\ Class[b.rec] # "main"
  <2>1. 0 \in 0..PeerRetargets
    BY OutboxAssumption
  <2> HIDE DEF held
  <2>2. ASSUME NEW r \in held
        PROVE  /\ Released(r, a, {}, "release") \in Copy
               /\ Released(r, a, {}, "release").rec = r
               /\ Released(r, a, {}, "release").stage = "queued"
    BY <1>2, <2>1, AttemptType DEF Inv
  <2> QED
    BY <1>2, <2>2
<1> HIDE DEF held, new
<1>4. state' \in [Records -> States] /\ OnlyHeld
  BY <1>1, HoldType DEF Inv, OnlyHeld
<1>5. StoreSound
  BY <1>1, <1>4, OnlyHeldStep DEF history
<1>6. TypeOK'
  BY <1>1, <1>3, <1>4, PutType DEF Inv, TypeOK, world, history
<1> QED
  BY <1>1, <1>3, <1>5, <1>6, PutType, WholeStep DEF Inv, Carried, Ungated, history

LEMMA MoveQueueSound == ASSUME Inv, MoveQueue PROVE Sound
<1> DEFINE moved == {c \in copies : c.stage = "queued" /\ c.at = mission.last}
           new == {[c EXCEPT !.at = mission.main] : c \in moved}
<1>1. /\ copies' = Put(copies \ moved, new) /\ replacing' = "moved"
      /\ UNCHANGED <<store, world, calls, left, resend, reloads, history>>
  BY DEF MoveQueue
<1>2. \A b \in new : \E c \in copies : b \in Copy /\ b.rec = c.rec /\ b.stage = c.stage /\ b.how = c.how
  BY MainType DEF Inv, TypeOK, Copy, Fields
<1> HIDE DEF moved, new
<1>3. StoreSound
  BY <1>1, SameStore DEF store, history
<1>4. \A b \in copies' : \E c \in copies : b \in Copy /\ b.rec = c.rec /\ b.stage = c.stage /\ b.how = c.how
  BY <1>1, <1>2, PutType DEF Inv, TypeOK
<1>5. TypeOK'
  BY <1>1, <1>4 DEF Inv, TypeOK, store, world, history
<1> QED
  BY <1>1, <1>3, <1>4, <1>5, WholeStep DEF Inv, Carried, Ungated, store, history

\* A listing holds the open records as they are stored.
LEMMA ListedType ==
  ASSUME Inv, NEW R, R \subseteq Records
  PROVE  OpenGiven(R) \in SUBSET Given /\ \A d \in OpenGiven(R) : Sendable(d.rec)
  BY DEF OpenGiven, IsOpenRecord, Sendable, Given, Inv, TypeOK, States, Addressed

LEMMA ListingSound ==
  ASSUME Inv, NEW l \in Loops, NEW R, R \subseteq Records, left' = [left EXCEPT ![l] = OpenGiven(R)],
         UNCHANGED <<store, world, calls, copies, reloads, excused, reached, read>>,
         resend' \in {"off", "begun", "listed"}, replacing' \in {"no", "named", "moved"}, parked' \subseteq Records
  PROVE  Sound
<1> DEFINE given == OpenGiven(R)
<1>1. given \in SUBSET Given /\ \A d \in given : Sendable(d.rec)
  BY ListedType
<1>2. left' = [left EXCEPT ![l] = given]
  OBVIOUS
<1> HIDE DEF given
<1>3. StoreSound
  BY SameStore DEF store
<1>4. TypeOK'
  BY <1>1, <1>2 DEF Inv, TypeOK, store, world
<1>5. \A k \in Loops : \A d \in left'[k] : Sendable(d.rec)
  BY <1>1, <1>2 DEF Inv, TypeOK, Carried
<1> QED
  BY <1>3, <1>4, <1>5, WholeStep DEF Inv, Carried, Ungated

LEMMA ListFormerSound == ASSUME Inv, ListFormer PROVE Sound
<1>1. ToFormer \subseteq Records /\ {r \in parked : to[r] \notin mission.former} \subseteq Records
  BY DEF ToFormer, Inv, TypeOK
<1> QED
  BY <1>1, ListingSound DEF ListFormer, Loops, Inv, TypeOK

LEMMA ListOpenSound == ASSUME Inv, ListOpen PROVE Sound
  BY ListingSound DEF ListOpen, Loops, Inv, TypeOK, history

\* What changes only the mission, the link, the alert or the resend's step.
LEMMA AroundSound ==
  ASSUME Inv, \/ \E m \in Mains : ReplaceMain(m)
              \/ EndMission \/ EndRequest \/ PeerChanges \/ Resume
  PROVE  Sound
<1>1. UNCHANGED <<state, to, note, predates, calls, left, copies, reloads, parked, reached, read>>
  BY DEF ReplaceMain, EndMission, EndRequest, PeerChanges, Resume, store, run, history
<1>2. StoreSound
  BY <1>1, SameStore
<1>3. /\ mission' \in [main : Mains, last : Mains, former : SUBSET Mains, open : BOOLEAN]
      /\ peer' \in Peers \cup {NoAgent} /\ alert' \in BOOLEAN /\ excused' \subseteq Records
      /\ resend' \in {"off", "begun", "listed"} /\ replacing' \in {"no", "named", "moved"}
  <2>1. CASE \E m \in Mains : ReplaceMain(m)
    <3>1. PICK m \in Mains :
            mission' = [mission EXCEPT !.main = m, !.last = mission.main, !.former = @ \cup {mission.main}]
      BY <2>1 DEF ReplaceMain
    <3>2. mission' \in [main : Mains, last : Mains, former : SUBSET Mains, open : BOOLEAN]
      BY <3>1 DEF Inv, TypeOK
    <3>3. UNCHANGED <<peer, alert, excused, resend>> /\ replacing' = "named"
      BY <2>1 DEF ReplaceMain, store, history
    <3> QED
      BY <3>2, <3>3 DEF Inv, TypeOK
  <2>2. CASE EndMission
    BY <2>2 DEF EndMission, store, run, history, Inv, TypeOK
  <2>3. CASE EndRequest \/ PeerChanges \/ Resume
    BY <2>3 DEF EndRequest, PeerChanges, Resume, store, world, run, history, Inv, TypeOK
  <2> QED
    BY <2>1, <2>2, <2>3
<1>4. TypeOK'
  BY <1>1, <1>3 DEF Inv, TypeOK
<1> QED
  BY <1>1, <1>2, <1>4, WholeStep DEF Inv, Carried, Ungated

LEMMA ReloadSound == ASSUME Inv, Reload PROVE Sound
<1>1. StoreSound
  BY SameStore DEF Reload, store
<1>2. TypeOK'
  BY DEF Reload, Inv, TypeOK, store, world
<1> QED
  BY <1>1, <1>2, WholeStep DEF Reload

LEMMA StutterSound == ASSUME Inv, UNCHANGED vars PROVE Sound
<1>1. StoreSound
  BY SameStore DEF vars, store, history
<1>2. TypeOK'
  BY DEF vars, Inv, TypeOK, store, world, run, history
<1> QED
  BY <1>1, <1>2, WholeStep DEF vars, run, history, Inv, Carried, Ungated

-----------------------------------------------------------------------------
(* The theorems.                                                           *)

LEMMA InitInv == ASSUME Init PROVE Inv /\ Promise!Init
<1>1. TypeOK
  <2>1. \E m \in Mains : mission = [main |-> m, last |-> m, former |-> {}, open |-> TRUE]
    BY DEF Init
  <2>2. mission \in [main : Mains, last : Mains, former : SUBSET Mains, open : BOOLEAN]
    BY <2>1
  <2> QED
    BY <2>2 DEF Init, TypeOK, States
<1>2. Carried /\ Ungated /\ Addressed
  BY DEF Init, Carried, Ungated, Addressed, IsOpenRecord
<1>3. Promise!Init
  BY DEF Init, Promise!Init
<1> QED
  BY <1>1, <1>2, <1>3 DEF Inv

LEMMA StepSound == ASSUME Inv, [Next]_vars PROVE Sound
<1>1. CASE Environment
  BY <1>1, PostSound, WithholdSound, PostNoteSound, ReleaseSound, AroundSound, ReloadSound DEF Environment
<1>2. CASE \E r \in Records : DeliverStored(r)
  BY <1>2, DeliverStoredSound
<1>3. CASE \E c \in Callers : Resolved(c)
  BY <1>3, ResolvedSound
<1>4. CASE \E l \in Loops : LoopNext(l)
  BY <1>4, LoopNextSound
<1>5. CASE \E a \in Agents : Take(a) \/ Answer(a)
  BY <1>5, TakeSound, ReachSound, SentSound, FailedSound DEF Answer
<1>6. CASE \E c \in copies : Asked(c)
  BY <1>6, AskedSound
<1>7. CASE Replacement \/ Resending
  BY <1>7, MoveQueueSound, ListFormerSound, ListOpenSound, AroundSound DEF Replacement, Resending
<1>8. CASE UNCHANGED vars
  BY <1>8, StutterSound
<1> QED
  BY <1>1, <1>2, <1>3, <1>4, <1>5, <1>6, <1>7, <1>8 DEF Next

LEMMA InvHolds == Spec => []Inv
<1>1. Init => Inv
  BY InitInv
<1>2. Inv /\ [Next]_vars => Inv'
  BY StepSound DEF Sound
<1> QED
  BY <1>1, <1>2, PTL DEF Spec

\* The state of outbox.ts keeps its types, whatever the number of records.
THEOREM TypeCorrect == Spec => []TypeOK
<1>1. Inv => TypeOK
  BY DEF Inv
<1> QED
  BY <1>1, InvHolds, PTL

\* settle, retarget and hold never change a record that is settled.
THEOREM SettledRecordsStay == Spec => SettledStays
<1>1. Inv /\ [Next]_vars => [\A r \in Records : state[r] \in Settled => state'[r] = state[r] /\ to'[r] = to[r]]_vars
  BY StepSound DEF Sound, KeepsSettled
<1> QED
  BY <1>1, InvHolds, PTL DEF Spec, SettledStays

\* No call, loop, copy or callback drops a record addressed to the Main of an
\* open mission: it moves to the Main of now or stays pending.
THEOREM MainRecordsKept == Spec => MainRecordKept
<1>1. Inv /\ [Next]_vars =>
        [\A r \in Records : Class[r] = "main" /\ IsOpenRecord(r) /\ state'[r] = "dropped" => ~mission.open]_vars
  BY StepSound DEF Sound, KeepsMain
<1> QED
  BY <1>1, InvHolds, PTL DEF Spec, MainRecordKept

\* The outbox implements Delivery: a record is `delivered' only after it reached
\* an agent, and no outcome is taken back, across reloads too.
THEOREM OutboxKeepsPromise == Spec => PromiseKept
<1>1. Init => Promise!Init
  BY InitInv
<1>2. Inv /\ [Next]_vars => [Promise!Next]_(Promise!vars)
  BY StepSound DEF Sound, Promised
<1> QED
  BY <1>1, <1>2, InvHolds, PTL DEF Spec, PromiseKept, Promise!Spec
=============================================================================
