-------------------------- MODULE WakeGate_proofs --------------------------
(***************************************************************************)
(* Proofs about WakeGate for every set of questions, batches, requests and *)
(* notes, and any number of reports and reloads.                           *)
(***************************************************************************)
EXTENDS WakeGate, TLAPS

\* What a stored wait, and one a release was told of, look like.
WaitOK(w) ==
  /\ w \in Wait
  /\ w.settled \subseteq w.items
  /\ w.facts \subseteq w.items
  /\ w.report = 0 => w.items = {}

\* TypeOK, strengthened: a wait settles and tells of its own items.
TypeInv ==
  /\ TypeOK
  /\ WaitOK(wait)
  /\ \A w \in due : WaitOK(w)

-----------------------------------------------------------------------------
(* Waits.                                                                  *)

LEMMA NoWaitOK == WaitOK(NoWait) /\ NoWait.items = {} /\ Met(NoWait)
  BY WakeAssumption DEF WaitOK, NoWait, Wait, Met

\* Settling changes what is settled, and the facts, of the wait only.
LEMMA SettleOK ==
  ASSUME NEW w, WaitOK(w), NEW S, NEW F
  PROVE  /\ WaitOK(Settle(w, S, F))
         /\ Settle(w, S, F).report = w.report
         /\ Settle(w, S, F).any = w.any
         /\ Settle(w, S, F).items = w.items
         /\ Settle(w, S, F).settled = w.settled \cup (S \cap w.items)
  BY DEF WaitOK, Settle, Wait, Unsettled

\* A wait that is met stays met when more of it is settled.
LEMMA MetGrows ==
  ASSUME NEW v, WaitOK(v), NEW w, WaitOK(w), Met(v),
         v.items = w.items, v.any = w.any, v.settled \subseteq w.settled
  PROVE  Met(w)
  BY DEF Met, WaitOK

LEMMA ClearedOK ==
  ASSUME NEW w, NEW stored, WaitOK(stored)
  PROVE  WaitOK(Cleared(w, stored))
  BY NoWaitOK DEF Cleared

\* A hook leaves the wait or settles some of it.
LEMMA HookOK ==
  ASSUME TypeInv, NEW S, NEW F, NEW w \in Hook(S, F)
  PROVE  /\ WaitOK(w)
         /\ w.report = wait.report /\ w.any = wait.any /\ w.items = wait.items
         /\ wait.settled \subseteq w.settled
<1>1. w \in {Settle(wait, S, F), wait}
  BY DEF Hook
<1> QED
  BY <1>1, SettleOK DEF TypeInv

LEMMA WaitOfOK ==
  ASSUME TypeInv, NEW n \in 1..MaxReports, NEW I \in SUBSET Things, NEW any \in BOOLEAN
  PROVE  WaitOK(WaitOf(n, I, any)) /\ WaitOf(n, I, any).report \in {0, n}
<1>1. CASE I = {}
  BY <1>1, NoWaitOK DEF WaitOf, NoWait
<1>2. CASE I # {}
  <2>1. /\ WaitOf(n, I, any) = [report |-> n, any |-> any, items |-> I,
                                settled |-> I \cap over, facts |-> I \cap over]
        /\ n \in 0..MaxReports /\ n # 0
    BY <1>2, WakeAssumption DEF WaitOf
  <2> QED
    BY <2>1 DEF WaitOK, Wait
<1> QED
  BY <1>1, <1>2

LEMMA DueOK ==
  ASSUME TypeInv, NEW w, WaitOK(w), due' = due \cup Settled(w)
  PROVE  due' \subseteq Wait /\ \A v \in due' : WaitOK(v)
  BY DEF TypeInv, TypeOK, Settled, WaitOK

-----------------------------------------------------------------------------
(* Entries, and what a release writes.                                     *)

LEMMA EntryTypes ==
  /\ \A k \in Keys, S \in SUBSET Items : Alone(k, S) \in Entry /\ Joint(k, S) \in Entry
  /\ Records \subseteq Keys /\ Records \subseteq Items
  /\ Questions \subseteq Items
  /\ 1..MaxReports \subseteq Keys /\ 1..MaxReports \subseteq Items
  /\ Answers \in Keys /\ Facts \in Keys
  BY DEF Alone, Joint, Entry, Keys, Items

LEMMA EntrySets ==
  ASSUME NEW E \in SUBSET Entry
  PROVE  KeysOf(E) \subseteq Keys /\ JointKeys(E) \subseteq Keys /\ WhatOf(E) \subseteq Items
<1>1. \A e \in E : e.key \in Keys /\ e.what \subseteq Items
  BY DEF Entry
<1>2. KeysOf(E) \subseteq Keys
  BY <1>1 DEF KeysOf
<1>3. JointKeys(E) \subseteq Keys
  BY <1>1 DEF KeysOf, JointKeys
<1>4. WhatOf(E) \subseteq Items
  BY <1>1 DEF WhatOf
<1> QED
  BY <1>2, <1>3, <1>4

LEMMA FactsInType ==
  ASSUME NEW E \in SUBSET Entry
  PROVE  FactsIn(E) \subseteq 1..MaxReports
<1>1. WhatOf(E) \subseteq Items
  BY EntrySets
<1>2. (Records \cup Questions) \cap Nat = {}
  BY WakeAssumption DEF Records, Things
<1> QED
  BY <1>1, <1>2 DEF FactsIn, Items

\* What a release takes, by its source.
HeldOf(first, r0, a0) ==
  /\ HeldEntries(first, r0, a0) \subseteq Entry
  /\ \A e \in HeldEntries(first, r0, a0) : e.joint

LEMMA HeldEntriesType ==
  ASSUME TypeInv, NEW first, NEW r0, NEW a0
  PROVE  HeldOf(first, r0, a0)
<1> DEFINE As == HeldAnswers(first, a0)
           A == {Joint(r, {r}) : r \in HeldRecords(first, r0)}
           B == {Joint(n, {n}) : n \in kept \ releasing}
           C == IF As = {} THEN {} ELSE {Joint(Answers, As)}
<1>1. HeldEntries(first, r0, a0) = A \cup B \cup C
  BY DEF HeldEntries
<1>2. As \subseteq Questions
  BY DEF HeldAnswers
<1>3. HeldRecords(first, r0) \subseteq Records
  BY DEF HeldRecords
<1>4. kept \subseteq 1..MaxReports
  BY DEF TypeInv, TypeOK
<1>5. \A e \in A : e \in Entry /\ e.joint
  <2> SUFFICES ASSUME NEW r \in HeldRecords(first, r0)
               PROVE  Joint(r, {r}) \in Entry /\ Joint(r, {r}).joint
    OBVIOUS
  <2>1. r \in Keys /\ {r} \in SUBSET Items
    BY <1>3, EntryTypes
  <2> QED
    BY <2>1, EntryTypes DEF Joint
<1>6. \A e \in B : e \in Entry /\ e.joint
  <2> SUFFICES ASSUME NEW n \in kept \ releasing
               PROVE  Joint(n, {n}) \in Entry /\ Joint(n, {n}).joint
    OBVIOUS
  <2>1. n \in Keys /\ {n} \in SUBSET Items
    BY <1>4, EntryTypes
  <2> QED
    BY <2>1, EntryTypes DEF Joint
<1>7. \A e \in C : e \in Entry /\ e.joint
  <2>1. Joint(Answers, As) \in Entry /\ Joint(Answers, As).joint
    <3>1. Answers \in Keys /\ As \in SUBSET Items
      BY <1>2, EntryTypes
    <3> HIDE DEF As
    <3> QED
      BY <3>1, EntryTypes DEF Joint
  <2> QED
    BY <2>1
<1> HIDE DEF A, B, C
<1> QED
  BY <1>1, <1>5, <1>6, <1>7 DEF HeldOf

LEMMA FactsOfType ==
  ASSUME NEW w, WaitOK(w), NEW first, NEW held
  PROVE  \A e \in FactsOf(w, first, held) : e \in Entry /\ e.joint /\ e.what = {w.report}
<1>1. CASE w.items = {}
  BY <1>1 DEF WaitOK, FactsOf
<1>2. CASE w.items # {}
  <2>1. w.report \in 1..MaxReports
    BY <1>2, WakeAssumption DEF WaitOK, Wait
  <2>2. Joint(Facts, {w.report}) \in Entry
    BY <2>1, EntryTypes
  <2>3. Joint(Facts, {w.report}).joint /\ Joint(Facts, {w.report}).what = {w.report}
    BY DEF Joint
  <2>4. FactsOf(w, first, held) \subseteq {Joint(Facts, {w.report})}
    BY DEF FactsOf
  <2> QED
    BY <2>2, <2>3, <2>4
<1> QED
  BY <1>1, <1>2

\* put keeps the queue a set of entries, and a place for every key.
LEMMA PutOK ==
  ASSUME NEW E, Put(E)
  PROVE  /\ queue' \subseteq queue \cup E
         /\ E \subseteq queue'
         /\ JointKeys(queue) \subseteq JointKeys(queue')
  BY DEF Put, JointKeys, KeysOf

\* A release writes what it should, and marks what it puts in the queue.
LEMMA ReleaseType ==
  ASSUME TypeInv, NEW w, WaitOK(w), NEW first \in SUBSET Entry, \A e \in first : e.joint,
         NEW r0 \in [Records -> RecStates], NEW a0 \in [Questions -> AnsStates],
         ReleaseWait(w, first, r0, a0)
  PROVE  /\ queue' \subseteq Entry /\ msg' = msg
         /\ releasing' \subseteq Keys /\ kept' \subseteq 1..MaxReports
         /\ rec' \in [Records -> RecStates] /\ ans' \in [Questions -> AnsStates]
         /\ NothingStuck => NothingStuck'
<1> DEFINE held == HeldEntries(first, r0, a0)
           all == first \cup FactsOf(w, first, held) \cup held
<1>1. all \subseteq Entry /\ \A e \in all : e.joint
  <2>1. \A e \in held : e \in Entry /\ e.joint
    BY HeldEntriesType DEF HeldOf
  <2>2. \A e \in FactsOf(w, first, held) : e \in Entry /\ e.joint
    BY FactsOfType
  <2> HIDE DEF held
  <2> QED
    BY <2>1, <2>2
<1>2. /\ Put(all) /\ msg' = msg
      /\ releasing' = releasing \cup KeysOf(all)
      /\ kept' = kept \cap releasing
      /\ rec' = [r \in Records |-> IF r \in HeldRecords(first, r0) THEN "pending" ELSE r0[r]]
      /\ ans' = [q \in Questions |-> IF q \in HeldAnswers(first, a0) THEN "queued" ELSE a0[q]]
  BY DEF ReleaseWait
<1> HIDE DEF all
<1>3. queue' \subseteq Entry /\ all \subseteq queue' /\ JointKeys(queue) \subseteq JointKeys(queue')
  BY <1>1, <1>2, PutOK DEF TypeInv, TypeOK
<1>4. releasing' \subseteq Keys
  BY <1>1, <1>2, EntrySets DEF TypeInv, TypeOK
<1>5. kept' \subseteq 1..MaxReports
  BY <1>2 DEF TypeInv, TypeOK
<1>6. rec' \in [Records -> RecStates]
  BY <1>2 DEF RecStates
<1>7. ans' \in [Questions -> AnsStates]
  BY <1>2 DEF AnsStates
<1>8. ASSUME NothingStuck PROVE NothingStuck'
  <2>1. KeysOf(all) \subseteq JointKeys(queue')
    BY <1>1, <1>3 DEF KeysOf, JointKeys
  <2>2. JointKeys(queue \cup msg) = JointKeys(queue) \cup JointKeys(msg)
    BY DEF KeysOf, JointKeys
  <2>3. JointKeys(queue' \cup msg') = JointKeys(queue') \cup JointKeys(msg')
    BY DEF KeysOf, JointKeys
  <2> QED
    BY <1>2, <1>3, <1>8, <2>1, <2>2, <2>3 DEF NothingStuck
<1> QED
  BY <1>2, <1>3, <1>4, <1>5, <1>6, <1>7, <1>8

\* releaseHeldOf, and releaseSettledWaits for a wait it was told of.
LEMMA ReleaseDueType ==
  ASSUME TypeInv, NEW w \in due, ReleaseDue(w)
  PROVE  TypeInv' /\ (NothingStuck => NothingStuck')
<1> USE DEF TypeInv
<1>1. WaitOK(w) /\ WaitOK(wait) /\ rec \in [Records -> RecStates] /\ ans \in [Questions -> AnsStates]
  BY DEF TypeOK
<1>2. due' \subseteq due /\ UNCHANGED <<over, todo, here, run, resumed, worker, bounds, got>>
  BY DEF ReleaseDue
<1>3. /\ queue' \subseteq Entry /\ msg' = msg
      /\ releasing' \subseteq Keys /\ kept' \subseteq 1..MaxReports
      /\ rec' \in [Records -> RecStates] /\ ans' \in [Questions -> AnsStates]
      /\ WaitOK(wait') /\ (NothingStuck => NothingStuck')
  <2>1. CASE ReleaseWait(w, {}, rec, ans) /\ wait' = Cleared(w, wait)
    BY <1>1, <2>1, ReleaseType, ClearedOK
  <2>2. CASE ReleaseWait(wait, {}, rec, ans) /\ wait' = Cleared(wait, wait)
    BY <1>1, <2>2, ReleaseType, ClearedOK
  <2>3. CASE UNCHANGED <<rec, ans, wait, flight>>
    BY <1>1, <2>3 DEF flight, TypeOK, NothingStuck, JointKeys, KeysOf
  <2> QED
    BY <2>1, <2>2, <2>3 DEF ReleaseDue, ReleaseHeld, ReleaseSettled
<1> QED
  BY <1>1, <1>2, <1>3 DEF TypeOK, bounds, WaitOK

-----------------------------------------------------------------------------
(* The Worker and what it waits on.                                        *)

LEMMA RunTypes ==
  /\ NoRun \in Run
  /\ \A again \in BOOLEAN : NextLook(again) \in Run
  /\ \A S \in SUBSET Questions, T \in SUBSET Questions :
       [NoRun EXCEPT !.pc = "find", !.pending = S, !.held = T] \in Run
  /\ TypeOK => AskRun \in Run
  BY DEF Run, NoRun, NextLook, AskRun, TypeOK

LEMMA AnswerType ==
  ASSUME TypeInv, NEW q \in Questions, Answer(q)
  PROVE  TypeInv'
<1>1. /\ ans' = [ans EXCEPT ![q] = "none"] /\ over' = over \cup {q}
      /\ wait' \in Hook({q}, {}) /\ run' = AskRun
      /\ UNCHANGED <<rec, flight, todo, due, here, resumed, worker, bounds, got>>
  BY DEF Answer
<1>2. WaitOK(wait')
  BY <1>1, HookOK
<1>3. ans' \in [Questions -> AnsStates] /\ over' \subseteq Things /\ run' \in Run
  BY <1>1, RunTypes DEF TypeInv, TypeOK, AnsStates, Things
<1> QED
  BY <1>1, <1>2, <1>3 DEF TypeInv, TypeOK, flight, bounds, WaitOK

LEMMA PostType ==
  ASSUME TypeInv, NEW r \in Records, Post(r)
  PROVE  TypeInv'
<1>1. /\ rec' = [rec EXCEPT ![r] = "pending"] /\ over' = over \cup ({r} \cap Batches)
      /\ wait' \in Hook({r} \cap Batches, {}) /\ todo' = todo \cup {r}
      /\ UNCHANGED <<ans, flight, due, here, run, resumed, worker, bounds, got>>
  BY DEF Post
<1>2. WaitOK(wait')
  BY <1>1, HookOK
<1>3. rec' \in [Records -> RecStates] /\ over' \subseteq Things /\ todo' \subseteq Records
  BY <1>1 DEF TypeInv, TypeOK, RecStates, Things
<1> QED
  BY <1>1, <1>2, <1>3 DEF TypeInv, TypeOK, flight, bounds, WaitOK

LEMMA EndType ==
  ASSUME TypeInv, NEW x \in Requests, End(x)
  PROVE  TypeInv'
<1>1. /\ over' = over \cup {x} /\ wait' \in Hook({x}, {x}) /\ due' = due \cup Settled(wait')
      /\ UNCHANGED <<rec, ans, flight, todo, here, run, resumed, worker, bounds, got>>
  BY DEF End
<1>2. WaitOK(wait')
  BY <1>1, HookOK
<1>3. due' \subseteq Wait /\ \A w \in due' : WaitOK(w)
  BY <1>1, <1>2, DueOK
<1> QED
  BY <1>1, <1>2, <1>3 DEF TypeInv, TypeOK, flight, bounds, WaitOK, Things

LEMMA StallPassType ==
  ASSUME TypeInv, StallPass
  PROVE  TypeInv'
<1>1. PICK S, F : /\ wait' = Settle(wait, S, F) /\ due' = due \cup Settled(wait')
                  /\ UNCHANGED <<over, rec, ans, flight, todo, here, run, resumed, worker, bounds, got>>
  BY DEF StallPass
<1>2. WaitOK(wait')
  BY <1>1, SettleOK DEF TypeInv
<1>3. due' \subseteq Wait /\ \A w \in due' : WaitOK(w)
  BY <1>1, <1>2, DueOK
<1> QED
  BY <1>1, <1>2, <1>3 DEF TypeInv, TypeOK, flight, bounds, WaitOK

LEMMA ReportType ==
  ASSUME TypeInv, NEW I \in SUBSET Things, NEW any \in BOOLEAN, Report(I, any)
  PROVE  TypeInv' /\ reports' = reports + 1
<1>1. /\ reports < MaxReports /\ reports' = reports + 1 /\ wait' = WaitOf(reports + 1, I, any)
      /\ due' = due \cup {NoWait}
      /\ UNCHANGED <<over, rec, ans, flight, todo, here, run, resumed, worker, reloads, got>>
  BY DEF Report
<1>2. reports + 1 \in 1..MaxReports
  BY <1>1, WakeAssumption DEF TypeInv, TypeOK
<1>3. WaitOK(wait') /\ reports' \in 0..MaxReports
  BY <1>1, <1>2, WaitOfOK
<1>4. due' \subseteq Wait /\ \A w \in due' : WaitOK(w)
  BY <1>1, NoWaitOK DEF TypeInv, TypeOK, WaitOK
<1> QED
  BY <1>1, <1>3, <1>4 DEF TypeInv, TypeOK, flight, WaitOK

-----------------------------------------------------------------------------
(* deliverRecord and deliverRequest.                                       *)

LEMMA SeenOK ==
  ASSUME TypeInv, NEW S
  PROVE  /\ WaitOK(Seen(S)) /\ Seen(S).report = wait.report
         /\ Seen(S).any = wait.any /\ Seen(S).items = wait.items
         /\ Seen(S).settled = wait.settled \cup (S \cap Things \cap wait.items)
  BY SettleOK DEF Seen, TypeInv

\* What the steps of a delivery have in common.
DeliveryType ==
  /\ queue' \subseteq Entry /\ msg' = msg
  /\ releasing' \subseteq Keys /\ kept' \subseteq 1..MaxReports
  /\ rec' \in [Records -> RecStates] /\ ans' \in [Questions -> AnsStates]
  /\ WaitOK(wait') /\ (NothingStuck => NothingStuck')

\* Writing the block on the delivery of answers.
LEMMA WriteType ==
  ASSUME TypeInv, NEW S, NEW state \in AnsStates
  PROVE  Write(S, state) \in [Questions -> AnsStates]
  BY DEF Write, TypeInv, TypeOK

\* A release with the one delivery that meets the wait.
LEMMA ReleaseFirstType ==
  ASSUME TypeInv, NEW k \in Keys, NEW S \in SUBSET Items, NEW T,
         NEW r0 \in [Records -> RecStates], NEW a0 \in [Questions -> AnsStates],
         ReleaseWait(Seen(T), {Joint(k, S)}, r0, a0), wait' = Cleared(Seen(T), wait)
  PROVE  DeliveryType
<1>1. {Joint(k, S)} \in SUBSET Entry /\ \A e \in {Joint(k, S)} : e.joint
  BY EntryTypes DEF Joint
<1>2. WaitOK(Seen(T))
  BY SeenOK
<1>3. /\ queue' \subseteq Entry /\ msg' = msg
      /\ releasing' \subseteq Keys /\ kept' \subseteq 1..MaxReports
      /\ rec' \in [Records -> RecStates] /\ ans' \in [Questions -> AnsStates]
      /\ NothingStuck => NothingStuck'
  BY <1>1, <1>2, ReleaseType
<1>4. WaitOK(wait')
  BY ClearedOK DEF TypeInv
<1> QED
  BY <1>3, <1>4 DEF DeliveryType

\* One more entry that goes alone.
LEMMA PutAloneType ==
  ASSUME TypeInv, NEW k \in Keys, NEW S \in SUBSET Items, Put({Alone(k, S)}),
         UNCHANGED <<msg, releasing>>
  PROVE  queue' \subseteq Entry /\ (NothingStuck => NothingStuck')
<1>1. queue' \subseteq Entry
  BY PutOK, EntryTypes DEF TypeInv, TypeOK
<1>2. JointKeys(queue) \subseteq JointKeys(queue')
  BY PutOK
<1>3. JointKeys(queue \cup msg) \subseteq JointKeys(queue' \cup msg')
  BY <1>2 DEF JointKeys, KeysOf
<1> QED
  BY <1>1, <1>3 DEF NothingStuck

LEMMA DeliverType ==
  ASSUME TypeInv, NEW r \in Records, Deliver(r)
  PROVE  TypeInv' /\ (NothingStuck => NothingStuck')
<1>1. todo' \subseteq todo /\ UNCHANGED <<over, due, here, run, resumed, worker, bounds, got>>
  BY DEF Deliver
<1>2. rec \in [Records -> RecStates] /\ ans \in [Questions -> AnsStates]
  BY DEF TypeInv, TypeOK
<1>3. [rec EXCEPT ![r] = IF @ = "held" THEN "pending" ELSE @] \in [Records -> RecStates]
  BY <1>2 DEF RecStates
<1>4. r \in Keys /\ {r} \in SUBSET Items
  BY EntryTypes
<1>5. DeliveryType
  <2>1. CASE UNCHANGED <<rec, ans, wait, flight>>
    BY <2>1 DEF DeliveryType, flight, TypeInv, TypeOK, NothingStuck, JointKeys, KeysOf
  <2>2. CASE HoldRecord(r)
    <3>1. /\ wait' = Seen({r}) /\ UNCHANGED <<ans, flight>>
          /\ rec' = [rec EXCEPT ![r] = IF @ = "pending" THEN "held" ELSE @]
      BY <2>2 DEF HoldRecord
    <3>2. rec' \in [Records -> RecStates]
      BY <1>2, <3>1 DEF RecStates
    <3>3. WaitOK(wait')
      BY <3>1, SeenOK
    <3> QED
      BY <3>1, <3>2, <3>3 DEF DeliveryType, flight, TypeInv, TypeOK, NothingStuck, JointKeys, KeysOf
  <2>3. CASE ReleaseWith(r)
    BY <1>2, <1>3, <1>4, <2>3, ReleaseFirstType DEF ReleaseWith
  <2>4. CASE QueueRecord(r)
    <3>1. /\ Put({Alone(r, {r})}) /\ UNCHANGED <<ans, wait, msg, releasing, kept>>
          /\ rec' = [rec EXCEPT ![r] = IF @ = "held" THEN "pending" ELSE @]
      BY <2>4 DEF QueueRecord
    <3>2. queue' \subseteq Entry /\ (NothingStuck => NothingStuck')
      BY <1>4, <3>1, PutAloneType
    <3> QED
      BY <1>3, <3>1, <3>2 DEF DeliveryType, TypeInv, TypeOK
  <2> QED
    BY <2>1, <2>2, <2>3, <2>4 DEF Deliver
<1> QED
  BY <1>1, <1>5 DEF DeliveryType, TypeInv, TypeOK, bounds, WaitOK

LEMMA LookType ==
  ASSUME TypeInv, Look
  PROVE  TypeInv'
<1>1. PICK sent \in SUBSET Questions, left \in SUBSET Questions :
        /\ ans' = [q \in Questions |-> IF q \in sent THEN "sent" ELSE ans[q]]
        /\ here' = here \ sent
        /\ run' = IF left = {} THEN NextLook(FALSE)
                  ELSE [NoRun EXCEPT !.pc = "find", !.pending = left,
                                     !.held = {q \in left : ans[q] = "held"}]
  <2> DEFINE open == {q \in Questions : ans[q] \in Undelivered}
             mine == IF Answers \in releasing THEN {q \in open : ans[q] = "none"} ELSE open
             chat == {q \in mine \cap InChat : ans[q] = "none"}
             sent == chat \cup {q \in mine : WentOut(q)}
             left == mine \ sent
  <2>1. sent \in SUBSET Questions /\ left \in SUBSET Questions
    OBVIOUS
  <2> QED
    BY <2>1 DEF Look
<1>2. UNCHANGED <<over, wait, rec, flight, todo, due, resumed, worker, bounds, got>>
  BY DEF Look
<1>3. run' \in Run
  BY <1>1, RunTypes
<1>4. ans' \in [Questions -> AnsStates] /\ here' \subseteq Questions
  BY <1>1 DEF TypeInv, TypeOK, AnsStates
<1> QED
  BY <1>2, <1>3, <1>4 DEF TypeInv, TypeOK, flight, bounds, WaitOK

LEMMA FindType ==
  ASSUME TypeInv, Find
  PROVE  TypeInv' /\ (NothingStuck => NothingStuck')
<1>1. UNCHANGED <<over, todo, due, resumed, worker, bounds, got>> /\ run.pc = "find"
  BY DEF Find
<1>2. /\ run \in Run /\ run.pending \subseteq Questions /\ run.again \in BOOLEAN /\ here \subseteq Questions
      /\ rec \in [Records -> RecStates] /\ ans \in [Questions -> AnsStates]
  BY DEF TypeInv, TypeOK, Run
<1>3. NextLook(run.again) \in Run /\ [NextLook(run.again) EXCEPT !.out = "lost"] \in Run
  BY <1>2 DEF NextLook, NoRun, Run
<1>4. \A out \in {"released", "waiting"} : [run EXCEPT !.pc = "await", !.out = out] \in Run
  BY <1>2 DEF Run
<1>5. Answers \in Keys /\ run.pending \in SUBSET Items
  BY <1>2, EntryTypes
<1>6. DeliveryType /\ run' \in Run /\ here' \subseteq Questions
  <2>1. CASE NotFound
    BY <1>2, <1>3, <2>1 DEF NotFound, DeliveryType, flight, TypeInv, TypeOK, NothingStuck, JointKeys, KeysOf
  <2>2. CASE NoWorker
    <3>1. Write(run.pending, "failed") \in [Questions -> AnsStates]
      BY WriteType DEF AnsStates
    <3> QED
      BY <1>2, <1>3, <2>2, <3>1 DEF NoWorker, DeliveryType, flight, TypeInv, TypeOK, NothingStuck, JointKeys, KeysOf
  <2>3. CASE HoldAnswers
    <3>1. Write(run.pending \ run.held, "held") \in [Questions -> AnsStates]
      BY WriteType DEF AnsStates
    <3>2. WaitOK(Seen(run.pending))
      BY SeenOK
    <3> QED
      BY <1>2, <1>3, <2>3, <3>1, <3>2
         DEF HoldAnswers, DeliveryType, flight, TypeInv, TypeOK, NothingStuck, JointKeys, KeysOf
  <2>4. CASE ReleaseAnswers
    <3>1. Write(run.pending, "queued") \in [Questions -> AnsStates]
      BY WriteType DEF AnsStates
    <3>2. DeliveryType
      BY <1>2, <1>5, <2>4, <3>1, ReleaseFirstType DEF ReleaseAnswers
    <3> QED
      BY <1>2, <1>4, <2>4, <3>2 DEF ReleaseAnswers
  <2>5. CASE QueueAnswers
    <3>1. /\ Put({Alone(Answers, run.pending)}) /\ run' = [run EXCEPT !.pc = "await", !.out = "waiting"]
          /\ UNCHANGED <<rec, ans, wait, msg, releasing, kept, here>>
      BY <2>5 DEF QueueAnswers
    <3>2. queue' \subseteq Entry /\ (NothingStuck => NothingStuck')
      BY <1>5, <3>1, PutAloneType
    <3> QED
      BY <1>2, <1>4, <3>1, <3>2 DEF DeliveryType, TypeInv, TypeOK
  <2> QED
    BY <2>1, <2>2, <2>3, <2>4, <2>5 DEF Find
<1> QED
  BY <1>1, <1>6 DEF DeliveryType, TypeInv, TypeOK, bounds, WaitOK

LEMMA OutcomeType ==
  ASSUME TypeInv, Outcome
  PROVE  TypeInv'
<1>1. UNCHANGED <<over, wait, rec, flight, todo, due, resumed, worker, bounds, got>>
  BY DEF Outcome
<1>2. run.pending \subseteq Questions /\ run.again \in BOOLEAN /\ here \subseteq Questions
  BY DEF TypeInv, TypeOK, Run
<1>3. ans' \in [Questions -> AnsStates]
  <2>1. \A state \in {"queued", "sent", "failed"} :
          Write(run.pending, state) \in [Questions -> AnsStates]
    BY WriteType DEF AnsStates
  <2> QED
    BY <2>1 DEF Outcome, TypeInv, TypeOK
<1>4. here' \subseteq Questions
  BY <1>2 DEF Outcome
<1>5. run' \in Run
  BY <1>2, RunTypes DEF Outcome
<1> QED
  BY <1>1, <1>3, <1>4, <1>5 DEF TypeInv, TypeOK, flight, bounds, WaitOK

-----------------------------------------------------------------------------
(* The notice queue's steps.                                               *)

LEMMA ToldType ==
  ASSUME TypeInv, NEW E, NEW out \in {"sent", "dropped", "held"}
  PROVE  Told(E, out) \in Run
  BY DEF Told, TypeInv, TypeOK, Run

LEMMA StoredType ==
  ASSUME TypeInv, NEW E, NEW state \in RecStates
  PROVE  Stored(E, state) \in [Records -> RecStates]
  BY DEF Stored, TypeInv, TypeOK

LEMMA ReachedType ==
  ASSUME TypeInv, NEW E
  PROVE  Reached(E) \in [Items -> 0..2]
<1>1. \A i \in Items : got[i] \in 0..2
  BY DEF TypeInv, TypeOK
<1>2. \A i \in Items : (IF i \in WhatOf(E) /\ got[i] < 2 THEN got[i] + 1 ELSE got[i]) \in 0..2
  BY <1>1
<1> QED
  BY <1>2 DEF Reached

LEMMA MessagesType ==
  ASSUME TypeInv, NEW T \in Messages
  PROVE  T \subseteq queue /\ T \subseteq Entry
<1>1. CASE T \in {{e} : e \in {e \in queue : ~e.joint}}
  BY <1>1 DEF TypeInv, TypeOK
<1>2. CASE T = {e \in queue : e.joint}
  BY <1>2 DEF TypeInv, TypeOK
<1> QED
  BY <1>1, <1>2 DEF Messages

\* What a flush of T writes when H is held.
Flushed(T, H) ==
  /\ queue' = queue \ T
  /\ msg' = T \ H
  /\ wait' = Seen(WhatOf(Gated(T)))
  /\ rec' = Stored(H, "held")
  /\ ans' = Write(WhatOf(H) \cap Questions, "held")
  /\ kept' = kept \cup FactsIn(H)
  /\ here' = here \ WhatOf({e \in H : ~e.joint})
  /\ releasing' = Done(H)
  /\ run' = Told(H, "held")

LEMMA FlushType ==
  ASSUME TypeInv, Flush
  PROVE  TypeInv' /\ (NothingStuck => NothingStuck')
<1>1. PICK T \in Messages : \E H \in SUBSET T : Flushed(T, H)
  BY DEF Flush, Flushed
<1>0. PICK H \in SUBSET T : Flushed(T, H)
  BY <1>1
<1>2. msg = {} /\ UNCHANGED <<over, todo, due, resumed, worker, bounds, got>>
  BY DEF Flush
<1>3. T \subseteq queue /\ T \subseteq Entry /\ H \subseteq Entry
  BY MessagesType
<1>4. WaitOK(wait')
  BY <1>0, SeenOK DEF Flushed
<1>5. rec' \in [Records -> RecStates] /\ ans' \in [Questions -> AnsStates] /\ run' \in Run
  BY <1>0, StoredType, WriteType, ToldType DEF RecStates, AnsStates, Flushed
<1>6. kept' \subseteq 1..MaxReports
  BY <1>0, <1>3, FactsInType DEF TypeInv, TypeOK, Flushed
<1>7. queue' \subseteq Entry /\ msg' \subseteq Entry /\ here' \subseteq Questions
  BY <1>0, <1>3 DEF TypeInv, TypeOK, Flushed
<1>8. releasing' \subseteq Keys
  BY <1>0 DEF Done, TypeInv, TypeOK, Flushed
<1>9. ASSUME NothingStuck PROVE NothingStuck'
  <2> SUFFICES ASSUME NEW k \in releasing, k \notin JointKeys(H)
               PROVE  k \in JointKeys(queue' \cup msg')
    BY <1>0 DEF Done, NothingStuck, Flushed
  <2>1. PICK e \in queue : e.joint /\ e.key = k
    BY <1>2, <1>9 DEF NothingStuck, JointKeys, KeysOf
  <2>2. e \notin H
    BY <2>1 DEF JointKeys, KeysOf
  <2>3. e \in queue' \cup msg'
    BY <1>0, <2>2 DEF Flushed
  <2> QED
    BY <2>1, <2>3 DEF JointKeys, KeysOf
<1> QED
  BY <1>2, <1>4, <1>5, <1>6, <1>7, <1>8, <1>9 DEF TypeInv, TypeOK, bounds, WaitOK

\* The message that is being sent leaves the marks of the others.
LEMMA DoneStuck ==
  ASSUME NothingStuck, msg' = {}, queue' = queue, releasing' = Done(msg)
  PROVE  NothingStuck'
<1>1. \A k \in releasing' : \E e \in queue : e.joint /\ e.key = k
  BY DEF Done, NothingStuck, JointKeys, KeysOf
<1> QED
  BY <1>1 DEF NothingStuck, JointKeys, KeysOf

LEMMA SentType ==
  ASSUME TypeInv, Sent
  PROVE  TypeInv' /\ (NothingStuck => NothingStuck')
<1>1. /\ msg' = {} /\ worker' = "running" /\ got' = Reached(msg)
      /\ rec' = Stored(msg, "delivered") /\ ans' = Write(JointAnswers(msg), "sent")
      /\ releasing' = Done(msg) /\ run' = Told(msg, "sent")
      /\ UNCHANGED <<over, wait, queue, kept, todo, due, here, resumed, bounds>>
  BY DEF Sent
<1>2. rec' \in [Records -> RecStates] /\ ans' \in [Questions -> AnsStates] /\ run' \in Run
  BY <1>1, StoredType, WriteType, ToldType DEF RecStates, AnsStates
<1>3. got' \in [Items -> 0..2] /\ releasing' \subseteq Keys
  BY <1>1, ReachedType DEF Done, TypeInv, TypeOK
<1>4. NothingStuck => NothingStuck'
  BY <1>1, DoneStuck
<1> QED
  BY <1>1, <1>2, <1>3, <1>4 DEF TypeInv, TypeOK, bounds, WaitOK

LEMMA SendRejectedType ==
  ASSUME TypeInv, SendRejected
  PROVE  TypeInv' /\ (NothingStuck => NothingStuck')
<1>1. /\ msg' = {}
      /\ rec' = Stored(msg, "dropped") /\ ans' = Write(JointAnswers(msg), "failed")
      /\ releasing' = Done(msg) /\ run' = Told(msg, "dropped")
      /\ UNCHANGED <<over, wait, queue, kept, todo, due, here, resumed, worker, bounds, got>>
  BY DEF SendRejected
<1>2. rec' \in [Records -> RecStates] /\ ans' \in [Questions -> AnsStates] /\ run' \in Run
  BY <1>1, StoredType, WriteType, ToldType DEF RecStates, AnsStates
<1>3. releasing' \subseteq Keys
  BY <1>1 DEF Done, TypeInv, TypeOK
<1>4. NothingStuck => NothingStuck'
  BY <1>1, DoneStuck
<1> QED
  BY <1>1, <1>2, <1>3, <1>4 DEF TypeInv, TypeOK, bounds, WaitOK

LEMMA ReloadType ==
  ASSUME TypeInv, Reload
  PROVE  TypeInv' /\ NothingStuck'
<1>1. /\ reloads < MaxReloads /\ reloads' = reloads + 1 /\ got' \in {got, Reached(msg)}
      /\ todo' = {r \in Records : rec[r] \in {"pending", "held"}}
      /\ queue' = {} /\ msg' = {} /\ releasing' = {} /\ kept' = {}
      /\ due' = {} /\ here' = {} /\ run' = NoRun /\ resumed' = FALSE
      /\ UNCHANGED <<stores, worker, reports>>
  BY DEF Reload
<1>2. got' \in [Items -> 0..2]
  BY <1>1, ReachedType DEF TypeInv, TypeOK
<1>3. reloads' \in 0..MaxReloads
  BY <1>1, WakeAssumption DEF TypeInv, TypeOK
<1>4. NothingStuck'
  BY <1>1 DEF NothingStuck
<1> QED
  BY <1>1, <1>2, <1>3, <1>4, RunTypes DEF TypeInv, TypeOK, stores, WaitOK

-----------------------------------------------------------------------------
(* The two invariants.                                                     *)

LEMMA InitType == Init => TypeInv /\ NothingStuck
<1> SUFFICES ASSUME Init PROVE TypeInv /\ NothingStuck
  OBVIOUS
<1>1. TypeOK
  <2>1. rec \in [Records -> RecStates] /\ ans \in [Questions -> AnsStates] /\ got \in [Items -> 0..2]
    BY DEF Init, RecStates, AnsStates
  <2>2. reports \in 0..MaxReports /\ reloads \in 0..MaxReloads
    BY WakeAssumption DEF Init
  <2> QED
    BY <2>1, <2>2, NoWaitOK, RunTypes DEF Init, TypeOK, WaitOK
<1> QED
  BY <1>1, NoWaitOK DEF Init, TypeInv, NothingStuck

\* The steps that leave the queue and the marks of a release alone.
LEMMA FlightStuck ==
  ASSUME NothingStuck, UNCHANGED flight
  PROVE  NothingStuck'
  BY DEF NothingStuck, JointKeys, KeysOf, flight

LEMMA NextType == TypeInv /\ NothingStuck /\ [Next]_vars => TypeInv' /\ NothingStuck'
<1> SUFFICES ASSUME TypeInv, NothingStuck, [Next]_vars
             PROVE  TypeInv' /\ NothingStuck'
  OBVIOUS
<1>1. CASE \E q \in Questions : Answer(q)
  BY <1>1, AnswerType, FlightStuck DEF Answer
<1>2. CASE \E r \in Records : Post(r)
  BY <1>2, PostType, FlightStuck DEF Post
<1>3. CASE \E x \in Requests : End(x)
  BY <1>3, EndType, FlightStuck DEF End
<1>4. CASE StallPass
  <2>1. UNCHANGED flight
    BY <1>4 DEF StallPass
  <2> QED
    BY <1>4, <2>1, StallPassType, FlightStuck
<1>5. CASE \E I \in SUBSET Things, any \in BOOLEAN : Report(I, any)
  BY <1>5, ReportType, FlightStuck DEF Report
<1>6. CASE StartTurn \/ EndTurn
  BY <1>6, FlightStuck DEF StartTurn, EndTurn, TypeInv, TypeOK, stores, flight, bounds, WaitOK
<1>7. CASE \E w \in due : ReleaseDue(w)
  BY <1>7, ReleaseDueType
<1>8. CASE \E r \in todo : Deliver(r)
  BY <1>8, DeliverType DEF TypeInv, TypeOK
<1>9. CASE Look
  <2>1. UNCHANGED flight
    BY <1>9 DEF Look
  <2> QED
    BY <1>9, <2>1, LookType, FlightStuck
<1>10. CASE Find
  BY <1>10, FindType
<1>11. CASE Outcome
  <2>1. UNCHANGED flight
    BY <1>11 DEF Outcome
  <2> QED
    BY <1>11, <2>1, OutcomeType, FlightStuck
<1>12. CASE Resume
  BY <1>12, RunTypes, FlightStuck DEF Resume, TypeInv, TypeOK, stores, flight, bounds, WaitOK
<1>13. CASE \E q \in Questions : NoteArrived(q)
  <2>1. PICK q \in Questions : NoteArrived(q)
    BY <1>13
  <2>2. ans' = [ans EXCEPT ![q] = "sent"] /\ here' = here \ {q}
        /\ UNCHANGED <<over, wait, rec, flight, todo, due, run, resumed, worker, bounds, got>>
    BY <2>1 DEF NoteArrived
  <2>3. ans' \in [Questions -> AnsStates]
    BY <2>2 DEF TypeInv, TypeOK, AnsStates
  <2> QED
    BY <2>2, <2>3, FlightStuck DEF TypeInv, TypeOK, flight, bounds, WaitOK
<1>14. CASE Flush
  BY <1>14, FlushType
<1>15. CASE Sent
  BY <1>15, SentType
<1>16. CASE SendRejected
  BY <1>16, SendRejectedType
<1>17. CASE Reload
  BY <1>17, ReloadType
<1>18. CASE UNCHANGED vars
  BY <1>18, FlightStuck DEF vars, stores, bounds, flight, TypeInv, TypeOK, WaitOK
<1> QED
  BY <1>1, <1>2, <1>3, <1>4, <1>5, <1>6, <1>7, <1>8, <1>9, <1>10, <1>11, <1>12, <1>13, <1>14,
     <1>15, <1>16, <1>17, <1>18 DEF Next, Waits, Plugin

LEMMA Invariants == Spec => [](TypeInv /\ NothingStuck)
  BY InitType, NextType, PTL DEF Spec

\* Every variable keeps its type: wait, outbox, decisions, queue and run.
THEOREM TypeCorrect == Spec => []TypeOK
<1>1. TypeInv => TypeOK
  BY DEF TypeInv
<1> QED
  BY <1>1, Invariants, PTL

\* What is marked as taken by a release (`isReleasing') is in the queue or in
\* the message it sends, jointly with the rest: no mark outlives its callback.
THEOREM NoMarkIsStuck == Spec => []NothingStuck
  BY Invariants, PTL

-----------------------------------------------------------------------------
(* The gate at the send.                                                   *)

\* A message is only ever begun by a flush.
LEMMA OnlyFlushSends ==
  ASSUME Next, ~Flush
  PROVE  msg' \subseteq msg
<1>1. CASE Waits
  BY <1>1 DEF Waits, Answer, Post, End, StallPass, Report, StartTurn, EndTurn, flight, stores
<1>2. CASE \E w \in due : ReleaseDue(w)
  BY <1>2 DEF ReleaseDue, ReleaseHeld, ReleaseSettled, ReleaseWait, flight
<1>3. CASE \E r \in todo : Deliver(r)
  BY <1>3 DEF Deliver, HoldRecord, ReleaseWith, QueueRecord, ReleaseWait, flight
<1>4. CASE Find
  BY <1>4 DEF Find, NotFound, NoWorker, HoldAnswers, ReleaseAnswers, QueueAnswers, ReleaseWait, flight
<1>5. CASE Look \/ Outcome
  BY <1>5 DEF Look, Outcome, flight
<1>6. CASE Resume \/ \E q \in Questions : NoteArrived(q)
  BY <1>6 DEF Resume, NoteArrived, flight
<1>7. CASE Sent \/ SendRejected \/ Reload
  BY <1>7 DEF Sent, SendRejected, Reload
<1> QED
  BY <1>1, <1>2, <1>3, <1>4, <1>5, <1>6, <1>7 DEF Next, Plugin

LEMMA FlushWakes ==
  ASSUME TypeInv, Flush, Gated(msg' \ msg) # {}
  PROVE  Met(wait')
<1>1. PICK T \in Messages : \E H \in SUBSET T : HeldAt(T, H) /\ Flushed(T, H)
  BY DEF Flush, Flushed
<1>2. PICK H \in SUBSET T : HeldAt(T, H) /\ Flushed(T, H)
  BY <1>1
<1>3. PICK e \in Gated(T \ H) : ~Holds(WhatOf(H) \cup e.what)
  <2>1. Gated(T \ H) # {}
    BY <1>2 DEF Flushed, Gated
  <2> QED
    BY <1>2, <2>1 DEF HeldAt
<1>4. WhatOf(H) \cup e.what \subseteq WhatOf(Gated(T))
  <2>1. H \subseteq Gated(T) /\ e \in Gated(T)
    BY <1>2, <1>3 DEF HeldAt, Gated
  <2> QED
    BY <2>1 DEF WhatOf
<1>5. Met(Seen(WhatOf(H) \cup e.what))
  BY <1>3, SettleOK DEF Holds, Seen
<1>6. Met(Seen(WhatOf(Gated(T))))
  BY <1>4, <1>5, SeenOK, MetGrows
<1> QED
  BY <1>2, <1>6 DEF Flushed

\* No gated item goes to a Worker whose wait is unmet at the send, however long
\* ago and whatever for it was queued (`heldNow' and `wakeGate').
THEOREM UnmetIsNotWoken == Spec => NoUnmetWake
<1>1. TypeInv /\ [Next]_vars => [Gated(msg' \ msg) # {} => Met(wait')]_vars
  <2> SUFFICES ASSUME TypeInv, Next, Gated(msg' \ msg) # {}
               PROVE  Met(wait')
    OBVIOUS
  <2>1. ~(msg' \subseteq msg)
    BY DEF Gated
  <2> QED
    BY <2>1, OnlyFlushSends, FlushWakes
<1> QED
  BY <1>1, Invariants, PTL DEF Spec, NoUnmetWake

-----------------------------------------------------------------------------
(* A wait that is not met stands.                                          *)

\* What tells the Worker of a thing is there only once that thing ended.
Ended ==
  /\ \A b \in Batches : rec[b] # "none" => b \in over
  /\ \A q \in Questions : ans[q] # "open" => q \in over
  /\ todo \cap Batches \subseteq over
  /\ run.pending \subseteq over
  /\ WhatOf(queue \cup msg) \cap Things \subseteq over

\* A release was told of a met wait; while that wait is the stored one, all
\* that had settled then still has.
DueMet ==
  /\ wait.report \leq reports
  /\ \A w \in due :
       /\ w.report \leq reports
       /\ Met(w)
       /\ w.items # {} /\ w.report = wait.report =>
            w.items = wait.items /\ w.any = wait.any /\ w.settled \subseteq wait.settled

\* What a step does to the wait: it settles some of it, or clears it when what
\* has ended meets it.
Grows ==
  /\ wait'.report = wait.report /\ wait'.items = wait.items /\ wait'.any = wait.any
  /\ wait.settled \subseteq wait'.settled
Gone == wait' = NoWait /\ Met(Settle(wait, over, {}))

\* The wait of what has ended is met when a part of that meets it.
LEMMA MetByOver ==
  ASSUME TypeInv, NEW S, S \cap Things \subseteq over, Met(Seen(S))
  PROVE  Met(Settle(wait, over, {}))
<1>1. WaitOK(Settle(wait, over, {})) /\ WaitOK(Seen(S))
  BY SettleOK, SeenOK DEF TypeInv
<1>2. /\ Seen(S).items = Settle(wait, over, {}).items /\ Seen(S).any = Settle(wait, over, {}).any
      /\ Seen(S).settled \subseteq Settle(wait, over, {}).settled
  BY SettleOK, SeenOK DEF TypeInv
<1> QED
  BY <1>1, <1>2, MetGrows

LEMMA MetStays ==
  ASSUME TypeInv, NEW w, WaitOK(w), Met(w), w.items = wait.items, w.any = wait.any,
         w.settled \subseteq wait.settled
  PROVE  Met(Settle(wait, over, {}))
<1>1. WaitOK(Settle(wait, over, {}))
  BY SettleOK DEF TypeInv
<1>2. /\ w.items = Settle(wait, over, {}).items /\ w.any = Settle(wait, over, {}).any
      /\ w.settled \subseteq Settle(wait, over, {}).settled
  BY SettleOK DEF TypeInv
<1> QED
  BY <1>1, <1>2, MetGrows

LEMMA SeenGrows ==
  ASSUME TypeInv, NEW S, wait' = Seen(S)
  PROVE  Grows
  BY SeenOK DEF Grows

LEMMA HookGrows ==
  ASSUME TypeInv, NEW S, NEW F, wait' \in Hook(S, F)
  PROVE  Grows
  BY HookOK DEF Grows

\* A release told of w, and one a delivery of S makes.
LEMMA ClearedDue ==
  ASSUME TypeInv, DueMet, NEW w \in due, wait' = Cleared(w, wait)
  PROVE  Grows \/ Gone
<1>1. CASE w.items # {} /\ wait.report = w.report
  <2>1. wait' = NoWait
    BY <1>1 DEF Cleared
  <2>2. Met(Settle(wait, over, {}))
    BY <1>1, MetStays DEF DueMet, TypeInv
  <2> QED
    BY <2>1, <2>2 DEF Gone
<1>2. CASE ~(w.items # {} /\ wait.report = w.report)
  BY <1>2 DEF Cleared, Grows
<1> QED
  BY <1>1, <1>2

LEMMA ClearedSeen ==
  ASSUME TypeInv, NEW S, S \cap Things \subseteq over, ~Holds(S), wait' = Cleared(Seen(S), wait)
  PROVE  Grows \/ Gone
<1>1. Met(Settle(wait, over, {}))
  BY MetByOver DEF Holds
<1> QED
  BY <1>1 DEF Cleared, Grows, Gone

LEMMA GrowsDue ==
  ASSUME TypeInv, DueMet, Grows, WaitOK(wait'), due' \subseteq due \cup Settled(wait'),
         reports' = reports
  PROVE  DueMet'
<1> SUFFICES ASSUME NEW w \in due'
             PROVE  /\ w.report \leq reports
                    /\ Met(w)
                    /\ w.items # {} /\ w.report = wait'.report =>
                         w.items = wait'.items /\ w.any = wait'.any /\ w.settled \subseteq wait'.settled
  BY DEF DueMet, Grows, Met
<1>1. CASE w \in due
  BY <1>1 DEF DueMet, Grows
<1>2. CASE w \in Settled(wait')
  BY <1>2 DEF Settled, DueMet, Grows
<1> QED
  BY <1>1, <1>2

LEMMA GoneDue ==
  ASSUME TypeInv, DueMet, wait' = NoWait, due' \subseteq due, reports' = reports
  PROVE  DueMet'
<1>1. wait'.report = 0 /\ 0 \leq reports
  BY WakeAssumption DEF NoWait, TypeInv, TypeOK
<1>2. \A w \in due : w.report = 0 => w.items = {}
  BY DEF TypeInv, WaitOK
<1> QED
  BY <1>1, <1>2 DEF DueMet, Met

\* Every step settles some of the wait, clears one that is met, or is a report.
Steps ==
  \/ Grows /\ due' \subseteq due \cup Settled(wait') /\ reports' = reports
  \/ Gone /\ due' \subseteq due /\ reports' = reports
  \/ \E I \in SUBSET Things, any \in BOOLEAN : Report(I, any)

LEMMA WaitSteps ==
  ASSUME TypeInv, Ended, DueMet, Next
  PROVE  Steps
<1>1. CASE \E q \in Questions : Answer(q)
  <2>1. PICK q \in Questions : Answer(q)
    BY <1>1
  <2>2. wait' \in Hook({q}, {}) /\ due' = due /\ reports' = reports
    BY <2>1 DEF Answer, bounds
  <2> QED
    BY <2>2, HookGrows DEF Steps
<1>2. CASE \E r \in Records : Post(r)
  <2>1. PICK r \in Records : Post(r)
    BY <1>2
  <2>2. wait' \in Hook({r} \cap Batches, {}) /\ due' = due /\ reports' = reports
    BY <2>1 DEF Post, bounds
  <2> QED
    BY <2>2, HookGrows DEF Steps
<1>3. CASE \E x \in Requests : End(x)
  <2>1. PICK x \in Requests : End(x)
    BY <1>3
  <2>2. wait' \in Hook({x}, {x}) /\ due' = due \cup Settled(wait') /\ reports' = reports
    BY <2>1 DEF End, bounds
  <2> QED
    BY <2>2, HookGrows DEF Steps
<1>4. CASE StallPass
  <2>1. PICK S, F : wait' = Settle(wait, S, F) /\ due' = due \cup Settled(wait') /\ reports' = reports
    BY <1>4 DEF StallPass, bounds
  <2>2. Grows
    BY <2>1, SettleOK DEF Grows, TypeInv
  <2> QED
    BY <2>1, <2>2 DEF Steps
<1>5. CASE \E I \in SUBSET Things, any \in BOOLEAN : Report(I, any)
  BY <1>5 DEF Steps
<1>6. CASE UNCHANGED <<wait, reports>> /\ due' \subseteq due
  BY <1>6 DEF Steps, Grows
<1>7. CASE \E w \in due : ReleaseDue(w)
  <2>1. PICK w \in due : ReleaseDue(w)
    BY <1>7
  <2>2. due' \subseteq due /\ reports' = reports
    BY <2>1 DEF ReleaseDue, bounds
  <2>3. CASE wait' = Cleared(w, wait)
    BY <2>2, <2>3, ClearedDue DEF Steps
  <2>4. CASE Met(wait) /\ wait' = Cleared(wait, wait)
    <3>1. Met(Settle(wait, over, {}))
      BY <2>4, MetStays DEF TypeInv
    <3> QED
      BY <2>2, <2>4, <3>1 DEF Cleared, Steps, Grows, Gone
  <2>5. CASE wait' = wait
    BY <2>2, <2>5 DEF Steps, Grows
  <2> QED
    BY <2>1, <2>3, <2>4, <2>5 DEF ReleaseDue, ReleaseHeld, ReleaseSettled
<1>8. CASE \E r \in todo : Deliver(r)
  <2>1. PICK r \in todo : Deliver(r)
    BY <1>8
  <2>2. due' \subseteq due /\ reports' = reports
    BY <2>1 DEF Deliver, bounds
  <2>3. {r} \cap Things \subseteq over
    <3>1. r \in Records /\ Notes \cap Things = {}
      BY WakeAssumption DEF TypeInv, TypeOK, Things
    <3> QED
      BY <3>1 DEF Ended, Records, Things
  <2>4. CASE wait' = wait
    BY <2>2, <2>4 DEF Steps, Grows
  <2>5. CASE HoldRecord(r)
    BY <2>2, <2>5, SeenGrows DEF Steps, HoldRecord
  <2>6. CASE ReleaseWith(r)
    BY <2>2, <2>3, <2>6, ClearedSeen DEF Steps, ReleaseWith
  <2> QED
    BY <2>1, <2>4, <2>5, <2>6 DEF Deliver, QueueRecord
<1>9. CASE Find
  <2>1. due' \subseteq due /\ reports' = reports
    BY <1>9 DEF Find, bounds
  <2>2. run.pending \cap Things \subseteq over
    BY DEF Ended
  <2>3. CASE wait' = wait
    BY <2>1, <2>3 DEF Steps, Grows
  <2>4. CASE HoldAnswers
    BY <2>1, <2>4, SeenGrows DEF Steps, HoldAnswers
  <2>5. CASE ReleaseAnswers
    BY <2>1, <2>2, <2>5, ClearedSeen DEF Steps, ReleaseAnswers
  <2> QED
    BY <1>9, <2>3, <2>4, <2>5 DEF Find, NotFound, NoWorker, QueueAnswers
<1>10. CASE Flush
  <2>1. PICK T \in Messages : wait' = Seen(WhatOf(Gated(T)))
    BY <1>10 DEF Flush
  <2>2. due' = due /\ reports' = reports
    BY <1>10 DEF Flush, bounds
  <2> QED
    BY <2>1, <2>2, SeenGrows DEF Steps
<1>11. CASE StartTurn \/ EndTurn \/ Resume \/ Look \/ Outcome
  BY <1>6, <1>11 DEF StartTurn, EndTurn, Resume, Look, Outcome, stores, bounds
<1>12. CASE \E q \in Questions : NoteArrived(q)
  BY <1>6, <1>12 DEF NoteArrived, bounds
<1>13. CASE Sent \/ SendRejected
  BY <1>6, <1>13 DEF Sent, SendRejected, bounds
<1>14. CASE Reload
  BY <1>6, <1>14 DEF Reload, stores
<1> QED
  BY <1>1, <1>2, <1>3, <1>4, <1>5, <1>7, <1>8, <1>9, <1>10, <1>11, <1>12, <1>13, <1>14
     DEF Next, Waits, Plugin

LEMMA DueStep ==
  ASSUME TypeInv, NothingStuck, Ended, DueMet, [Next]_vars
  PROVE  DueMet'
<1>1. CASE UNCHANGED vars
  BY <1>1 DEF DueMet, Met, vars, stores, bounds
<1>2. CASE Next
  <2>1. Steps
    BY <1>2, WaitSteps
  <2>2. CASE Grows /\ due' \subseteq due \cup Settled(wait') /\ reports' = reports
    <3>1. TypeInv'
      BY <1>2, NextType
    <3>2. WaitOK(wait')
      BY <3>1 DEF TypeInv, WaitOK
    <3> QED
      BY <2>2, <3>2, GrowsDue
  <2>3. CASE Gone /\ due' \subseteq due /\ reports' = reports
    BY <2>3, GoneDue DEF Gone
  <2>4. CASE \E I \in SUBSET Things, any \in BOOLEAN : Report(I, any)
    <3>1. PICK I \in SUBSET Things, any \in BOOLEAN : Report(I, any)
      BY <2>4
    <3>2. /\ reports < MaxReports /\ reports' = reports + 1 /\ wait' = WaitOf(reports + 1, I, any)
          /\ due' = due \cup {NoWait}
      BY <3>1 DEF Report
    <3>3. reports \in Nat /\ reports + 1 \in 1..MaxReports
      BY <3>2, WakeAssumption DEF TypeInv, TypeOK
    <3>4. wait'.report \in {0, reports + 1}
      BY <3>2, <3>3, WaitOfOK
    <3>5. \A w \in due : w.report \in Nat /\ w.report \leq reports /\ (w.report = 0 => w.items = {})
      BY DEF TypeInv, WaitOK, Wait, DueMet
    <3>6. NoWait.report = 0 /\ NoWait.items = {} /\ Met(NoWait)
      BY NoWaitOK DEF NoWait
    <3>7. wait'.report \leq reports'
      BY <3>2, <3>3, <3>4
    <3> SUFFICES ASSUME NEW w \in due'
                 PROVE  w.report \leq reports' /\ Met(w)
                        /\ (w.items # {} => w.report # wait'.report)
      BY <3>7 DEF DueMet, Met
    <3>8. CASE w \in due
      BY <3>2, <3>3, <3>4, <3>5, <3>8 DEF DueMet
    <3>9. CASE w = NoWait
      BY <3>2, <3>3, <3>6, <3>9
    <3> QED
      BY <3>2, <3>8, <3>9
  <2> QED
    BY <2>1, <2>2, <2>3, <2>4 DEF Steps
<1> QED
  BY <1>1, <1>2

\* What a queue of entries names, and what a release adds to it.
LEMMA WhatOfCup ==
  ASSUME NEW A, NEW B
  PROVE  WhatOf(A \cup B) = WhatOf(A) \cup WhatOf(B)
  BY DEF WhatOf

\* Stores in which only what has ended was told of.
Stores(r0, a0) ==
  /\ \A b \in Batches : r0[b] # "none" => b \in over
  /\ \A q \in Questions : a0[q] # "open" => q \in over

LEMMA ReleaseEnded ==
  ASSUME TypeInv, Ended, NEW w, WaitOK(w), NEW k, NEW S, NEW first, first \subseteq {Joint(k, S)},
         S \cap Things \subseteq over, NEW r0, NEW a0, Stores(r0, a0),
         ReleaseWait(w, first, r0, a0), over' = over
  PROVE  Stores(rec', ans') /\ WhatOf(queue' \cup msg') \cap Things \subseteq over
<1> DEFINE held == HeldEntries(first, r0, a0)
           all == first \cup FactsOf(w, first, held) \cup held
<1>1. /\ Put(all) /\ msg' = msg
      /\ rec' = [r \in Records |-> IF r \in HeldRecords(first, r0) THEN "pending" ELSE r0[r]]
      /\ ans' = [q \in Questions |-> IF q \in HeldAnswers(first, a0) THEN "queued" ELSE a0[q]]
  BY DEF ReleaseWait
<1>2. \A n \in Nat : n \notin Things
  BY WakeAssumption
<1>3. \A e \in held : e.what \cap Things \subseteq over
  <2>1. \A r \in HeldRecords(first, r0) : {r} \cap Things \subseteq over
    <3> SUFFICES ASSUME NEW r \in HeldRecords(first, r0), r \in Things
                 PROVE  r \in over
      OBVIOUS
    <3>1. r \in Batches /\ r0[r] = "held"
      BY WakeAssumption DEF HeldRecords, Records, Things
    <3> QED
      BY <3>1 DEF Stores
  <2>2. \A n \in kept \ releasing : {n} \cap Things \subseteq over
    BY <1>2 DEF TypeInv, TypeOK
  <2>3. HeldAnswers(first, a0) \subseteq over
    BY DEF HeldAnswers, Stores
  <2>4. ASSUME NEW e \in held PROVE e.what \cap Things \subseteq over
    <3>1. CASE \E r \in HeldRecords(first, r0) : e = Joint(r, {r})
      BY <2>1, <3>1 DEF Joint
    <3>2. CASE \E n \in kept \ releasing : e = Joint(n, {n})
      BY <2>2, <3>2 DEF Joint
    <3>3. CASE e = Joint(Answers, HeldAnswers(first, a0))
      BY <2>3, <3>3 DEF Joint
    <3> QED
      BY <3>1, <3>2, <3>3 DEF HeldEntries
  <2> QED
    BY <2>4
<1>4. \A e \in FactsOf(w, first, held) : e.what \cap Things \subseteq over
  <2>1. w.report \in Nat
    BY WakeAssumption DEF WaitOK, Wait
  <2> HIDE DEF held
  <2> QED
    BY <1>2, <2>1, FactsOfType
<1>5. \A e \in first : e.what \cap Things \subseteq over
  BY DEF Joint
<1>6. WhatOf(all) \cap Things \subseteq over
  <2> HIDE DEF held
  <2> QED
    BY <1>3, <1>4, <1>5 DEF WhatOf
<1>7. WhatOf(queue' \cup msg') \cap Things \subseteq over
  <2> HIDE DEF all
  <2>1. queue' \subseteq queue \cup all
    BY <1>1, PutOK
  <2>2. WhatOf(queue' \cup msg') \subseteq WhatOf(queue \cup msg) \cup WhatOf(all)
    BY <1>1, <2>1 DEF WhatOf
  <2> QED
    BY <1>6, <2>2 DEF Ended
<1>8. Stores(rec', ans')
  <2>1. ASSUME NEW b \in Batches, rec'[b] # "none" PROVE b \in over
    <3>1. r0[b] # "none"
      BY <1>1, <2>1 DEF HeldRecords, Records
    <3> QED
      BY <3>1 DEF Stores
  <2>2. ASSUME NEW q \in Questions, ans'[q] # "open" PROVE q \in over
    <3>1. a0[q] # "open"
      BY <1>1, <2>2 DEF HeldAnswers
    <3> QED
      BY <3>1 DEF Stores
  <2> QED
    BY <2>1, <2>2 DEF Stores
<1> QED
  BY <1>7, <1>8

\* Ended follows from its parts when over grows.
LEMMA EndedFrom ==
  ASSUME Ended, over \subseteq over', Stores(rec', ans'), todo' \cap Batches \subseteq over',
         run'.pending \subseteq over', WhatOf(queue' \cup msg') \cap Things \subseteq over'
  PROVE  Ended'
  BY DEF Ended, Stores

\* What is written of things that ended is written of nothing else.
LEMMA WriteEnded ==
  ASSUME Ended, NEW S, NEW state, S \cap Questions \subseteq over
  PROVE  Stores(rec, Write(S, state))
  BY DEF Ended, Stores, Write

LEMMA StoredEnded ==
  ASSUME Ended, NEW E, NEW state, NEW a0, \A q \in Questions : a0[q] # "open" => q \in over
  PROVE  Stores(Stored(E, state), a0)
<1>1. ASSUME NEW b \in Batches, Stored(E, state)[b] # "none" PROVE rec[b] # "none"
  BY <1>1 DEF Stored, Records
<1> QED
  BY <1>1 DEF Ended, Stores

LEMMA DueEnded ==
  ASSUME TypeInv, Ended, NEW w \in due, ReleaseDue(w)
  PROVE  Ended'
<1>1. UNCHANGED <<over, todo, run>>
  BY DEF ReleaseDue
<1>2. Stores(rec, ans)
  BY DEF Ended, Stores
<1>3. CASE \E v \in {w, wait} : ReleaseWait(v, {}, rec, ans)
  <2>1. PICK v \in {w, wait} : ReleaseWait(v, {}, rec, ans)
    BY <1>3
  <2>2. WaitOK(v)
    BY DEF TypeInv
  <2>3. Stores(rec', ans') /\ WhatOf(queue' \cup msg') \cap Things \subseteq over
    BY <1>1, <1>2, <2>1, <2>2, ReleaseEnded
  <2> QED
    BY <1>1, <2>3, EndedFrom DEF Ended
<1>4. CASE UNCHANGED <<rec, ans, wait, flight>>
  BY <1>1, <1>4 DEF flight, Ended, WhatOf
<1> QED
  BY <1>3, <1>4 DEF ReleaseDue, ReleaseHeld, ReleaseSettled

\* An entry of things that ended is put in the queue alone.
LEMMA PutEnded ==
  ASSUME Ended, NEW k, NEW S, S \cap Things \subseteq over, Put({Alone(k, S)}), msg' = msg
  PROVE  WhatOf(queue' \cup msg') \cap Things \subseteq over
<1>1. queue' \subseteq queue \cup {Alone(k, S)}
  BY PutOK
<1>2. WhatOf(queue' \cup msg') \subseteq WhatOf(queue \cup msg) \cup S
  BY <1>1 DEF WhatOf, Alone
<1> QED
  BY <1>2 DEF Ended

LEMMA DeliverEnded ==
  ASSUME TypeInv, Ended, NEW r \in todo, Deliver(r)
  PROVE  Ended'
<1>1. UNCHANGED <<over, run>> /\ todo' \subseteq todo
  BY DEF Deliver
<1>2. r \in Records /\ rec \in [Records -> RecStates]
  BY DEF TypeInv, TypeOK
<1>3. {r} \cap Things \subseteq over
  BY <1>2, WakeAssumption DEF Ended, Records, Things
<1>4. Stores(rec, ans)
  BY DEF Ended, Stores
<1>5. Stores([rec EXCEPT ![r] = IF @ = "held" THEN "pending" ELSE @], ans)
  BY <1>2, <1>4 DEF Stores, Records
<1>6. Stores(rec', ans') /\ WhatOf(queue' \cup msg') \cap Things \subseteq over
  <2>1. CASE UNCHANGED <<rec, ans, wait, flight>>
    BY <1>4, <2>1 DEF flight, Ended, Stores, WhatOf
  <2>2. CASE HoldRecord(r)
    <3>1. Stores([rec EXCEPT ![r] = IF @ = "pending" THEN "held" ELSE @], ans)
      BY <1>2, <1>4 DEF Stores, Records
    <3> QED
      BY <2>2, <3>1 DEF HoldRecord, flight, Ended, Stores, WhatOf
  <2>3. CASE ReleaseWith(r)
    <3>1. WaitOK(Seen({r}))
      BY SeenOK
    <3> QED
      BY <1>1, <1>3, <1>5, <2>3, <3>1, ReleaseEnded DEF ReleaseWith
  <2>4. CASE QueueRecord(r)
    <3>1. WhatOf(queue' \cup msg') \cap Things \subseteq over
      BY <1>3, <2>4, PutEnded DEF QueueRecord
    <3> QED
      BY <1>5, <2>4, <3>1 DEF QueueRecord, Stores
  <2> QED
    BY <2>1, <2>2, <2>3, <2>4 DEF Deliver
<1> QED
  BY <1>1, <1>6, EndedFrom DEF Ended

LEMMA FindEnded ==
  ASSUME TypeInv, Ended, Find
  PROVE  Ended'
<1>1. UNCHANGED <<over, todo>>
  BY DEF Find
<1>2. run.pending \subseteq over
  BY DEF Ended
<1>3. Stores(rec, ans)
  BY DEF Ended, Stores
<1>4. /\ Stores(rec, Write(run.pending, "failed"))
      /\ Stores(rec, Write(run.pending, "queued"))
      /\ Stores(rec, Write(run.pending \ run.held, "held"))
  BY <1>2, WriteEnded
<1>5. Stores(rec', ans') /\ WhatOf(queue' \cup msg') \cap Things \subseteq over
  <2>1. CASE NotFound
    <3>1. UNCHANGED <<rec, ans, queue, msg, over>>
      BY <1>1, <2>1 DEF NotFound, flight
    <3>2. WhatOf(queue' \cup msg') = WhatOf(queue \cup msg)
      BY <3>1
    <3> QED
      BY <1>3, <3>1, <3>2 DEF Ended, Stores
  <2>2. CASE NoWorker
    <3>1. ans' = Write(run.pending, "failed") /\ UNCHANGED <<rec, queue, msg, over>>
      BY <1>1, <2>2 DEF NoWorker, flight
    <3>2. WhatOf(queue' \cup msg') = WhatOf(queue \cup msg)
      BY <3>1
    <3> QED
      BY <1>4, <3>1, <3>2 DEF Ended, Stores
  <2>3. CASE HoldAnswers
    <3>1. ans' = Write(run.pending \ run.held, "held") /\ UNCHANGED <<rec, queue, msg, over>>
      BY <1>1, <2>3 DEF HoldAnswers, flight
    <3>2. WhatOf(queue' \cup msg') = WhatOf(queue \cup msg)
      BY <3>1
    <3> QED
      BY <1>4, <3>1, <3>2 DEF Ended, Stores
  <2>4. CASE ReleaseAnswers
    <3>1. WaitOK(Seen(run.pending))
      BY SeenOK
    <3> QED
      BY <1>1, <1>2, <1>4, <2>4, <3>1, ReleaseEnded DEF ReleaseAnswers
  <2>5. CASE QueueAnswers
    <3>1. WhatOf(queue' \cup msg') \cap Things \subseteq over
      BY <1>2, <2>5, PutEnded DEF QueueAnswers
    <3> QED
      BY <1>3, <2>5, <3>1 DEF QueueAnswers, Stores
  <2> QED
    BY <2>1, <2>2, <2>3, <2>4, <2>5 DEF Find
<1>6. run'.pending \subseteq run.pending
  <2>1. \A again : NextLook(again).pending = {}
    BY DEF NextLook, NoRun
  <2>2. [NextLook(run.again) EXCEPT !.out = "lost"].pending = {}
    BY DEF NextLook, NoRun
  <2>3. \A out : [run EXCEPT !.pc = "await", !.out = out].pending = run.pending
    BY DEF TypeInv, TypeOK, Run
  <2> QED
    BY <2>1, <2>2, <2>3 DEF Find, NotFound, NoWorker, HoldAnswers, ReleaseAnswers, QueueAnswers
<1> QED
  BY <1>1, <1>2, <1>5, <1>6, EndedFrom DEF Ended

LEMMA LookEnded ==
  ASSUME TypeInv, Ended, Look
  PROVE  Ended'
<1>1. PICK sent \in SUBSET {q \in Questions : ans[q] \in Undelivered},
           left \in SUBSET {q \in Questions : ans[q] \in Undelivered} :
        /\ ans' = [q \in Questions |-> IF q \in sent THEN "sent" ELSE ans[q]]
        /\ run' = IF left = {} THEN NextLook(FALSE)
                  ELSE [NoRun EXCEPT !.pc = "find", !.pending = left,
                                     !.held = {q \in left : ans[q] = "held"}]
  <2> DEFINE open == {q \in Questions : ans[q] \in Undelivered}
             mine == IF Answers \in releasing THEN {q \in open : ans[q] = "none"} ELSE open
             chat == {q \in mine \cap InChat : ans[q] = "none"}
             sent == chat \cup {q \in mine : WentOut(q)}
             left == mine \ sent
  <2>1. sent \in SUBSET open /\ left \in SUBSET open
    OBVIOUS
  <2>2. /\ ans' = [q \in Questions |-> IF q \in sent THEN "sent" ELSE ans[q]]
        /\ run' = IF left = {} THEN NextLook(FALSE)
                  ELSE [NoRun EXCEPT !.pc = "find", !.pending = left,
                                     !.held = {q \in left : ans[q] = "held"}]
    BY DEF Look
  <2> HIDE DEF sent, left
  <2> QED
    BY <2>1, <2>2
<1>2. UNCHANGED <<over, todo, rec, queue, msg>>
  BY DEF Look, flight
<1>3. sent \subseteq over /\ left \subseteq over
  BY DEF Ended, Undelivered
<1>4. run'.pending \subseteq over
  BY <1>1, <1>3 DEF NextLook, NoRun
<1>5. Stores(rec', ans')
  BY <1>1, <1>2, <1>3 DEF Ended, Stores
<1>6. WhatOf(queue' \cup msg') = WhatOf(queue \cup msg)
  BY <1>2
<1> QED
  BY <1>2, <1>4, <1>5, <1>6, EndedFrom DEF Ended

LEMMA ToldEnded ==
  ASSUME TypeInv, NEW E, NEW out
  PROVE  Told(E, out).pending = run.pending
  BY DEF Told, TypeInv, TypeOK, Run

\* The steps of the queue: what is in it was in it before.
LEMMA QueueEnded ==
  ASSUME TypeInv, Ended, NEW E, NEW state, NEW S, NEW answered, NEW out,
         E \subseteq queue \cup msg, S \subseteq WhatOf(queue \cup msg) \cap Questions,
         rec' = Stored(E, state), ans' = Write(S, answered), run' = Told(E, out),
         queue' \cup msg' \subseteq queue \cup msg, UNCHANGED <<over, todo>>
  PROVE  Ended'
<1>1. S \subseteq over
  BY DEF Ended, Things
<1>2. Stores(rec, ans')
  BY <1>1, WriteEnded
<1>3. Stores(rec', ans')
  BY <1>2, StoredEnded DEF Stores
<1>4. WhatOf(queue' \cup msg') \subseteq WhatOf(queue \cup msg)
  BY DEF WhatOf
<1>5. run'.pending = run.pending
  BY ToldEnded
<1> QED
  BY <1>3, <1>4, <1>5, EndedFrom DEF Ended

LEMMA FlushEnded ==
  ASSUME TypeInv, Ended, Flush
  PROVE  Ended'
<1>1. PICK T \in Messages : \E H \in SUBSET T : Flushed(T, H)
  BY DEF Flush, Flushed
<1>2. PICK H \in SUBSET T : Flushed(T, H)
  BY <1>1
<1>3. T \subseteq queue
  BY MessagesType
<1>4. WhatOf(H) \cap Questions \subseteq WhatOf(queue \cup msg) \cap Questions
  BY <1>3 DEF WhatOf
<1>5. UNCHANGED <<over, todo>> /\ H \subseteq queue \cup msg
  BY <1>3 DEF Flush
<1>6. /\ rec' = Stored(H, "held") /\ ans' = Write(WhatOf(H) \cap Questions, "held")
      /\ run' = Told(H, "held") /\ queue' \cup msg' \subseteq queue \cup msg
  BY <1>2, <1>3 DEF Flushed
<1> QED
  BY <1>4, <1>5, <1>6, QueueEnded

LEMMA SendEnded ==
  ASSUME TypeInv, Ended, Sent \/ SendRejected
  PROVE  Ended'
<1>1. JointAnswers(msg) \subseteq WhatOf(queue \cup msg) \cap Questions
  BY DEF JointAnswers, WhatOf
<1>2. PICK state, answered, out :
        /\ rec' = Stored(msg, state) /\ ans' = Write(JointAnswers(msg), answered)
        /\ run' = Told(msg, out)
  BY DEF Sent, SendRejected
<1>3. UNCHANGED <<over, todo, queue>> /\ msg' = {}
  BY DEF Sent, SendRejected
<1> QED
  BY <1>1, <1>2, <1>3, QueueEnded

LEMMA EndedStep ==
  ASSUME TypeInv, Ended, [Next]_vars
  PROVE  Ended'
<1>1. CASE \E q \in Questions : Answer(q)
  <2>1. PICK q \in Questions : Answer(q)
    BY <1>1
  <2>2. /\ ans' = [ans EXCEPT ![q] = "none"] /\ over' = over \cup {q}
        /\ UNCHANGED <<rec, queue, msg, todo>> /\ run' = AskRun
    BY <2>1 DEF Answer, flight
  <2>3. run'.pending \subseteq run.pending
    BY <2>2 DEF AskRun, NoRun, TypeInv, TypeOK, Run
  <2>4. WhatOf(queue' \cup msg') = WhatOf(queue \cup msg)
    BY <2>2
  <2> QED
    BY <2>2, <2>3, <2>4 DEF Ended, TypeInv, TypeOK
<1>2. CASE \E r \in Records : Post(r)
  <2>1. PICK r \in Records : Post(r)
    BY <1>2
  <2>2. /\ rec' = [rec EXCEPT ![r] = "pending"] /\ over' = over \cup ({r} \cap Batches)
        /\ todo' = todo \cup {r} /\ UNCHANGED <<ans, queue, msg, run>>
    BY <2>1 DEF Post, flight
  <2>3. WhatOf(queue' \cup msg') = WhatOf(queue \cup msg)
    BY <2>2
  <2>4. \A b \in Batches : rec'[b] # "none" => b \in over'
    BY <2>2 DEF Ended, TypeInv, TypeOK, Records
  <2>5. todo' \cap Batches \subseteq over'
    BY <2>2 DEF Ended
  <2> QED
    BY <2>2, <2>3, <2>4, <2>5 DEF Ended
<1>3. CASE /\ over \subseteq over' /\ todo' \subseteq todo
           /\ UNCHANGED <<rec, ans, queue, msg>> /\ run'.pending \subseteq run.pending
  <2>1. WhatOf(queue' \cup msg') = WhatOf(queue \cup msg)
    BY <1>3
  <2> QED
    BY <1>3, <2>1 DEF Ended
<1>4. CASE \E x \in Requests : End(x)
  BY <1>3, <1>4 DEF End, flight
<1>5. CASE StallPass
  BY <1>3, <1>5 DEF StallPass, flight
<1>6. CASE \E I \in SUBSET Things, any \in BOOLEAN : Report(I, any)
  BY <1>3, <1>6 DEF Report, flight
<1>7. CASE StartTurn \/ EndTurn
  BY <1>3, <1>7 DEF StartTurn, EndTurn, flight, stores
<1>8. CASE \E w \in due : ReleaseDue(w)
  BY <1>8, DueEnded
<1>9. CASE \E r \in todo : Deliver(r)
  BY <1>9, DeliverEnded
<1>10. CASE Look
  BY <1>10, LookEnded
<1>11. CASE Find
  BY <1>11, FindEnded
<1>12. CASE Outcome
  <2>1. PICK state : ans' = Write(run.pending, state) \/ ans' = ans
    BY <1>12 DEF Outcome
  <2>2. UNCHANGED <<over, rec, queue, msg, todo>> /\ run'.pending = {}
    BY <1>12 DEF Outcome, flight, NextLook, NoRun
  <2>3. run.pending \cap Questions \subseteq over
    BY DEF Ended
  <2>4. Stores(rec', ans')
    BY <2>1, <2>2, <2>3, WriteEnded DEF Ended, Stores
  <2>5. WhatOf(queue' \cup msg') = WhatOf(queue \cup msg)
    BY <2>2
  <2> QED
    BY <2>2, <2>4, <2>5, EndedFrom DEF Ended
<1>13. CASE Resume
  <2>1. run'.pending \subseteq run.pending
    BY <1>13 DEF Resume, AskRun, NoRun, TypeInv, TypeOK, Run
  <2> QED
    BY <1>3, <1>13, <2>1 DEF Resume, flight, stores
<1>14. CASE \E q \in Questions : NoteArrived(q)
  <2>1. PICK q \in Questions : NoteArrived(q)
    BY <1>14
  <2>2. /\ ans[q] = "queued" /\ ans' = [ans EXCEPT ![q] = "sent"]
        /\ UNCHANGED <<over, rec, queue, msg, todo, run>>
    BY <2>1 DEF NoteArrived, flight
  <2>3. Stores(rec', ans')
    BY <2>2 DEF Ended, Stores, TypeInv, TypeOK
  <2>4. WhatOf(queue' \cup msg') = WhatOf(queue \cup msg)
    BY <2>2
  <2> QED
    BY <2>2, <2>3, <2>4, EndedFrom DEF Ended
<1>15. CASE Flush
  BY <1>15, FlushEnded
<1>16. CASE Sent \/ SendRejected
  BY <1>16, SendEnded
<1>17. CASE Reload
  <2>1. /\ UNCHANGED <<over, rec, ans>> /\ queue' = {} /\ msg' = {} /\ run' = NoRun
        /\ todo' = {r \in Records : rec[r] \in {"pending", "held"}}
    BY <1>17 DEF Reload, stores
  <2>2. WhatOf(queue' \cup msg') = {}
    BY <2>1 DEF WhatOf
  <2>3. todo' \cap Batches \subseteq over
    BY <2>1 DEF Ended
  <2> QED
    BY <2>1, <2>2, <2>3 DEF Ended, NoRun
<1>18. CASE UNCHANGED vars
  BY <1>3, <1>18 DEF vars, stores, flight
<1> QED
  BY <1>1, <1>2, <1>4, <1>5, <1>6, <1>7, <1>8, <1>9, <1>10, <1>11, <1>12, <1>13, <1>14, <1>15,
     <1>16, <1>17, <1>18 DEF Next, Waits, Plugin

LEMMA WaitInvariants == Spec => [](TypeInv /\ NothingStuck /\ Ended /\ DueMet)
<1>1. Init => TypeInv /\ NothingStuck /\ Ended /\ DueMet
  <2>1. Init => Ended
    BY DEF Init, Ended, NoRun, WhatOf, Records
  <2>2. Init => DueMet
    BY DEF Init, DueMet, NoWait
  <2> QED
    BY <2>1, <2>2, InitType
<1>2. /\ TypeInv /\ NothingStuck /\ Ended /\ DueMet
      /\ [Next]_vars
      => (TypeInv /\ NothingStuck /\ Ended /\ DueMet)'
  BY NextType, EndedStep, DueStep
<1> QED
  BY <1>1, <1>2, PTL DEF Spec

\* A wait that what has ended does not meet is replaced by the Worker's next
\* report only: no release that was under way for an older wait clears it
\* (`releaseWait' clears the wait of the report it was told of).
THEOREM UnmetWaitStands == Spec => UnmetStands
<1>1. /\ TypeInv /\ NothingStuck /\ Ended /\ DueMet
      /\ [Next]_vars
      => [~Met(Settle(wait, over, {})) /\ wait'.report # wait.report => reports' # reports]_vars
  <2> SUFFICES ASSUME TypeInv, Ended, DueMet, Next, ~Met(Settle(wait, over, {})),
                      wait'.report # wait.report
               PROVE  reports' # reports
    OBVIOUS
  <2>1. CASE \E I \in SUBSET Things, any \in BOOLEAN : Report(I, any)
    <3>1. reports' = reports + 1 /\ reports \in Nat
      BY <2>1, WakeAssumption DEF Report, TypeInv, TypeOK
    <3> QED
      BY <3>1
  <2> QED
    BY <2>1, WaitSteps DEF Steps, Grows, Gone
<1> QED
  BY <1>1, WaitInvariants, PTL DEF Spec, UnmetStands

-----------------------------------------------------------------------------
(* An open record is held, about to be delivered, or on its way.           *)

\* An entry carries a record exactly when the record is its key.
Shaped(E) == \A e \in E : \A r \in Records : r \in e.what <=> e.key = r

Carried ==
  /\ Shaped(queue) /\ Shaped(msg)
  /\ \A r \in Records : rec[r] = "pending" => r \in todo \cup KeysOf(queue) \cup KeysOf(msg)

LEMMA ShapedEntries ==
  /\ \A r \in Records : Shaped({Joint(r, {r})}) /\ Shaped({Alone(r, {r})})
  /\ \A n \in Nat : Shaped({Joint(n, {n})}) /\ Shaped({Joint(Facts, {n})})
  /\ \A S \in SUBSET Questions : Shaped({Joint(Answers, S)}) /\ Shaped({Alone(Answers, S)})
<1>1. \A r \in Records : r \notin Questions /\ r \notin Nat /\ r # Answers /\ r # Facts
  BY WakeAssumption DEF Records, Things
<1>2. \A r \in Records : Shaped({Joint(r, {r})}) /\ Shaped({Alone(r, {r})})
  BY DEF Shaped, Joint, Alone
<1>3. \A n \in Nat : Shaped({Joint(n, {n})}) /\ Shaped({Joint(Facts, {n})})
  BY <1>1 DEF Shaped, Joint
<1>4. \A S \in SUBSET Questions : Shaped({Joint(Answers, S)}) /\ Shaped({Alone(Answers, S)})
  BY <1>1 DEF Shaped, Joint, Alone
<1> QED
  BY <1>2, <1>3, <1>4

\* put keeps the shape, and every key.
LEMMA PutCarries ==
  ASSUME Shaped(queue), NEW E, Shaped(E), Put(E)
  PROVE  Shaped(queue') /\ KeysOf(queue) \subseteq KeysOf(queue') /\ KeysOf(E) \subseteq KeysOf(queue')
<1>1. Shaped(queue')
  BY PutOK DEF Shaped
<1>2. KeysOf(E) \subseteq KeysOf(queue')
  BY PutOK DEF KeysOf
<1>3. \A o \in queue : o \in queue' \/ \E e \in E : e.key = o.key
  BY DEF Put
<1>4. KeysOf(queue) \subseteq KeysOf(queue')
  BY <1>2, <1>3 DEF KeysOf
<1> QED
  BY <1>1, <1>2, <1>4

LEMMA ReleaseCarries ==
  ASSUME TypeInv, Shaped(queue), NEW w, WaitOK(w), NEW first, Shaped(first), NEW r0, NEW a0,
         ReleaseWait(w, first, r0, a0)
  PROVE  /\ Shaped(queue') /\ KeysOf(queue) \cup KeysOf(first) \subseteq KeysOf(queue')
         /\ \A r \in Records : rec'[r] = "pending" => r0[r] = "pending" \/ r \in KeysOf(queue')
<1> DEFINE held == HeldEntries(first, r0, a0)
           facts == FactsOf(w, first, held)
           all == first \cup facts \cup held
<1>1. /\ Put(all)
      /\ rec' = [r \in Records |-> IF r \in HeldRecords(first, r0) THEN "pending" ELSE r0[r]]
  BY DEF ReleaseWait
<1>2. Shaped(held)
  <2>1. \A r \in HeldRecords(first, r0) : Shaped({Joint(r, {r})})
    BY ShapedEntries DEF HeldRecords
  <2>2. \A n \in kept : Shaped({Joint(n, {n})})
    <3>1. kept \subseteq Nat
      BY DEF TypeInv, TypeOK
    <3> QED
      BY <3>1, ShapedEntries
  <2>3. Shaped({Joint(Answers, HeldAnswers(first, a0))})
    BY ShapedEntries DEF HeldAnswers
  <2>4. ASSUME NEW e \in held PROVE Shaped({e})
    <3>1. CASE \E r \in HeldRecords(first, r0) : e = Joint(r, {r})
      BY <2>1, <3>1
    <3>2. CASE \E n \in kept \ releasing : e = Joint(n, {n})
      BY <2>2, <3>2
    <3>3. CASE e = Joint(Answers, HeldAnswers(first, a0))
      BY <2>3, <3>3
    <3> QED
      BY <3>1, <3>2, <3>3 DEF HeldEntries
  <2> HIDE DEF held
  <2> QED
    BY <2>4 DEF Shaped
<1>3. Shaped(facts)
  <2>1. w.report \in Nat
    BY WakeAssumption DEF WaitOK, Wait
  <2>2. facts \subseteq {Joint(Facts, {w.report})}
    BY DEF FactsOf
  <2>3. Shaped({Joint(Facts, {w.report})})
    BY <2>1, ShapedEntries
  <2> HIDE DEF facts
  <2> QED
    BY <2>2, <2>3 DEF Shaped
<1>4. HeldRecords(first, r0) \subseteq KeysOf(held)
  <2>1. \A r \in HeldRecords(first, r0) : Joint(r, {r}) \in held /\ Joint(r, {r}).key = r
    BY DEF HeldEntries, Joint
  <2> HIDE DEF held
  <2> QED
    BY <2>1 DEF KeysOf
<1> HIDE DEF held, facts
<1>5. Shaped(all) /\ KeysOf(first) \cup KeysOf(held) \subseteq KeysOf(all)
  BY <1>2, <1>3 DEF Shaped, KeysOf
<1> HIDE DEF all
<1>6. Shaped(queue') /\ KeysOf(queue) \cup KeysOf(all) \subseteq KeysOf(queue')
  BY <1>1, <1>5, PutCarries
<1> QED
  BY <1>1, <1>4, <1>5, <1>6

LEMMA DueCarries ==
  ASSUME TypeInv, Carried, NEW w \in due, ReleaseDue(w)
  PROVE  Carried'
<1>1. todo' = todo
  BY DEF ReleaseDue
<1>2. CASE \E v \in {w, wait} : ReleaseWait(v, {}, rec, ans)
  <2>1. PICK v \in {w, wait} : ReleaseWait(v, {}, rec, ans)
    BY <1>2
  <2>2. WaitOK(v) /\ Shaped({})
    BY DEF TypeInv, Shaped
  <2>3. msg' = msg
    BY <2>1 DEF ReleaseWait
  <2>4. /\ Shaped(queue') /\ KeysOf(queue) \subseteq KeysOf(queue')
        /\ \A r \in Records : rec'[r] = "pending" => rec[r] = "pending" \/ r \in KeysOf(queue')
    BY <2>1, <2>2, ReleaseCarries DEF Carried
  <2> QED
    BY <1>1, <2>3, <2>4 DEF Carried
<1>3. CASE UNCHANGED <<rec, queue, msg>>
  BY <1>1, <1>3 DEF Carried, Shaped, KeysOf
<1> QED
  BY <1>2, <1>3 DEF ReleaseDue, ReleaseHeld, ReleaseSettled, flight

LEMMA DeliverCarries ==
  ASSUME TypeInv, NothingStuck, Carried, NEW r \in Records, Deliver(r)
  PROVE  Carried'
<1>1. todo' = todo \ {r}
  BY DEF Deliver
<1>2. rec \in [Records -> RecStates]
  BY DEF TypeInv, TypeOK
<1>3. CASE IsReleasing(r) /\ UNCHANGED <<rec, ans, wait, flight>>
  <2>1. r \in KeysOf(queue) \cup KeysOf(msg)
    BY <1>3 DEF IsReleasing, NothingStuck, JointKeys, KeysOf
  <2> QED
    BY <1>1, <1>3, <2>1 DEF Carried, Shaped, KeysOf, flight
<1>4. CASE HoldRecord(r)
  <2>1. /\ rec' = [rec EXCEPT ![r] = IF @ = "pending" THEN "held" ELSE @]
        /\ queue' = queue /\ msg' = msg
    BY <1>4 DEF HoldRecord, flight
  <2>2. \A x \in Records : rec'[x] = "pending" => rec[x] = "pending" /\ x # r
    BY <1>2, <2>1
  <2> QED
    BY <1>1, <2>1, <2>2 DEF Carried, Shaped, KeysOf
<1>5. CASE ReleaseWith(r)
  <2> DEFINE r0 == [rec EXCEPT ![r] = IF @ = "held" THEN "pending" ELSE @]
  <2>1. ReleaseWait(Seen({r}), {Joint(r, {r})}, r0, ans)
    BY <1>5 DEF ReleaseWith
  <2>2. WaitOK(Seen({r})) /\ Shaped({Joint(r, {r})})
    BY SeenOK, ShapedEntries
  <2>3. \A x \in Records : r0[x] = "pending" => rec[x] = "pending" \/ x = r
    BY <1>2
  <2>4. r \in KeysOf({Joint(r, {r})})
    BY DEF KeysOf, Joint
  <2>5. msg' = msg
    BY <2>1 DEF ReleaseWait
  <2> HIDE DEF r0
  <2>6. /\ Shaped(queue') /\ KeysOf(queue) \subseteq KeysOf(queue') /\ r \in KeysOf(queue')
        /\ \A x \in Records : rec'[x] = "pending" => r0[x] = "pending" \/ x \in KeysOf(queue')
    BY <2>1, <2>2, <2>4, ReleaseCarries DEF Carried
  <2> QED
    BY <1>1, <2>3, <2>5, <2>6 DEF Carried
<1>6. CASE QueueRecord(r)
  <2>1. /\ Put({Alone(r, {r})}) /\ msg' = msg
        /\ rec' = [rec EXCEPT ![r] = IF @ = "held" THEN "pending" ELSE @]
    BY <1>6 DEF QueueRecord
  <2>2. Shaped(queue') /\ KeysOf(queue) \subseteq KeysOf(queue') /\ KeysOf({Alone(r, {r})}) \subseteq KeysOf(queue')
    BY <2>1, PutCarries, ShapedEntries DEF Carried
  <2>3. r \in KeysOf(queue')
    BY <2>2 DEF KeysOf, Alone
  <2>4. \A x \in Records : rec'[x] = "pending" => rec[x] = "pending" \/ x = r
    BY <1>2, <2>1
  <2> QED
    BY <1>1, <2>1, <2>2, <2>3, <2>4 DEF Carried
<1> QED
  BY <1>3, <1>4, <1>5, <1>6 DEF Deliver

LEMMA FindCarries ==
  ASSUME TypeInv, Carried, Find
  PROVE  Carried'
<1>1. todo' = todo /\ run.pending \in SUBSET Questions
  BY DEF Find, TypeInv, TypeOK, Run
<1>2. CASE NotFound \/ NoWorker \/ HoldAnswers
  BY <1>1, <1>2 DEF NotFound, NoWorker, HoldAnswers, flight, Carried, Shaped, KeysOf
<1>3. CASE ReleaseAnswers
  <2>1. PICK a0 : ReleaseWait(Seen(run.pending), {Joint(Answers, run.pending)}, rec, a0)
    BY <1>3 DEF ReleaseAnswers
  <2>2. WaitOK(Seen(run.pending)) /\ Shaped({Joint(Answers, run.pending)})
    BY <1>1, SeenOK, ShapedEntries
  <2>3. msg' = msg
    BY <2>1 DEF ReleaseWait
  <2>4. /\ Shaped(queue') /\ KeysOf(queue) \subseteq KeysOf(queue')
        /\ \A x \in Records : rec'[x] = "pending" => rec[x] = "pending" \/ x \in KeysOf(queue')
    BY <2>1, <2>2, ReleaseCarries DEF Carried
  <2> QED
    BY <1>1, <2>3, <2>4 DEF Carried
<1>4. CASE QueueAnswers
  <2>1. Put({Alone(Answers, run.pending)}) /\ msg' = msg /\ rec' = rec
    BY <1>4 DEF QueueAnswers
  <2>2. Shaped(queue') /\ KeysOf(queue) \subseteq KeysOf(queue')
    BY <1>1, <2>1, PutCarries, ShapedEntries DEF Carried
  <2> QED
    BY <1>1, <2>1, <2>2 DEF Carried
<1> QED
  BY <1>2, <1>3, <1>4 DEF Find

\* What a message or a hold settles was its records' only place.
LEMMA StoredCarries ==
  ASSUME TypeInv, NEW E, Shaped(E), NEW state, state # "pending", rec' = Stored(E, state),
         NEW r \in Records, rec'[r] = "pending"
  PROVE  rec[r] = "pending" /\ r \notin KeysOf(E)
<1>1. rec[r] = "pending" /\ r \notin WhatOf(E)
  BY DEF Stored, TypeInv, TypeOK
<1>2. r \in KeysOf(E) => r \in WhatOf(E)
  BY DEF KeysOf, WhatOf, Shaped
<1> QED
  BY <1>1, <1>2

LEMMA FlushCarries ==
  ASSUME TypeInv, Carried, Flush
  PROVE  Carried'
<1>1. PICK T \in Messages : \E H \in SUBSET T : Flushed(T, H)
  BY DEF Flush, Flushed
<1>2. PICK H \in SUBSET T : Flushed(T, H)
  BY <1>1
<1>3. T \subseteq queue /\ msg = {} /\ todo' = todo
  BY MessagesType DEF Flush
<1>4. queue' = queue \ T /\ msg' = T \ H /\ rec' = Stored(H, "held")
  BY <1>2 DEF Flushed
<1>5. Shaped(H) /\ Shaped(queue') /\ Shaped(msg')
  BY <1>3, <1>4 DEF Carried, Shaped
<1>6. ASSUME NEW r \in Records, rec'[r] = "pending"
      PROVE  r \in todo' \cup KeysOf(queue') \cup KeysOf(msg')
  <2>1. rec[r] = "pending" /\ r \notin KeysOf(H)
    BY <1>4, <1>5, <1>6, StoredCarries
  <2>2. KeysOf(queue) \subseteq KeysOf(queue') \cup KeysOf(msg') \cup KeysOf(H)
    BY <1>3, <1>4 DEF KeysOf
  <2>3. KeysOf(msg) = {}
    BY <1>3 DEF KeysOf
  <2> QED
    BY <1>3, <2>1, <2>2, <2>3 DEF Carried
<1> QED
  BY <1>5, <1>6 DEF Carried

LEMMA SendCarries ==
  ASSUME TypeInv, Carried, Sent \/ SendRejected
  PROVE  Carried'
<1>1. PICK state \in {"delivered", "dropped"} : rec' = Stored(msg, state)
  BY DEF Sent, SendRejected
<1>2. UNCHANGED <<todo, queue>> /\ msg' = {}
  BY DEF Sent, SendRejected
<1>3. ASSUME NEW r \in Records, rec'[r] = "pending"
      PROVE  r \in todo \cup KeysOf(queue)
  BY <1>1, <1>3, StoredCarries DEF Carried
<1> QED
  BY <1>2, <1>3 DEF Carried, Shaped

LEMMA CarriedStep ==
  ASSUME TypeInv, NothingStuck, Carried, [Next]_vars
  PROVE  Carried'
<1>1. CASE UNCHANGED <<rec, queue, msg>> /\ todo \subseteq todo'
  BY <1>1 DEF Carried, Shaped, KeysOf
<1>2. CASE \E r \in Records : Post(r)
  <2>1. PICK r \in Records : Post(r)
    BY <1>2
  <2>2. /\ rec' = [rec EXCEPT ![r] = "pending"] /\ todo' = todo \cup {r}
        /\ queue' = queue /\ msg' = msg
    BY <2>1 DEF Post, flight
  <2>3. \A x \in Records : rec'[x] = "pending" => rec[x] = "pending" \/ x = r
    BY <2>2 DEF TypeInv, TypeOK
  <2> QED
    BY <2>2, <2>3 DEF Carried, Shaped, KeysOf
<1>3. CASE (\E q \in Questions : Answer(q)) \/ (\E x \in Requests : End(x)) \/ StallPass
  BY <1>1, <1>3 DEF Answer, End, StallPass, flight
<1>4. CASE (\E I \in SUBSET Things, any \in BOOLEAN : Report(I, any)) \/ StartTurn \/ EndTurn
  BY <1>1, <1>4 DEF Report, StartTurn, EndTurn, flight, stores
<1>5. CASE \E w \in due : ReleaseDue(w)
  BY <1>5, DueCarries
<1>6. CASE \E r \in todo : Deliver(r)
  BY <1>6, DeliverCarries DEF TypeInv, TypeOK
<1>7. CASE Find
  BY <1>7, FindCarries
<1>8. CASE Look \/ Outcome \/ Resume \/ \E q \in Questions : NoteArrived(q)
  BY <1>1, <1>8 DEF Look, Outcome, Resume, NoteArrived, flight, stores
<1>9. CASE Flush
  BY <1>9, FlushCarries
<1>10. CASE Sent \/ SendRejected
  BY <1>10, SendCarries
<1>11. CASE Reload
  BY <1>11 DEF Reload, stores, Carried, Shaped
<1>12. CASE UNCHANGED vars
  BY <1>1, <1>12 DEF vars, stores, flight
<1> QED
  BY <1>2, <1>3, <1>4, <1>5, <1>6, <1>7, <1>8, <1>9, <1>10, <1>11, <1>12 DEF Next, Waits, Plugin

\* A record that is open and not held is about to be delivered or on its way:
\* no order of holds, releases, sends and reloads leaves one that nothing
\* would bring (`deliverRecord', `releaseWait', the queue's callbacks).
THEOREM OpenIsOnItsWay == Spec => []OpenRecordIsCarried
<1>1. Init => Carried
  BY DEF Init, Carried, Shaped
<1>2. TypeInv /\ NothingStuck /\ Carried /\ [Next]_vars => Carried'
  BY CarriedStep
<1>3. Carried => OpenRecordIsCarried
  <2> SUFFICES ASSUME Carried, NEW r \in Records, rec[r] = "pending", r \notin todo
               PROVE  r \in WhatOf(queue \cup msg)
    BY DEF OpenRecordIsCarried
  <2>1. PICK e \in queue \cup msg : e.key = r
    BY DEF Carried, KeysOf
  <2> QED
    BY <2>1 DEF Carried, Shaped, WhatOf
<1> QED
  BY <1>1, <1>2, <1>3, Invariants, PTL DEF Spec
=============================================================================
