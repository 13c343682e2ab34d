-------------------------- MODULE WakeWays_proofs --------------------------
(***************************************************************************)
(* Proofs about the ways to the Worker in WakeGate, for every set of       *)
(* questions, batches, requests and notes and any number of reports and    *)
(* reloads: a record goes one way at a time, one that is held is looked at *)
(* again, and the facts of a released wait are not lost.                   *)
(***************************************************************************)
EXTENDS WakeGate_proofs

-----------------------------------------------------------------------------
(* One way for each record.                                                *)

OfKey(k) == {e \in queue \cup msg : e.key = k}

\* A record is in one entry; in one of a release it is marked, in one of its
\* own delivery nothing else would deliver it.
Way(r) ==
  /\ \A e, f \in OfKey(r) : e = f
  /\ \A e \in OfKey(r) :
       /\ e \notin queue \cap msg
       /\ rec[r] # "none"
       /\ IF e.joint THEN r \in releasing ELSE r \notin releasing \cup todo /\ rec[r] # "held"
  /\ r \in todo => rec[r] # "none"

Ways == \A r \in Records : Way(r)

\* The entries of r are among the old ones, and it goes as before.
LEMMA WayStays ==
  ASSUME NEW r \in Records, Way(r),
         \A e \in queue' \cup msg' : e.key = r => e \in queue \cup msg,
         \A e \in queue' \cap msg' : e.key = r => e \in queue \cap msg,
         OfKey(r)' # {} => /\ rec'[r] # "none"
                           /\ r \in releasing' <=> r \in releasing
                           /\ r \in todo' => r \in todo
                           /\ rec'[r] = "held" => rec[r] = "held" \/ r \in releasing,
         r \in todo' => rec'[r] # "none"
  PROVE  Way(r)'
  BY DEF Way, OfKey

\* The same for a step that leaves the entries and the marks alone.
LEMMA WaysUnmoved ==
  ASSUME Ways, UNCHANGED <<queue, msg, releasing>>,
         \A r \in Records : /\ r \in todo' => r \in todo \/ (OfKey(r) = {} /\ rec'[r] # "none")
                            /\ rec'[r] = "none" => rec[r] = "none"
                            /\ rec'[r] = "held" => rec[r] = "held" \/ OfKey(r) = {}
  PROVE  Ways'
  BY DEF Ways, Way, OfKey

LEMMA MovedWays == Ways /\ UNCHANGED <<queue, msg, releasing, rec, todo>> => Ways'
  BY DEF Ways, Way, OfKey

\* What is put goes a way of its own.
LEMMA PutWays ==
  ASSUME Ways, NEW E, Put(E), msg' = msg, releasing' = releasing \cup JointKeys(E),
         \A e, f \in E : e.key = f.key => e = f,
         \A e \in E : e.key \in Records =>
           /\ OfKey(e.key) = {} /\ e.key \notin releasing
           /\ rec'[e.key] \notin {"none", "held"}
           /\ e.joint \/ e.key \notin todo',
         \A r \in Records \ KeysOf(E) : rec'[r] = rec[r] /\ (r \in todo' => r \in todo)
  PROVE  Ways'
<1>1. ASSUME NEW r \in Records, r \notin KeysOf(E)
      PROVE  Way(r)'
  <2>1. \A e \in E : e.key # r
    BY <1>1 DEF KeysOf
  <2>2. r \notin JointKeys(E)
    BY <2>1 DEF JointKeys, KeysOf
  <2>3. \A e \in queue' \cup msg' : e.key = r => e \in queue \cup msg
    BY <2>1 DEF Put
  <2>4. OfKey(r)' # {} => OfKey(r) # {}
    BY <2>3 DEF OfKey
  <2>8. \A e \in queue' \cap msg' : e.key = r => e \in queue \cap msg
    BY <2>1 DEF Put
  <2>5. Way(r) /\ rec'[r] = rec[r] /\ (r \in todo' => r \in todo)
    BY <1>1 DEF Ways
  <2>6. OfKey(r) # {} => rec[r] # "none"
    BY <2>5 DEF Way
  <2>7. r \in todo => rec[r] # "none"
    BY <2>5 DEF Way
  <2> QED
    BY <2>2, <2>3, <2>4, <2>5, <2>6, <2>7, <2>8, WayStays
<1>2. ASSUME NEW e \in E, e.key \in Records
      PROVE  Way(e.key)'
  <2> DEFINE r == e.key
  <2>1. /\ OfKey(r) = {} /\ r \notin releasing /\ rec'[r] \notin {"none", "held"}
        /\ e.joint \/ r \notin todo'
    BY <1>2
  <2>2. \A f \in E : f.key = r => f = e
    OBVIOUS
  <2>3. \A f \in queue' \cup msg' : f.key = r => f = e
    BY <2>1, <2>2 DEF Put, OfKey
  <2>4. IF e.joint THEN r \in JointKeys(E) ELSE r \notin JointKeys(E)
    BY <2>2 DEF JointKeys, KeysOf
  <2>5. IF e.joint THEN r \in releasing' ELSE r \notin releasing'
    BY <2>1, <2>4
  <2> HIDE DEF r
  <2>8. e \notin msg'
    BY <2>1 DEF OfKey, r
  <2>6. Way(r)'
    BY <2>1, <2>3, <2>5, <2>8 DEF Way, OfKey
  <2> QED
    BY <2>6 DEF r
<1>3. \A r \in Records : Way(r)'
  <2>1. ASSUME NEW r \in Records, r \in KeysOf(E)
        PROVE  Way(r)'
    <3>1. PICK e \in E : e.key = r
      BY <2>1 DEF KeysOf
    <3>2. Way(e.key)'
      BY <1>2, <3>1
    <3> QED
      BY <3>1, <3>2
  <2> QED
    BY <1>1, <2>1
<1> QED
  BY <1>3 DEF Ways

\* A release takes what is held, which no entry carries, and `first'.
LEMMA ReleaseWays ==
  ASSUME TypeInv, Ways, NEW w, WaitOK(w), NEW first, NEW r0, NEW a0, ReleaseWait(w, first, r0, a0),
         \A e \in first : e.joint /\ e.key \in Keys \ Nat /\ e.key # Facts,
         \A e, f \in first : e = f,
         \A r \in Records : r \in KeysOf(first) =>
           OfKey(r) = {} /\ r \notin releasing /\ r0[r] \notin {"none", "held"},
         \A r \in Records : r \notin KeysOf(first) => r0[r] = rec[r],
         todo' \subseteq todo
  PROVE  Ways'
<1> DEFINE As == HeldAnswers(first, a0)
           held == HeldEntries(first, r0, a0)
           facts == FactsOf(w, first, held)
           all == first \cup facts \cup held
<1>1. /\ Put(all) /\ msg' = msg /\ releasing' = releasing \cup KeysOf(all)
      /\ rec' = [r \in Records |-> IF r \in HeldRecords(first, r0) THEN "pending" ELSE r0[r]]
  BY DEF ReleaseWait
<1>2. \A r \in Records : r \notin Nat /\ r # Answers /\ r # Facts
  BY WakeAssumption DEF Records, Things
<1>3. Answers # Facts /\ Answers \notin Nat /\ Facts \notin Nat
  BY WakeAssumption
<1>4. kept \subseteq Nat
  BY DEF TypeInv, TypeOK
<1>5. ASSUME NEW e \in held
      PROVE  /\ e.joint /\ e.key # Facts
             /\ \/ e.key \in HeldRecords(first, r0) /\ e = Joint(e.key, {e.key})
                \/ e.key \in kept /\ e = Joint(e.key, {e.key})
                \/ e.key = Answers /\ As # {} /\ e = Joint(Answers, As)
  <2>1. \/ \E r \in HeldRecords(first, r0) : e = Joint(r, {r})
        \/ \E n \in kept \ releasing : e = Joint(n, {n})
        \/ As # {} /\ e = Joint(Answers, As)
    BY DEF HeldEntries
  <2>2. HeldRecords(first, r0) \subseteq Records
    BY DEF HeldRecords
  <2> HIDE DEF As, held
  <2> QED
    BY <1>2, <1>3, <1>4, <2>1, <2>2 DEF Joint
<1>6. ASSUME NEW e \in facts
      PROVE  e.joint /\ e.key = Facts /\ e = Joint(Facts, {w.report})
  <2>1. e = Joint(Facts, {w.report})
    BY DEF FactsOf
  <2> QED
    BY <2>1 DEF Joint
<1>7. As # {} => Answers \notin KeysOf(first)
  BY DEF HeldAnswers
<1>8. HeldRecords(first, r0) \cap KeysOf(first) = {}
      /\ \A r \in HeldRecords(first, r0) : r \in Records /\ r \notin releasing /\ r0[r] = "held"
  BY DEF HeldRecords
<1> HIDE DEF As, held, facts
<1>9. \A e \in all : e.joint
  BY <1>5, <1>6
<1>10. ASSUME NEW e \in all, NEW f \in all, e.key = f.key
       PROVE  e = f
  <2>1. \A x \in first : \A y \in held : x.key # y.key
    <3>1. ASSUME NEW x \in first, NEW y \in held, x.key = y.key
          PROVE  FALSE
      <4>1. x.key \in KeysOf(first)
        BY DEF KeysOf
      <4> QED
        BY <1>4, <1>5, <1>7, <1>8, <3>1, <4>1
    <3> QED
      BY <3>1
  <2>2. \A x \in first \cup held : x.key # Facts
    BY <1>5
  <2>3. \A x, y \in held : x.key = y.key => x = y
    <3>1. ASSUME NEW x \in held, NEW y \in held, x.key = y.key
          PROVE  x = y
      <4>1. x.key \in Records => x.key \notin kept /\ x.key # Answers
        BY <1>2, <1>4
      <4>2. x.key \in kept => x.key # Answers
        BY <1>3, <1>4
      <4> QED
        BY <1>5, <1>8, <3>1, <4>1, <4>2
    <3> QED
      BY <3>1
  <2> QED
    BY <1>6, <1>10, <2>1, <2>2, <2>3
<1>11. ASSUME NEW e \in all, e.key \in Records
       PROVE  OfKey(e.key) = {} /\ e.key \notin releasing /\ rec'[e.key] \notin {"none", "held"}
  <2>1. CASE e \in first
    <3>1. e.key \in KeysOf(first)
      BY <2>1 DEF KeysOf
    <3>2. OfKey(e.key) = {} /\ e.key \notin releasing /\ r0[e.key] \notin {"none", "held"}
      BY <1>11, <3>1
    <3>3. e.key \notin HeldRecords(first, r0)
      BY <1>8, <3>1
    <3> QED
      BY <1>1, <1>11, <3>2, <3>3
  <2>2. CASE e \in held
    <3>1. e.key \in HeldRecords(first, r0)
      BY <1>2, <1>4, <1>5, <1>11, <2>2
    <3>2. rec[e.key] = "held" /\ e.key \notin releasing
      BY <1>8, <1>11, <3>1
    <3>3. OfKey(e.key) = {}
      BY <1>11, <3>2 DEF Ways, Way
    <3> QED
      BY <1>1, <1>11, <3>1, <3>2, <3>3
  <2>3. CASE e \in facts
    BY <1>2, <1>6, <1>11, <2>3
  <2> QED
    BY <2>1, <2>2, <2>3
<1>12. JointKeys(all) = KeysOf(all)
  BY <1>9 DEF JointKeys, KeysOf
<1>13. ASSUME NEW r \in Records, r \notin KeysOf(all)
       PROVE  rec'[r] = rec[r] /\ (r \in todo' => r \in todo)
  <2>1. r \notin HeldRecords(first, r0)
    <3>1. ASSUME r \in HeldRecords(first, r0) PROVE FALSE
      <4>1. Joint(r, {r}) \in held /\ Joint(r, {r}).key = r
        BY <3>1 DEF held, HeldEntries, Joint
      <4> QED
        BY <1>13, <4>1 DEF KeysOf
    <3> QED
      BY <3>1
  <2>2. r \notin KeysOf(first)
    BY <1>13 DEF KeysOf
  <2> QED
    BY <1>1, <2>1, <2>2
<1> HIDE DEF all
<1> QED
  BY <1>1, <1>9, <1>10, <1>11, <1>12, <1>13, PutWays

LEMMA DueWays ==
  ASSUME TypeInv, Ways, NEW w \in due, ReleaseDue(w)
  PROVE  Ways'
<1>1. todo' = todo /\ WaitOK(w) /\ WaitOK(wait)
  BY DEF ReleaseDue, TypeInv
<1>2. CASE \E v \in {w, wait} : ReleaseWait(v, {}, rec, ans)
  <2>1. PICK v \in {w, wait} : ReleaseWait(v, {}, rec, ans)
    BY <1>2
  <2>2. KeysOf({}) = {}
    BY DEF KeysOf
  <2> QED
    BY <1>1, <2>1, <2>2, ReleaseWays
<1>3. CASE UNCHANGED <<rec, flight>>
  BY <1>1, <1>3, MovedWays DEF flight
<1> QED
  BY <1>2, <1>3 DEF ReleaseDue, ReleaseHeld, ReleaseSettled

\* What its own delivery is about to take is on no other way.
LEMMA ToDeliver ==
  ASSUME Ways, NEW r \in Records, r \in todo, r \notin releasing
  PROVE  OfKey(r) = {} /\ rec[r] # "none"
<1>1. Way(r)
  BY DEF Ways
<1> QED
  BY <1>1 DEF Way

LEMMA DeliverWays ==
  ASSUME TypeInv, Ways, NEW r \in Records, Deliver(r)
  PROVE  Ways'
<1>1. r \in todo /\ todo' = todo \ {r} /\ rec \in [Records -> RecStates]
  BY DEF Deliver, TypeInv, TypeOK
<1>2. CASE UNCHANGED <<rec, flight>>
  BY <1>1, <1>2, WaysUnmoved DEF flight
<1>3. CASE r \notin releasing /\ HoldRecord(r)
  <2>1. rec' = [rec EXCEPT ![r] = IF @ = "pending" THEN "held" ELSE @] /\ UNCHANGED flight
    BY <1>3 DEF HoldRecord
  <2>2. OfKey(r) = {}
    BY <1>1, <1>3, ToDeliver
  <2>3. ASSUME NEW x \in Records
        PROVE  /\ rec'[x] = "none" => rec[x] = "none"
               /\ rec'[x] = "held" => rec[x] = "held" \/ x = r
    BY <1>1, <2>1
  <2> QED
    BY <1>1, <2>1, <2>2, <2>3, WaysUnmoved DEF flight
<1>4. CASE r \notin releasing /\ ReleaseWith(r)
  <2> DEFINE r0 == [rec EXCEPT ![r] = IF @ = "held" THEN "pending" ELSE @]
             first == {Joint(r, {r})}
  <2>1. ReleaseWait(Seen({r}), first, r0, ans) /\ WaitOK(Seen({r}))
    BY <1>4, SeenOK DEF ReleaseWith
  <2>2. \A x \in Records : r0[x] = IF x = r /\ rec[r] = "held" THEN "pending" ELSE rec[x]
    BY <1>1
  <2>3. \A e \in first : e = Joint(r, {r}) /\ e.key = r /\ e.joint
    BY DEF Joint
  <2>4. KeysOf(first) = {r}
    BY DEF KeysOf, Joint
  <2>5. r \in Keys \ Nat /\ r # Facts
    BY WakeAssumption DEF Keys, Records, Things
  <2>6. OfKey(r) = {} /\ r0[r] \notin {"none", "held"}
    BY <1>1, <1>4, <2>2, ToDeliver
  <2> HIDE DEF r0, first
  <2> QED
    BY <1>1, <1>4, <2>1, <2>2, <2>3, <2>4, <2>5, <2>6, ReleaseWays
<1>5. CASE r \notin releasing /\ QueueRecord(r)
  <2> DEFINE E == {Alone(r, {r})}
  <2>1. Put(E) /\ UNCHANGED <<msg, releasing>>
    BY <1>5 DEF QueueRecord
  <2>2. \A e \in E : e = Alone(r, {r}) /\ e.key = r /\ ~e.joint
    BY DEF Alone
  <2>3. KeysOf(E) = {r} /\ JointKeys(E) = {}
    BY <2>2 DEF KeysOf, JointKeys, Alone
  <2>4. \A x \in Records : rec'[x] = IF x = r /\ rec[r] = "held" THEN "pending" ELSE rec[x]
    BY <1>1, <1>5 DEF QueueRecord
  <2>5. OfKey(r) = {} /\ rec'[r] \notin {"none", "held"}
    BY <1>1, <1>5, <2>4, ToDeliver
  <2> HIDE DEF E
  <2>6. releasing' = releasing \cup JointKeys(E)
    BY <2>1, <2>3
  <2>7. \A x \in Records \ KeysOf(E) : rec'[x] = rec[x] /\ (x \in todo' => x \in todo)
    BY <1>1, <2>3, <2>4
  <2>8. \A e, f \in E : e.key = f.key => e = f
    BY <2>2
  <2>9. \A e \in E : e.key \in Records =>
           /\ OfKey(e.key) = {} /\ e.key \notin releasing
           /\ rec'[e.key] \notin {"none", "held"}
           /\ e.joint \/ e.key \notin todo'
    BY <1>1, <1>5, <2>2, <2>5
  <2> QED
    BY <2>1, <2>6, <2>7, <2>8, <2>9, PutWays
<1> QED
  BY <1>2, <1>3, <1>4, <1>5 DEF Deliver, IsReleasing

LEMMA FindWays ==
  ASSUME TypeInv, Ways, Find
  PROVE  Ways'
<1>1. todo' = todo /\ \A r \in Records : r # Answers
  BY WakeAssumption DEF Find, Records, Things
<1>2. CASE NotFound \/ NoWorker \/ HoldAnswers
  BY <1>1, <1>2, MovedWays DEF NotFound, NoWorker, HoldAnswers, flight
<1>3. CASE ReleaseAnswers
  <2>1. PICK a0 : ReleaseWait(Seen(run.pending), {Joint(Answers, run.pending)}, rec, a0)
    BY <1>3 DEF ReleaseAnswers
  <2> DEFINE first == {Joint(Answers, run.pending)}
  <2>2. \A e \in first : e = Joint(Answers, run.pending) /\ e.key = Answers /\ e.joint
    BY DEF Joint
  <2>3. \A r \in Records : r \notin KeysOf(first)
    BY <1>1, <2>2 DEF KeysOf
  <2>4. Answers \in Keys \ Nat /\ Answers # Facts
    BY WakeAssumption DEF Keys
  <2>5. WaitOK(Seen(run.pending)) /\ ReleaseWait(Seen(run.pending), first, rec, a0)
    BY <2>1, SeenOK
  <2> HIDE DEF first
  <2> QED
    BY <1>1, <2>2, <2>3, <2>4, <2>5, ReleaseWays
<1>4. CASE QueueAnswers
  <2> DEFINE E == {Alone(Answers, run.pending)}
  <2>1. Put(E) /\ UNCHANGED <<msg, releasing, rec>>
    BY <1>4 DEF QueueAnswers
  <2>2. \A e \in E : e = Alone(Answers, run.pending) /\ e.key = Answers /\ ~e.joint
    BY DEF Alone
  <2>3. JointKeys(E) = {}
    BY <2>2 DEF KeysOf, JointKeys
  <2> HIDE DEF E
  <2>4. releasing' = releasing \cup JointKeys(E)
    BY <2>1, <2>3
  <2> QED
    BY <1>1, <2>1, <2>2, <2>4, PutWays
<1> QED
  BY <1>2, <1>3, <1>4 DEF Find

\* A record of the entries E is their key.
LEMMA KeyOfRecord ==
  ASSUME NEW E, Shaped(E), NEW r \in Records
  PROVE  (r \in WhatOf(E) <=> r \in KeysOf(E)) /\ (r \in KeysOf(E) <=> \E e \in E : e.key = r)
  BY DEF Shaped, WhatOf, KeysOf

\* What is held goes off the queue, and what is sent is the message.
LEMMA FlushWays ==
  ASSUME TypeInv, Carried, Ways, Flush
  PROVE  Ways'
<1>1. PICK T \in Messages : \E H \in SUBSET T : Flushed(T, H)
  BY DEF Flush, Flushed
<1>2. PICK H \in SUBSET T : Flushed(T, H)
  BY <1>1
<1>3. T \subseteq queue /\ msg = {} /\ todo' = todo
  BY MessagesType DEF Flush
<1>4. /\ queue' = queue \ T /\ msg' = T \ H /\ rec' = Stored(H, "held")
      /\ releasing' = releasing \ JointKeys(H)
  BY <1>2 DEF Flushed, Done
<1>5. ASSUME NEW r \in Records
      PROVE  Way(r)'
  <2>1. Way(r) /\ (rec'[r] = "none" => rec[r] = "none")
    BY <1>4, <1>5 DEF Ways, Stored
  <2>2. \A e \in queue' \cup msg' : e \in queue /\ e \notin H
    BY <1>3, <1>4
  <2>3. ASSUME NEW e \in queue' \cup msg', e.key = r
        PROVE  rec'[r] = rec[r] /\ r \notin JointKeys(H)
    <3>1. e \in OfKey(r) /\ e \notin H
      BY <2>2, <2>3 DEF OfKey
    <3>2. \A f \in H : f.key # r
      BY <1>3, <2>1, <3>1 DEF Way, OfKey
    <3>3. Shaped(H)
      BY <1>3 DEF Carried, Shaped
    <3>4. r \notin WhatOf(H) /\ r \notin JointKeys(H)
      BY <3>2, <3>3, KeyOfRecord DEF JointKeys, KeysOf
    <3> QED
      BY <1>4, <3>4 DEF Stored
  <2>4. OfKey(r)' # {} => \E e \in queue' \cup msg' : e.key = r
    BY DEF OfKey
  <2>5. \A e \in queue' \cap msg' : FALSE
    BY <1>3, <1>4
  <2>6. OfKey(r)' # {} => rec[r] # "none"
    BY <2>1, <2>2, <2>4 DEF Way, OfKey
  <2>7. r \in todo => rec[r] # "none"
    BY <2>1 DEF Way
  <2> QED
    BY <1>3, <1>4, <2>1, <2>2, <2>3, <2>4, <2>5, <2>6, <2>7, WayStays
<1> QED
  BY <1>5 DEF Ways

LEMMA SendWays ==
  ASSUME TypeInv, Carried, Ways, Sent \/ SendRejected
  PROVE  Ways'
<1>1. PICK state \in {"delivered", "dropped"} : rec' = Stored(msg, state)
  BY DEF Sent, SendRejected
<1>2. UNCHANGED <<todo, queue>> /\ msg' = {} /\ releasing' = releasing \ JointKeys(msg)
  BY DEF Sent, SendRejected, Done
<1>3. ASSUME NEW r \in Records
      PROVE  Way(r)'
  <2>1. Way(r) /\ (rec'[r] = "none" => rec[r] = "none") /\ (rec'[r] = "held" => rec[r] = "held")
    BY <1>1, <1>3 DEF Ways, Stored
  <2>2. ASSUME NEW e \in queue, e.key = r
        PROVE  r \notin JointKeys(msg)
    <3>1. \A f \in msg : f.key # r
      BY <2>1, <2>2 DEF Way, OfKey
    <3> QED
      BY <3>1 DEF JointKeys, KeysOf
  <2>3. OfKey(r)' # {} => \E e \in queue : e.key = r
    BY <1>2 DEF OfKey
  <2>4. OfKey(r)' # {} => rec[r] # "none"
    BY <2>1, <2>3 DEF Way, OfKey
  <2>5. r \in todo => rec[r] # "none"
    BY <2>1 DEF Way
  <2> QED
    BY <1>2, <2>1, <2>2, <2>3, <2>4, <2>5, WayStays
<1> QED
  BY <1>3 DEF Ways

LEMMA WaysStep ==
  ASSUME TypeInv, Carried, Ways, [Next]_vars
  PROVE  Ways'
<1>1. CASE \E r \in Records : Post(r)
  <2>1. PICK r \in Records : Post(r)
    BY <1>1
  <2>2. /\ rec[r] = "none" /\ rec' = [rec EXCEPT ![r] = "pending"] /\ todo' = todo \cup {r}
        /\ UNCHANGED flight
    BY <2>1 DEF Post
  <2>3. OfKey(r) = {}
    BY <2>2 DEF Ways, Way
  <2>4. rec'[r] = "pending" /\ \A x \in Records : x # r => rec'[x] = rec[x]
    BY <2>2 DEF TypeInv, TypeOK
  <2> QED
    BY <2>2, <2>3, <2>4, WaysUnmoved DEF flight
<1>2. CASE (\E q \in Questions : Answer(q)) \/ (\E x \in Requests : End(x)) \/ StallPass
  BY <1>2, MovedWays DEF Answer, End, StallPass, flight
<1>3. CASE (\E I \in SUBSET Things, any \in BOOLEAN : Report(I, any)) \/ StartTurn \/ EndTurn
  BY <1>3, MovedWays DEF Report, StartTurn, EndTurn, flight, stores
<1>4. CASE \E w \in due : ReleaseDue(w)
  BY <1>4, DueWays
<1>5. CASE \E r \in todo : Deliver(r)
  BY <1>5, DeliverWays DEF TypeInv, TypeOK
<1>6. CASE Find
  BY <1>6, FindWays
<1>7. CASE Look \/ Outcome \/ Resume \/ \E q \in Questions : NoteArrived(q)
  BY <1>7, MovedWays DEF Look, Outcome, Resume, NoteArrived, flight, stores
<1>8. CASE Flush
  BY <1>8, FlushWays
<1>9. CASE Sent \/ SendRejected
  BY <1>9, SendWays
<1>10. CASE Reload
  BY <1>10 DEF Reload, stores, Ways, Way, OfKey
<1>11. CASE UNCHANGED vars
  BY <1>11, MovedWays DEF vars, stores, flight
<1> QED
  BY <1>1, <1>2, <1>3, <1>4, <1>5, <1>6, <1>7, <1>8, <1>9, <1>10, <1>11 DEF Next, Waits, Plugin

\* A record goes to the Worker one way: what its own delivery queued, a release
\* carries or the queue is sending is the only copy, whatever order deliveries,
\* releases, holds, sends and reloads come in (`isReleasing' and what
\* `releaseWait' marks).
THEOREM OneWayHolds == Spec => []OneWay
<1>1. Init => Carried /\ Ways
  BY DEF Init, Carried, Shaped, Ways, Way, OfKey
<1>2. TypeInv /\ NothingStuck /\ Carried /\ Ways /\ [Next]_vars => Carried' /\ Ways'
  BY CarriedStep, WaysStep
<1>3. Carried /\ Ways => OneWay
  <2> SUFFICES ASSUME Carried, Ways, NEW r \in Records, NEW e \in queue \cup msg,
                      NEW f \in queue \cup msg, r \in e.what \cap f.what
               PROVE  e = f
    BY DEF OneWay
  <2>1. e \in OfKey(r) /\ f \in OfKey(r)
    BY DEF Carried, Shaped, OfKey
  <2> QED
    BY <2>1 DEF Ways, Way
<1> QED
  BY <1>1, <1>2, <1>3, Invariants, PTL DEF Spec

-----------------------------------------------------------------------------
(* Held records.                                                           *)

Looked(r) == wait.items # {} \/ due # {} \/ r \in todo

\* A held record is not on its way in a release, so the next release takes it.
HeldInv == \A r \in Records : rec[r] = "held" => r \notin releasing /\ Looked(r)

\* A step that ends no wait, release or delivery and marks nothing.
LEMMA HeldStays ==
  ASSUME HeldInv,
         wait'.items = wait.items \/ wait'.items # {}, due \subseteq due',
         \A r \in Records :
           rec'[r] = "held" => \/ rec[r] = "held" /\ (r \in todo => r \in todo')
                               \/ wait'.items # {} /\ r \notin releasing',
         \A r \in Records : r \in releasing' => r \in releasing
  PROVE  HeldInv'
  BY DEF HeldInv, Looked

\* Nothing is held when a release has begun.
LEMMA ReleaseHolds ==
  ASSUME HeldInv, NEW w, NEW first, NEW r0, NEW a0, ReleaseWait(w, first, r0, a0),
         \A r \in Records : r0[r] = "held" => rec[r] = "held" /\ r \notin KeysOf(first)
  PROVE  HeldInv'
<1>1. rec' = [r \in Records |-> IF r \in HeldRecords(first, r0) THEN "pending" ELSE r0[r]]
  BY DEF ReleaseWait
<1>2. \A r \in Records : r0[r] = "held" => r \in HeldRecords(first, r0)
  BY DEF HeldRecords, HeldInv
<1>3. \A r \in Records : rec'[r] # "held"
  BY <1>1, <1>2
<1> QED
  BY <1>3 DEF HeldInv

LEMMA DueHolds ==
  ASSUME TypeInv, HeldInv, NEW w \in due, ReleaseDue(w)
  PROVE  HeldInv'
<1>1. CASE \E v : ReleaseWait(v, {}, rec, ans)
  <2>1. \A r \in Records : r \notin KeysOf({})
    BY DEF KeysOf
  <2> QED
    BY <1>1, <2>1, ReleaseHolds
<1>2. CASE ~Met(wait) /\ UNCHANGED <<rec, wait, flight>>
  <2>1. wait'.items # {}
    BY <1>2 DEF Met
  <2> QED
    BY <1>2, <2>1 DEF HeldInv, Looked, flight
<1> QED
  BY <1>1, <1>2 DEF ReleaseDue, ReleaseHeld, ReleaseSettled

\* An unmet wait is a wait for something.
LEMMA HoldsItems ==
  ASSUME TypeInv, NEW S, Holds(S)
  PROVE  wait.items # {}
  BY SeenOK DEF Holds, Met

LEMMA DeliverHolds ==
  ASSUME TypeInv, HeldInv, NEW r \in Records, Deliver(r)
  PROVE  HeldInv'
<1>1. /\ r \in todo /\ todo' = todo \ {r} /\ due' = due
      /\ rec \in [Records -> RecStates]
  BY DEF Deliver, TypeInv, TypeOK
<1>2. CASE r \in releasing /\ UNCHANGED <<rec, wait, flight>>
  <2>1. rec[r] # "held"
    BY <1>2 DEF HeldInv
  <2>2. \A x \in Records : rec'[x] = "held" => rec[x] = "held" /\ (x \in todo => x \in todo')
    BY <1>1, <1>2, <2>1
  <2> QED
    BY <1>1, <1>2, <2>2, HeldStays DEF flight
<1>3. CASE r \notin releasing /\ HoldRecord(r)
  <2>1. wait.items # {} /\ wait'.items = wait.items /\ UNCHANGED flight
    BY <1>3, HoldsItems, SeenOK DEF HoldRecord
  <2>2. \A x \in Records : rec'[x] = "held" => rec[x] = "held" \/ x = r
    BY <1>1, <1>3 DEF HoldRecord
  <2>3. \A x \in Records : rec'[x] = "held" => x \notin releasing'
    BY <1>3, <2>1, <2>2 DEF HeldInv, flight
  <2> QED
    BY <2>1, <2>3 DEF HeldInv, Looked
<1>4. CASE ReleaseWith(r)
  <2> DEFINE r0 == [rec EXCEPT ![r] = IF @ = "held" THEN "pending" ELSE @]
             first == {Joint(r, {r})}
  <2>1. ReleaseWait(Seen({r}), first, r0, ans)
    BY <1>4 DEF ReleaseWith
  <2>2. KeysOf(first) = {r}
    BY DEF KeysOf, Joint
  <2>3. \A x \in Records : r0[x] = "held" => rec[x] = "held" /\ x # r
    BY <1>1
  <2> HIDE DEF r0, first
  <2> QED
    BY <2>1, <2>2, <2>3, ReleaseHolds
<1>5. CASE QueueRecord(r)
  <2>1. UNCHANGED <<wait, releasing>>
    BY <1>5 DEF QueueRecord
  <2>2. \A x \in Records : rec'[x] = "held" => rec[x] = "held" /\ x # r
    BY <1>1, <1>5 DEF QueueRecord
  <2> QED
    BY <1>1, <2>1, <2>2, HeldStays
<1> QED
  BY <1>2, <1>3, <1>4, <1>5 DEF Deliver, IsReleasing

LEMMA FindHolds ==
  ASSUME TypeInv, HeldInv, Find
  PROVE  HeldInv'
<1>1. UNCHANGED <<todo, due>>
  BY DEF Find
<1>2. CASE NotFound \/ NoWorker \/ QueueAnswers
  BY <1>1, <1>2, HeldStays DEF NotFound, NoWorker, QueueAnswers, flight
<1>3. CASE HoldAnswers
  <2>1. wait'.items = wait.items /\ UNCHANGED <<rec, flight>>
    BY <1>3, SeenOK DEF HoldAnswers
  <2> QED
    BY <1>1, <2>1, HeldStays DEF flight
<1>4. CASE ReleaseAnswers
  <2> DEFINE first == {Joint(Answers, run.pending)}
             a0 == Write(run.pending, "queued")
  <2>1. ReleaseWait(Seen(run.pending), first, rec, a0)
    BY <1>4 DEF ReleaseAnswers
  <2>2. KeysOf(first) = {Answers} /\ \A r \in Records : r # Answers
    BY WakeAssumption DEF KeysOf, Joint, Records, Things
  <2> HIDE DEF first, a0
  <2> QED
    BY <2>1, <2>2, ReleaseHolds
<1> QED
  BY <1>2, <1>3, <1>4 DEF Find

\* What is held at the send leaves the marks, and the wait it is for stands.
LEMMA FlushHolds ==
  ASSUME TypeInv, Carried, Ways, HeldInv, Flush
  PROVE  HeldInv'
<1>1. PICK T \in Messages : \E H \in SUBSET T : HeldAt(T, H) /\ Flushed(T, H)
  BY DEF Flush, Flushed
<1>2. PICK H \in SUBSET T : HeldAt(T, H) /\ Flushed(T, H)
  BY <1>1
<1>3. T \subseteq queue /\ UNCHANGED <<todo, due>>
  BY MessagesType DEF Flush
<1>4. rec' = Stored(H, "held") /\ releasing' = releasing \ JointKeys(H) /\ wait'.items = wait.items
  BY <1>2, SeenOK DEF Flushed, Done
<1>5. ASSUME NEW r \in Records, rec'[r] = "held", r \in WhatOf(H)
      PROVE  wait'.items # {} /\ r \notin releasing'
  <2>1. Shaped(H)
    BY <1>3 DEF Carried, Shaped
  <2>2. PICK e \in H : e.key = r
    BY <1>5, <2>1, KeyOfRecord
  <2>3. Holds(WhatOf(H))
    BY <1>2, <2>2 DEF HeldAt
  <2>4. e.joint => r \in JointKeys(H)
    BY <2>2 DEF JointKeys, KeysOf
  <2>5. ~e.joint => r \notin releasing
    BY <1>3, <2>2 DEF Ways, Way, OfKey
  <2> QED
    BY <1>4, <2>3, <2>4, <2>5, HoldsItems
<1>6. \A r \in Records : rec'[r] = "held" => rec[r] = "held" \/ (wait'.items # {} /\ r \notin releasing')
  BY <1>4, <1>5 DEF Stored
<1> QED
  BY <1>3, <1>4, <1>6, HeldStays

LEMMA HeldStep ==
  ASSUME TypeInv, Carried, Ways, HeldInv, [Next]_vars
  PROVE  HeldInv'
<1>1. CASE \E q \in Questions : Answer(q)
  <2>1. PICK q \in Questions : Answer(q)
    BY <1>1
  <2>2. wait'.items = wait.items
    BY <2>1, HookOK DEF Answer
  <2> QED
    BY <2>1, <2>2, HeldStays DEF Answer, flight
<1>2. CASE \E r \in Records : Post(r)
  <2>1. PICK r \in Records : Post(r)
    BY <1>2
  <2>2. wait'.items = wait.items
    BY <2>1, HookOK DEF Post
  <2>3. \A x \in Records : rec'[x] = "held" => rec[x] = "held"
    BY <2>1 DEF Post, TypeInv, TypeOK
  <2> QED
    BY <2>1, <2>2, <2>3, HeldStays DEF Post, flight
<1>3. CASE \E x \in Requests : End(x)
  <2>1. PICK x \in Requests : End(x)
    BY <1>3
  <2>2. wait'.items = wait.items
    BY <2>1, HookOK DEF End
  <2> QED
    BY <2>1, <2>2, HeldStays DEF End, flight
<1>4. CASE StallPass
  <2>1. PICK S, F : wait' = Settle(wait, S, F)
    BY <1>4 DEF StallPass
  <2>2. wait'.items = wait.items
    BY <2>1, SettleOK DEF TypeInv
  <2>3. due \subseteq due' /\ UNCHANGED <<rec, todo, flight>>
    BY <1>4 DEF StallPass
  <2> QED
    BY <2>2, <2>3, HeldStays DEF flight
<1>5. CASE \E I \in SUBSET Things, any \in BOOLEAN : Report(I, any)
  <2>1. due' # {} /\ UNCHANGED <<rec, flight>>
    BY <1>5 DEF Report
  <2> QED
    BY <2>1 DEF HeldInv, Looked, flight
<1>6. CASE StartTurn \/ EndTurn \/ Look \/ Outcome \/ Resume \/ \E q \in Questions : NoteArrived(q)
  BY <1>6, HeldStays DEF StartTurn, EndTurn, Look, Outcome, Resume, NoteArrived, stores, flight
<1>7. CASE \E w \in due : ReleaseDue(w)
  BY <1>7, DueHolds
<1>8. CASE \E r \in todo : Deliver(r)
  BY <1>8, DeliverHolds DEF TypeInv, TypeOK
<1>9. CASE Find
  BY <1>9, FindHolds
<1>10. CASE Flush
  BY <1>10, FlushHolds
<1>11. CASE Sent \/ SendRejected
  <2>1. PICK state \in {"delivered", "dropped"} : rec' = Stored(msg, state)
    BY <1>11 DEF Sent, SendRejected
  <2>2. UNCHANGED <<wait, due, todo>> /\ releasing' = releasing \ JointKeys(msg)
    BY <1>11 DEF Sent, SendRejected, Done
  <2>3. \A r \in Records : rec'[r] = "held" => rec[r] = "held"
    BY <2>1 DEF Stored
  <2> QED
    BY <2>2, <2>3, HeldStays
<1>12. CASE Reload
  BY <1>12 DEF Reload, HeldInv, Looked, stores
<1>13. CASE UNCHANGED vars
  BY <1>13, HeldStays DEF vars, stores, flight
<1> QED
  BY <1>1, <1>2, <1>3, <1>4, <1>5, <1>6, <1>7, <1>8, <1>9, <1>10, <1>11, <1>12, <1>13 DEF Next, Waits, Plugin

\* No record is left held: while one is, the Worker's wait stands, a release of
\* it is due, or the reload's new delivery of it is, however holds, releases,
\* reports, hooks that fail and reloads follow one another.
THEOREM HeldIsLookedAt == Spec => []HeldIsAwaited
<1>1. Init => Carried /\ Ways /\ HeldInv
  BY DEF Init, Carried, Shaped, Ways, Way, OfKey, HeldInv
<1>2. TypeInv /\ NothingStuck /\ Carried /\ Ways /\ HeldInv /\ [Next]_vars => Carried' /\ Ways' /\ HeldInv'
  BY CarriedStep, WaysStep, HeldStep
<1>3. HeldInv => HeldIsAwaited
  BY DEF HeldInv, Looked, HeldIsAwaited, NoWait
<1> QED
  BY <1>1, <1>2, <1>3, Invariants, PTL DEF Spec

-----------------------------------------------------------------------------
(* The facts of a released wait.                                           *)

\* Facts go with a release, as the wait's or as a held block of their own.
FactsShaped(E) ==
  \A e \in E :
    /\ e.key = Facts => e.joint
    /\ \A n \in Nat : /\ n \in e.what => e.joint /\ e.key \in {Facts, n}
                      /\ e.key = n => e.joint /\ n \in e.what

OneFacts(E) == \A e, f \in E : e.key = Facts /\ f.key = Facts => e = f

FactsInv == FactsShaped(queue) /\ FactsShaped(msg) /\ OneFacts(queue)

\* What FactsKept says of a step.
Keeps ==
  \A n \in FactsOnTheWay \ FactsOnTheWay' :
    \/ got'[n] > 0
    \/ \E e \in queue' \ queue : e.key = Facts
    \/ SendFails /\ n \in WhatOf(msg)
    \/ reloads' # reloads

LEMMA FactsUnmoved == FactsInv /\ UNCHANGED <<queue, msg, kept>> => FactsInv' /\ Keeps
  BY DEF FactsInv, Keeps, FactsOnTheWay

\* put loses facts to newer facts only.
LEMMA PutFacts ==
  ASSUME FactsInv, NEW E, FactsShaped(E), OneFacts(E), Put(E), msg' = msg,
         \A n \in kept \ kept' : n \in WhatOf(E), kept \subseteq Nat
  PROVE  FactsInv' /\ Keeps
<1>1. queue' = {o \in queue : ~\E e \in E : e.key = o.key /\ e.joint = o.joint} \cup E
  BY DEF Put
<1>2. FactsShaped(queue') /\ FactsShaped(msg')
  BY <1>1 DEF FactsInv, FactsShaped
<1>3. OneFacts(queue')
  <2>1. ASSUME NEW e \in queue', NEW f \in queue', e.key = Facts, f.key = Facts
        PROVE  e = f
    <3>1. e.joint /\ f.joint
      BY <1>2, <2>1 DEF FactsShaped
    <3>2. e \in E \/ f \in E => e \in E /\ f \in E
      <4>1. e.joint \in BOOLEAN => e.joint = f.joint
        BY <3>1
      <4> QED
        BY <1>1, <2>1, <3>1 DEF FactsInv, FactsShaped
    <3> QED
      BY <1>1, <2>1, <3>2 DEF FactsInv, OneFacts
  <2> QED
    BY <2>1 DEF OneFacts
<1>4. ASSUME NEW n \in WhatOf(queue) \cap Nat, n \notin WhatOf(queue')
      PROVE  \E e \in queue' \ queue : e.key = Facts
  <2>1. PICK o \in queue : n \in o.what
    BY <1>4 DEF WhatOf
  <2>2. o \notin queue'
    BY <1>4, <2>1 DEF WhatOf
  <2>3. PICK e \in E : e.key = o.key /\ e.joint = o.joint
    BY <1>1, <2>1, <2>2
  <2>4. e \in queue' /\ n \notin e.what
    BY <1>1, <1>4 DEF WhatOf
  <2>5. o.key \in {Facts, n}
    BY <1>4, <2>1 DEF FactsInv, FactsShaped
  <2>6. e.key # n
    BY <1>4, <2>4 DEF FactsShaped
  <2>7. e.key = Facts /\ o.key = Facts
    BY <2>3, <2>5, <2>6
  <2>8. e \notin queue
    BY <2>1, <2>2, <2>4, <2>7 DEF FactsInv, OneFacts
  <2> QED
    BY <2>4, <2>7, <2>8
<1>5. WhatOf(E) \subseteq WhatOf(queue') /\ \A F : WhatOf(F \cup msg) = WhatOf(F) \cup WhatOf(msg)
  BY <1>1 DEF WhatOf
<1>6. Keeps
  <2> SUFFICES ASSUME NEW n \in FactsOnTheWay, n \notin FactsOnTheWay'
               PROVE  \E e \in queue' \ queue : e.key = Facts
    BY DEF Keeps
  <2>1. n \in Nat /\ n \notin WhatOf(queue') /\ n \notin WhatOf(msg) /\ n \notin kept'
    BY <1>5 DEF FactsOnTheWay
  <2>2. n \in WhatOf(queue) \/ n \in kept
    BY <1>5, <2>1 DEF FactsOnTheWay
  <2>3. n \in WhatOf(queue)
    BY <1>5, <2>1, <2>2
  <2> QED
    BY <1>4, <2>1, <2>3
<1> QED
  BY <1>2, <1>3, <1>6 DEF FactsInv

\* Entries without facts.
LEMMA NoFacts ==
  /\ \A r \in Records : FactsShaped({Joint(r, {r})}) /\ FactsShaped({Alone(r, {r})})
                        /\ OneFacts({Alone(r, {r})})
  /\ \A S \in SUBSET Questions : FactsShaped({Joint(Answers, S)}) /\ FactsShaped({Alone(Answers, S)})
                                /\ OneFacts({Alone(Answers, S)})
  /\ \A n \in Nat : FactsShaped({Joint(n, {n})}) /\ FactsShaped({Joint(Facts, {n})})
<1>1. \A r \in Records : r \notin Nat /\ r # Facts
  BY WakeAssumption DEF Records, Things
<1>2. Answers \notin Nat /\ Answers # Facts /\ Facts \notin Nat
  BY WakeAssumption
<1>3. \A S \in SUBSET Questions : \A n \in Nat : n \notin S
  BY WakeAssumption DEF Things
<1>4. \A n \in Nat : FactsShaped({Joint(n, {n})}) /\ FactsShaped({Joint(Facts, {n})})
  BY <1>2 DEF FactsShaped, Joint
<1>5. \A r \in Records : FactsShaped({Joint(r, {r})}) /\ FactsShaped({Alone(r, {r})})
                        /\ OneFacts({Alone(r, {r})})
  BY <1>1 DEF FactsShaped, OneFacts, Joint, Alone
<1>6. \A S \in SUBSET Questions : FactsShaped({Joint(Answers, S)}) /\ FactsShaped({Alone(Answers, S)})
                                /\ OneFacts({Alone(Answers, S)})
  BY <1>2, <1>3 DEF FactsShaped, OneFacts, Joint, Alone
<1> QED
  BY <1>4, <1>5, <1>6

\* A release takes the facts that were kept, with those of its wait.
LEMMA ReleaseFacts ==
  ASSUME TypeInv, FactsInv, NEW w, WaitOK(w), NEW first, NEW r0, NEW a0, ReleaseWait(w, first, r0, a0),
         FactsShaped(first), \A e \in first : e.key # Facts
  PROVE  FactsInv' /\ Keeps
<1> DEFINE held == HeldEntries(first, r0, a0)
           facts == FactsOf(w, first, held)
           all == first \cup facts \cup held
<1>1. Put(all) /\ msg' = msg /\ kept' = kept \cap releasing
  BY DEF ReleaseWait
<1>2. kept \subseteq Nat
  BY DEF TypeInv, TypeOK
<1>3. ASSUME NEW e \in held
      PROVE  FactsShaped({e}) /\ e.key # Facts
  <2>1. CASE \E r \in HeldRecords(first, r0) : e = Joint(r, {r})
    <3>1. PICK r \in Records : e = Joint(r, {r})
      BY <2>1 DEF HeldRecords
    <3>2. r # Facts
      BY WakeAssumption DEF Records, Things
    <3> QED
      BY <3>1, <3>2, NoFacts DEF Joint
  <2>2. CASE \E n \in kept \ releasing : e = Joint(n, {n})
    <3>1. PICK n \in kept \ releasing : e = Joint(n, {n})
      BY <2>2
    <3>2. n \in Nat /\ n # Facts
      BY <1>2, WakeAssumption
    <3> QED
      BY <3>1, <3>2, NoFacts DEF Joint
  <2>3. CASE e = Joint(Answers, HeldAnswers(first, a0))
    <3>1. PICK S \in SUBSET Questions : e = Joint(Answers, S)
      BY <2>3 DEF HeldAnswers
    <3>2. Answers # Facts
      BY WakeAssumption
    <3> QED
      BY <3>1, <3>2, NoFacts DEF Joint
  <2> QED
    BY <2>1, <2>2, <2>3 DEF HeldEntries
<1>4. \A e \in facts : e = Joint(Facts, {w.report}) /\ FactsShaped({e})
  <2>1. w.report \in Nat
    BY WakeAssumption DEF WaitOK, Wait
  <2>2. facts \subseteq {Joint(Facts, {w.report})}
    BY DEF FactsOf
  <2>3. FactsShaped({Joint(Facts, {w.report})})
    BY <2>1, NoFacts
  <2> HIDE DEF facts
  <2> QED
    BY <2>2, <2>3
<1>5. \A n \in kept \ kept' : n \in WhatOf(held)
  <2> SUFFICES ASSUME NEW n \in kept \ releasing
               PROVE  n \in WhatOf(held)
    BY <1>1
  <2>1. Joint(n, {n}) \in held
    BY DEF HeldEntries
  <2>2. n \in Joint(n, {n}).what
    BY DEF Joint
  <2> HIDE DEF held
  <2> QED
    BY <2>1, <2>2 DEF WhatOf
<1> HIDE DEF held, facts
<1>6. FactsShaped(all)
  BY <1>3, <1>4 DEF FactsShaped
<1>7. OneFacts(all)
  BY <1>3, <1>4 DEF OneFacts
<1>8. \A n \in kept \ kept' : n \in WhatOf(all)
  BY <1>5 DEF WhatOf
<1> HIDE DEF all
<1> QED
  BY <1>1, <1>2, <1>6, <1>7, <1>8, PutFacts

LEMMA DueFacts ==
  ASSUME TypeInv, FactsInv, NEW w \in due, ReleaseDue(w)
  PROVE  FactsInv' /\ Keeps
<1>1. CASE \E v \in {w, wait} : ReleaseWait(v, {}, rec, ans)
  <2>1. PICK v \in {w, wait} : ReleaseWait(v, {}, rec, ans)
    BY <1>1
  <2>2. WaitOK(v) /\ FactsShaped({})
    BY DEF TypeInv, FactsShaped
  <2> QED
    BY <2>1, <2>2, ReleaseFacts
<1>2. CASE UNCHANGED flight
  BY <1>2, FactsUnmoved DEF flight
<1> QED
  BY <1>1, <1>2 DEF ReleaseDue, ReleaseHeld, ReleaseSettled

LEMMA DeliverFacts ==
  ASSUME TypeInv, FactsInv, NEW r \in Records, Deliver(r)
  PROVE  FactsInv' /\ Keeps
<1>1. CASE UNCHANGED flight
  BY <1>1, FactsUnmoved DEF flight
<1>2. CASE ReleaseWith(r)
  <2>1. PICK r0 : ReleaseWait(Seen({r}), {Joint(r, {r})}, r0, ans)
    BY <1>2 DEF ReleaseWith
  <2>2. FactsShaped({Joint(r, {r})}) /\ WaitOK(Seen({r}))
    BY NoFacts, SeenOK
  <2>3. \A e \in {Joint(r, {r})} : e.key # Facts
    BY WakeAssumption DEF Joint, Records, Things
  <2> QED
    BY <2>1, <2>2, <2>3, ReleaseFacts
<1>3. CASE QueueRecord(r)
  <2>1. Put({Alone(r, {r})}) /\ UNCHANGED <<msg, kept>>
    BY <1>3 DEF QueueRecord
  <2>2. FactsShaped({Alone(r, {r})}) /\ OneFacts({Alone(r, {r})})
    BY NoFacts
  <2>3. kept \subseteq Nat
    BY DEF TypeInv, TypeOK
  <2> QED
    BY <2>1, <2>2, <2>3, PutFacts
<1> QED
  BY <1>1, <1>2, <1>3 DEF Deliver, HoldRecord

LEMMA FindFacts ==
  ASSUME TypeInv, FactsInv, Find
  PROVE  FactsInv' /\ Keeps
<1>1. run.pending \in SUBSET Questions /\ kept \subseteq Nat
  BY DEF TypeInv, TypeOK, Run
<1>2. CASE NotFound \/ NoWorker \/ HoldAnswers
  BY <1>2, FactsUnmoved DEF NotFound, NoWorker, HoldAnswers, flight
<1>3. CASE ReleaseAnswers
  <2>1. PICK a0 : ReleaseWait(Seen(run.pending), {Joint(Answers, run.pending)}, rec, a0)
    BY <1>3 DEF ReleaseAnswers
  <2>2. FactsShaped({Joint(Answers, run.pending)}) /\ WaitOK(Seen(run.pending))
    BY <1>1, NoFacts, SeenOK
  <2>3. \A e \in {Joint(Answers, run.pending)} : e.key # Facts
    BY WakeAssumption DEF Joint
  <2> QED
    BY <2>1, <2>2, <2>3, ReleaseFacts
<1>4. CASE QueueAnswers
  <2>1. Put({Alone(Answers, run.pending)}) /\ UNCHANGED <<msg, kept>>
    BY <1>4 DEF QueueAnswers
  <2>2. FactsShaped({Alone(Answers, run.pending)}) /\ OneFacts({Alone(Answers, run.pending)})
    BY <1>1, NoFacts
  <2> QED
    BY <1>1, <2>1, <2>2, PutFacts
<1> QED
  BY <1>2, <1>3, <1>4 DEF Find

\* What a flush takes off the queue is sent or kept.
LEMMA FlushFacts ==
  ASSUME TypeInv, FactsInv, Flush
  PROVE  FactsInv' /\ Keeps
<1>1. PICK T \in Messages : \E H \in SUBSET T : Flushed(T, H)
  BY DEF Flush, Flushed
<1>2. PICK H \in SUBSET T : Flushed(T, H)
  BY <1>1
<1>3. T \subseteq queue /\ msg = {}
  BY MessagesType DEF Flush
<1>4. queue' = queue \ T /\ msg' = T \ H /\ kept' = kept \cup (WhatOf(H) \cap Nat)
  BY <1>2 DEF Flushed, FactsIn
<1>5. FactsInv'
  BY <1>3, <1>4 DEF FactsInv, FactsShaped, OneFacts
<1>6. queue \cup msg \subseteq (queue' \cup msg') \cup H
  BY <1>3, <1>4
<1>7. WhatOf(queue \cup msg) \subseteq WhatOf(queue' \cup msg') \cup WhatOf(H)
  BY <1>6 DEF WhatOf
<1>8. FactsOnTheWay \subseteq FactsOnTheWay'
  BY <1>4, <1>7 DEF FactsOnTheWay
<1> QED
  BY <1>5, <1>8 DEF Keeps

LEMMA SendFacts ==
  ASSUME TypeInv, FactsInv, Sent \/ SendRejected
  PROVE  FactsInv' /\ Keeps
<1>1. UNCHANGED <<queue, kept>> /\ msg' = {} /\ (got' = Reached(msg) \/ SendFails)
  BY DEF Sent, SendRejected
<1>2. FactsInv'
  BY <1>1 DEF FactsInv, FactsShaped
<1>3. ASSUME NEW n \in FactsOnTheWay, n \notin FactsOnTheWay'
      PROVE  n \in WhatOf(msg)
  <2>1. WhatOf(queue \cup msg) = WhatOf(queue) \cup WhatOf(msg) /\ WhatOf(queue' \cup msg') = WhatOf(queue)
    BY <1>1 DEF WhatOf
  <2> QED
    BY <1>1, <1>3, <2>1 DEF FactsOnTheWay
<1>4. ASSUME NEW n \in WhatOf(msg)
      PROVE  Reached(msg)[n] > 0
  <2>1. n \in Items
    BY EntrySets DEF TypeInv, TypeOK
  <2>2. got[n] \in 0..2
    BY <2>1 DEF TypeInv, TypeOK
  <2>3. Reached(msg)[n] = IF got[n] < 2 THEN got[n] + 1 ELSE got[n]
    BY <2>1, <1>4 DEF Reached
  <2> QED
    BY <2>2, <2>3
<1> QED
  BY <1>1, <1>2, <1>3, <1>4 DEF Keeps

LEMMA FactsStep ==
  ASSUME TypeInv, FactsInv, Next
  PROVE  FactsInv' /\ Keeps
<1>1. CASE (\E q \in Questions : Answer(q)) \/ (\E r \in Records : Post(r)) \/ (\E x \in Requests : End(x))
  BY <1>1, FactsUnmoved DEF Answer, Post, End, flight
<1>2. CASE StallPass \/ (\E I \in SUBSET Things, any \in BOOLEAN : Report(I, any)) \/ StartTurn \/ EndTurn
  BY <1>2, FactsUnmoved DEF StallPass, Report, StartTurn, EndTurn, flight
<1>3. CASE \E w \in due : ReleaseDue(w)
  BY <1>3, DueFacts
<1>4. CASE \E r \in todo : Deliver(r)
  BY <1>4, DeliverFacts DEF TypeInv, TypeOK
<1>5. CASE Find
  BY <1>5, FindFacts
<1>6. CASE Look \/ Outcome \/ Resume \/ \E q \in Questions : NoteArrived(q)
  BY <1>6, FactsUnmoved DEF Look, Outcome, Resume, NoteArrived, flight
<1>7. CASE Flush
  BY <1>7, FlushFacts
<1>8. CASE Sent \/ SendRejected
  BY <1>8, SendFacts
<1>9. CASE Reload
  <2>1. queue' = {} /\ msg' = {} /\ reloads' = reloads + 1 /\ reloads \in Nat
    BY <1>9 DEF Reload, TypeInv, TypeOK
  <2> QED
    BY <2>1 DEF FactsInv, FactsShaped, OneFacts, Keeps
<1> QED
  BY <1>1, <1>2, <1>3, <1>4, <1>5, <1>6, <1>7, <1>8, <1>9 DEF Next, Waits, Plugin

\* The facts of a released wait stay in the queue, in the message or in memory
\* until the Worker was sent them, newer facts took their place, a send was
\* rejected or the plugin was reloaded (`holdFacts' and `takeHeldFacts').
THEOREM FactsAreKept == Spec => FactsKept
<1>1. Init => FactsInv
  BY DEF Init, FactsInv, FactsShaped, OneFacts
<1>2. TypeInv /\ NothingStuck /\ FactsInv /\ [Next]_vars => FactsInv'
  <2>1. UNCHANGED vars => UNCHANGED <<queue, msg, kept>>
    BY DEF vars, flight
  <2> QED
    BY <2>1, FactsStep, FactsUnmoved
<1>3. TypeInv /\ FactsInv /\ [Next]_vars
      => [\A n \in FactsOnTheWay \ FactsOnTheWay' :
            \/ got'[n] > 0
            \/ \E e \in queue' \ queue : e.key = Facts
            \/ SendFails /\ n \in WhatOf(msg)
            \/ reloads' # reloads]_vars
  <2>1. TypeInv /\ FactsInv /\ Next => Keeps
    BY FactsStep
  <2> QED
    BY <2>1 DEF Keeps
<1> QED
  BY <1>1, <1>2, <1>3, Invariants, PTL DEF Spec, FactsKept
=============================================================================
