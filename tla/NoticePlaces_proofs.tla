------------------------- MODULE NoticePlaces_proofs -------------------------
(***************************************************************************)
(* Proofs about NoticeQueue: where a notice is and which goes first, for   *)
(* every number of targets, notices and calls in progress.  The invariant  *)
(* is stated one notice at a time, so that a step has to be looked at for  *)
(* the notices it moves; for all others, nothing of theirs changes.        *)
(***************************************************************************)
EXTENDS NoticeQueue_proofs

\* The call has sent, or sends, a message with the notice; it steers the notice.
Sends(p, e) == task[p].pc \in Sending /\ e \in task[p].msg
Steers(p, e) == task[p].entry = e

\* A steer the daemon may have taken.
TakenSteer == {"steered", "steerFailed", "check", "checked"}

\* The notice is in one queue, in one call's message or in one call's steer,
\* as its state says, or nowhere.
InPlace(e) ==
  /\ \A t \in Targets : e \in queued[t] => st[e] = "queued" /\ \A u \in Targets : e \in queued[u] => u = t
  /\ \A p \in Tasks : Sends(p, e) => st[e] = "sending" /\ \A q \in Tasks : Sends(q, e) => q = p
  /\ \A p \in Tasks : Steers(p, e) => st[e] = "steering" /\ \A q \in Tasks : Steers(q, e) => q = p
  /\ st[e] = "queued" => \E t \in Targets : e \in queued[t]
  /\ st[e] = "sending" => \E p \in Tasks : Sends(p, e)
  /\ st[e] = "steering" => \E p \in Tasks : Steers(p, e)

\* Taken by the daemon, it is not on its way there.
NotAgain(e) ==
  e \in delivered =>
    /\ st[e] \notin {"new", "queued"}
    /\ \A p \in Tasks : /\ Sends(p, e) => task[p].pc # "send"
                        /\ Steers(p, e) => task[p].pc \in TakenSteer

\* A turn end is awaited for it only where it goes, under its own batch.
EndsRight(e) ==
  \A t \in Targets : \A m \in awaitingEnd[t] : e \in m.items =>
    /\ st[e] \in {"sending", "sent"}
    /\ m.batch = BatchOf[e]
    /\ \A p \in Tasks : Sends(p, e) => task[p].target = t

Good(e) == InPlace(e) /\ NotAgain(e) /\ EndsRight(e)

\* A call that is not at work on a notice carries none.
EmptyHanded == \A p \in Tasks : task[p].pc \in {"idle", "host", "ending"} => task[p].entry = NoEntry

PlaceInv == EmptyHanded /\ \A e \in Entries : Good(e)

-----------------------------------------------------------------------------
(* What the steps do to the hands of the calls.                            *)

Others(p) == \A q \in Tasks \ {p} : task'[q] = task[q]

\* p's call rests with the entry it steers, or ends with none.
Rests(p) ==
  /\ Others(p)
  /\ task'[p].pc \in {"idle", "refused", "look"}
  /\ task'[p].entry = task[p].entry
  /\ task'[p].pc = "idle" => task'[p].entry = NoEntry

\* p's call has put its entry down.
PutsDown(p) ==
  /\ Others(p)
  /\ task'[p].pc \in {"idle", "look"}
  /\ task'[p].entry = NoEntry

LEMMA HelperHands ==
  ASSUME TypeOK, NEW p \in Tasks
  PROVE  /\ \A t \in Targets : Deliver(p, t) => PutsDown(p)
         /\ Return(p) => Rests(p)
         /\ LookAgain(p) => Rests(p)
         /\ \A t \in Targets : LeaveSteer(p, At(p, t, "refused")) => Rests(p)
         /\ LeaveSteer(p, NoCall) => PutsDown(p)
<1>1. task \in [Tasks -> TaskRecord] /\ NoCall.pc = "idle" /\ NoCall.entry = NoEntry
  BY NoCallType DEF TypeOK
<1>2. \A t \in Targets : Deliver(p, t) => PutsDown(p)
  BY <1>1 DEF Deliver, PutsDown, Others, Look, Idle
<1>3. Return(p) => Rests(p)
  BY <1>1 DEF Return, Rests, Others, At, Idle
<1>4. LookAgain(p) => Rests(p)
  BY <1>1, <1>3 DEF LookAgain, Rests, Others, At, Idle
<1>5. ASSUME NEW next, LeaveSteer(p, next)
      PROVE  /\ Others(p)
             /\ task'[p].entry = next.entry
             /\ task'[p].pc \in {"look", next.pc}
  <2> DEFINE r == [At(p, task[p].target, "look") EXCEPT !.entry = next.entry]
  <2>1. r.pc = "look" /\ r.entry = next.entry
    BY DEF At, Idle
  <2>2. task' = [task EXCEPT ![p] = r] \/ task' = [task EXCEPT ![p] = next]
    BY <1>5 DEF LeaveSteer
  <2> HIDE DEF r
  <2> QED
    BY <1>1, <2>1, <2>2 DEF Others
<1>6. ASSUME NEW t \in Targets, LeaveSteer(p, At(p, t, "refused"))
      PROVE  Rests(p)
  <2>1. At(p, t, "refused").pc = "refused" /\ At(p, t, "refused").entry = task[p].entry
    BY DEF At, Idle
  <2> QED
    BY <1>5, <1>6, <2>1 DEF Rests
<1>7. LeaveSteer(p, NoCall) => PutsDown(p)
  BY <1>1, <1>5 DEF PutsDown
<1> QED
  BY <1>2, <1>3, <1>4, <1>6, <1>7

\* Call p holds the notice after the step as it did before.
SameHand(p, e) ==
  /\ Sends(p, e)' <=> Sends(p, e)
  /\ Steers(p, e)' <=> Steers(p, e)
  /\ Sends(p, e)' => task'[p].target = task[p].target /\ (task'[p].pc = "send" => task[p].pc = "send")
  /\ Steers(p, e)' /\ task[p].pc \in TakenSteer => task'[p].pc \in TakenSteer

LEMMA OthersHands ==
  ASSUME NEW p \in Tasks, Others(p)
  PROVE  \A q \in Tasks \ {p}, e \in Entries : SameHand(q, e)
  BY DEF Others, SameHand, Sends, Steers

\* A call with nothing on its way keeps its hands when it rests.
LEMMA RestsHands ==
  ASSUME NEW p \in Tasks, Rests(p), NEW e \in Entries, ~Sends(p, e), task[p].pc \notin TakenSteer
  PROVE  SameHand(p, e)
  BY DEF Rests, SameHand, Sends, Steers, Sending

LEMMA PutsDownHands ==
  ASSUME NEW p \in Tasks, PutsDown(p), NEW e \in Entries
  PROVE  ~Sends(p, e)' /\ ~Steers(p, e)'
  BY ValuesAssumption DEF PutsDown, Sends, Steers, Sending

-----------------------------------------------------------------------------
(* What becomes of one notice.                                             *)

\* Nothing of the notice's changes.
Untouched(e) ==
  /\ st'[e] = st[e]
  /\ \A t \in Targets : e \in queued'[t] <=> e \in queued[t]
  /\ e \in delivered' <=> e \in delivered
  /\ \A t \in Targets : \A m \in awaitingEnd'[t] : e \in m.items => m \in awaitingEnd[t]
  /\ \A p \in Tasks : SameHand(p, e)

LEMMA UntouchedGood == ASSUME NEW e \in Entries, Good(e), Untouched(e) PROVE Good(e)'
<1>1. InPlace(e)'
  BY DEF Good, InPlace, Untouched, SameHand
<1>2. NotAgain(e)'
  BY DEF Good, NotAgain, Untouched, SameHand
<1>3. EndsRight(e)'
  BY DEF Good, EndsRight, Untouched, SameHand
<1> QED
  BY <1>1, <1>2, <1>3 DEF Good

\* The notice is settled: it is nowhere, and no turn end is awaited for it
\* unless it was sent.
Settles(e) ==
  /\ st'[e] \notin {"new", "queued", "sending", "steering"}
  /\ \A t \in Targets : e \notin queued'[t]
  /\ \A p \in Tasks : ~Sends(p, e)' /\ ~Steers(p, e)'
  /\ \A t \in Targets : \A m \in awaitingEnd'[t] :
       e \in m.items => m \in awaitingEnd[t] /\ st'[e] \in {"sending", "sent"}

LEMMA SettlesGood == ASSUME NEW e \in Entries, Good(e), Settles(e) PROVE Good(e)'
<1>1. InPlace(e)'
  BY DEF InPlace, Settles
<1>2. NotAgain(e)'
  BY DEF NotAgain, Settles
<1>3. EndsRight(e)'
  BY DEF Good, EndsRight, Settles
<1> QED
  BY <1>1, <1>2, <1>3 DEF Good

\* The notice is queued for t, and nowhere else.
Queues(e, t) ==
  /\ st'[e] = "queued"
  /\ e \in queued'[t]
  /\ \A u \in Targets \ {t} : e \notin queued'[u]
  /\ \A p \in Tasks : ~Sends(p, e)' /\ ~Steers(p, e)'
  /\ e \notin delivered'
  /\ \A u \in Targets : \A m \in awaitingEnd'[u] : e \notin m.items

LEMMA QueuesGood == ASSUME NEW e \in Entries, NEW t \in Targets, Queues(e, t) PROVE Good(e)'
  BY DEF Good, InPlace, NotAgain, EndsRight, Queues

\* What a notice that is not carried has to do with the calls.
LEMMA NotCarried ==
  ASSUME NEW e \in Entries, Good(e), st[e] \notin {"sending", "steering"}
  PROVE  /\ \A p \in Tasks : ~Sends(p, e) /\ ~Steers(p, e)
         /\ st[e] # "sent" => \A t \in Targets : \A m \in awaitingEnd[t] : e \notin m.items
         /\ st[e] # "queued" => \A t \in Targets : e \notin queued[t]
  BY DEF Good, InPlace, EndsRight

LEMMA CarriedNotQueued ==
  ASSUME NEW e \in Entries, Good(e), NEW p \in Tasks, Sends(p, e) \/ Steers(p, e)
  PROVE  /\ \A t \in Targets : e \notin queued[t]
         /\ \A q \in Tasks \ {p} : ~Sends(q, e) /\ ~Steers(q, e)
         /\ Sends(p, e) => ~Steers(p, e)
  BY DEF Good, InPlace

-----------------------------------------------------------------------------
(* The steps of a call in progress.                                        *)

LEMMA StillEmpty ==
  ASSUME EmptyHanded, NEW p \in Tasks, Others(p),
         task'[p].pc \in {"idle", "host", "ending"} => task'[p].entry = NoEntry
  PROVE  EmptyHanded'
  BY DEF EmptyHanded, Others

\* A step that moves no notice.
LEMMA HandsOnly ==
  ASSUME PlaceInv, NEW p \in Tasks, Others(p), UNCHANGED <<st, queued, delivered>>,
         \A t \in Targets : awaitingEnd'[t] \subseteq awaitingEnd[t],
         \A e \in Entries : SameHand(p, e),
         task'[p].pc \in {"idle", "host", "ending"} => task'[p].entry = NoEntry
  PROVE  PlaceInv'
<1>1. \A e \in Entries : Untouched(e)
  BY OthersHands DEF Untouched
<1> QED
  BY <1>1, UntouchedGood, StillEmpty DEF PlaceInv

\* p's call lets go of the notices of S, all others stay as they are.
LEMMA SettlesSome ==
  ASSUME PlaceInv, NEW p \in Tasks, Others(p),
         task'[p].pc \in {"idle", "host", "ending"} => task'[p].entry = NoEntry,
         NEW S \in SUBSET Entries,
         \A e \in S : Settles(e),
         \A e \in Entries \ S : /\ SameHand(p, e)
                                /\ st'[e] = st[e]
                                /\ \A t \in Targets : e \in queued'[t] <=> e \in queued[t],
         UNCHANGED delivered,
         \A t \in Targets : awaitingEnd'[t] \subseteq awaitingEnd[t]
  PROVE  PlaceInv'
<1>1. \A e \in Entries \ S : Untouched(e)
  BY OthersHands DEF Untouched
<1> QED
  BY <1>1, UntouchedGood, SettlesGood, StillEmpty DEF PlaceInv

LEMMA WaitPlaces ==
  ASSUME TypeOK, PlaceInv, NEW p \in Tasks, StepWait(p) \/ StepEmpty(p) \/ SteerRefused(p)
  PROVE  PlaceInv'
<1>1. Rests(p) /\ task[p].pc \in {"looked", "steerSeen"}
  BY HelperHands, TaskTarget DEF StepWait, StepEmpty, SteerRefused
<1>2. \A e \in Entries : SameHand(p, e)
  BY <1>1, RestsHands DEF Sends, Sending, TakenSteer
<1>3. UNCHANGED <<st, queued, delivered, awaitingEnd>>
  BY DEF StepWait, StepEmpty, SteerRefused
<1> QED
  BY <1>1, <1>2, <1>3, HandsOnly DEF Rests

LEMMA StepGonePlaces ==
  ASSUME TypeOK, PlaceInv, NEW p \in Tasks, StepGone(p)
  PROVE  PlaceInv'
<1> DEFINE t == task[p].target
<1>1. Rests(p) /\ task[p].pc = "looked" /\ t \in Targets
  BY HelperHands, TaskTarget DEF StepGone
<1>2. \A e \in Entries : SameHand(p, e)
  BY <1>1, RestsHands DEF Sends, Sending, TakenSteer
<1>3. /\ \A e \in Entries : st'[e] = IF e \in queued[t] THEN "dropped" ELSE st[e]
      /\ queued' = [queued EXCEPT ![t] = {}]
      /\ UNCHANGED <<delivered, awaitingEnd>>
      /\ queued[t] \subseteq Entries /\ queued \in [Targets -> SUBSET Entries]
  BY <1>1 DEF StepGone, TypeOK
<1>4. ASSUME NEW e \in queued[t]
      PROVE  Settles(e)
  <2>1. e \in Entries /\ Good(e) /\ st[e] = "queued"
    BY <1>1, <1>3 DEF PlaceInv, Good, InPlace
  <2>2. \A q \in Tasks : ~Sends(q, e)' /\ ~Steers(q, e)'
    BY <1>1, <1>2, <2>1, NotCarried, OthersHands DEF Rests, SameHand
  <2>3. \A u \in Targets : e \notin queued'[u]
    BY <1>1, <1>3, <2>1 DEF Good, InPlace
  <2> QED
    BY <1>3, <2>1, <2>2, <2>3, NotCarried DEF Settles
<1>5. \A e \in Entries \ queued[t] : st'[e] = st[e] /\ \A u \in Targets : e \in queued'[u] <=> e \in queued[u]
  BY <1>1, <1>3
<1> QED
  BY <1>1, <1>2, <1>3, <1>4, <1>5, SettlesSome DEF Rests

LEMMA StepTakePlaces ==
  ASSUME TypeOK, PlaceInv, NEW p \in Tasks, StepTake(p)
  PROVE  PlaceInv'
<1> DEFINE t == task[p].target
<1>1. task[p].pc = "looked" /\ t \in Targets /\ UNCHANGED delivered
  BY TaskTarget DEF StepTake
<1>2. PICK head \in HeadOf(t) :
        \E expired \in SUBSET TakenWith(t, head) : \E held \in SUBSET TakenWith(t, head) :
          Take(p, head, expired, held) /\ held \cap expired = {}
  BY DEF StepTake
<1> DEFINE taken == TakenWith(t, head)
<1>3. PICK expired \in SUBSET taken : \E held \in SUBSET taken : Take(p, head, expired, held)
  BY <1>2
<1>4. PICK held \in SUBSET taken : Take(p, head, expired, held)
  BY <1>3
<1> DEFINE sending == taken \ (expired \cup held)
<1>5. /\ head \in queued[t] /\ taken \subseteq queued[t] /\ taken \subseteq Entries
      /\ \A e \in taken : BatchOf[e] = BatchOf[head]
      /\ queued \in [Targets -> SUBSET Entries]
  BY <1>1 DEF HeadOf, Oldest, TakenWith, TypeOK
<1> HIDE DEF taken
<1>6. /\ \A e \in Entries : st'[e] = IF e \in expired THEN "dropped"
                                     ELSE IF e \in held THEN "held"
                                     ELSE IF e \in sending THEN "sending" ELSE st[e]
      /\ queued' = [queued EXCEPT ![t] = @ \ taken]
      /\ IF sending = {}
         THEN LookAgain(p) /\ UNCHANGED awaitingEnd
         ELSE /\ task' = [task EXCEPT ![p] = [At(p, t, "send") EXCEPT !.msg = sending]]
              /\ awaitingEnd' = [awaitingEnd EXCEPT ![t] = @ \cup Awaited(t, head, sending)]
  BY <1>4 DEF Take, taken
<1> HIDE DEF sending
<1>a. sending = {} => Rests(p)
  BY <1>6, HelperHands
<1>b. sending # {} => /\ Others(p)
                      /\ task'[p].pc = "send" /\ task'[p].entry = task[p].entry
                      /\ task'[p].msg = sending /\ task'[p].target = t
  <2> DEFINE r == [At(p, t, "send") EXCEPT !.msg = sending]
  <2>1. r.pc = "send" /\ r.entry = task[p].entry /\ r.msg = sending /\ r.target = t
    BY DEF At, Idle
  <2>2. sending # {} => task' = [task EXCEPT ![p] = r]
    BY <1>6
  <2>3. task \in [Tasks -> TaskRecord]
    BY DEF TypeOK
  <2> HIDE DEF r
  <2> QED
    BY <2>1, <2>2, <2>3 DEF Others
<1>7. Others(p) /\ task'[p].entry = task[p].entry
  BY <1>a, <1>b DEF Rests
<1>8. \A e \in Entries : Sends(p, e)' <=> e \in sending
  BY <1>a, <1>b DEF Rests, Sends, Sending
<1>9. task'[p].pc \in {"idle", "host", "ending"} => task'[p].entry = NoEntry
  BY <1>a, <1>b DEF Rests
<1>10. sending # {} => task'[p].target = t
  BY <1>b
<1>11. /\ \A u \in Targets \ {t} : awaitingEnd'[u] = awaitingEnd[u]
       /\ \A m \in awaitingEnd'[t] : m \in awaitingEnd[t] \/ (m.items = sending /\ m.batch = BatchOf[head])
  <2>1. \A m \in Awaited(t, head, sending) : m.items = sending /\ m.batch = BatchOf[head]
    BY DEF Awaited
  <2> QED
    BY <1>1, <1>6, <2>1 DEF TypeOK
<1>s. sending = taken \ (expired \cup held)
  BY DEF sending
<1>12. ASSUME NEW e \in Entries \ taken
       PROVE  Untouched(e)
  <2>1. e \notin sending /\ st'[e] = st[e] /\ \A u \in Targets : e \in queued'[u] <=> e \in queued[u]
    BY <1>s, <1>1, <1>5, <1>6
  <2>2. SameHand(p, e)
    BY <1>1, <1>7, <1>8, <2>1 DEF SameHand, Sends, Steers, Sending, TakenSteer
  <2>3. \A u \in Targets : \A m \in awaitingEnd'[u] : e \in m.items => m \in awaitingEnd[u]
    BY <1>11, <2>1
  <2> QED
    BY <1>1, <1>7, <2>1, <2>2, <2>3, OthersHands DEF Untouched
<1>13. ASSUME NEW e \in taken
       PROVE  Good(e)'
  <2>1. e \in Entries /\ Good(e) /\ st[e] = "queued"
    BY <1>1, <1>5 DEF PlaceInv, Good, InPlace
  <2>2. /\ \A q \in Tasks : ~Sends(q, e) /\ ~Steers(q, e)
        /\ \A u \in Targets : \A m \in awaitingEnd[u] : e \notin m.items
    BY <2>1, NotCarried
  <2>3. \A q \in Tasks : ~Steers(q, e)' /\ (q # p => ~Sends(q, e)')
    BY <1>7, <2>1, <2>2, OthersHands DEF SameHand, Steers
  <2>4. \A u \in Targets : e \notin queued'[u]
    BY <1>1, <1>5, <1>6, <2>1 DEF Good, InPlace
  <2>5. CASE e \notin sending
    <3>1. st'[e] \in {"dropped", "held"} /\ ~Sends(p, e)'
      BY <1>s, <1>6, <1>8, <2>1, <2>5
    <3>2. \A u \in Targets : \A m \in awaitingEnd'[u] : e \notin m.items
      BY <1>1, <1>11, <2>2, <2>5
    <3> QED
      BY <2>1, <2>3, <2>4, <3>1, <3>2, SettlesGood DEF Settles
  <2>6. CASE e \in sending
    <3>1. st'[e] = "sending" /\ Sends(p, e)'
      BY <1>s, <1>6, <1>8, <2>1, <2>6
    <3>2. InPlace(e)'
      BY <2>3, <2>4, <3>1 DEF InPlace
    <3>3. e \notin delivered'
      BY <1>1, <2>1 DEF Good, NotAgain
    <3>4. \A u \in Targets : \A m \in awaitingEnd'[u] : e \in m.items => u = t /\ m.batch = BatchOf[e]
      BY <1>5, <1>11, <2>2
    <3>5. task'[p].target = t
      BY <1>10, <2>6
    <3>6. EndsRight(e)'
      BY <2>3, <3>1, <3>4, <3>5 DEF EndsRight
    <3> QED
      BY <3>2, <3>3, <3>6 DEF Good, NotAgain
  <2> QED
    BY <2>5, <2>6
<1> QED
  BY <1>7, <1>9, <1>12, <1>13, UntouchedGood, StillEmpty DEF PlaceInv

\* A send is answered, and its message settled.
LEMMA SendEndsPlaces ==
  ASSUME TypeOK, PlaceInv, NEW p \in Tasks, SendResolved(p) \/ SendRejected(p)
  PROVE  PlaceInv'
<1> DEFINE t == task[p].target
           S == task[p].msg
<1>1. t \in Targets /\ S \subseteq Entries /\ \A e \in Entries : Sends(p, e) <=> e \in S
  BY TaskTarget DEF TypeOK, TaskRecord, Fields, SendResolved, SendRejected, Sends, Sending
<1>2. Rests(p) /\ task[p].pc \notin TakenSteer
  BY HelperHands DEF SendResolved, SendRejected, TakenSteer
<1>3. /\ UNCHANGED <<queued, delivered>>
      /\ \A u \in Targets : awaitingEnd'[u] \subseteq awaitingEnd[u]
      /\ \A e \in Entries \ S : st'[e] = st[e]
  BY DEF SendResolved, SendRejected, StillAwaited, TypeOK
<1>4. \A e \in Entries \ S : SameHand(p, e)
  BY <1>1, <1>2, RestsHands
<1>5. ASSUME NEW e \in S
      PROVE  Settles(e)
  <2>1. e \in Entries /\ Good(e) /\ Sends(p, e)
    BY <1>1 DEF PlaceInv
  <2>2. (\A u \in Targets : e \notin queued[u]) /\ (\A q \in Tasks \ {p} : ~Sends(q, e) /\ ~Steers(q, e)) /\ ~Steers(p, e)
    BY <2>1, CarriedNotQueued
  <2>3. \A q \in Tasks : ~Sends(q, e)' /\ ~Steers(q, e)'
    BY <1>2, <2>1, <2>2, OthersHands DEF Rests, SameHand, Sends, Steers, Sending
  <2>4. CASE SendResolved(p)
    BY <1>3, <2>1, <2>2, <2>3, <2>4 DEF SendResolved, Settles
  <2>5. CASE SendRejected(p)
    <3>1. \A u \in Targets : \A m \in awaitingEnd'[u] : e \notin m.items
      <4>1. ASSUME NEW u \in Targets, NEW m \in awaitingEnd'[u], e \in m.items
            PROVE  FALSE
        <5>1. m \in awaitingEnd[u] /\ m.batch = BatchOf[e] /\ u = t
          BY <1>3, <2>1, <4>1 DEF Good, EndsRight
        <5>2. m \in StillAwaited(t, S)
          BY <1>1, <2>5, <4>1, <5>1 DEF SendRejected, TypeOK
        <5> QED
          BY <5>1, <5>2 DEF StillAwaited
      <4> QED
        BY <4>1
    <3> QED
      BY <1>3, <2>1, <2>2, <2>3, <2>5, <3>1 DEF SendRejected, Settles
  <2> QED
    BY <2>4, <2>5
<1> QED
  BY <1>1, <1>2, <1>3, <1>4, <1>5, SettlesSome DEF Rests

\* A steer goes on.
LEMMA SteerGoesPlaces ==
  ASSUME TypeOK, PlaceInv, NEW p \in Tasks, SteerSend(p) \/ SteerResolved(p)
  PROVE  PlaceInv'
<1>1. task[p] \in TaskRecord
  BY DEF TypeOK
<1>2. /\ Others(p)
      /\ task'[p].entry = task[p].entry
      /\ \/ task[p].pc = "steerSeen" /\ task'[p].pc = "steer"
         \/ task[p].pc = "steered" /\ task'[p].pc = "check"
  BY <1>1 DEF SteerSend, SteerResolved, Others, TypeOK, TaskRecord, Fields
<1>3. \A e \in Entries : SameHand(p, e)
  BY <1>2 DEF SameHand, Sends, Steers, Sending, TakenSteer
<1>4. UNCHANGED <<st, queued, delivered, awaitingEnd>>
  BY DEF SteerSend, SteerResolved
<1> QED
  BY <1>2, <1>3, <1>4, HandsOnly

\* A steer ends.
LEMMA SteerEndsPlaces ==
  ASSUME TypeOK, PlaceInv, NEW p \in Tasks, SteerRejected(p) \/ SteerChecked(p)
  PROVE  PlaceInv'
<1>0. task[p].target \in Targets /\ task[p].entry \in Entries
  BY TaskTarget DEF TypeOK, TaskRecord, Fields, Steering, SteerRejected, SteerChecked
<1>e. PICK e \in Entries : e = task[p].entry
  BY <1>0
<1> DEFINE t == task[p].target
           old == IF SteerRejected(p) THEN {} ELSE SameKind(t, {e})
<1>1. t \in Targets
  BY <1>0
<1>2. PutsDown(p)
  BY HelperHands DEF SteerRejected, SteerChecked
<1>3. UNCHANGED <<delivered, awaitingEnd>> /\ queued \in [Targets -> SUBSET Entries] /\ old \subseteq queued[t]
  BY DEF SteerRejected, SteerChecked, TypeOK, SameKind
<1>4. Good(e) /\ Steers(p, e)
  BY <1>e DEF PlaceInv, Steers
<1>5. /\ st[e] = "steering" /\ \A u \in Targets : e \notin queued[u]
      /\ \A q \in Tasks \ {p} : ~Sends(q, e) /\ ~Steers(q, e)
  BY <1>1, <1>4, CarriedNotQueued DEF Good, InPlace
<1>6. st'[e] \in {"dropped", "steered", "turn-replaced"} /\ \A f \in old : st'[f] = "replaced"
  BY <1>e, <1>1, <1>3, <1>5 DEF SteerRejected, SteerChecked, TypeOK
<1>7. \A f \in Entries \ ({e} \cup old) : st'[f] = st[f]
  BY <1>e, <1>1 DEF SteerRejected, SteerChecked, TypeOK
<1>8. \A f \in Entries, u \in Targets : f \in queued'[u] <=> f \in queued[u] /\ ~(u = t /\ f \in old)
  BY <1>e, <1>1, <1>3 DEF SteerRejected, SteerChecked
<1>9. ASSUME NEW f \in old
      PROVE  Settles(f)
  <2>1. f \in Entries /\ Good(f) /\ st[f] = "queued"
    BY <1>1, <1>3 DEF PlaceInv, Good, InPlace
  <2>2. (\A q \in Tasks : ~Sends(q, f) /\ ~Steers(q, f)) /\ \A u \in Targets : \A m \in awaitingEnd[u] : f \notin m.items
    BY <2>1, NotCarried
  <2>3. \A q \in Tasks : ~Sends(q, f)' /\ ~Steers(q, f)'
    BY <1>2, <2>1, <2>2, OthersHands, PutsDownHands DEF PutsDown, SameHand
  <2>4. \A u \in Targets : f \notin queued'[u]
    BY <1>1, <1>3, <1>8, <2>1 DEF Good, InPlace
  <2> QED
    BY <1>3, <1>6, <2>2, <2>3, <2>4 DEF Settles
<1>10. Settles(e)
  <2>1. \A u \in Targets : \A m \in awaitingEnd[u] : e \notin m.items
    BY <1>4, <1>5 DEF Good, EndsRight
  <2>2. \A q \in Tasks : ~Sends(q, e)' /\ ~Steers(q, e)'
    BY <1>1, <1>2, <1>5, OthersHands, PutsDownHands DEF PutsDown, SameHand
  <2> QED
    BY <1>1, <1>3, <1>5, <1>6, <1>8, <2>1, <2>2 DEF Settles
<1>11. \A f \in Entries \ ({e} \cup old) : SameHand(p, f)
  <2>1. task[p].pc \notin Sending
    BY DEF SteerRejected, SteerChecked, Sending
  <2>2. \A f \in Entries \ {e} : ~Sends(p, f) /\ ~Steers(p, f)
    BY <1>e, <2>1 DEF Sends, Steers
  <2> QED
    BY <1>2, <2>2, PutsDownHands DEF SameHand
<1> DEFINE S == {e} \cup old
<1>12. S \in SUBSET Entries /\ \A f \in S : Settles(f)
  BY <1>1, <1>3, <1>9, <1>10
<1>13. \A f \in Entries \ S : SameHand(p, f) /\ st'[f] = st[f] /\ \A u \in Targets : f \in queued'[u] <=> f \in queued[u]
  BY <1>7, <1>8, <1>11
<1>14. Others(p) /\ task'[p].entry = NoEntry /\ \A u \in Targets : awaitingEnd'[u] \subseteq awaitingEnd[u]
  BY <1>2, <1>3 DEF PutsDown
<1> HIDE DEF old, S
<1> QED
  BY <1>3, <1>12, <1>13, <1>14, SettlesSome

-----------------------------------------------------------------------------
(* The steps that put and move notices.                                    *)

LEMMA PutPlaces ==
  ASSUME TypeOK, PlaceInv, NEW p \in Tasks, NEW t \in Targets, NEW S \in SUBSET Entries,
         NEW ord, NEW bring, PutAndDeliver(p, t, S, ord, bring),
         task[p].pc \in {"idle", "refused"},
         task[p].entry = NoEntry \/ task[p].entry \in S,
         \A e \in S : e \notin delivered /\ (st[e] = "new" \/ Steers(p, e))
  PROVE  PlaceInv'
<1> DEFINE old == SameKind(t, S)
<1>1. /\ \A e \in Entries : st'[e] = IF e \in S THEN "queued" ELSE IF e \in old THEN "replaced" ELSE st[e]
      /\ queued' = [queued EXCEPT ![t] = (@ \ old) \cup S]
      /\ UNCHANGED <<delivered, awaitingEnd>>
      /\ queued \in [Targets -> SUBSET Entries] /\ old \subseteq queued[t]
  BY DEF PutAndDeliver, Put, TypeOK, SameKind
<1>2. PutsDown(p)
  <2>1. CASE lastPaseo'
    BY <2>1, HelperHands DEF PutAndDeliver
  <2>2. CASE ~lastPaseo'
    BY <2>2, NoCallType DEF PutAndDeliver, PutsDown, Others, TypeOK
  <2> QED
    BY <2>1, <2>2
<1> HIDE DEF old
<1>3. ASSUME NEW e \in S
      PROVE  Queues(e, t)
  <2>1. e \in Entries /\ Good(e) /\ st[e] \notin {"queued", "sending", "sent"}
    BY DEF PlaceInv, Good, InPlace
  <2>2. \A u \in Targets : e \notin queued[u]
    BY <2>1 DEF Good, InPlace
  <2>3. \A q \in Tasks \ {p} : ~Sends(q, e) /\ ~Steers(q, e)
    BY <2>1, NotCarried, CarriedNotQueued
  <2>4. \A q \in Tasks : ~Sends(q, e)' /\ ~Steers(q, e)'
    BY <1>2, <2>1, <2>3, OthersHands, PutsDownHands DEF PutsDown, SameHand
  <2>5. \A u \in Targets : \A m \in awaitingEnd[u] : e \notin m.items
    BY <2>1 DEF Good, EndsRight
  <2> QED
    BY <1>1, <2>1, <2>2, <2>4, <2>5 DEF Queues
<1>4. ASSUME NEW e \in old
      PROVE  e \notin S /\ Settles(e)
  <2>1. e \in Entries /\ Good(e) /\ st[e] = "queued"
    BY <1>1 DEF PlaceInv, Good, InPlace
  <2>2. (\A q \in Tasks : ~Sends(q, e) /\ ~Steers(q, e)) /\ \A u \in Targets : \A m \in awaitingEnd[u] : e \notin m.items
    BY <2>1, NotCarried
  <2>3. e \notin S
    BY <2>1, <2>2
  <2>4. \A q \in Tasks : ~Sends(q, e)' /\ ~Steers(q, e)'
    BY <1>2, <2>1, <2>2, OthersHands, PutsDownHands DEF PutsDown, SameHand
  <2>5. \A u \in Targets : e \notin queued'[u]
    BY <1>1, <2>1, <2>3 DEF Good, InPlace
  <2> QED
    BY <1>1, <2>1, <2>2, <2>3, <2>4, <2>5 DEF Settles
<1>5. ASSUME NEW e \in Entries \ (S \cup old)
      PROVE  Untouched(e)
  <2>1. ~Sends(p, e) /\ ~Steers(p, e)
    BY ValuesAssumption DEF Sends, Steers, Sending
  <2>2. \A q \in Tasks : SameHand(q, e)
    BY <1>2, <2>1, OthersHands, PutsDownHands DEF PutsDown, SameHand
  <2> QED
    BY <1>1, <2>2 DEF Untouched
<1>6. \A e \in Entries : Good(e)'
  BY <1>3, <1>4, <1>5, QueuesGood, SettlesGood, UntouchedGood DEF PlaceInv
<1> QED
  BY <1>2, <1>6, StillEmpty DEF PlaceInv, PutsDown

LEMMA EnqueuePlaces ==
  ASSUME TypeOK, PlaceInv, NEW p \in Tasks, NEW t \in Targets, NEW bring,
         \/ PutRefused(p)
         \/ \E e \in Entries : Enqueue(p, t, e, bring)
         \/ \E S \in SUBSET Entries, ord \in SUBSET (Entries \X Entries) : EnqueueBatch(p, t, S, ord, bring)
  PROVE  PlaceInv'
<1>1. \A e \in Entries : e \in delivered => st[e] # "new" /\ \A q \in Tasks : Steers(q, e) => task[q].pc # "refused"
  BY DEF PlaceInv, Good, NotAgain, TakenSteer
<1>2. task[p].pc = "idle" => task[p].entry = NoEntry
  BY DEF PlaceInv, EmptyHanded
<1>3. CASE PutRefused(p)
  <2>1. PICK e \in Entries : e = task[p].entry
    BY <1>3 DEF PutRefused, TypeOK, TaskRecord, Fields
  <2>2. PICK u \in Targets : u = task[p].target
    BY <1>3 DEF PutRefused, TypeOK, TaskRecord, Fields
  <2>3. PutAndDeliver(p, u, {e}, {}, TRUE) /\ task[p].pc = "refused"
    BY <1>3, <2>1, <2>2 DEF PutRefused
  <2>4. Steers(p, e) /\ e \notin delivered
    BY <1>1, <2>1, <2>3 DEF Steers
  <2> QED
    BY <2>1, <2>3, <2>4, PutPlaces
<1>4. ASSUME NEW e \in Entries, Enqueue(p, t, e, bring)
      PROVE  PlaceInv'
  <2>1. PutAndDeliver(p, t, {e}, {}, bring) /\ task[p].pc = "idle" /\ st[e] = "new"
    BY <1>4 DEF Enqueue
  <2> QED
    BY <1>1, <1>2, <2>1, PutPlaces
<1>5. ASSUME NEW S \in SUBSET Entries, NEW ord, EnqueueBatch(p, t, S, ord, bring)
      PROVE  PlaceInv'
  <2>1. PutAndDeliver(p, t, S, ord, bring) /\ task[p].pc = "idle" /\ \A e \in S : st[e] = "new"
    BY <1>5 DEF EnqueueBatch
  <2> QED
    BY <1>1, <1>2, <2>1, PutPlaces
<1> QED
  BY <1>3, <1>4, <1>5

LEMMA RetargetPlaces ==
  ASSUME TypeOK, PlaceInv, NEW p \in Tasks, NEW old \in Targets, NEW new \in Targets, NEW bring,
         Retarget(p, old, new, bring)
  PROVE  PlaceInv'
<1> DEFINE moved == queued[old]
           replaced == SameKind(new, moved)
<1>1. /\ old # new
      /\ \A e \in Entries : st'[e] = IF e \in replaced THEN "replaced" ELSE st[e]
      /\ queued' = [queued EXCEPT ![old] = {}, ![new] = (queued[new] \ replaced) \cup moved]
      /\ UNCHANGED <<delivered, awaitingEnd>>
      /\ queued \in [Targets -> SUBSET Entries] /\ replaced \subseteq queued[new]
  BY DEF Retarget, QueuesAfterMove, TypeOK, SameKind
<1>2. Others(p) /\ task'[p].entry = NoEntry /\ \A e \in Entries : ~Sends(p, e) /\ ~Steers(p, e) /\ ~Sends(p, e)' /\ ~Steers(p, e)'
  <2>1. task[p].pc = "idle" /\ task[p].entry = NoEntry
    BY DEF Retarget, PlaceInv, EmptyHanded
  <2>2. \A e \in Entries : ~Sends(p, e) /\ ~Steers(p, e)
    BY <2>1, ValuesAssumption DEF Sends, Steers, Sending
  <2>3. CASE lastPaseo'
    BY <2>2, <2>3, HelperHands, PutsDownHands DEF Retarget, PutsDown
  <2>4. CASE ~lastPaseo'
    BY <2>1, <2>2, <2>4 DEF Retarget, Others, Sends, Steers
  <2> QED
    BY <2>3, <2>4
<1> HIDE DEF replaced
<1>3. \A e \in Entries : (\A q \in Tasks : ~Sends(q, e) /\ ~Steers(q, e)) => \A q \in Tasks : ~Sends(q, e)' /\ ~Steers(q, e)'
  BY <1>2, OthersHands DEF SameHand
<1>4. ASSUME NEW e \in moved
      PROVE  Queues(e, new)
  <2>1. e \in Entries /\ Good(e) /\ st[e] = "queued"
    BY <1>1 DEF PlaceInv, Good, InPlace
  <2>2. e \notin delivered /\ \A u \in Targets : e \in queued[u] => u = old
    BY <2>1 DEF Good, NotAgain, InPlace
  <2>3. e \notin replaced
    BY <1>1, <2>2
  <2>4. (\A q \in Tasks : ~Sends(q, e) /\ ~Steers(q, e)) /\ \A u \in Targets : \A m \in awaitingEnd[u] : e \notin m.items
    BY <2>1, NotCarried
  <2>5. e \in queued'[new] /\ \A u \in Targets \ {new} : e \notin queued'[u]
    BY <1>1, <2>2
  <2> QED
    BY <1>1, <1>3, <2>1, <2>2, <2>3, <2>4, <2>5 DEF Queues
<1>5. ASSUME NEW e \in replaced
      PROVE  Settles(e)
  <2>1. e \in Entries /\ Good(e) /\ st[e] = "queued"
    BY <1>1 DEF PlaceInv, Good, InPlace
  <2>2. (\A q \in Tasks : ~Sends(q, e) /\ ~Steers(q, e)) /\ \A u \in Targets : \A m \in awaitingEnd[u] : e \notin m.items
    BY <2>1, NotCarried
  <2>3. \A u \in Targets : e \in queued[u] => u = new
    BY <1>1, <2>1 DEF Good, InPlace
  <2>4. \A u \in Targets : e \notin queued'[u]
    BY <1>1, <2>3
  <2> QED
    BY <1>1, <1>3, <2>1, <2>2, <2>4 DEF Settles
<1>6. ASSUME NEW e \in Entries \ (moved \cup replaced)
      PROVE  Untouched(e)
  <2>1. \A q \in Tasks : SameHand(q, e)
    BY <1>2, OthersHands DEF SameHand
  <2>2. \A u \in Targets : e \in queued'[u] <=> e \in queued[u]
    BY <1>1
  <2> QED
    BY <1>1, <2>1, <2>2 DEF Untouched
<1>7. \A e \in Entries : Good(e)'
  BY <1>4, <1>5, <1>6, QueuesGood, SettlesGood, UntouchedGood DEF PlaceInv
<1> QED
  BY <1>2, <1>7, StillEmpty DEF PlaceInv

LEMMA StartSteerPlaces ==
  ASSUME TypeOK, PlaceInv, NEW p \in Tasks, NEW t \in Targets, NEW e \in Entries, StartSteer(p, t, e)
  PROVE  PlaceInv'
<1> DEFINE r == [Idle(t) EXCEPT !.pc = "steerRead", !.entry = e]
<1>1. r.pc = "steerRead" /\ r.entry = e
  BY DEF Idle
<1>2. /\ task[p].pc = "idle" /\ st[e] = "new" /\ task[p].entry = NoEntry
      /\ st' = [st EXCEPT ![e] = "steering"]
      /\ task' = [task EXCEPT ![p] = r]
      /\ UNCHANGED <<queued, awaitingEnd, delivered>>
      /\ st \in [Entries -> EntryStates] /\ task \in [Tasks -> TaskRecord]
  BY DEF StartSteer, TypeOK, PlaceInv, EmptyHanded
<1> HIDE DEF r
<1>3. /\ Others(p) /\ task'[p].pc = "steerRead" /\ task'[p].entry = e
      /\ st'[e] = "steering" /\ \A f \in Entries \ {e} : st'[f] = st[f]
  BY <1>1, <1>2 DEF Others
<1>4. \A f \in Entries : ~Sends(p, f) /\ ~Steers(p, f) /\ ~Sends(p, f)' /\ (Steers(p, f)' <=> f = e)
  BY <1>2, <1>3, ValuesAssumption DEF Sends, Steers, Sending
<1>5. ASSUME NEW f \in Entries \ {e}
      PROVE  Untouched(f)
  <2>1. \A q \in Tasks : SameHand(q, f)
    BY <1>3, <1>4, OthersHands DEF SameHand
  <2> QED
    BY <1>2, <1>3, <2>1 DEF Untouched
<1>6. Good(e)'
  <2>1. Good(e)
    BY DEF PlaceInv
  <2>2. /\ \A u \in Targets : e \notin queued[u] /\ \A m \in awaitingEnd[u] : e \notin m.items
        /\ \A q \in Tasks : ~Sends(q, e) /\ ~Steers(q, e)
    BY <1>2, <2>1, NotCarried
  <2>3. e \notin delivered
    BY <1>2, <2>1 DEF Good, NotAgain
  <2>4. \A q \in Tasks : ~Sends(q, e)' /\ (Steers(q, e)' <=> q = p)
    BY <1>3, <1>4, <2>2, OthersHands DEF SameHand
  <2> QED
    BY <1>2, <1>3, <2>2, <2>3, <2>4 DEF Good, InPlace, NotAgain, EndsRight
<1> QED
  BY <1>3, <1>5, <1>6, UntouchedGood, StillEmpty DEF PlaceInv

-----------------------------------------------------------------------------
(* Turn ends, the daemon and a reload.                                     *)

LEMMA TurnPlaces ==
  ASSUME TypeOK, PlaceInv, NEW p \in Tasks,
         HostHandled(p) \/ EndTold(p) \/ \E t \in Targets : TurnEnds(t, p)
  PROVE  PlaceInv'
<1>1. task[p].pc \in {"host", "ending", "idle"} /\ task[p].entry = NoEntry /\ task \in [Tasks -> TaskRecord]
  BY DEF HostHandled, EndTold, TurnEnds, PlaceInv, EmptyHanded, TypeOK
<1>2. /\ UNCHANGED <<st, queued, delivered>>
      /\ \A u \in Targets : awaitingEnd'[u] \subseteq awaitingEnd[u]
  <2>1. \/ UNCHANGED awaitingEnd
        \/ \E message : awaitingEnd' = [awaitingEnd EXCEPT ![task[p].target] = @ \ {message}]
    BY DEF HostHandled, EndTold, TurnEnds
  <2>2. awaitingEnd \in [Targets -> SUBSET Message]
    BY DEF TypeOK
  <2>3. UNCHANGED <<st, queued, delivered>>
    BY DEF HostHandled, EndTold, TurnEnds
  <2> QED
    BY <2>1, <2>2, <2>3
<1>3. Others(p) /\ task'[p].pc \in {"idle", "look", "ending", "host"} /\ task'[p].entry = NoEntry
  <2>1. DeliverQueued(p) => PutsDown(p)
    <3>1. task[p].target \in Targets
      BY <1>1 DEF TaskRecord, Fields
    <3> QED
      BY <1>1, <3>1, HelperHands, NoCallType DEF DeliverQueued, PutsDown, Others
  <2>2. CASE HostHandled(p)
    <3>1. CASE awaitingEnd[task[p].target] = {}
      BY <2>1, <2>2, <3>1 DEF HostHandled, PutsDown
    <3>2. CASE awaitingEnd[task[p].target] # {}
      <4>1. PICK message : task' = [task EXCEPT ![p].pc = "ending", ![p].told = message.items]
        BY <2>2, <3>2 DEF HostHandled
      <4> QED
        BY <1>1, <4>1 DEF Others, TaskRecord, Fields
    <3> QED
      BY <3>1, <3>2
  <2>3. CASE EndTold(p)
    BY <2>1, <2>3 DEF EndTold, PutsDown
  <2>4. ASSUME NEW t \in Targets, TurnEnds(t, p)
        PROVE  Others(p) /\ task'[p].pc = "host" /\ task'[p].entry = NoEntry
    <3> DEFINE r == [Idle(t) EXCEPT !.pc = "host", !.msg = agent[t].by]
    <3>1. r.pc = "host" /\ r.entry = NoEntry
      BY DEF Idle
    <3>2. task' = [task EXCEPT ![p] = r]
      BY <2>4 DEF TurnEnds
    <3> HIDE DEF r
    <3> QED
      BY <1>1, <3>1, <3>2 DEF Others
  <2> QED
    BY <2>2, <2>3, <2>4
<1>4. \A e \in Entries : SameHand(p, e)
  BY <1>1, <1>3, ValuesAssumption DEF SameHand, Sends, Steers, Sending
<1> QED
  BY <1>2, <1>3, <1>4, HandsOnly

LEMMA RefreshedPlaces ==
  ASSUME TypeOK, PlaceInv, NEW p \in Tasks, Refreshed(p)
  PROVE  PlaceInv'
<1>1. task \in [Tasks -> TaskRecord] /\ task[p] \in TaskRecord
  BY DEF TypeOK
<1>2. /\ Others(p)
      /\ task'[p].entry = task[p].entry
      /\ \/ task[p].pc = "look" /\ task'[p].pc = "looked"
         \/ task[p].pc = "steerRead" /\ task'[p].pc = "steerSeen"
         \/ task[p].pc = "check" /\ task'[p].pc = "checked"
  BY <1>1 DEF Refreshed, Others, TaskRecord, Fields
<1>3. \A e \in Entries : SameHand(p, e)
  BY <1>2 DEF SameHand, Sends, Steers, Sending, TakenSteer
<1>4. UNCHANGED <<st, queued, delivered, awaitingEnd>>
  BY DEF Refreshed
<1> QED
  BY <1>2, <1>3, <1>4, HandsOnly

\* What arrives is taken once: by the one send, or the one steer, it was in.
LEMMA ArrivesPlaces ==
  ASSUME TypeOK, PlaceInv, NEW p \in Tasks, SendArrives(p) \/ SteerArrives(p)
  PROVE  PlaceInv'
<1> DEFINE S == IF SendArrives(p) THEN task[p].msg ELSE {task[p].entry}
<1>1. task \in [Tasks -> TaskRecord] /\ task[p] \in TaskRecord
  BY DEF TypeOK
<1>2. /\ Others(p)
      /\ task'[p].entry = task[p].entry /\ task'[p].msg = task[p].msg /\ task'[p].target = task[p].target
      /\ \/ task[p].pc = "send" /\ task'[p].pc \in {"accepted", "sendFailed"} /\ SendArrives(p)
         \/ task[p].pc = "steer" /\ task'[p].pc \in {"steered", "steerFailed"} /\ ~SendArrives(p)
  <2>1. CASE SendArrives(p)
    BY <1>1, <2>1 DEF SendArrives, Others, TaskRecord, Fields
  <2>2. CASE SteerArrives(p)
    BY <1>1, <2>2 DEF SteerArrives, SendArrives, Others, TaskRecord, Fields
  <2> QED
    BY <2>1, <2>2
<1>3. UNCHANGED <<st, queued, awaitingEnd>> /\ delivered \subseteq delivered' /\ delivered' \subseteq delivered \cup S
  BY DEF SendArrives, SteerArrives
<1>4. \A e \in Entries : e \in S => Sends(p, e) \/ Steers(p, e)
  BY <1>2 DEF Sends, Steers, Sending
<1>5. \A e \in Entries : SameHand(p, e)
  BY <1>2 DEF SameHand, Sends, Steers, Sending, TakenSteer
<1> HIDE DEF S
<1>6. ASSUME NEW e \in Entries
      PROVE  Good(e)'
  <2>1. Good(e)
    BY DEF PlaceInv
  <2>2. \A q \in Tasks : SameHand(q, e)
    BY <1>2, <1>5, OthersHands
  <2>3. InPlace(e)' /\ EndsRight(e)'
    BY <1>3, <2>1, <2>2 DEF Good, InPlace, EndsRight, SameHand
  <2>4. CASE e \notin S
    BY <1>3, <2>1, <2>2, <2>4, UntouchedGood DEF Untouched
  <2>5. CASE e \in S
    <3>1. Sends(p, e) \/ Steers(p, e)
      BY <1>4, <2>5
    <3>2. st[e] \in {"sending", "steering"} /\ \A q \in Tasks \ {p} : ~Sends(q, e) /\ ~Steers(q, e)
      BY <2>1, <3>1, CarriedNotQueued DEF Good, InPlace
    <3>3. \A q \in Tasks \ {p} : ~Sends(q, e)' /\ ~Steers(q, e)'
      BY <2>2, <3>2 DEF SameHand
    <3>4. task'[p].pc # "send" /\ (Steers(p, e)' => task'[p].pc \in TakenSteer)
      <4>1. CASE SendArrives(p)
        <5>1. Sends(p, e)
          BY <1>2, <2>5, <4>1 DEF S, Sends, Sending
        <5>2. ~Steers(p, e)
          BY <2>1, <5>1, CarriedNotQueued
        <5> QED
          BY <1>2, <2>2, <4>1, <5>2 DEF SameHand
      <4>2. CASE ~SendArrives(p)
        BY <1>2, <4>2 DEF TakenSteer
      <4> QED
        BY <4>1, <4>2
    <3>5. NotAgain(e)'
      BY <1>3, <3>2, <3>3, <3>4 DEF NotAgain
    <3> QED
      BY <2>3, <3>5 DEF Good
  <2> QED
    BY <2>4, <2>5
<1>7. task'[p].pc \notin {"idle", "host", "ending"}
  BY <1>2
<1> QED
  BY <1>2, <1>6, <1>7, StillEmpty DEF PlaceInv

LEMMA ReloadPlaces == ASSUME TypeOK, PlaceInv, Reload PROVE PlaceInv'
<1>1. /\ \A e \in Entries : st'[e] = IF \E t \in Targets : e \in queued[t] THEN "dropped" ELSE st[e]
      /\ \A t \in Targets : queued'[t] = {} /\ awaitingEnd'[t] = {}
      /\ \A q \in Tasks : task'[q] = IF task[q].pc = "host" THEN NoCall ELSE task[q]
      /\ UNCHANGED delivered
  BY DEF Reload
<1>2. NoCall.pc = "idle" /\ NoCall.entry = NoEntry
  BY NoCallType
<1>3. \A q \in Tasks, e \in Entries : SameHand(q, e)
  <2>1. ASSUME NEW q \in Tasks, NEW e \in Entries, task[q].pc # "host"
        PROVE  SameHand(q, e)
    <3>1. task'[q] = task[q]
      BY <1>1, <2>1
    <3> QED
      BY <3>1 DEF SameHand, Sends, Steers
  <2>2. ASSUME NEW q \in Tasks, NEW e \in Entries, task[q].pc = "host"
        PROVE  SameHand(q, e)
    <3>1. task[q].entry = NoEntry /\ task'[q] = NoCall
      BY <1>1, <2>2 DEF PlaceInv, EmptyHanded
    <3> QED
      BY <1>2, <2>2, <3>1, ValuesAssumption DEF SameHand, Sends, Steers, Sending
  <2> QED
    BY <2>1, <2>2
<1>4. EmptyHanded'
  BY <1>1, <1>2 DEF PlaceInv, EmptyHanded
<1>5. ASSUME NEW e \in Entries
      PROVE  Good(e)'
  <2>1. Good(e)
    BY DEF PlaceInv
  <2>2. CASE \E t \in Targets : e \in queued[t]
    <3>1. st[e] = "queued"
      BY <2>1, <2>2 DEF Good, InPlace
    <3>2. \A q \in Tasks : ~Sends(q, e)' /\ ~Steers(q, e)'
      BY <1>3, <2>1, <3>1, NotCarried DEF SameHand
    <3> QED
      BY <1>1, <2>1, <2>2, <3>2, SettlesGood DEF Settles
  <2>3. CASE ~ \E t \in Targets : e \in queued[t]
    BY <1>1, <1>3, <2>1, <2>3, UntouchedGood DEF Untouched
  <2> QED
    BY <2>2, <2>3
<1> QED
  BY <1>4, <1>5 DEF PlaceInv

LEMMA NothingPlaces ==
  ASSUME PlaceInv, UNCHANGED <<st, queued, delivered, awaitingEnd, task>>
  PROVE  PlaceInv'
<1>1. \A e \in Entries : Untouched(e)
  BY DEF Untouched, SameHand, Sends, Steers
<1>2. EmptyHanded'
  BY DEF PlaceInv, EmptyHanded
<1> QED
  BY <1>1, <1>2, UntouchedGood DEF PlaceInv

-----------------------------------------------------------------------------
(* The theorems.                                                           *)

LEMMA PlacesKept == ASSUME TypeOK, PlaceInv, [Next]_vars PROVE PlaceInv'
<1>1. ASSUME NEW p \in Tasks, Proceed(p)
      PROVE  PlaceInv'
  <2>1. PICK t \in Targets : TRUE
    BY ValuesAssumption
  <2> QED
    BY <1>1, <2>1, WaitPlaces, StepGonePlaces, StepTakePlaces, SendEndsPlaces, SteerGoesPlaces,
       SteerEndsPlaces, EnqueuePlaces, TurnPlaces DEF Proceed
<1>2. ASSUME NEW p \in Tasks, Answer(p)
      PROVE  PlaceInv'
  BY <1>2, RefreshedPlaces, ArrivesPlaces DEF Answer
<1>3. ASSUME NEW p \in Tasks, Call(p)
      PROVE  PlaceInv'
  <2>1. ASSUME NEW bring \in Bring, NEW e \in NewNotices(NoBatch), NEW t \in Targets, Enqueue(p, t, e, bring)
        PROVE  PlaceInv'
    BY <2>1, EnqueuePlaces DEF NewNotices
  <2>2. ASSUME NEW bring \in Bring, NEW b, NEW S \in SUBSET NewNotices(b), NEW ord \in Orders(S),
               NEW t \in Targets, EnqueueBatch(p, t, S, ord, bring)
        PROVE  PlaceInv'
    <3>1. S \in SUBSET Entries /\ ord \in SUBSET (Entries \X Entries)
      BY DEF NewNotices, Orders
    <3> QED
      BY <2>2, <3>1, EnqueuePlaces
  <2>3. ASSUME NEW bring \in Bring, NEW old \in Targets, NEW new \in Targets, Retarget(p, old, new, bring)
        PROVE  PlaceInv'
    BY <2>3, RetargetPlaces
  <2>4. ASSUME NEW e \in NewNotices(NoBatch), NEW t \in Targets, StartSteer(p, t, e)
        PROVE  PlaceInv'
    BY <2>4, StartSteerPlaces DEF NewNotices
  <2> QED
    BY <1>3, <2>1, <2>2, <2>3, <2>4 DEF Call
<1>4. ASSUME NEW t \in Targets, AgentStarts(t) \/ Closes(t)
      PROVE  PlaceInv'
  BY <1>4, NothingPlaces DEF AgentStarts, Closes
<1>5. ASSUME NEW t \in Targets, NEW p \in Tasks, TurnEnds(t, p)
      PROVE  PlaceInv'
  BY <1>5, TurnPlaces
<1>6. UNCHANGED vars => PlaceInv'
  BY NothingPlaces DEF vars
<1> QED
  BY <1>1, <1>2, <1>3, <1>4, <1>5, <1>6, ReloadPlaces DEF Next

LEMMA PlacesHold == Spec => []PlaceInv
<1>1. Init => PlaceInv
  BY NoCallType, ValuesAssumption DEF Init, PlaceInv, EmptyHanded, Good, InPlace, NotAgain, EndsRight,
     Sends, Steers, Sending
<1>2. TypeOK /\ PlaceInv /\ [Next]_vars => PlaceInv'
  BY PlacesKept
<1> QED
  BY <1>1, <1>2, TypeCorrect, PTL DEF Spec

\* A notice that is not settled is in exactly one place, the queue of one
\* target or the hands of one call, whatever callers, turn ends, steers and
\* reloads interleave (put, take and retarget of the code).
THEOREM OnePlaceHolds == Spec => []NoticeInOnePlace
<1>1. TypeOK /\ PlaceInv => NoticeInOnePlace
  <2> SUFFICES ASSUME TypeOK, PlaceInv PROVE NoticeInOnePlace
    OBVIOUS
  <2>1. \A e \in Entries : InPlace(e)
    BY DEF PlaceInv, Good
  <2>2. queued \in [Targets -> SUBSET Entries]
    BY DEF TypeOK
  <2>3. \A p \in Tasks : Carried(p) \subseteq Entries
    BY DEF TypeOK, TaskRecord, Fields, Carried
  <2>4. \A p \in Tasks, e \in Entries : e \in Carried(p) <=> Sends(p, e) \/ Steers(p, e)
    BY ValuesAssumption DEF Carried, Sends, Steers
  <2>5. \A e \in Entries : st[e] = "queued" <=> \E t \in Targets : e \in queued[t]
    BY <2>1 DEF InPlace
  <2>6. \A t, u \in Targets : queued[t] \cap queued[u] # {} => t = u
    BY <2>1, <2>2 DEF InPlace
  <2>7. \A e \in Entries : st[e] \in {"sending", "steering"} <=> \E p \in Tasks : e \in Carried(p)
    BY <2>1, <2>4 DEF InPlace
  <2>8. \A p, q \in Tasks : \A e \in Entries : e \in Carried(p) /\ e \in Carried(q) => p = q
    BY <2>1, <2>4 DEF InPlace
  <2> QED
    BY <2>3, <2>5, <2>6, <2>7, <2>8 DEF NoticeInOnePlace
<1> QED
  BY <1>1, TypeCorrect, PlacesHold, PTL

\* A notice the daemon took is never again on its way to it: not by a second
\* send, nor by a steer after a send (no retry follows a failed send).
THEOREM NeverTwiceHolds == Spec => []NeverSentTwice
<1>1. TypeOK /\ PlaceInv => NeverSentTwice
  <2> SUFFICES ASSUME TypeOK, PlaceInv PROVE NeverSentTwice
    OBVIOUS
  <2>1. \A e \in Entries : NotAgain(e)
    BY DEF PlaceInv, Good
  <2>2. task \in [Tasks -> TaskRecord]
    BY DEF TypeOK
  <2>3. \A p \in Tasks : task[p].msg \subseteq Entries
    BY <2>2 DEF TaskRecord, Fields
  <2>4. \A p \in Tasks : task[p].pc = "steer" => task[p].entry \in Entries
    BY <2>2 DEF TaskRecord, Fields, Steering
  <2> QED
    BY <2>1, <2>3, <2>4 DEF NeverSentTwice, NotAgain, Sends, Steers, Sending, TakenSteer
<1> QED
  BY <1>1, TypeCorrect, PlacesHold, PTL

\* A turn end is awaited only for a message that goes out or went out: step
\* takes the message of a failed send out of the waiting ones again.
THEOREM AwaitedEndsHold == Spec => []AwaitedEndsAreReal
<1>1. TypeOK /\ PlaceInv => AwaitedEndsAreReal
  <2> SUFFICES ASSUME TypeOK, PlaceInv PROVE AwaitedEndsAreReal
    OBVIOUS
  <2>1. \A e \in Entries : EndsRight(e)
    BY DEF PlaceInv, Good
  <2>2. \A t \in Targets : \A m \in awaitingEnd[t] : m.items \subseteq Entries
    BY DEF TypeOK, Message
  <2> QED
    BY <2>1, <2>2 DEF AwaitedEndsAreReal, EndsRight
<1> QED
  BY <1>1, TypeCorrect, PlacesHold, PTL

-----------------------------------------------------------------------------
(* The order of the queues.                                                *)

\* Of two notices of one queue, one is the older.
Ordered(S, R) == \A e, f \in S : e # f => <<e, f>> \in R \/ <<f, e>> \in R
QueuesOrdered == \A t \in Targets : Ordered(queued[t], before)

\* The order that is left orders what is left.
LEMMA WithoutOrders ==
  ASSUME NEW S, NEW t \in Targets, Ordered(queued[t], before)
  PROVE  Ordered(queued[t] \ S, Without(S))
<1>1. ASSUME NEW e \in queued[t] \ S, NEW f \in queued[t] \ S, <<e, f>> \in before
      PROVE  <<e, f>> \in Without(S)
  BY <1>1 DEF Without
<1> QED
  BY <1>1 DEF Ordered

LEMMA PutOrdered ==
  ASSUME TypeOK, PlaceInv, QueuesOrdered, NEW t \in Targets, NEW S \in SUBSET Entries, NEW ord,
         Put(t, S, ord), Ordered(S, ord), \A e \in S : st[e] # "queued"
  PROVE  QueuesOrdered'
<1> DEFINE old == SameKind(t, S)
           left == queued[t] \ old
<1>1. /\ queued' = [queued EXCEPT ![t] = left \cup S]
      /\ before' = Without(old \cup S) \cup (left \X S) \cup ord
      /\ queued \in [Targets -> SUBSET Entries] /\ old \subseteq queued[t]
  BY DEF Put, TypeOK, SameKind
<1> HIDE DEF old
<1>2. \A u \in Targets : \A e \in queued[u] : e \notin S /\ (e \in old => u = t)
  BY <1>1 DEF PlaceInv, Good, InPlace
<1>3. \A u \in Targets : Ordered(queued[u] \ (old \cup S), Without(old \cup S))
  BY WithoutOrders DEF QueuesOrdered
<1>4. ASSUME NEW u \in Targets \ {t}
      PROVE  Ordered(queued'[u], before')
  <2>1. queued'[u] = queued[u] \ (old \cup S)
    BY <1>1, <1>2
  <2> QED
    BY <1>1, <1>3, <2>1 DEF Ordered
<1>5. Ordered(queued'[t], before')
  <2>1. left = queued[t] \ (old \cup S) /\ queued'[t] = left \cup S
    BY <1>1, <1>2
  <2>2. Ordered(left, Without(old \cup S))
    BY <1>3, <2>1
  <2> HIDE DEF left
  <2> QED
    BY <1>1, <2>1, <2>2 DEF Ordered
<1> QED
  BY <1>4, <1>5 DEF QueuesOrdered

\* What only leaves queues leaves them ordered.
LEMMA LeavingOrdered ==
  ASSUME QueuesOrdered, NEW S, \A t \in Targets : queued'[t] = queued[t] \ S, before' = Without(S)
  PROVE  QueuesOrdered'
<1>1. \A t \in Targets : Ordered(queued[t] \ S, Without(S))
  BY WithoutOrders DEF QueuesOrdered
<1> QED
  BY <1>1 DEF QueuesOrdered

LEMMA TakeLeaves ==
  ASSUME TypeOK, PlaceInv, NEW t \in Targets, NEW S \in SUBSET queued[t],
         queued' = [queued EXCEPT ![t] = @ \ S]
  PROVE  \A u \in Targets : queued'[u] = queued[u] \ S
<1>1. queued \in [Targets -> SUBSET Entries]
  BY DEF TypeOK
<1>2. ASSUME NEW u \in Targets \ {t}
      PROVE  queued[u] \cap S = {}
  BY <1>1 DEF PlaceInv, Good, InPlace
<1> QED
  BY <1>1, <1>2

LEMMA RetargetOrdered ==
  ASSUME TypeOK, PlaceInv, QueuesOrdered, NEW p \in Tasks, NEW old \in Targets, NEW new \in Targets,
         NEW bring, Retarget(p, old, new, bring)
  PROVE  QueuesOrdered'
<1> DEFINE moved == queued[old]
           replaced == SameKind(new, moved)
           kept == queued[new] \ replaced
<1>1. /\ old # new
      /\ queued' = [queued EXCEPT ![old] = {}, ![new] = kept \cup moved]
      /\ before' = Without(replaced) \cup (kept \X moved)
      /\ queued \in [Targets -> SUBSET Entries] /\ replaced \subseteq queued[new]
  BY DEF Retarget, QueuesAfterMove, TypeOK, SameKind
<1> HIDE DEF replaced
<1>2. \A u \in Targets \ {new} : queued[u] \cap replaced = {}
  BY <1>1 DEF PlaceInv, Good, InPlace
<1>3. \A u \in Targets : Ordered(queued[u] \ replaced, Without(replaced))
  BY WithoutOrders DEF QueuesOrdered
<1>4. Ordered(kept, Without(replaced)) /\ Ordered(moved, Without(replaced))
  <2>1. moved = queued[old] \ replaced
    BY <1>1, <1>2
  <2> QED
    BY <1>3, <2>1
<1>5. \A u \in Targets \ {old, new} : queued'[u] = queued[u] \ replaced
  BY <1>1, <1>2
<1>6. queued'[old] = {} /\ queued'[new] = kept \cup moved
  BY <1>1
<1> HIDE DEF moved, kept
<1>7. Ordered(queued'[new], before')
  BY <1>1, <1>4, <1>6 DEF Ordered
<1>8. Ordered(queued'[old], before')
  BY <1>6 DEF Ordered
<1>9. \A u \in Targets \ {old, new} : Ordered(queued'[u], before')
  BY <1>1, <1>3, <1>5 DEF Ordered
<1> QED
  BY <1>7, <1>8, <1>9 DEF QueuesOrdered

LEMMA ProceedOrdered ==
  ASSUME TypeOK, PlaceInv, QueuesOrdered, NEW p \in Tasks, Proceed(p)
  PROVE  QueuesOrdered'
<1> DEFINE t == task[p].target
<1>1. t \in Targets /\ queued \in [Targets -> SUBSET Entries]
  BY TaskTarget DEF TypeOK
<1>2. ASSUME NEW S \in SUBSET queued[t], queued' = [queued EXCEPT ![t] = @ \ S], before' = Without(S)
      PROVE  QueuesOrdered'
  BY <1>1, <1>2, TakeLeaves, LeavingOrdered
<1>3. CASE StepGone(p)
  <2>1. queued' = [queued EXCEPT ![t] = @ \ queued[t]] /\ before' = Without(queued[t])
    BY <1>3 DEF StepGone
  <2> QED
    BY <1>2, <2>1
<1>4. CASE StepTake(p)
  <2>1. PICK head \in HeadOf(t) :
          \E expired \in SUBSET TakenWith(t, head) : \E held \in SUBSET TakenWith(t, head) :
            Take(p, head, expired, held)
    BY <1>4 DEF StepTake
  <2>2. TakenWith(t, head) \in SUBSET queued[t]
    BY <2>1 DEF HeadOf, Oldest, TakenWith
  <2>3. queued' = [queued EXCEPT ![t] = @ \ TakenWith(t, head)] /\ before' = Without(TakenWith(t, head))
    BY <2>1 DEF Take
  <2> QED
    BY <1>2, <2>2, <2>3
<1>5. CASE SteerChecked(p)
  <2> DEFINE old == SameKind(t, {task[p].entry})
  <2>1. old \in SUBSET queued[t] /\ queued' = [queued EXCEPT ![t] = @ \ old] /\ before' = Without(old)
    BY <1>5 DEF SteerChecked, SameKind
  <2> HIDE DEF old
  <2> QED
    BY <1>2, <2>1
<1>6. CASE PutRefused(p)
  <2>1. PICK e \in Entries : e = task[p].entry
    BY <1>6 DEF PutRefused, TypeOK, TaskRecord, Fields
  <2>2. Put(t, {e}, {})
    BY <1>6, <2>1 DEF PutRefused, PutAndDeliver
  <2>3. st[e] # "queued"
    BY <2>1 DEF PlaceInv, Good, InPlace, Steers
  <2>4. Ordered({e}, {})
    BY DEF Ordered
  <2> QED
    BY <1>1, <2>2, <2>3, <2>4, PutOrdered
<1>7. CASE \/ StepWait(p) \/ StepEmpty(p) \/ SendResolved(p) \/ SendRejected(p) \/ SteerRefused(p)
           \/ SteerSend(p) \/ SteerResolved(p) \/ SteerRejected(p) \/ HostHandled(p) \/ EndTold(p)
  <2>1. UNCHANGED <<queued, before>>
    BY <1>7 DEF StepWait, StepEmpty, SendResolved, SendRejected, SteerRefused, SteerSend,
                SteerResolved, SteerRejected, HostHandled, EndTold
  <2> QED
    BY <2>1 DEF QueuesOrdered
<1> QED
  BY <1>3, <1>4, <1>5, <1>6, <1>7 DEF Proceed

LEMMA CallOrdered ==
  ASSUME TypeOK, PlaceInv, QueuesOrdered, NEW p \in Tasks, Call(p)
  PROVE  QueuesOrdered'
<1>1. ASSUME NEW bring \in Bring, NEW e \in NewNotices(NoBatch), NEW t \in Targets, Enqueue(p, t, e, bring)
      PROVE  QueuesOrdered'
  <2>1. e \in Entries /\ st[e] = "new" /\ Put(t, {e}, {})
    BY <1>1 DEF NewNotices, Enqueue, PutAndDeliver
  <2>2. Ordered({e}, {})
    BY DEF Ordered
  <2> QED
    BY <2>1, <2>2, PutOrdered
<1>2. ASSUME NEW bring \in Bring, NEW b, NEW S \in SUBSET NewNotices(b), NEW ord \in Orders(S),
             NEW t \in Targets, EnqueueBatch(p, t, S, ord, bring)
      PROVE  QueuesOrdered'
  <2>1. S \in SUBSET Entries
    BY DEF NewNotices
  <2>2. Put(t, S, ord) /\ \A e \in S : st[e] # "queued"
    BY <1>2 DEF EnqueueBatch, PutAndDeliver
  <2>3. Ordered(S, ord)
    BY <1>2 DEF EnqueueBatch, Ordered
  <2> QED
    BY <2>1, <2>2, <2>3, PutOrdered
<1>3. ASSUME NEW bring \in Bring, NEW old \in Targets, NEW new \in Targets, Retarget(p, old, new, bring)
      PROVE  QueuesOrdered'
  BY <1>3, RetargetOrdered
<1>4. ASSUME NEW e \in NewNotices(NoBatch), NEW t \in Targets, StartSteer(p, t, e)
      PROVE  QueuesOrdered'
  BY <1>4 DEF StartSteer, QueuesOrdered
<1> QED
  BY <1>1, <1>2, <1>3, <1>4 DEF Call

LEMMA OrderKept == ASSUME TypeOK, PlaceInv, QueuesOrdered, [Next]_vars PROVE QueuesOrdered'
<1>1. ASSUME NEW p \in Tasks, Answer(p)
      PROVE  QueuesOrdered'
  BY <1>1 DEF Answer, Refreshed, SendArrives, SteerArrives, QueuesOrdered
<1>2. ASSUME NEW t \in Targets, AgentStarts(t) \/ Closes(t) \/ \E p \in Tasks : TurnEnds(t, p)
      PROVE  QueuesOrdered'
  BY <1>2 DEF AgentStarts, Closes, TurnEnds, QueuesOrdered
<1>3. Reload => QueuesOrdered'
  BY DEF Reload, QueuesOrdered, Ordered
<1>4. UNCHANGED vars => QueuesOrdered'
  BY DEF vars, QueuesOrdered
<1> QED
  BY <1>1, <1>2, <1>3, <1>4, ProceedOrdered, CallOrdered DEF Next

LEMMA OrderHolds == Spec => []QueuesOrdered
<1>1. Init => QueuesOrdered
  BY DEF Init, QueuesOrdered, Ordered
<1>2. TypeOK /\ PlaceInv /\ QueuesOrdered /\ [Next]_vars => QueuesOrdered'
  BY OrderKept
<1> QED
  BY <1>1, <1>2, TypeCorrect, PlacesHold, PTL DEF Spec

\* A queued notice that a step makes ready to be sent is taken by step, from
\* the queue of the target it goes to, together with the head of that queue.
LEMMA SentIsTaken ==
  ASSUME TypeOK, PlaceInv, [Next]_vars, NEW t \in Targets, NEW f \in queued[t], st'[f] = "sending"
  PROVE  \E head \in HeadOf(t) : f \in TakenWith(t, head) /\ queued'[t] = queued[t] \ TakenWith(t, head)
<1>1. /\ f \in Entries /\ st[f] = "queued" /\ \A u \in Targets : f \in queued[u] => u = t
      /\ st \in [Entries -> EntryStates] /\ queued \in [Targets -> SUBSET Entries]
  BY DEF TypeOK, PlaceInv, Good, InPlace
<1>2. ASSUME NEW p \in Tasks, StepTake(p)
      PROVE  \E head \in HeadOf(t) : f \in TakenWith(t, head) /\ queued'[t] = queued[t] \ TakenWith(t, head)
  <2> DEFINE u == task[p].target
  <2>1. PICK head \in HeadOf(u) :
          \E expired \in SUBSET TakenWith(u, head) : \E held \in SUBSET TakenWith(u, head) :
            Take(p, head, expired, held)
    BY <1>2 DEF StepTake
  <2>2. /\ queued' = [queued EXCEPT ![u] = @ \ TakenWith(u, head)]
        /\ f \in TakenWith(u, head)
    BY <1>1, <2>1 DEF Take
  <2>3. u \in Targets /\ TakenWith(u, head) \subseteq queued[u]
    BY <2>1, TaskTarget DEF HeadOf, Oldest, TakenWith
  <2>4. u = t
    BY <1>1, <2>2, <2>3
  <2> QED
    BY <1>1, <2>1, <2>2, <2>4
<1>3. ASSUME NEW p \in Tasks, Proceed(p), ~StepTake(p)
      PROVE  FALSE
  BY <1>1, <1>3 DEF Proceed, StepWait, StepGone, StepEmpty, SendResolved, SendRejected, SteerRefused,
     SteerSend, SteerResolved, SteerRejected, SteerChecked, PutRefused, PutAndDeliver, Put, HostHandled, EndTold
<1>4. ASSUME NEW p \in Tasks, Answer(p) \/ Call(p)
      PROVE  FALSE
  <2>1. Answer(p) => UNCHANGED st
    BY DEF Answer, Refreshed, SendArrives, SteerArrives
  <2>2. \A u, S, ord : ~Put(u, S, ord)
    BY <1>1 DEF Put
  <2>3. \A old, new, bring : ~Retarget(p, old, new, bring)
    BY <1>1 DEF Retarget
  <2>4. \A u, e : ~StartSteer(p, u, e)
    BY <1>1 DEF StartSteer
  <2>5. ~Call(p)
    BY <2>2, <2>3, <2>4 DEF Call, Enqueue, EnqueueBatch, PutAndDeliver
  <2> QED
    BY <1>1, <1>4, <2>1, <2>5
<1>5. ~Reload /\ ~UNCHANGED vars
  BY <1>1 DEF Reload, vars
<1>6. ASSUME NEW u \in Targets, AgentStarts(u) \/ Closes(u) \/ \E p \in Tasks : TurnEnds(u, p)
      PROVE  FALSE
  BY <1>1, <1>6 DEF AgentStarts, Closes, TurnEnds
<1> QED
  BY <1>2, <1>3, <1>4, <1>5, <1>6 DEF Next

\* No overtaking: what stays in the queue while a younger notice goes is
\* passed by a first one, or by an older one the younger went with (headOf,
\* take and takeBatch of the code).
THEOREM NoneOvertakes == Spec => NoOvertaking
<1> DEFINE Fair(t) == \A e, f \in queued[t] :
             <<e, f>> \in before /\ st'[f] = "sending" /\ e \in queued'[t] =>
               \E g \in queued[t] \ queued'[t] :
                 /\ g = f \/ (BatchOf[g] = BatchOf[f] /\ GroupOf[g] = GroupOf[f])
                 /\ g \in First \/ <<g, e>> \in before
<1>1. TypeOK /\ PlaceInv /\ QueuesOrdered /\ [Next]_vars => [\A t \in Targets : Fair(t)]_vars
  <2> SUFFICES ASSUME TypeOK, PlaceInv, QueuesOrdered, [Next]_vars,
                      NEW t \in Targets, NEW e \in queued[t], NEW f \in queued[t],
                      st'[f] = "sending", e \in queued'[t]
               PROVE  \E g \in queued[t] \ queued'[t] :
                        /\ g = f \/ (BatchOf[g] = BatchOf[f] /\ GroupOf[g] = GroupOf[f])
                        /\ g \in First \/ <<g, e>> \in before
    OBVIOUS
  <2>1. PICK head \in HeadOf(t) : f \in TakenWith(t, head) /\ queued'[t] = queued[t] \ TakenWith(t, head)
    BY SentIsTaken
  <2>2. head \in queued[t] /\ head \in TakenWith(t, head)
    BY <2>1 DEF HeadOf, Oldest, TakenWith
  <2>3. e # head /\ head \notin queued'[t]
    BY <2>1, <2>2
  <2>4. head = f \/ (BatchOf[head] = BatchOf[f] /\ GroupOf[head] = GroupOf[f])
    BY <2>1 DEF TakenWith
  <2>5. <<head, e>> \in before \/ <<e, head>> \in before
    BY <2>2, <2>3 DEF QueuesOrdered, Ordered
  <2>6. head \in First \/ <<e, head>> \notin before
    BY <2>1 DEF HeadOf, Oldest
  <2> QED
    BY <2>2, <2>3, <2>4, <2>5, <2>6
<1> QED
  BY <1>1, TypeCorrect, PlacesHold, OrderHolds, PTL DEF Spec, NoOvertaking
=============================================================================
