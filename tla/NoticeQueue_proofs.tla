------------------------- MODULE NoticeQueue_proofs -------------------------
(***************************************************************************)
(* Proofs about NoticeQueue for every number of targets, notices and calls *)
(* in progress.                                                            *)
(***************************************************************************)
EXTENDS NoticeQueue, TLAPS

-----------------------------------------------------------------------------
(* The records the actions write.                                          *)

LEMMA NoCallType ==
  NoCall \in TaskRecord /\ NoCall.pc = "idle" /\ NoCall.entry = NoEntry
<1>1. (CHOOSE t \in Targets : TRUE) \in Targets
  BY ValuesAssumption
<1> QED
  BY <1>1 DEF NoCall, Idle, TaskRecord, Fields, Pcs, Steering

\* A new record of a call, its entry kept.
LEMMA AtType ==
  ASSUME TypeOK, NEW p \in Tasks, NEW t \in Targets, NEW pc \in Pcs,
         pc \in Steering \cup {"refused"} => task[p].entry # NoEntry
  PROVE  At(p, t, pc) \in TaskRecord
<1>1. task[p].entry \in Entries \cup {NoEntry}
  BY DEF TypeOK, TaskRecord, Fields
<1> QED
  BY <1>1 DEF At, Idle, TaskRecord, Fields

LEMMA LookType == ASSUME NEW t \in Targets PROVE Look(t) \in TaskRecord
  BY DEF Look, Idle, TaskRecord, Fields, Pcs, Delivery, Steering

\* Changing the fields of a record a step may change.
LEMMA FieldTypes ==
  ASSUME NEW r \in TaskRecord
  PROVE  /\ \A pc \in Pcs : (pc \in Steering \cup {"refused"} => r.entry # NoEntry)
                              => [r EXCEPT !.pc = pc] \in TaskRecord
         /\ \A seen \in Statuses \cup {"none", "error", "same", "other"} :
              [r EXCEPT !.seen = seen] \in TaskRecord
         /\ \A S \in SUBSET Entries : [r EXCEPT !.msg = S] \in TaskRecord
         /\ \A S \in SUBSET Entries : [r EXCEPT !.told = S] \in TaskRecord
         /\ \A n \in Nat : [r EXCEPT !.turn = n] \in TaskRecord
         /\ \A e \in Entries : [r EXCEPT !.entry = e] \in TaskRecord
         /\ r.pc \notin Steering \cup {"refused"} => [r EXCEPT !.entry = NoEntry] \in TaskRecord
<1>1. \A pc \in Pcs : (pc \in Steering \cup {"refused"} => r.entry # NoEntry)
                         => [r EXCEPT !.pc = pc] \in TaskRecord
  BY DEF TaskRecord, Fields
<1>2. \A seen \in Statuses \cup {"none", "error", "same", "other"} :
        [r EXCEPT !.seen = seen] \in TaskRecord
  BY DEF TaskRecord, Fields
<1>3. \A S \in SUBSET Entries : [r EXCEPT !.msg = S] \in TaskRecord
  BY DEF TaskRecord, Fields
<1>4. \A S \in SUBSET Entries : [r EXCEPT !.told = S] \in TaskRecord
  BY DEF TaskRecord, Fields
<1>5. \A n \in Nat : [r EXCEPT !.turn = n] \in TaskRecord
  BY DEF TaskRecord, Fields
<1>6. \A e \in Entries : [r EXCEPT !.entry = e] \in TaskRecord
  BY ValuesAssumption DEF TaskRecord, Fields
<1>7. r.pc \notin Steering \cup {"refused"} => [r EXCEPT !.entry = NoEntry] \in TaskRecord
  BY DEF TaskRecord, Fields
<1> QED
  BY <1>1, <1>2, <1>3, <1>4, <1>5, <1>6, <1>7

LEMMA LockType ==
  /\ Free \in Lock
  /\ \A p \in Tasks : [by |-> p, again |-> FALSE] \in Lock
  /\ \A l \in Lock, v \in BOOLEAN : [l EXCEPT !.again = v] \in Lock
  BY DEF Lock, Free

LEMMA TaskTarget == ASSUME TypeOK, NEW p \in Tasks PROVE task[p].target \in Targets
  BY DEF TypeOK, TaskRecord, Fields

LEMMA DeliverType ==
  ASSUME TypeOK, NEW p \in Tasks, NEW t \in Targets, Deliver(p, t)
  PROVE  task' \in [Tasks -> TaskRecord] /\ delivering' \in [Targets -> Lock]
<1>1. CASE delivering[t] = Free
  BY <1>1, LockType, LookType DEF TypeOK, Deliver
<1>2. CASE delivering[t] # Free
  <2>1. [delivering[t] EXCEPT !.again = TRUE] \in Lock
    BY LockType DEF TypeOK
  <2> QED
    BY <1>2, <2>1, NoCallType DEF TypeOK, Deliver
<1> QED
  BY <1>1, <1>2

LEMMA ReturnType ==
  ASSUME TypeOK, NEW p \in Tasks, Return(p)
  PROVE  task' \in [Tasks -> TaskRecord] /\ delivering' \in [Targets -> Lock]
<1>1. task[p].entry # NoEntry => At(p, task[p].target, "refused") \in TaskRecord
  BY AtType, TaskTarget DEF Pcs
<1> QED
  BY <1>1, TaskTarget, NoCallType, LockType DEF TypeOK, Return

LEMMA LookAgainType ==
  ASSUME TypeOK, NEW p \in Tasks, LookAgain(p)
  PROVE  task' \in [Tasks -> TaskRecord] /\ delivering' \in [Targets -> Lock]
<1>1. At(p, task[p].target, "look") \in TaskRecord
  BY AtType, TaskTarget DEF Pcs, Delivery, Steering
<1>2. [delivering[task[p].target] EXCEPT !.again = FALSE] \in Lock
  BY LockType, TaskTarget DEF TypeOK
<1> QED
  BY <1>1, <1>2, ReturnType, TaskTarget DEF TypeOK, LookAgain

LEMMA LeaveSteerType ==
  ASSUME TypeOK, NEW p \in Tasks, NEW next \in TaskRecord, LeaveSteer(p, next)
  PROVE  task' \in [Tasks -> TaskRecord] /\ delivering' \in [Targets -> Lock]
<1>1. At(p, task[p].target, "look") \in TaskRecord
  BY AtType, TaskTarget DEF Pcs, Delivery, Steering
<1>2. [At(p, task[p].target, "look") EXCEPT !.entry = next.entry] \in TaskRecord
  BY <1>1 DEF TaskRecord, Fields, At, Idle, Steering
<1>3. [delivering[task[p].target] EXCEPT !.again = FALSE] \in Lock
  BY LockType, TaskTarget DEF TypeOK
<1> QED
  BY <1>2, <1>3, TaskTarget, LockType DEF TypeOK, LeaveSteer

LEMMA PutType ==
  ASSUME TypeOK, NEW t \in Targets, NEW S \in SUBSET Entries, NEW ord \in SUBSET (S \X S),
         Put(t, S, ord)
  PROVE  /\ st' \in [Entries -> EntryStates]
         /\ queued' \in [Targets -> SUBSET Entries]
         /\ before' \in SUBSET (Entries \X Entries)
  BY DEF TypeOK, Put, Without, SameKind, EntryStates

LEMMA PutAndDeliverType ==
  ASSUME TypeOK, NEW p \in Tasks, NEW t \in Targets, NEW S \in SUBSET Entries,
         NEW ord \in SUBSET (S \X S), NEW bring \in BOOLEAN, PutAndDeliver(p, t, S, ord, bring)
  PROVE  TypeOK'
<1>1. task' \in [Tasks -> TaskRecord] /\ delivering' \in [Targets -> Lock]
  BY DeliverType, NoCallType DEF PutAndDeliver, TypeOK
<1>2. lastPaseo' \in BOOLEAN
  BY Zenon DEF PutAndDeliver
<1> QED
  BY <1>1, <1>2, PutType DEF PutAndDeliver, TypeOK

-----------------------------------------------------------------------------
(* Type correctness.                                                       *)

LEMMA TypeProceed ==
  ASSUME TypeOK, NEW p \in Tasks, Proceed(p)
  PROVE  TypeOK'
<1> DEFINE t == task[p].target
<1>0. t \in Targets
  BY TaskTarget
<1>1. CASE StepWait(p)
  BY <1>1, LookAgainType, ReturnType DEF StepWait, TypeOK
<1>2. CASE StepGone(p)
  <2>1. task' \in [Tasks -> TaskRecord] /\ delivering' \in [Targets -> Lock]
    BY <1>2, ReturnType DEF StepGone
  <2> QED
    BY <1>0, <1>2, <2>1 DEF StepGone, TypeOK, Without, EntryStates
<1>3. CASE StepEmpty(p)
  BY <1>3, ReturnType DEF StepEmpty, TypeOK
<1>4. CASE StepTake(p)
  <2>1. PICK head \in HeadOf(t) : \E expired, held \in SUBSET Entries : Take(p, head, expired, held)
    <3>1. \A head \in HeadOf(t) : TakenWith(t, head) \subseteq Entries
      BY <1>0 DEF HeadOf, Oldest, TakenWith, TypeOK
    <3> QED
      BY <1>4, <3>1 DEF StepTake
  <2>2. PICK expired, held \in SUBSET Entries : Take(p, head, expired, held)
    BY <2>1
  <2>3. head \in Entries /\ TakenWith(t, head) \subseteq Entries
    BY <1>0 DEF HeadOf, Oldest, TakenWith, TypeOK
  <2>4. /\ st' \in [Entries -> EntryStates]
        /\ queued' \in [Targets -> SUBSET Entries]
        /\ before' \in SUBSET (Entries \X Entries)
    BY <1>0, <2>2, <2>3 DEF Take, Without, EntryStates, TypeOK
  <2> DEFINE sending == TakenWith(t, head) \ (expired \cup held)
  <2>5. CASE sending = {}
    <3>1. LookAgain(p) /\ UNCHANGED awaitingEnd
      BY <2>2, <2>5 DEF Take
    <3> QED
      BY <1>4, <2>4, <3>1, LookAgainType DEF StepTake, TypeOK
  <2>6. CASE sending # {}
    <3>1. /\ task' = [task EXCEPT ![p] = [At(p, t, "send") EXCEPT !.msg = sending]]
          /\ awaitingEnd' = [awaitingEnd EXCEPT ![t] = @ \cup Awaited(t, head, sending)]
          /\ UNCHANGED delivering
      BY <2>2, <2>6 DEF Take
    <3>2. [At(p, t, "send") EXCEPT !.msg = sending] \in TaskRecord
      <4>1. At(p, t, "send") \in TaskRecord
        BY <1>0, AtType DEF Pcs, Delivery, Steering
      <4> QED
        BY <2>3, <4>1, FieldTypes
    <3>3. Awaited(t, head, sending) \subseteq Message
      BY <1>0, <2>3 DEF Awaited, Message, TypeOK
    <3> QED
      BY <1>0, <1>4, <2>4, <3>1, <3>2, <3>3 DEF StepTake, TypeOK
  <2> QED
    BY <2>5, <2>6
<1>5. CASE SendResolved(p)
  <2>1. task' \in [Tasks -> TaskRecord] /\ delivering' \in [Targets -> Lock]
    BY <1>5, ReturnType DEF SendResolved
  <2> QED
    BY <1>5, <2>1 DEF SendResolved, TypeOK, EntryStates
<1>6. CASE SendRejected(p)
  <2>1. task' \in [Tasks -> TaskRecord] /\ delivering' \in [Targets -> Lock]
    BY <1>6, LookAgainType DEF SendRejected
  <2> QED
    BY <1>0, <1>6, <2>1 DEF SendRejected, StillAwaited, TypeOK, EntryStates
<1>7. CASE SteerRefused(p)
  <2>1. At(p, t, "refused") \in TaskRecord
    <3>1. task[p].entry # NoEntry
      BY <1>7 DEF SteerRefused, TypeOK, TaskRecord, Steering
    <3> QED
      BY <1>0, <3>1, AtType DEF Pcs
  <2> QED
    BY <1>7, <2>1, LeaveSteerType DEF SteerRefused, TypeOK
<1>8. CASE SteerSend(p)
  <2>1. [task[p] EXCEPT !.pc = "steer", !.seen = "none"] \in TaskRecord
    <3>1. task[p].entry # NoEntry
      BY <1>8 DEF SteerSend, TypeOK, TaskRecord, Steering
    <3>2. [task[p] EXCEPT !.pc = "steer"] \in TaskRecord
      BY <3>1, FieldTypes DEF TypeOK, Pcs, Steering
    <3> QED
      BY <3>2, FieldTypes
  <2> QED
    BY <1>8, <2>1 DEF SteerSend, TypeOK
<1>9. CASE SteerResolved(p)
  <2>1. [task[p] EXCEPT !.pc = "check"] \in TaskRecord
    <3>1. task[p].entry # NoEntry
      BY <1>9 DEF SteerResolved, TypeOK, TaskRecord, Steering
    <3> QED
      BY <3>1, FieldTypes DEF TypeOK, Pcs, Steering
  <2> QED
    BY <1>9, <2>1 DEF SteerResolved, TypeOK
<1>10. CASE SteerRejected(p)
  <2>1. task' \in [Tasks -> TaskRecord] /\ delivering' \in [Targets -> Lock]
    BY <1>10, LeaveSteerType, NoCallType DEF SteerRejected
  <2> QED
    BY <1>10, <2>1 DEF SteerRejected, TypeOK, EntryStates
<1>11. CASE SteerChecked(p)
  <2>1. task' \in [Tasks -> TaskRecord] /\ delivering' \in [Targets -> Lock]
    BY <1>11, LeaveSteerType, NoCallType DEF SteerChecked
  <2> QED
    BY <1>0, <1>11, <2>1 DEF SteerChecked, TypeOK, EntryStates, Without, SameKind
<1>12. CASE PutRefused(p)
  <2>1. task[p].entry \in Entries
    BY <1>12 DEF PutRefused, TypeOK, TaskRecord, Fields
  <2> QED
    BY <1>0, <1>12, <2>1, PutAndDeliverType DEF PutRefused
<1>13. CASE HostHandled(p)
  <2>1. CASE awaitingEnd[t] = {}
    BY <1>0, <1>13, <2>1, DeliverType, NoCallType DEF HostHandled, DeliverQueued, TypeOK
  <2>2. CASE awaitingEnd[t] # {}
    <3>1. PICK m \in OldestAwaiting(t) :
            /\ awaitingEnd' = [awaitingEnd EXCEPT ![t] = @ \ {m}]
            /\ task' = [task EXCEPT ![p].pc = "ending", ![p].told = m.items]
            /\ UNCHANGED delivering
      BY <1>13, <2>2 DEF HostHandled
    <3>2. m.items \in SUBSET Entries
      BY <1>0 DEF OldestAwaiting, TypeOK, Message
    <3>3. [task[p] EXCEPT !.pc = "ending", !.told = m.items] \in TaskRecord
      <4>1. [task[p] EXCEPT !.pc = "ending"] \in TaskRecord
        BY FieldTypes DEF TypeOK, Pcs, Steering
      <4> QED
        BY <3>2, <4>1, FieldTypes
    <3> QED
      BY <1>0, <1>13, <3>1, <3>3 DEF HostHandled, TypeOK
  <2> QED
    BY <2>1, <2>2
<1>14. CASE EndTold(p)
  BY <1>0, <1>14, DeliverType, NoCallType DEF EndTold, DeliverQueued, TypeOK
<1> QED
  BY <1>1, <1>2, <1>3, <1>4, <1>5, <1>6, <1>7, <1>8, <1>9, <1>10, <1>11, <1>12, <1>13, <1>14
  DEF Proceed

LEMMA TypeAnswer ==
  ASSUME TypeOK, NEW p \in Tasks, Answer(p)
  PROVE  TypeOK'
<1> DEFINE t == task[p].target
<1>0. t \in Targets /\ task[p] \in TaskRecord /\ agent[t].status \in Statuses /\ agent[t].turn \in Nat
  BY TaskTarget DEF TypeOK
<1>1. CASE Refreshed(p)
  <2>1. task' \in [Tasks -> TaskRecord]
    <3>1. CASE task[p].pc = "look"
      <4>1. \A seen \in Statuses \cup {"error"} :
              [task[p] EXCEPT !.pc = "looked", !.seen = seen] \in TaskRecord
        BY <1>0, FieldTypes DEF Pcs, Delivery, Steering
      <4>2. PICK seen \in Statuses \cup {"error"} :
              task' = [task EXCEPT ![p].pc = "looked", ![p].seen = seen]
        BY <1>0, <1>1, <3>1 DEF Refreshed
      <4> QED
        BY <4>1, <4>2 DEF TypeOK
    <3>2. CASE task[p].pc = "steerRead"
      <4>1. task[p].entry # NoEntry
        BY <1>0, <3>2 DEF TaskRecord, Steering
      <4>2. [task[p] EXCEPT !.pc = "steerSeen", !.seen = "error"] \in TaskRecord
        BY <1>0, <4>1, FieldTypes DEF Pcs, Steering
      <4>3. [task[p] EXCEPT !.pc = "steerSeen", !.seen = agent[t].status, !.turn = agent[t].turn] \in TaskRecord
        <5>1. [task[p] EXCEPT !.pc = "steerSeen", !.seen = agent[t].status] \in TaskRecord
          BY <1>0, <4>1, FieldTypes DEF Pcs, Steering
        <5> QED
          BY <1>0, <5>1, FieldTypes
      <4> QED
        BY <1>1, <3>2, <4>2, <4>3 DEF Refreshed, TypeOK
    <3>3. CASE task[p].pc = "check"
      <4>1. task[p].entry # NoEntry
        BY <1>0, <3>3 DEF TaskRecord, Steering
      <4>2. \A seen \in {"same", "other"} :
              [task[p] EXCEPT !.pc = "checked", !.seen = seen] \in TaskRecord
        BY <1>0, <4>1, FieldTypes DEF Pcs, Steering
      <4> QED
        BY <1>1, <3>3, <4>2 DEF Refreshed, TypeOK
    <3> QED
      BY <1>1, <3>1, <3>2, <3>3 DEF Refreshed
  <2> QED
    BY <1>1, <2>1 DEF Refreshed, TypeOK
<1>2. CASE SendArrives(p)
  <2>1. \A pc \in Delivery : [task[p] EXCEPT !.pc = pc] \in TaskRecord
    BY <1>0, FieldTypes DEF Pcs, Delivery, Steering
  <2>2. task[p].msg \in SUBSET Entries
    BY <1>0 DEF TaskRecord, Fields
  <2>3. task' \in [Tasks -> TaskRecord]
    BY <1>2, <2>1 DEF SendArrives, TypeOK, Delivery
  <2>4. agent' \in [Targets -> [status : Statuses, turn : Nat, by : SUBSET Entries]]
    BY <1>0, <1>2, <2>2 DEF SendArrives, TypeOK, Statuses
  <2>5. delivered' \in SUBSET Entries
    BY <1>2, <2>2 DEF SendArrives, TypeOK
  <2> QED
    BY <1>2, <2>3, <2>4, <2>5 DEF SendArrives, TypeOK
<1>3. CASE SteerArrives(p)
  <2>1. task[p].entry \in Entries
    BY <1>0, <1>3 DEF SteerArrives, TaskRecord, Fields, Steering
  <2>2. \A pc \in Steering : [task[p] EXCEPT !.pc = pc] \in TaskRecord
    BY <1>0, <2>1, ValuesAssumption, FieldTypes DEF Pcs
  <2>3. task' \in [Tasks -> TaskRecord]
    BY <1>3, <2>2 DEF SteerArrives, TypeOK, Steering
  <2>4. agent' \in [Targets -> [status : Statuses, turn : Nat, by : SUBSET Entries]]
    BY <1>0, <1>3, <2>1 DEF SteerArrives, TypeOK, Statuses
  <2>5. delivered' \in SUBSET Entries
    BY <1>3, <2>1 DEF SteerArrives, TypeOK
  <2> QED
    BY <1>3, <2>3, <2>4, <2>5 DEF SteerArrives, TypeOK
<1> QED
  BY <1>1, <1>2, <1>3 DEF Answer

LEMMA TypeCall ==
  ASSUME TypeOK, NEW p \in Tasks, Call(p)
  PROVE  TypeOK'
<1>0. Bring \subseteq BOOLEAN
  BY ValuesAssumption
<1>1. ASSUME NEW bring \in Bring, NEW e \in NewNotices(NoBatch), NEW t \in Targets,
             Enqueue(p, t, e, bring)
      PROVE  TypeOK'
  <2>1. e \in Entries
    BY DEF NewNotices
  <2> QED
    BY <1>0, <1>1, <2>1, PutAndDeliverType DEF Enqueue
<1>2. ASSUME NEW bring \in Bring, NEW b, NEW S \in SUBSET NewNotices(b), NEW ord \in Orders(S),
             NEW t \in Targets, EnqueueBatch(p, t, S, ord, bring)
      PROVE  TypeOK'
  <2>1. S \in SUBSET Entries /\ ord \in SUBSET (S \X S)
    BY DEF NewNotices, Orders
  <2> QED
    BY <1>0, <1>2, <2>1, PutAndDeliverType DEF EnqueueBatch
<1>3. ASSUME NEW bring \in Bring, NEW old \in Targets, NEW new \in Targets,
             Retarget(p, old, new, bring)
      PROVE  TypeOK'
  <2>1. task' \in [Tasks -> TaskRecord] /\ delivering' \in [Targets -> Lock]
    BY <1>3, DeliverType DEF Retarget, TypeOK
  <2>2. lastPaseo' \in BOOLEAN
    BY <1>3, Zenon DEF Retarget
  <2>3. st' \in [Entries -> EntryStates]
    BY <1>3 DEF Retarget, TypeOK, EntryStates
  <2>4. queued' \in [Targets -> SUBSET Entries]
    BY <1>3 DEF Retarget, QueuesAfterMove, TypeOK
  <2>5. before' \in SUBSET (Entries \X Entries)
    BY <1>3 DEF Retarget, TypeOK, Without
  <2> QED
    BY <1>3, <2>1, <2>2, <2>3, <2>4, <2>5 DEF Retarget, TypeOK
<1>4. ASSUME NEW e \in NewNotices(NoBatch), NEW t \in Targets, StartSteer(p, t, e)
      PROVE  TypeOK'
  <2>1. e \in Entries
    BY DEF NewNotices
  <2>2. [Idle(t) EXCEPT !.pc = "steerRead", !.entry = e] \in TaskRecord
    BY <2>1, ValuesAssumption DEF Idle, TaskRecord, Fields, Pcs, Steering, SameKind, TypeOK
  <2> QED
    BY <1>4, <2>1, <2>2, LockType DEF StartSteer, TypeOK, EntryStates
<1> QED
  BY <1>1, <1>2, <1>3, <1>4 DEF Call

LEMMA TypeDaemon ==
  ASSUME TypeOK, NEW t \in Targets,
         AgentStarts(t) \/ Closes(t) \/ \E p \in Tasks : TurnEnds(t, p)
  PROVE  TypeOK'
<1>1. CASE AgentStarts(t)
  BY <1>1 DEF AgentStarts, TypeOK, Statuses
<1>2. CASE Closes(t)
  BY <1>2 DEF Closes, TypeOK, Statuses
<1>3. ASSUME NEW p \in Tasks, TurnEnds(t, p)
      PROVE  TypeOK'
  <2>1. agent[t].by \in SUBSET Entries
    BY DEF TypeOK
  <2>2. [Idle(t) EXCEPT !.pc = "host", !.msg = agent[t].by] \in TaskRecord
    BY <2>1 DEF Idle, TaskRecord, Fields, Pcs, Steering
  <2> QED
    BY <1>3, <2>2 DEF TurnEnds, TypeOK, Statuses
<1> QED
  BY <1>1, <1>2, <1>3

\* Every variable keeps its type: the states of a notice, the owners of a
\* delivery and the records of the calls stay what the actions expect.
THEOREM TypeCorrect == Spec => []TypeOK
<1>1. Init => TypeOK
  <2> SUFFICES ASSUME Init PROVE TypeOK
    OBVIOUS
  <2>1. task \in [Tasks -> TaskRecord]
    BY NoCallType DEF Init
  <2>2. delivering \in [Targets -> Lock]
    BY LockType DEF Init
  <2>3. lastPaseo \in BOOLEAN
    BY Zenon DEF Init
  <2> QED
    BY <2>1, <2>2, <2>3 DEF Init, TypeOK, EntryStates, Statuses
<1>2. TypeOK /\ [Next]_vars => TypeOK'
  <2> SUFFICES ASSUME TypeOK, [Next]_vars PROVE TypeOK'
    OBVIOUS
  <2>1. ASSUME NEW p \in Tasks, Proceed(p) \/ Answer(p) \/ Call(p) PROVE TypeOK'
    BY <2>1, TypeProceed, TypeAnswer, TypeCall
  <2>2. ASSUME NEW t \in Targets, AgentStarts(t) \/ Closes(t) \/ \E p \in Tasks : TurnEnds(t, p)
        PROVE  TypeOK'
    BY <2>2, TypeDaemon
  <2>3. CASE Reload
    <3>1. lastPaseo' \in BOOLEAN
      BY <2>3, Zenon DEF Reload
    <3> QED
      BY <2>3, <3>1, NoCallType DEF Reload, TypeOK, EntryStates
  <2>4. CASE UNCHANGED vars
    BY <2>4 DEF vars, TypeOK
  <2> QED
    BY <2>1, <2>2, <2>3, <2>4 DEF Next
<1> QED
  BY <1>1, <1>2, PTL DEF Spec

-----------------------------------------------------------------------------
(* Mutual exclusion: the owner of a delivery is the one call at work.      *)

Working(r) == r.pc \in Steering \cup Delivery

\* What the actions do to the record of call p and to its target's delivery.
Starts(p) ==
  \E t \in Targets :
    /\ delivering[t] = Free
    /\ delivering' = [delivering EXCEPT ![t] = [by |-> p, again |-> FALSE]]
    /\ \E r \in TaskRecord : r.target = t /\ task' = [task EXCEPT ![p] = r]
Keeps(p) ==
  /\ \A t \in Targets : delivering'[t].by = delivering[t].by
  /\ \E r \in TaskRecord : /\ task' = [task EXCEPT ![p] = r]
                           /\ Working(r) => Working(task[p]) /\ r.target = task[p].target
Leaves(p) ==
  /\ Working(task[p])
  /\ delivering' = [delivering EXCEPT ![task[p].target] = Free]
  /\ \E r \in TaskRecord : ~Working(r) /\ task' = [task EXCEPT ![p] = r]

LEMMA LockSteps ==
  ASSUME TypeOK, OwnsDelivery, NEW p \in Tasks, Starts(p) \/ Keeps(p) \/ Leaves(p)
  PROVE  OwnsDelivery'
<1> SUFFICES ASSUME NEW q \in Tasks, Working(task'[q])
             PROVE  delivering'[task'[q].target].by = q
  BY DEF OwnsDelivery, Working
<1>0. /\ task \in [Tasks -> TaskRecord]
      /\ delivering \in [Targets -> Lock]
      /\ \A x \in Tasks : task[x].target \in Targets
      /\ \A x \in Tasks : Working(task[x]) => delivering[task[x].target].by = x
  BY TaskTarget DEF TypeOK, OwnsDelivery, Working
<1>1. CASE Starts(p)
  <2>1. PICK t \in Targets :
          /\ delivering[t] = Free
          /\ delivering' = [delivering EXCEPT ![t] = [by |-> p, again |-> FALSE]]
          /\ \E r \in TaskRecord : r.target = t /\ task' = [task EXCEPT ![p] = r]
    BY <1>1 DEF Starts
  <2>2. PICK r \in TaskRecord : r.target = t /\ task' = [task EXCEPT ![p] = r]
    BY <2>1
  <2>3. CASE q = p
    BY <1>0, <2>1, <2>2, <2>3
  <2>4. CASE q # p
    <3>1. task'[q] = task[q] /\ delivering[task[q].target].by = q
      BY <1>0, <2>2, <2>4
    <3>2. delivering[t].by # q
      BY <2>1, ValuesAssumption DEF Free
    <3> QED
      BY <1>0, <2>1, <3>1, <3>2
  <2> QED
    BY <2>3, <2>4
<1>2. CASE Keeps(p)
  BY <1>0, <1>2 DEF Keeps
<1>3. CASE Leaves(p)
  <2>1. PICK r \in TaskRecord : ~Working(r) /\ task' = [task EXCEPT ![p] = r]
    BY <1>3 DEF Leaves
  <2>2. q # p /\ task'[q] = task[q]
    BY <1>0, <2>1
  <2>3. task[q].target # task[p].target
    BY <1>0, <1>3, <2>2 DEF Leaves
  <2> QED
    BY <1>0, <1>3, <2>2, <2>3 DEF Leaves
<1> QED
  BY <1>1, <1>2, <1>3

LEMMA AskAgain ==
  ASSUME TypeOK, NEW u \in Targets, NEW v \in BOOLEAN,
         delivering' = [delivering EXCEPT ![u].again = v]
  PROVE  \A t \in Targets : delivering'[t].by = delivering[t].by
  BY DEF TypeOK, Lock

LEMMA DeliverLock ==
  ASSUME TypeOK, NEW p \in Tasks, NEW t \in Targets, Deliver(p, t)
  PROVE  Starts(p) \/ Keeps(p)
<1>1. CASE delivering[t] = Free
  <2>1. Look(t) \in TaskRecord /\ Look(t).target = t
    BY LookType DEF Look, Idle
  <2> QED
    BY <1>1, <2>1 DEF Deliver, Starts
<1>2. CASE delivering[t] # Free
  <2>1. ~Working(NoCall)
    BY NoCallType DEF Working, Steering, Delivery
  <2> QED
    BY <1>2, <2>1, AskAgain, NoCallType DEF Deliver, Keeps
<1> QED
  BY <1>1, <1>2

LEMMA ReturnLock ==
  ASSUME TypeOK, NEW p \in Tasks, Working(task[p]), Return(p)
  PROVE  Leaves(p)
<1>1. ~Working(NoCall) /\ NoCall \in TaskRecord
  BY NoCallType DEF Working, Steering, Delivery
<1>2. ~Working(At(p, task[p].target, "refused"))
  BY DEF Working, Steering, Delivery, At, Idle
<1>3. task[p].entry # NoEntry => At(p, task[p].target, "refused") \in TaskRecord
  BY AtType, TaskTarget DEF Pcs
<1> QED
  BY <1>1, <1>2, <1>3 DEF Return, Leaves

LEMMA LookAgainLock ==
  ASSUME TypeOK, NEW p \in Tasks, Working(task[p]), LookAgain(p)
  PROVE  Keeps(p) \/ Leaves(p)
<1>1. At(p, task[p].target, "look") \in TaskRecord /\ At(p, task[p].target, "look").target = task[p].target
  BY AtType, TaskTarget DEF Pcs, Delivery, Steering, At, Idle
<1> QED
  BY <1>1, ReturnLock, TaskTarget, AskAgain DEF LookAgain, Keeps

LEMMA LeaveSteerLock ==
  ASSUME TypeOK, NEW p \in Tasks, Working(task[p]), NEW next \in TaskRecord, ~Working(next),
         LeaveSteer(p, next)
  PROVE  Keeps(p) \/ Leaves(p)
<1> DEFINE r == [At(p, task[p].target, "look") EXCEPT !.entry = next.entry]
<1>1. r \in TaskRecord
  <2>1. At(p, task[p].target, "look") \in TaskRecord
    BY AtType, TaskTarget DEF Pcs, Delivery, Steering
  <2> QED
    BY <2>1 DEF TaskRecord, Fields, At, Idle, Steering
<1>2. r.target = task[p].target
  BY DEF At, Idle
<1> HIDE DEF r
<1>3. CASE delivering[task[p].target].again /\ queued'[task[p].target] # {}
  <2>1. delivering' = [delivering EXCEPT ![task[p].target].again = FALSE]
        /\ task' = [task EXCEPT ![p] = r]
    BY <1>3 DEF LeaveSteer, r
  <2> QED
    BY <1>1, <1>2, <2>1, TaskTarget, AskAgain DEF Keeps
<1>4. CASE ~(delivering[task[p].target].again /\ queued'[task[p].target] # {})
  BY <1>4 DEF LeaveSteer, Leaves
<1> QED
  BY <1>3, <1>4

LEMMA ProceedLock ==
  ASSUME TypeOK, NEW p \in Tasks, Proceed(p)
  PROVE  Starts(p) \/ Keeps(p) \/ Leaves(p)
<1>0. /\ task \in [Tasks -> TaskRecord]
      /\ task' \in [Tasks -> TaskRecord]
      /\ task[p].target \in Targets
      /\ ~Working(NoCall) /\ NoCall \in TaskRecord
      /\ \A r \in TaskRecord : r.pc \in {"looked", "accepted", "sendFailed", "steerSeen", "steerFailed", "steered", "checked"} => Working(r)
  BY TaskTarget, TypeProceed, NoCallType DEF TypeOK, Working, Steering, Delivery
<1>1. CASE StepWait(p) \/ StepGone(p) \/ StepEmpty(p)
  BY <1>0, <1>1, ReturnLock, LookAgainLock DEF StepWait, StepGone, StepEmpty
<1>2. CASE StepTake(p)
  <2>1. PICK head, expired, held : Take(p, head, expired, held)
    BY <1>2 DEF StepTake
  <2>2. Working(task[p])
    BY <1>0, <1>2 DEF StepTake
  <2> DEFINE sending == TakenWith(task[p].target, head) \ (expired \cup held)
             r == [At(p, task[p].target, "send") EXCEPT !.msg = sending]
  <2>3. CASE sending = {}
    BY <2>1, <2>2, <2>3, LookAgainLock DEF Take
  <2>4. CASE sending # {}
    <3>1. task' = [task EXCEPT ![p] = r] /\ UNCHANGED delivering
      BY <2>1, <2>4 DEF Take
    <3>2. r.target = task[p].target
      BY DEF At, Idle
    <3> HIDE DEF r
    <3>3. r \in TaskRecord
      BY <1>0, <3>1
    <3> QED
      BY <2>2, <3>1, <3>2, <3>3 DEF Keeps
  <2> QED
    BY <2>3, <2>4
<1>3. CASE SendResolved(p) \/ SendRejected(p)
  BY <1>0, <1>3, ReturnLock, LookAgainLock DEF SendResolved, SendRejected
<1>4. CASE SteerRefused(p)
  <2>1. At(p, task[p].target, "refused") \in TaskRecord
    <3>1. task[p].entry # NoEntry
      BY <1>0, <1>4 DEF SteerRefused, TaskRecord, Steering
    <3> QED
      BY <1>0, <3>1, AtType DEF Pcs
  <2>2. ~Working(At(p, task[p].target, "refused"))
    BY DEF Working, Steering, Delivery, At, Idle
  <2> QED
    BY <1>0, <1>4, <2>1, <2>2, LeaveSteerLock DEF SteerRefused
<1>5. CASE SteerRejected(p) \/ SteerChecked(p)
  BY <1>0, <1>5, LeaveSteerLock DEF SteerRejected, SteerChecked
<1>6. CASE SteerSend(p) \/ SteerResolved(p)
  <2>1. /\ Working(task[p])
        /\ task'[p].target = task[p].target
        /\ task' = [task EXCEPT ![p] = task'[p]]
        /\ UNCHANGED delivering
    BY <1>0, <1>6 DEF SteerSend, SteerResolved, TaskRecord, Fields
  <2> QED
    BY <1>0, <2>1 DEF Keeps
<1>7. CASE PutRefused(p)
  BY <1>0, <1>7, DeliverLock DEF PutRefused, PutAndDeliver, Keeps
<1>8. CASE HostHandled(p) \/ EndTold(p)
  <2>1. CASE DeliverQueued(p)
    BY <1>0, <2>1, DeliverLock DEF DeliverQueued, Keeps
  <2>2. CASE ~DeliverQueued(p)
    <3>1. PICK m : task' = [task EXCEPT ![p].pc = "ending", ![p].told = m.items] /\ UNCHANGED delivering
      BY <1>8, <2>2 DEF HostHandled, EndTold
    <3>2. /\ task' = [task EXCEPT ![p] = task'[p]]
          /\ task'[p].pc = "ending"
      BY <1>0, <3>1 DEF TaskRecord, Fields
    <3> QED
      BY <1>0, <3>1, <3>2 DEF Keeps, Working, Steering, Delivery
  <2> QED
    BY <2>1, <2>2
<1> QED
  BY <1>1, <1>2, <1>3, <1>4, <1>5, <1>6, <1>7, <1>8 DEF Proceed

LEMMA AnswerLock ==
  ASSUME TypeOK, NEW p \in Tasks, Answer(p)
  PROVE  Keeps(p)
<1>0. /\ task \in [Tasks -> TaskRecord]
      /\ task' \in [Tasks -> TaskRecord]
  BY TypeAnswer DEF TypeOK
<1>1. /\ Working(task[p])
      /\ task'[p].target = task[p].target
      /\ task' = [task EXCEPT ![p] = task'[p]]
      /\ UNCHANGED delivering
  <2>1. CASE Refreshed(p)
    BY <1>0, <2>1 DEF Refreshed, TaskRecord, Fields, Working, Steering, Delivery
  <2>2. CASE SendArrives(p)
    BY <1>0, <2>2 DEF SendArrives, TaskRecord, Fields, Working, Steering, Delivery
  <2>3. CASE SteerArrives(p)
    BY <1>0, <2>3 DEF SteerArrives, TaskRecord, Fields, Working, Steering, Delivery
  <2> QED
    BY <2>1, <2>2, <2>3 DEF Answer
<1> QED
  BY <1>0, <1>1 DEF Keeps

LEMMA CallLock ==
  ASSUME TypeOK, NEW p \in Tasks, Call(p)
  PROVE  Starts(p) \/ Keeps(p)
<1>0. task \in [Tasks -> TaskRecord] /\ task' \in [Tasks -> TaskRecord]
  BY TypeCall DEF TypeOK
<1>1. ~Working(NoCall) /\ NoCall \in TaskRecord
  BY NoCallType DEF Working, Steering, Delivery
<1>2. ASSUME NEW t \in Targets, NEW S, NEW ord, NEW bring, PutAndDeliver(p, t, S, ord, bring)
      PROVE  Starts(p) \/ Keeps(p)
  BY <1>1, <1>2, DeliverLock DEF PutAndDeliver, Keeps
<1>3. ASSUME NEW old, NEW new \in Targets, NEW bring, Retarget(p, old, new, bring)
      PROVE  Starts(p) \/ Keeps(p)
  BY <1>0, <1>3, DeliverLock DEF Retarget, Keeps
<1>4. ASSUME NEW e, NEW t \in Targets, StartSteer(p, t, e)
      PROVE  Starts(p)
  <2> DEFINE r == [Idle(t) EXCEPT !.pc = "steerRead", !.entry = e]
  <2>1. task' = [task EXCEPT ![p] = r] /\ r.target = t
    BY <1>4 DEF StartSteer, Idle
  <2> HIDE DEF r
  <2>2. r \in TaskRecord
    BY <1>0, <2>1
  <2> QED
    BY <1>4, <2>1, <2>2 DEF StartSteer, Starts
<1> QED
  BY <1>2, <1>3, <1>4 DEF Call, Enqueue, EnqueueBatch

LEMMA TurnEndsLock ==
  ASSUME TypeOK, NEW t \in Targets, NEW p \in Tasks, TurnEnds(t, p)
  PROVE  Keeps(p)
<1> DEFINE r == [Idle(t) EXCEPT !.pc = "host", !.msg = agent[t].by]
<1>1. task' = [task EXCEPT ![p] = r] /\ ~Working(r)
  BY DEF TurnEnds, Idle, Working, Steering, Delivery
<1>2. r \in TaskRecord
  BY DEF TypeOK, Idle, TaskRecord, Fields, Pcs, Steering
<1> HIDE DEF r
<1> QED
  BY <1>1, <1>2 DEF TurnEnds, Keeps

LEMMA OwnsDeliveryStep == TypeOK /\ OwnsDelivery /\ [Next]_vars => OwnsDelivery'
<1> SUFFICES ASSUME TypeOK, OwnsDelivery, [Next]_vars PROVE OwnsDelivery'
  OBVIOUS
<1>1. ASSUME NEW p \in Tasks, Proceed(p) \/ Answer(p) \/ Call(p) PROVE OwnsDelivery'
  BY <1>1, LockSteps, ProceedLock, AnswerLock, CallLock
<1>2. ASSUME NEW t \in Targets, NEW p \in Tasks, TurnEnds(t, p) PROVE OwnsDelivery'
  BY <1>2, LockSteps, TurnEndsLock
<1>3. ASSUME NEW t \in Targets, AgentStarts(t) \/ Closes(t) PROVE OwnsDelivery'
  BY <1>3 DEF AgentStarts, Closes, OwnsDelivery
<1>4. CASE Reload
  BY <1>4, NoCallType DEF Reload, OwnsDelivery, Steering, Delivery
<1>5. CASE UNCHANGED vars
  BY <1>5 DEF vars, OwnsDelivery
<1> QED
  BY <1>1, <1>2, <1>3, <1>4, <1>5 DEF Next

\* A call at work on a target owns its delivery, in every reachable state.
THEOREM DeliveryOwned == Spec => []OwnsDelivery
<1>1. Init => OwnsDelivery
  BY NoCallType DEF Init, OwnsDelivery, Steering, Delivery
<1> QED
  BY <1>1, OwnsDeliveryStep, TypeCorrect, PTL DEF Spec

\* No two calls ever read, send or steer to one target at the same time: the
\* `delivering' map of notice-queue.ts is a mutual exclusion.
THEOREM OneDeliveryHolds == Spec => []OneDelivery
<1>1. OwnsDelivery => OneDelivery
  BY DEF OwnsDelivery, OneDelivery, InDelivery
<1> QED
  BY <1>1, DeliveryOwned, PTL

-----------------------------------------------------------------------------
(* One notice per idle moment.                                             *)

\* Call p moves on, and is about to send only if it had read its target idle.
Moves(p) ==
  /\ \A q \in Tasks : q # p => task'[q] = task[q]
  /\ task'[p].pc # "looked"
  /\ task'[p].pc = "send" => /\ task[p].pc = "looked" /\ ReadIdle(task[p].seen)
                             /\ task'[p].target = task[p].target

LEMMA HelperMoves ==
  ASSUME TypeOK, NEW p \in Tasks
  PROVE  /\ \A t \in Targets : Deliver(p, t) => Moves(p)
         /\ Return(p) => Moves(p)
         /\ LookAgain(p) => Moves(p)
         /\ \A next : next.pc \notin {"looked", "send"} /\ LeaveSteer(p, next) => Moves(p)
<1>0. task \in [Tasks -> TaskRecord] /\ NoCall.pc = "idle"
  BY NoCallType DEF TypeOK
<1>1. \A t \in Targets : Deliver(p, t) => Moves(p)
  BY <1>0 DEF Deliver, Moves, Look, Idle
<1>2. Return(p) => Moves(p)
  BY <1>0 DEF Return, Moves, At, Idle
<1>3. LookAgain(p) => Moves(p)
  BY <1>0, <1>2 DEF LookAgain, Moves, At, Idle
<1>4. ASSUME NEW next, next.pc \notin {"looked", "send"}, LeaveSteer(p, next)
      PROVE  Moves(p)
  <2>1. \/ task' = [task EXCEPT ![p] = [At(p, task[p].target, "look") EXCEPT !.entry = next.entry]]
        \/ task' = [task EXCEPT ![p] = next]
    BY <1>4 DEF LeaveSteer
  <2> QED
    BY <1>0, <1>4, <2>1 DEF Moves, At, Idle
<1> QED
  BY <1>1, <1>2, <1>3, <1>4

LEMMA ProceedMoves ==
  ASSUME TypeOK, NEW p \in Tasks, Proceed(p)
  PROVE  Moves(p) /\ UNCHANGED agent
<1>0. task \in [Tasks -> TaskRecord] /\ NoCall.pc = "idle" /\ task[p].target \in Targets
  BY NoCallType, TaskTarget DEF TypeOK
<1>1. CASE StepWait(p) \/ StepGone(p) \/ StepEmpty(p)
  BY <1>0, <1>1, HelperMoves DEF StepWait, StepGone, StepEmpty
<1>2. CASE StepTake(p)
  <2>1. PICK head, expired, held : Take(p, head, expired, held)
    BY <1>2 DEF StepTake
  <2> DEFINE sending == TakenWith(task[p].target, head) \ (expired \cup held)
  <2>2. CASE sending = {}
    BY <1>2, <2>1, <2>2, HelperMoves DEF StepTake, Take
  <2>3. CASE sending # {}
    <3>1. task' = [task EXCEPT ![p] = [At(p, task[p].target, "send") EXCEPT !.msg = sending]]
      BY <2>1, <2>3 DEF Take
    <3> QED
      BY <1>0, <1>2, <3>1 DEF StepTake, ReadIdle, Moves, At, Idle
  <2> QED
    BY <2>2, <2>3
<1>3. CASE SendResolved(p) \/ SendRejected(p)
  BY <1>0, <1>3, HelperMoves DEF SendResolved, SendRejected
<1>4. CASE SteerRefused(p)
  <2>1. At(p, task[p].target, "refused").pc = "refused"
    BY DEF At, Idle
  <2> QED
    BY <1>4, <2>1, HelperMoves DEF SteerRefused
<1>5. CASE SteerRejected(p) \/ SteerChecked(p)
  BY <1>0, <1>5, HelperMoves DEF SteerRejected, SteerChecked
<1>6. CASE SteerSend(p) \/ SteerResolved(p)
  BY <1>0, <1>6 DEF SteerSend, SteerResolved, Moves, TaskRecord, Fields
<1>7. CASE PutRefused(p)
  BY <1>0, <1>7, HelperMoves DEF PutRefused, PutAndDeliver, Moves
<1>8. CASE HostHandled(p) \/ EndTold(p)
  <2>1. CASE DeliverQueued(p)
    BY <1>0, <1>8, <2>1, HelperMoves DEF DeliverQueued, HostHandled, EndTold, Moves
  <2>2. CASE ~DeliverQueued(p)
    <3>1. PICK m : task' = [task EXCEPT ![p].pc = "ending", ![p].told = m.items]
      BY <1>8, <2>2 DEF HostHandled, EndTold
    <3> QED
      BY <1>0, <1>8, <3>1 DEF HostHandled, EndTold, Moves, TaskRecord, Fields
  <2> QED
    BY <2>1, <2>2
<1> QED
  BY <1>1, <1>2, <1>3, <1>4, <1>5, <1>6, <1>7, <1>8 DEF Proceed

LEMMA CallMoves ==
  ASSUME TypeOK, NEW p \in Tasks, Call(p)
  PROVE  Moves(p) /\ UNCHANGED agent
<1>0. task \in [Tasks -> TaskRecord] /\ NoCall.pc = "idle" /\ task[p].pc = "idle"
  BY NoCallType DEF TypeOK, Call
<1>1. ASSUME NEW t \in Targets, NEW S, NEW ord, NEW bring, PutAndDeliver(p, t, S, ord, bring)
      PROVE  Moves(p) /\ UNCHANGED agent
  BY <1>0, <1>1, HelperMoves DEF PutAndDeliver, Moves
<1>2. ASSUME NEW old, NEW new \in Targets, NEW bring, Retarget(p, old, new, bring)
      PROVE  Moves(p) /\ UNCHANGED agent
  BY <1>0, <1>2, HelperMoves DEF Retarget, Moves
<1>3. ASSUME NEW e, NEW t \in Targets, StartSteer(p, t, e)
      PROVE  Moves(p) /\ UNCHANGED agent
  BY <1>0, <1>3 DEF StartSteer, Moves, Idle
<1> QED
  BY <1>1, <1>2, <1>3 DEF Call, Enqueue, EnqueueBatch

OthersTurn(a) == a.status # "running" \/ a.by = {}
AboutToSend(r) == (r.pc = "looked" /\ ReadIdle(r.seen)) \/ r.pc = "send"

LEMMA NoOwnTurnStep ==
  TypeOK /\ OwnsDelivery /\ NoOwnTurnToReplace /\ [Next]_vars => NoOwnTurnToReplace'
<1> SUFFICES ASSUME TypeOK, OwnsDelivery, NoOwnTurnToReplace, [Next]_vars
             PROVE  NoOwnTurnToReplace'
  OBVIOUS
<1>0. /\ task \in [Tasks -> TaskRecord]
      /\ \A q \in Tasks : task[q].target \in Targets
      /\ \A q \in Tasks : AboutToSend(task[q]) => OthersTurn(agent[task[q].target])
      /\ agent \in [Targets -> [status : Statuses, turn : Nat, by : SUBSET Entries]]
      /\ \A q, p \in Tasks : Working(task[q]) /\ Working(task[p]) /\ task[q].target = task[p].target => p = q
  BY TaskTarget DEF TypeOK, OwnsDelivery, NoOwnTurnToReplace, AboutToSend, OthersTurn, Working
<1>1. SUFFICES \A q \in Tasks : AboutToSend(task'[q]) => OthersTurn(agent'[task'[q].target])
  BY DEF NoOwnTurnToReplace, AboutToSend, OthersTurn
<1>2. ASSUME NEW p \in Tasks, Proceed(p) \/ Call(p)
      PROVE  \A q \in Tasks : AboutToSend(task'[q]) => OthersTurn(agent'[task'[q].target])
  <2>1. Moves(p) /\ UNCHANGED agent
    BY <1>2, ProceedMoves, CallMoves
  <2> QED
    BY <1>0, <2>1 DEF Moves, AboutToSend, OthersTurn
<1>3. ASSUME NEW p \in Tasks, Refreshed(p)
      PROVE  \A q \in Tasks : AboutToSend(task'[q]) => OthersTurn(agent'[task'[q].target])
  <2>1. \A q \in Tasks : q # p => task'[q] = task[q]
    BY <1>0, <1>3 DEF Refreshed
  <2>2. /\ UNCHANGED agent
        /\ task'[p].target = task[p].target
        /\ AboutToSend(task'[p]) => agent[task[p].target].status # "running"
    BY <1>0, <1>3 DEF Refreshed, AboutToSend, ReadIdle, IsBusy, TaskRecord, Fields
  <2> QED
    BY <1>0, <2>1, <2>2 DEF OthersTurn
<1>4. ASSUME NEW p \in Tasks, SendArrives(p) \/ SteerArrives(p)
      PROVE  \A q \in Tasks : AboutToSend(task'[q]) => OthersTurn(agent'[task'[q].target])
  <2>1. /\ \A q \in Tasks : q # p => task'[q] = task[q]
        /\ Working(task[p]) /\ ~AboutToSend(task'[p])
    BY <1>0, <1>4 DEF SendArrives, SteerArrives, AboutToSend, TaskRecord, Fields, Working, Steering, Delivery
  <2>2. \A t \in Targets : t # task[p].target => agent'[t] = agent[t]
    BY <1>0, <1>4 DEF SendArrives, SteerArrives
  <2>3. \A q \in Tasks : AboutToSend(task[q]) => Working(task[q])
    BY DEF AboutToSend, Working, Delivery
  <2> QED
    BY <1>0, <2>1, <2>2, <2>3 DEF OthersTurn
<1>5. ASSUME NEW t \in Targets, NEW p \in Tasks, TurnEnds(t, p)
      PROVE  \A q \in Tasks : AboutToSend(task'[q]) => OthersTurn(agent'[task'[q].target])
  BY <1>0, <1>5 DEF TurnEnds, AboutToSend, OthersTurn, Idle
<1>6. ASSUME NEW t \in Targets, AgentStarts(t) \/ Closes(t)
      PROVE  \A q \in Tasks : AboutToSend(task'[q]) => OthersTurn(agent'[task'[q].target])
  BY <1>0, <1>6 DEF AgentStarts, Closes, AboutToSend, OthersTurn
<1>7. CASE Reload
  BY <1>0, <1>7, NoCallType DEF Reload, AboutToSend, OthersTurn
<1>8. CASE UNCHANGED vars
  BY <1>0, <1>8 DEF vars, AboutToSend, OthersTurn
<1> QED
  BY <1>2, <1>3, <1>4, <1>5, <1>6, <1>7, <1>8 DEF Next, Answer

\* One notice per idle moment: no send of the queue replaces a turn that one
\* of its notices began, whatever else asks for a delivery meanwhile.
THEOREM OwnTurnIsKept == Spec => OwnTurnKept
<1>1. Init => NoOwnTurnToReplace
  BY NoCallType DEF Init, NoOwnTurnToReplace
<1> DEFINE Kept(t) == agent[t].status = "running" /\ agent[t].by # {} /\ agent'[t].turn # agent[t].turn =>
                        \E p \in Tasks : task[p].target = t /\ task[p].pc = "steer"
<1>2. TypeOK /\ NoOwnTurnToReplace /\ [Next]_vars => [\A t \in Targets : Kept(t)]_vars
  <2> SUFFICES ASSUME TypeOK, NoOwnTurnToReplace, [Next]_vars, NEW t \in Targets
               PROVE  Kept(t)
    OBVIOUS
  <2>1. ASSUME NEW p \in Tasks, Proceed(p) \/ Call(p) \/ Refreshed(p)
        PROVE  Kept(t)
    BY <2>1, ProceedMoves, CallMoves DEF Refreshed
  <2>2. ASSUME NEW p \in Tasks, SendArrives(p)
        PROVE  Kept(t)
    BY <2>2 DEF SendArrives, TypeOK, NoOwnTurnToReplace
  <2>3. ASSUME NEW p \in Tasks, SteerArrives(p)
        PROVE  Kept(t)
    BY <2>3 DEF SteerArrives, TypeOK
  <2>4. ASSUME NEW u \in Targets, AgentStarts(u) \/ Closes(u) \/ \E p \in Tasks : TurnEnds(u, p)
        PROVE  Kept(t)
    BY <2>4 DEF AgentStarts, Closes, TurnEnds, TypeOK
  <2>5. CASE Reload \/ UNCHANGED vars
    BY <2>5 DEF Reload, vars
  <2> QED
    BY <2>1, <2>2, <2>3, <2>4, <2>5 DEF Next, Answer
<1> QED
  BY <1>1, <1>2, NoOwnTurnStep, TypeCorrect, DeliveryOwned, PTL DEF Spec, OwnTurnKept
=============================================================================
