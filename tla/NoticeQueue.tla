---------------------------- MODULE NoticeQueue ----------------------------
(***************************************************************************)
(* The notice queue of plugin/server/notice-queue.ts: the one way the      *)
(* plugin sends a notice to an agent that may be running.  Sending to a    *)
(* running agent replaces its turn, so a notice waits in the target's      *)
(* queue until a refresh reads the target idle.                            *)
(*                                                                         *)
(* Every asynchronous call of the module (enqueue, enqueueBatch, turnEnded,*)
(* retarget) is a task.  A task runs until its next await in one action,   *)
(* as a JavaScript call does; the daemon answers between two actions.      *)
(*                                                                         *)
(* A notice is one value of Entries: its kind, batch, group and priority   *)
(* are constants, its text is left out.  A target's queue is the set of    *)
(* its entries with the order `before' in which put appended them.         *)
(***************************************************************************)
EXTENDS Naturals

CONSTANTS
  Targets,       \* agents a notice may go to
  Entries,       \* the notices of the run, each put at most once by a caller
  Tasks,         \* calls that may be in progress at once (a bound)
  NoEntry,       \* no steered entry
  NoTask,        \* the owner of a free delivery
  NoBatch,       \* the batch of a single notice
  KindOf,        \* entry -> its kind
  BatchOf,       \* entry -> its batch's name, or NoBatch
  GroupOf,       \* entry -> its batch group
  First,         \* entries that go before all others of their target
  Words,         \* the owner's words: entries queued with options.steer
  WithTurnEnd,   \* batches with an onTurnEnded callback
  MayExpire,     \* entries whose isCurrent may answer false
  MayHold,       \* entries whose isHeld may answer true
  MayClose,      \* targets the owner may archive or close
  Bring,         \* whether callers pass a Paseo handle: a subset of BOOLEAN
  RefreshFails,  \* may a refresh be rejected?
  SendFails,     \* may a send be rejected, before or after it took effect?
  EarlyTurnEnd,  \* may a turn end before the reply of the send that began it?
  MayReload,     \* may the plugin be reloaded?
  MaxTurns       \* bound: no turn of others starts past this turn number

ASSUME ValuesAssumption ==
  /\ Targets # {}
  /\ NoEntry \notin Entries
  /\ NoTask \notin Tasks
  /\ First \subseteq Entries
  /\ Words \subseteq {e \in Entries : BatchOf[e] = NoBatch}
  /\ {RefreshFails, SendFails, EarlyTurnEnd, MayReload} \subseteq BOOLEAN
  /\ Bring \subseteq BOOLEAN
  /\ MaxTurns \in Nat

VARIABLES
  st,           \* entry -> its Entry.state ("new": not made, "steering": made, not put)
  queued,       \* target -> the entries of its queue
  before,       \* the order of every queue: pairs of its entries, older first
  delivering,   \* target -> the task that delivers to it, and `again'
  awaitingEnd,  \* target -> its batch messages whose turn end is to come
  lastPaseo,    \* whether the queue knows a Paseo handle
  task,         \* task -> where its call is
  agent,        \* target -> the daemon's agent
  delivered     \* history: the entries the daemon took

vars == <<st, queued, before, delivering, awaitingEnd, lastPaseo, task, agent, delivered>>

EntryStates == {"new", "steering", "queued", "sending", "held", "sent",
                "dropped", "replaced", "steered", "turn-replaced"}
Statuses == {"initializing", "idle", "running", "closed"}
Steering == {"steerRead", "steerSeen", "steer", "steered", "steerFailed", "check", "checked"}
Delivery == {"look", "looked", "send", "accepted", "sendFailed"}
Pcs == {"idle", "refused", "host", "ending"} \cup Steering \cup Delivery

Lock == [by : Tasks \cup {NoTask}, again : BOOLEAN]
Free == [by |-> NoTask, again |-> FALSE]

\* A message whose turn end is to come.  `after', the target's turn number when
\* it was pushed, orders them as the code's list does: the push of a later one
\* follows a send that began a turn.
Message == [batch : WithTurnEnd, items : SUBSET Entries, after : Nat]

\* A call: `entry' is the entry it steers, `seen' the reply it was given,
\* `msg' what it sends (of a turn end: what began that turn), `turn' the turn
\* it steers into, `told' the items of the message whose end it tells.
Idle(t) == [pc |-> "idle", target |-> t, entry |-> NoEntry, seen |-> "none",
            msg |-> {}, turn |-> 0, told |-> {}]
Fields == [pc : Pcs, target : Targets, entry : Entries \cup {NoEntry},
           seen : Statuses \cup {"none", "error", "same", "other"},
           msg : SUBSET Entries, turn : Nat, told : SUBSET Entries]
TaskRecord == {r \in Fields : r.pc \in Steering \cup {"refused"} => r.entry # NoEntry}
NoCall == Idle(CHOOSE t \in Targets : TRUE)

\* A mutant of At: the steered entry is forgotten.
AtAlone(p, t, pc) == [Idle(t) EXCEPT !.pc = pc]

\* The next record of call p, which keeps the entry it steers.
At(p, t, pc) == [Idle(t) EXCEPT !.pc = pc, !.entry = task[p].entry]
Look(t) == [Idle(t) EXCEPT !.pc = "look"]

-----------------------------------------------------------------------------
(* The queue of one target.                                                *)

\* What is left of the order without the entries of S.
Without(S) == {pair \in before : pair[1] \notin S /\ pair[2] \notin S}

\* The queued entries of t that an entry of S replaces.
SameKind(t, S) == {old \in queued[t] : \E e \in S : KindOf[e] = KindOf[old]}

\* put, for every entry of S in the order ord; their kinds differ.
Put(t, S, ord) ==
  LET old == SameKind(t, S) IN
  /\ st' = [e \in Entries |-> IF e \in S THEN "queued"
                              ELSE IF e \in old THEN "replaced" ELSE st[e]]
  /\ queued' = [queued EXCEPT ![t] = (@ \ old) \cup S]
  /\ before' = Without(old \cup S) \cup ((queued[t] \ old) \X S) \cup ord

\* A mutant of Oldest: the newest goes.
Newest(S) == {e \in S : \A f \in S : <<e, f>> \notin before}

Oldest(S) == {e \in S : \A f \in S : <<f, e>> \notin before}

\* headOf: the oldest first entry, else the oldest; at most one element.
HeadOf(t) == IF queued[t] \cap First # {} THEN Oldest(queued[t] \cap First)
             ELSE Oldest(queued[t])

\* take and takeBatch: what leaves the queue with the head.
TakenWith(t, head) ==
  IF BatchOf[head] = NoBatch THEN {head}
  ELSE {e \in queued[t] : BatchOf[e] = BatchOf[head] /\ GroupOf[e] = GroupOf[head]}

-----------------------------------------------------------------------------
(* deliver and step.                                                       *)

\* A mutant of IsBusy: a running target counts as idle.
IsInitializing(status) == status = "initializing"

IsBusy(status) == status \in {"running", "initializing"}

\* What step takes for an idle target.
ReadIdle(seen) == seen \notin {"error", "closed"} /\ ~IsBusy(seen)

\* A mutant of Deliver: it does not look whether another call delivers.
DeliverAtOnce(p, t) ==
  /\ delivering' = [delivering EXCEPT ![t] = [by |-> p, again |-> FALSE]]
  /\ task' = [task EXCEPT ![p] = Look(t)]

\* deliver for a queue that holds something: one delivery per target.
Deliver(p, t) ==
  IF delivering[t] = Free
  THEN /\ delivering' = [delivering EXCEPT ![t] = [by |-> p, again |-> FALSE]]
       /\ task' = [task EXCEPT ![p] = Look(t)]
  ELSE /\ delivering' = [delivering EXCEPT ![t].again = TRUE]
       /\ task' = [task EXCEPT ![p] = NoCall]

\* The loop returns; a call whose steer was refused puts its entry next.
Return(p) ==
  LET t == task[p].target IN
  /\ delivering' = [delivering EXCEPT ![t] = Free]
  /\ task' = [task EXCEPT ![p] = IF task[p].entry = NoEntry THEN NoCall ELSE At(p, t, "refused")]

\* One more look, unless nothing is queued ("empty").
LookAgain(p) ==
  LET t == task[p].target IN
  IF queued'[t] = {} THEN Return(p)
  ELSE /\ delivering' = [delivering EXCEPT ![t].again = FALSE]
       /\ task' = [task EXCEPT ![p] = At(p, t, "look")]

\* step, the refresh was rejected ("unknown") or read a turn ("busy").
StepWait(p) ==
  /\ task[p].pc = "looked"
  /\ task[p].seen = "error" \/ IsBusy(task[p].seen)
  /\ UNCHANGED <<st, queued, before, awaitingEnd, lastPaseo, agent, delivered>>
  /\ IF delivering[task[p].target].again THEN LookAgain(p) ELSE Return(p)

\* step, the target is archived, closed or gone: dropAll.
StepGone(p) ==
  LET t == task[p].target IN
  /\ task[p].pc = "looked"
  /\ task[p].seen = "closed"
  /\ st' = [e \in Entries |-> IF e \in queued[t] THEN "dropped" ELSE st[e]]
  /\ before' = Without(queued[t])
  /\ queued' = [queued EXCEPT ![t] = {}]
  /\ Return(p)
  /\ UNCHANGED <<awaitingEnd, lastPaseo, agent, delivered>>

\* step, the target is idle but its queue was emptied during the refresh.
StepEmpty(p) ==
  /\ task[p].pc = "looked"
  /\ ReadIdle(task[p].seen)
  /\ queued[task[p].target] = {}
  /\ Return(p)
  /\ UNCHANGED <<st, queued, before, awaitingEnd, lastPaseo, agent, delivered>>

\* The message of the sent items, when its batch wants to know its turn end.
Awaited(t, head, sending) ==
  {m \in {[batch |-> BatchOf[head], items |-> sending, after |-> agent[t].turn]} :
     m.batch \in WithTurnEnd}

\* The head leaves the queue with its group: items that expired are dropped,
\* items the wake gate holds are held, the rest goes as one message.
Take(p, head, expired, held) ==
  LET t == task[p].target
      taken == TakenWith(t, head)
      sending == taken \ (expired \cup held) IN
  /\ st' = [e \in Entries |-> IF e \in expired THEN "dropped"
                              ELSE IF e \in held THEN "held"
                              ELSE IF e \in sending THEN "sending" ELSE st[e]]
  /\ queued' = [queued EXCEPT ![t] = @ \ taken]
  /\ before' = Without(taken)
  /\ IF sending = {}
     THEN LookAgain(p) /\ UNCHANGED awaitingEnd
     ELSE /\ task' = [task EXCEPT ![p] = [At(p, t, "send") EXCEPT !.msg = sending]]
          /\ awaitingEnd' = [awaitingEnd EXCEPT ![t] = @ \cup Awaited(t, head, sending)]
          /\ UNCHANGED delivering

\* step, the target is idle: its next notice goes.
StepTake(p) ==
  /\ task[p].pc = "looked"
  /\ ReadIdle(task[p].seen)
  /\ \E head \in HeadOf(task[p].target) :
       LET taken == TakenWith(task[p].target, head) IN
       \E expired \in SUBSET (taken \cap MayExpire) :
         \E held \in SUBSET ((taken \ expired) \cap MayHold) : Take(p, head, expired, held)
  /\ UNCHANGED <<lastPaseo, agent, delivered>>

\* step, the send resolved: "sent", and the loop returns whatever `again' says.
SendResolved(p) ==
  /\ task[p].pc = "accepted"
  /\ st' = [e \in Entries |-> IF e \in task[p].msg THEN "sent" ELSE st[e]]
  /\ Return(p)
  /\ UNCHANGED <<queued, before, awaitingEnd, lastPaseo, agent, delivered>>

\* A mutant of StillAwaited: a failed send leaves its message waiting.
AllAwaited(t, sent) == awaitingEnd[t]

\* The messages of the failed one's batch object no longer await a turn end.
StillAwaited(t, sent) == {message \in awaitingEnd[t] : \A e \in sent : message.batch # BatchOf[e]}

\* A mutant of SendRejected: what could not be sent is queued again.
SendRetried(p) ==
  LET t == task[p].target IN
  /\ task[p].pc = "sendFailed"
  /\ st' = [e \in Entries |-> IF e \in task[p].msg THEN "queued" ELSE st[e]]
  /\ queued' = [queued EXCEPT ![t] = @ \cup task[p].msg]
  /\ before' = before \cup (queued[t] \X task[p].msg)
  /\ awaitingEnd' = [awaitingEnd EXCEPT ![t] = StillAwaited(t, task[p].msg)]
  /\ LookAgain(p)
  /\ UNCHANGED <<lastPaseo, agent, delivered>>

\* step, the send was rejected: "failed", and the next queued notice is tried.
SendRejected(p) ==
  LET t == task[p].target IN
  /\ task[p].pc = "sendFailed"
  /\ st' = [e \in Entries |-> IF e \in task[p].msg THEN "dropped" ELSE st[e]]
  /\ UNCHANGED <<queued, before, lastPaseo, agent, delivered>>
  /\ awaitingEnd' = [awaitingEnd EXCEPT ![t] = StillAwaited(t, task[p].msg)]
  /\ LookAgain(p)

-----------------------------------------------------------------------------
(* enqueue, enqueueBatch, retarget and the turn end.                       *)

\* The put and deliver that end enqueue and enqueueBatch.
PutAndDeliver(p, t, S, ord, bring) ==
  /\ Put(t, S, ord)
  /\ lastPaseo' = (lastPaseo \/ bring)
  /\ IF lastPaseo' THEN Deliver(p, t)
     ELSE task' = [task EXCEPT ![p] = NoCall] /\ UNCHANGED delivering
  /\ UNCHANGED <<awaitingEnd, agent, delivered>>

\* enqueue of a single notice; the owner's words come here at once only when
\* the queue knows no handle or trySteer answers null before it reads the target.
Enqueue(p, t, e, bring) ==
  /\ task[p].pc = "idle"
  /\ st[e] = "new"
  /\ BatchOf[e] = NoBatch
  /\ e \in Words => delivering[t] # Free \/ e \in MayHold \/ ~(lastPaseo \/ bring)
  /\ PutAndDeliver(p, t, {e}, {}, bring)

\* enqueueBatch: every item is put before the one delivery.  Callers give the
\* items of one call different keys (event-bus.ts, outbox.ts).
EnqueueBatch(p, t, S, ord, bring) ==
  /\ task[p].pc = "idle"
  /\ S # {}
  /\ \A e \in S : st[e] = "new" /\ BatchOf[e] # NoBatch
  /\ \A e, f \in S : /\ BatchOf[e] = BatchOf[f]
                     /\ e # f => KindOf[e] # KindOf[f]
                     /\ e # f => (<<e, f>> \in ord <=> <<f, e>> \notin ord)
  /\ PutAndDeliver(p, t, S, ord, bring)

\* A mutant of QueuesAfterMove: the old queue keeps what moved.
QueuesAfterCopy(old, new, kept) == [queued EXCEPT ![new] = kept \cup queued[old]]

QueuesAfterMove(old, new, kept) == [queued EXCEPT ![old] = {}, ![new] = kept \cup queued[old]]

\* retarget: the queue of old moves behind the queue of new, in its order.
Retarget(p, old, new, bring) ==
  LET moved == queued[old]
      replaced == SameKind(new, moved)
      kept == queued[new] \ replaced IN
  /\ task[p].pc = "idle"
  /\ old # new
  /\ moved # {}
  /\ st' = [e \in Entries |-> IF e \in replaced THEN "replaced" ELSE st[e]]
  /\ queued' = QueuesAfterMove(old, new, kept)
  /\ before' = Without(replaced) \cup (kept \X moved)
  /\ lastPaseo' = (lastPaseo \/ bring)
  /\ IF lastPaseo' THEN Deliver(p, new) ELSE UNCHANGED <<delivering, task>>
  /\ UNCHANGED <<awaitingEnd, agent, delivered>>

\* turnEnded after its endOne: deliver what the target's queue holds.
DeliverQueued(p) ==
  IF queued[task[p].target] = {}
  THEN task' = [task EXCEPT ![p] = NoCall] /\ UNCHANGED delivering
  ELSE Deliver(p, task[p].target)

\* endOne: the oldest message of t that awaits a turn end; at most one element.
OldestAwaiting(t) == {m \in awaitingEnd[t] : \A n \in awaitingEnd[t] : m.after <= n.after}

\* The host module's own turn_ended handler settled: queue.turnEnded.
HostHandled(p) ==
  LET t == task[p].target IN
  /\ task[p].pc = "host"
  /\ lastPaseo' = TRUE
  /\ IF awaitingEnd[t] = {}
     THEN DeliverQueued(p) /\ UNCHANGED awaitingEnd
     ELSE \E message \in OldestAwaiting(t) :
            /\ awaitingEnd' = [awaitingEnd EXCEPT ![t] = @ \ {message}]
            /\ task' = [task EXCEPT ![p].pc = "ending", ![p].told = message.items]
            /\ UNCHANGED delivering
  /\ UNCHANGED <<st, queued, before, agent, delivered>>

\* onTurnEnded settled.
EndTold(p) ==
  /\ task[p].pc = "ending"
  /\ DeliverQueued(p)
  /\ UNCHANGED <<st, queued, before, awaitingEnd, lastPaseo, agent, delivered>>

-----------------------------------------------------------------------------
(* trySteer: the owner's words into a running turn.  It holds the target's *)
(* delivery; the read of the provider's base is part of its first refresh. *)

StartSteer(p, t, e) ==
  /\ task[p].pc = "idle"
  /\ st[e] = "new"
  /\ e \in Words
  /\ delivering[t] = Free
  /\ st' = [st EXCEPT ![e] = "steering"]
  /\ lastPaseo' = TRUE
  /\ delivering' = [delivering EXCEPT ![t] = [by |-> p, again |-> FALSE]]
  /\ task' = [task EXCEPT ![p] = [Idle(t) EXCEPT !.pc = "steerRead", !.entry = e]]
  /\ UNCHANGED <<queued, before, awaitingEnd, agent, delivered>>

\* A mutant of LeaveSteer: its finally asks for the delivery before it frees
\* the target's, so the request is lost with the lock.
LeaveSteerFirst(p, next) ==
  /\ delivering' = [delivering EXCEPT ![task[p].target] = Free]
  /\ task' = [task EXCEPT ![p] = next]

\* Its finally: a delivery asked for meanwhile runs now, in the same call.
\* next is the call's record when there is none.
LeaveSteer(p, next) ==
  LET t == task[p].target IN
  IF delivering[t].again /\ queued'[t] # {}
  THEN /\ delivering' = [delivering EXCEPT ![t].again = FALSE]
       /\ task' = [task EXCEPT ![p] = [At(p, t, "look") EXCEPT !.entry = next.entry]]
  ELSE /\ delivering' = [delivering EXCEPT ![t] = Free]
       /\ task' = [task EXCEPT ![p] = next]

\* The reply shows no running turn, or a guard of steerRefusalOf fails: null.
SteerRefused(p) ==
  /\ task[p].pc = "steerSeen"
  /\ UNCHANGED <<st, queued, before, awaitingEnd, lastPaseo, agent, delivered>>
  /\ LeaveSteer(p, At(p, task[p].target, "refused"))

SteerSend(p) ==
  /\ task[p].pc = "steerSeen"
  /\ task[p].seen = "running"
  /\ task' = [task EXCEPT ![p].pc = "steer", ![p].seen = "none"]
  /\ UNCHANGED <<st, queued, before, delivering, awaitingEnd, lastPaseo, agent, delivered>>

\* The send of the steer was rejected.
SteerRejected(p) ==
  /\ task[p].pc = "steerFailed"
  /\ st' = [st EXCEPT ![task[p].entry] = "dropped"]
  /\ UNCHANGED <<queued, before, awaitingEnd, lastPaseo, agent, delivered>>
  /\ LeaveSteer(p, NoCall)

\* It resolved: the turn is read again.
SteerResolved(p) ==
  /\ task[p].pc = "steered"
  /\ task' = [task EXCEPT ![p].pc = "check"]
  /\ UNCHANGED <<st, queued, before, delivering, awaitingEnd, lastPaseo, agent, delivered>>

\* The turn read: queued notices of its kind are replaced, and its sender told.
SteerChecked(p) ==
  LET t == task[p].target
      e == task[p].entry
      old == SameKind(t, {e}) IN
  /\ task[p].pc = "checked"
  /\ st' = [f \in Entries |->
              IF f = e THEN (IF task[p].seen = "other" THEN "turn-replaced" ELSE "steered")
              ELSE IF f \in old THEN "replaced" ELSE st[f]]
  /\ queued' = [queued EXCEPT ![t] = @ \ old]
  /\ before' = Without(old)
  /\ LeaveSteer(p, NoCall)
  /\ UNCHANGED <<awaitingEnd, lastPaseo, agent, delivered>>

\* enqueue after trySteer answered null: put and deliver.
PutRefused(p) ==
  /\ task[p].pc = "refused"
  /\ PutAndDeliver(p, task[p].target, {task[p].entry}, {}, TRUE)

\* remove then register again (a plugin reload): clear, and the turn ends the
\* host's handler still holds are not handed on.  Calls in progress go on.
Reload ==
  /\ MayReload
  /\ st' = [e \in Entries |-> IF \E t \in Targets : e \in queued[t] THEN "dropped" ELSE st[e]]
  /\ queued' = [t \in Targets |-> {}]
  /\ before' = {}
  /\ awaitingEnd' = [t \in Targets |-> {}]
  /\ lastPaseo' = FALSE
  /\ task' = [p \in Tasks |-> IF task[p].pc = "host" THEN NoCall ELSE task[p]]
  /\ UNCHANGED <<delivering, agent, delivered>>

-----------------------------------------------------------------------------
(* The daemon, as the module uses it.                                      *)

\* A turn of others starts: the owner's, or one another module sends.
AgentStarts(t) ==
  /\ agent[t].status \in {"idle", "initializing"}
  /\ agent[t].turn < MaxTurns
  /\ agent' = [agent EXCEPT ![t] = [status |-> "running", turn |-> @.turn + 1, by |-> {}]]
  /\ UNCHANGED <<st, queued, before, delivering, awaitingEnd, lastPaseo, task, delivered>>

\* A turn ends, and its turn_ended event reaches the host's handler.
TurnEnds(t, p) ==
  /\ agent[t].status = "running"
  /\ task[p].pc = "idle"
  /\ ~EarlyTurnEnd => \A q \in Tasks : task[q].target = t =>
                        task[q].pc \notin {"accepted", "sendFailed", "steered", "steerFailed"}
  /\ agent' = [agent EXCEPT ![t].status = "idle"]
  /\ task' = [task EXCEPT ![p] = [Idle(t) EXCEPT !.pc = "host", !.msg = agent[t].by]]
  /\ UNCHANGED <<st, queued, before, delivering, awaitingEnd, lastPaseo, delivered>>

Closes(t) ==
  /\ t \in MayClose
  /\ agent[t].status # "closed"
  /\ agent' = [agent EXCEPT ![t].status = "closed"]
  /\ UNCHANGED <<st, queued, before, delivering, awaitingEnd, lastPaseo, task, delivered>>

\* A refresh: the reply shows the agent as it is now.
Refreshed(p) ==
  LET now == agent[task[p].target] IN
  /\ \/ /\ task[p].pc = "look"
        /\ \/ task' = [task EXCEPT ![p].pc = "looked", ![p].seen = now.status]
           \/ RefreshFails /\ task' = [task EXCEPT ![p].pc = "looked", ![p].seen = "error"]
     \/ /\ task[p].pc = "steerRead"
        /\ \/ task' = [task EXCEPT ![p].pc = "steerSeen", ![p].seen = now.status, ![p].turn = now.turn]
           \/ RefreshFails /\ task' = [task EXCEPT ![p].pc = "steerSeen", ![p].seen = "error"]
     \/ /\ task[p].pc = "check"
        /\ task' = [task EXCEPT ![p].pc = "checked", ![p].seen =
                      IF now.status = "running" /\ now.turn # task[p].turn THEN "other" ELSE "same"]
  /\ UNCHANGED <<st, queued, before, delivering, awaitingEnd, lastPaseo, agent, delivered>>

\* A send reaches the daemon, which starts a turn with it whatever the agent
\* does (a running turn is replaced, an archived agent un-archived), or
\* rejects it; its reply may be lost once the turn has started.
SendArrives(p) ==
  LET t == task[p].target IN
  /\ task[p].pc = "send"
  /\ \/ /\ agent' = [agent EXCEPT ![t] =
                       [status |-> "running", turn |-> @.turn + 1, by |-> task[p].msg]]
        /\ delivered' = delivered \cup task[p].msg
        /\ \/ task' = [task EXCEPT ![p].pc = "accepted"]
           \/ SendFails /\ task' = [task EXCEPT ![p].pc = "sendFailed"]
     \/ /\ SendFails
        /\ task' = [task EXCEPT ![p].pc = "sendFailed"]
        /\ UNCHANGED <<agent, delivered>>
  /\ UNCHANGED <<st, queued, before, delivering, awaitingEnd, lastPaseo>>

\* A steer reaches the daemon: it joins the running turn, or starts one.
SteerArrives(p) ==
  LET t == task[p].target IN
  /\ task[p].pc = "steer"
  /\ \/ /\ \/ agent[t].status = "running" /\ UNCHANGED agent
           \/ agent' = [agent EXCEPT ![t] =
                          [status |-> "running", turn |-> @.turn + 1, by |-> {task[p].entry}]]
        /\ delivered' = delivered \cup {task[p].entry}
        /\ task' = [task EXCEPT ![p].pc = "steered"]
     \/ /\ SendFails
        /\ task' = [task EXCEPT ![p].pc = "steerFailed"]
        /\ UNCHANGED <<agent, delivered>>
  /\ UNCHANGED <<st, queued, before, delivering, awaitingEnd, lastPaseo>>

-----------------------------------------------------------------------------
Init ==
  /\ st = [e \in Entries |-> "new"]
  /\ queued = [t \in Targets |-> {}]
  /\ before = {}
  /\ delivering = [t \in Targets |-> Free]
  /\ awaitingEnd = [t \in Targets |-> {}]
  /\ lastPaseo = FALSE
  /\ task = [p \in Tasks |-> NoCall]
  /\ agent \in [Targets -> {[status |-> s, turn |-> 0, by |-> {}] : s \in {"initializing", "idle"}}]
  /\ delivered = {}

\* A step of a call in progress, up to its next await.
Proceed(p) ==
  \/ StepWait(p) \/ StepGone(p) \/ StepEmpty(p) \/ StepTake(p)
  \/ SendResolved(p) \/ SendRejected(p)
  \/ SteerRefused(p) \/ SteerSend(p) \/ SteerResolved(p) \/ SteerRejected(p) \/ SteerChecked(p)
  \/ PutRefused(p) \/ HostHandled(p) \/ EndTold(p)

\* The daemon answers a call.
Answer(p) == Refreshed(p) \/ SendArrives(p) \/ SteerArrives(p)

\* A caller uses the queue: it brings new notices, or a Main was replaced.
NewNotices(b) == {e \in Entries : st[e] = "new" /\ BatchOf[e] = b}
Orders(S) == SUBSET {pair \in S \X S : pair[1] # pair[2]}

Call(p) ==
  /\ task[p].pc = "idle"
  /\ \E bring \in Bring :
       \/ \E e \in NewNotices(NoBatch), t \in Targets : Enqueue(p, t, e, bring)
       \/ \E b \in {BatchOf[e] : e \in Entries} \ {NoBatch} : \E S \in SUBSET NewNotices(b) :
            \E ord \in Orders(S), t \in Targets : EnqueueBatch(p, t, S, ord, bring)
       \/ \E old, new \in Targets : Retarget(p, old, new, bring)
  \/ /\ task[p].pc = "idle"
     /\ \E e \in NewNotices(NoBatch), t \in Targets : StartSteer(p, t, e)

Next ==
  \/ \E p \in Tasks : Proceed(p) \/ Answer(p) \/ Call(p)
  \/ \E t \in Targets : AgentStarts(t) \/ Closes(t) \/ \E p \in Tasks : TurnEnds(t, p)
  \/ Reload

Spec == Init /\ [][Next]_vars

\* Every call runs on, the daemon answers, an agent being initialised gets its
\* first turn, and every turn ends at last.
Fairness ==
  /\ \A p \in Tasks : WF_vars(Proceed(p)) /\ WF_vars(Answer(p))
  /\ \A t \in Targets : /\ WF_vars(agent[t].status = "initializing" /\ AgentStarts(t))
                        /\ WF_vars(\E p \in Tasks : TurnEnds(t, p))

FairSpec == Spec /\ Fairness

-----------------------------------------------------------------------------
(* Properties.                                                             *)

TypeOK ==
  /\ st \in [Entries -> EntryStates]
  /\ queued \in [Targets -> SUBSET Entries]
  /\ before \in SUBSET (Entries \X Entries)
  /\ delivering \in [Targets -> Lock]
  /\ awaitingEnd \in [Targets -> SUBSET Message]
  /\ lastPaseo \in BOOLEAN
  /\ task \in [Tasks -> TaskRecord]
  /\ agent \in [Targets -> [status : Statuses, turn : Nat, by : SUBSET Entries]]
  /\ delivered \in SUBSET Entries

InDelivery(p, t) == task[p].target = t /\ task[p].pc \in Steering \cup Delivery

\* What a call in progress holds of the notices: off the queue, not settled.
Sending == {"send", "accepted", "sendFailed"}
Carried(p) == (IF task[p].pc \in Sending THEN task[p].msg ELSE {}) \cup ({task[p].entry} \ {NoEntry})

\* A call at work on a target owns the target's delivery.
OwnsDelivery ==
  \A p \in Tasks : task[p].pc \in Steering \cup Delivery => delivering[task[p].target].by = p

\* Two calls never read, send or steer to one target at the same time, though
\* every caller, turn end and steer may ask for a delivery at any moment.
OneDelivery ==
  \A t \in Targets, p, q \in Tasks : InDelivery(p, t) /\ InDelivery(q, t) => p = q

\* A notice that is not settled is in exactly one place: one target's queue or
\* one call's hands.  No interleaving loses it, or has it sent twice.
NoticeInOnePlace ==
  /\ \A e \in Entries : st[e] = "queued" <=> \E t \in Targets : e \in queued[t]
  /\ \A t, u \in Targets : queued[t] \cap queued[u] # {} => t = u
  /\ \A e \in Entries : st[e] \in {"sending", "steering"} <=> \E p \in Tasks : e \in Carried(p)
  /\ \A p, q \in Tasks : Carried(p) \cap Carried(q) # {} => p = q

\* A notice the daemon took is never on its way to it again.
NeverSentTwice ==
  /\ \A p \in Tasks : task[p].pc = "send" => task[p].msg \cap delivered = {}
  /\ \A p \in Tasks : task[p].pc = "steer" => task[p].entry \notin delivered

\* A turn end is awaited only for a message that went out or is going out:
\* a failed send leaves no end to be told.
AwaitedEndsAreReal ==
  \A t \in Targets : \A m \in awaitingEnd[t] : \A e \in m.items : st[e] \in {"sending", "sent"}

\* One notice per idle moment: no send of the queue replaces a turn that a
\* notice began; only a steer, which Paseo may refuse to join in, does.
OwnTurnKept ==
  [][\A t \in Targets :
       agent[t].status = "running" /\ agent[t].by # {} /\ agent'[t].turn # agent[t].turn =>
         \E p \in Tasks : task[p].target = t /\ task[p].pc = "steer"]_vars

\* While a call is about to send, no turn that a notice began runs.
NoOwnTurnToReplace ==
  \A p \in Tasks :
    (task[p].pc = "looked" /\ ReadIdle(task[p].seen)) \/ task[p].pc = "send" =>
      agent[task[p].target].status # "running" \/ agent[task[p].target].by = {}

\* No overtaking: a notice leaves the queue to be sent while an older one of
\* its target stays only if it goes first, or with an older one of its group.
NoOvertaking ==
  [][\A t \in Targets : \A e, f \in queued[t] :
       <<e, f>> \in before /\ st'[f] = "sending" /\ e \in queued'[t] =>
         \E g \in queued[t] \ queued'[t] :
           /\ g = f \/ (BatchOf[g] = BatchOf[f] /\ GroupOf[g] = GroupOf[f])
           /\ g \in First \/ <<g, e>> \in before]_vars

\* Every queued notice leaves the queue: sent, dropped, held or replaced.
QueuedLeaves == \A e \in Entries : st[e] = "queued" ~> st[e] # "queued"
=============================================================================
