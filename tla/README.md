# A verification development of paseo-bm

paseo-bm is a plugin of the Paseo daemon. It runs a hierarchy of AI agents - an
Orchestrator (the governor), one Main (Manager) per mission, Workers and
Reviewers - and carries every message between them. The agents are processes of
the daemon; the plugin is one JavaScript thread whose calls interleave at each
`await`, and which may be unloaded and loaded again at any moment. What it must
not lose, send twice or send into a running turn is what this project models.

The modules are TLA+, checked by TLC on small instances; the theorems are proved
by TLAPS for every value of the constants. `PROJECT.json` lists the runs, the
mutants that show each property can fail, the lines of the source each
definition stands for, the findings, the hazards and the theorems. Paths below
are under `src/plugin/server/` unless they say otherwise.

## 1. Inventory

| Part | State it keeps | Operations | Interacts through | Hard behaviour | Correct when |
|---|---|---|---|---|---|
| Notice queue (`notice-queue.ts`) | per target: queued entries, a delivery lock, awaited turn ends | enqueue, enqueueBatch, turnEnded, retarget, steer | refresh and send of the daemon; callbacks to senders | every await: status read then used, turn ends during sends, retarget during a delivery, lost replies | one delivery per target, no turn of its own replaced, a notice in one place, none stranded |
| Outbox (`outbox.ts`) | one file of records per workspace | add, deliverRecord, settle, hold, retarget, resend after a reload | main channel, notice queue, mission store, peer links, wake gate | crash between store and send, drops retried on another agent, stale snapshots of the resend | outcomes final and true, nothing open forgotten, the owner told of drops |
| Main channel (`main-channel.ts`) | none | enqueueMain, enqueueUpdates | notice queue batches | - | what is pending for a Main goes as one message |
| Mission replacement (`mission-replace.ts`) | mission store | replaceMain | notice queue, outbox | records in flight to the old Main | every open record reaches the new Main |
| Wake gate, waits (`wake-gate.ts`, `waits.ts`) | `waiting` of a request, releasing marks, kept facts | gate, releaseWait, settle a wait's item, the stall pass's settling | registry, outbox, decisions, links | a release racing a delivery or a report, facts and marks only in memory | no delivery during a wait it does not meet; what a release took goes once; what is held goes in the end |
| Delivery of answers (`decision-delivery.ts`) | `queuedHere`, one run per request | onSettled, resume, noteArrived, deliverOnce | decisions, wake gate, notice queue | answers read before an await and written after it | each answer reaches the Worker or is recorded failed |
| Event bus (`event-bus.ts`) | windows, held events, keys, open wakes | publish, onSent, onTurnEnded | notice queue batch, `wakes.json` | overlapping publishes, failures after held events were taken, reloads | once per key, one wake per mission and window, held events kept |
| Wake records (`orchestrator-store.ts`) | `wakes.json` | appendWake, endWake | event bus | records open at a reload | a wake that runs is not recorded as ended |
| Decisions (`decision-*.ts`, `override-delivery.ts`) | a file per workspace | open, settle, override | outbox, waits, precedents | an override racing the delivery of the first answer | each answer delivered, the last one standing |
| Request registry, review cap (`request-registry.ts`, `review-tools.ts`, `budget-told.ts`) | requests, review calls, what was told | reserve, create, confirm, grant | agent bindings, Paseo | a creation whose reply is lost | never over the cap; one notice per overrun |
| Bindings, creations (`agent-bindings.ts`, `creation-settle.ts`) | bindings | mint, bind, revoke | `agents.create`, `agent.created` | agent.created racing the reply, a reload in between | a binding bound to one agent |
| Peer links (`peer-links.ts`) | links | open, take, answer, close | outbox, waits | two sides at once | a link's states only advance |
| Handoff, rollover, compaction, fallback | one entry per sequence | steps over turns | bindings, outbox, Paseo | a reload between any two steps | each sequence ends; no two successors |
| Missions (`mission-*.ts`) | missions, rosters | create, transfer, split, close | registry, bindings | several files written one after the other | roster, registry and bindings agree |
| Governor (`governor-*.ts`) | a ladder per mission | recompute | event bus, Main | - | steps climb in order |
| Action boundary (`action-boundary.ts`) | held permissions | hold, grant, allow | decisions | a grant spent twice | an effect is allowed once per grant |
| Placements, git lanes | placements | ensure, checkpoint, merge | git | single flight | one worktree per mission and repo |
| Watchers, collector, stores, tools endpoint, setup, client, scripts | - | passes, views, installation, screens | - | I/O | see `PROJECT.json` |

`PROJECT.json` lists all of these with every source file of the server, which
are modelled and why the others are not.

## 2. Plan

| Step | Module | Promise or composition | Theorems |
|---|---|---|---|
| 1 done | `NoticeQueue` | - | types, one delivery, own turns kept, a notice in one place, never sent twice, real turn ends, no overtaking |
| 2 done | `Delivery`, `Outbox` | `Outbox` implements `Delivery` | types, settled stays, Main records kept, the refinement, open records carried by one carrier, drops told, shown notes read |
| 3 done | `EventBus` | - | types, once per key, held kept, the window kept but where publishes overlap, no record ended before its turn |
| 4 done | `WakeGate`: waits, gate and the delivery of answers | what `Outbox` takes as a choice (`MayHold`) is decided here | types, no mark stuck, no unmet wake, an unmet wait stands, open records carried, one way for each, held records looked at again, facts kept (`SentWasSent` is a finding) |
| 5 | `Decisions` | implements "the last answer stands" | an override is told once |
| 6 | `ReviewBudget` (registry, review tools, told overruns) | - | cap never exceeded |
| 7 | `Creation` (bindings, settle, create worker) | implements "one agent per binding" | binding unique |
| 8 done | `Handoff` | - | types, one creation, a creation kept |
| 9 | `Missions` (replacement, transfer, held requests) | - | roster and registry agree |
| 10 | `PeerLinks`, `Compaction`, `Fallback`, `Boundary`, `GovernorLadder` | - | states advance |
| 11 | `Bus` = EventBus over NoticeQueue | the queue's part of EventBus refined by NoticeQueue | - |

Modules meant for proofs declare no RECURSIVE operator; bounds are constants
with a named assumption; each operation is one action and every await ends it.

## 3. NoticeQueue

**Correspondence.** `st` is `Entry.state`; `queued`, `delivering`,
`awaitingEnd` and `lastPaseo` are the code's maps of those names. A target's
list is the set `queued[t]` with the order `before` (pairs, older first);
`awaitingEnd` is a set of messages ordered by the turn number at which each was
pushed. `task` holds the asynchronous calls: `pc` names the await a call is at.
`agent` is the daemon's agent (status, turn number, the notices that began its
turn) and `delivered` what the daemon took.

| Action | Code |
|---|---|
| `Enqueue`, `EnqueueBatch`, `Retarget` | the calls, up to their first await |
| `StartSteer` ... `SteerChecked`, `PutRefused` | `trySteer` and what follows its refusal |
| `StepWait`, `StepGone`, `StepEmpty`, `StepTake` | `step` after the refresh: busy or failed, gone, nothing current, a message taken |
| `SendResolved`, `SendRejected` | `step` after the send |
| `HostHandled`, `EndTold` | `turnEnded`, before and after the batch's `onTurnEnded` |
| `Reload` | the module is unloaded: its maps are empty, lost handlers of turn ends are not told, and calls that await go on with what they hold |
| `AgentStarts`, `TurnEnds`, `Closes`, `Refreshed`, `SendArrives`, `SteerArrives` | the daemon (external) |

What the abstraction decides: the reading of the provider's base in a steer is
merged with the refresh before it; callbacks do not call the queue again; a turn
that a message replaces is not reported ended on its own; a lost reply (the
message taken, the send rejected) is modelled.

**Runs.**

| Run | Shows | Instance |
|---|---|---|
| `notice_moves` | `TypeOK`, `OneDelivery`, `NeverSentTwice`, `NoticeInOnePlace`, `OwnTurnKept` | 2 targets (one the owner may close), 3 notices: one steered, one the gate may hold, one going first; 2 calls with and without a handle, failing refreshes and sends, turns that end before their send's reply |
| `notice_batches` | `AwaitedEndsAreReal`, `NoOvertaking`, and `QueuedLeaves` under `FairSpec` | 3 notices of one target: the owner's words and events of two groups, one of which expires; failing sends, a reload |
| `notice_lost_wakeup` | finding: `QueuedLeaves` fails when a turn ends before the send's reply | 2 notices |

Two calls are enough for every hazard listed: each is one call that delivers
and one that interferes, with a turn end or a reload. Three notices give an
older, a newer and a prior one; `MaxTurns = 1` lets one turn of others start
before each step, and turns begun by notices are not bounded.

**Fairness.** A call that can go on does (the event loop), the daemon answers a
refresh or a send, an agent being initialised gets its first turn, a turn ends.
The queue has no timer and nothing else is assumed. `notice_batches` takes turn
ends not to precede the reply of their own send: with them the finding
`notice_lost_wakeup` strands a notice.

## 4. Outbox and Delivery

**Delivery** is the promise: a record is stored, then reaches agents (maybe
several times), and only then may be settled delivered; an outcome is final.

**Outbox** has the store (`state`, `to`, `note`, `predates`, `alert`), the world
it reads (`mission`, `peer`), and what one run of the plugin has in memory:
`calls` (a deliverRecord before it reaches the queue), `left` (what the resend's
and the replacement's loops listed and have yet to deliver), `copies` (what the
notice queue holds: each a closure with its own record, target and callbacks,
which may be stale). `parked`, `excused`, `reached` and `read` are history
variables that no guard reads, except that the module clears `parked` as records
are taken up.

| Action | Code |
|---|---|
| `Post`, `DeliverStored` | `storeAndDeliver`: `add`, then `deliverRecord` |
| `Withhold`, `PostNote` | `add` of a withheld and of a no-turn record |
| `Resolved` | `deliverRecord` after the lookup of a peer |
| `Take`, `Reach`, `Sent`, `Failed`, `Asked` | the queue takes the copies of one message; the daemon has it; `onSent`; `onDropped` with its retarget, park or settle; the lookup of a peer after a drop |
| `Release` | `releaseWait` of the gate, with the marks it holds while a copy lives |
| `ReplaceMain`, `MoveQueue`, `ListFormer` | the end of `replaceMainNow` |
| `Reload`, `Resume`, `ListOpen`, `LoopNext` | unload; `createOutboxResend.run` |
| `EndMission`, `EndRequest`, `PeerChanges` | the mission closes, the request's end clears the alert, the link's other side changes |

Decisions of the abstraction: one workspace, one request, one mission, one link;
a write does not fail; the gate's answer is a choice for the records in
`MayHold`; records created in the same millisecond are ordered by their storing;
steering is in `NoticeQueue`; a queue that drops an archived target's notices is
a failed send here; calls without a Paseo handle are left out; the notes, which
the code counts among the records that cover a drop (`outbox.ts:558`), cover none
here (`DropsCovered`); the resend may
take its next record before its await of the last is over, which only adds
behaviours.

**Runs.**

| Run | Shows | Instance |
|---|---|---|
| `outbox_main` | `OpenIsCarried`, `ShownWasRead`, `MainRecordKept`, `PromiseKept`, and `OpenSettles` under `FairSpec` | a record, two notes of which one is listed, two Mains, drops, a reload, the mission's end |
| `outbox_peer` | `TypeOK`, `OneCarrier`, `DropIsTold` | a peer record the gate may hold, two records to a Worker, drops |

A record's delivery meets each other record only through the alert and through
one message, so two or three are enough; `PeerRetargets` is 2, as
in the code, so that the bound is reached and passed on. The assumptions ask for
room for a note in a message (`MaxNotes` is `MAX_NO_TURN_NOTES` of the code) and
for a `NoCall` that is none of the calls.

**Fairness.** Calls run on, the first hook with a handle comes, agents become
idle and the daemon answers, the replacement goes on. New records, reloads and
replacements are not fair.

## 5. EventBus

**Correspondence.** `since` is a mission's age since `missionWokenAt`, no more
than the window (`MISSION_WAKE_MS` in ticks); `due` the backup dangers whose
`backupAt` is past; `held`, `inFlight`, `published` and `openWakes` are the maps
of those names; `call` holds what each publish took (`taken`), sends (`going`)
and when it began (`age`, the `at` of the code). Of the notice queue the module
has `queue`, `sending` and `awaiting` (how many batch messages await a turn
end), of the Orchestrators `turn` and `ending` (ended turns whose hook still
runs), and `shown`, the turn whose usage its snapshot shows. `wakes` is
`wakes.json`, each record with what it was ended with: the turn the usage is of
and the wake the acts are of; `closing` are the wakes taken off `openWakes`
whose usage is being looked up; `fate` what the queue made of an event. `met`
and `mistaken` are history variables that no guard reads: the missions others
woke while a publish ran, and the Orchestrators where the end of a turn without
a record was taken for a wake's.

| Action | Code |
|---|---|
| `Publish` | `publish` up to `wakeableOrchestrator` |
| `NoOrchestrator`, `FindFails`, `Enqueue` | its answer: none, a rejection, an agent and `enqueueBatch` up to its await |
| `Answered` | the rest: `remember` and `missionWokenAt` for what was not dropped |
| `Send` | the queue takes one group for an idle agent, dangers first, without what `isCurrent` refuses |
| `Arrive`, `Sent`, `SendFails` | the daemon has it; `onSent` and `recordWake`; the failed send |
| `OwnerTurn`, `TurnEnds`, `TurnEnded`, `EndWake` | a turn of the owner's; a turn end; `onTurnEnded`; `endWake` after the usage lookup |
| `Tick`, `BackupDue`, `Reload` | time; the unload |

Decisions of the abstraction: only events that wake and are in scope; a publish
that finds no data folder or no handle puts everything back and is a stutter;
`goingFor` needs no variable, since a mission is in it only when its window was
found past in the same step; the limit of the remembered keys is not reached;
of `acted` and `offMission` the model has whose they are (the wake the bus takes
off its line), not what they say, and the danger log is left out; a publish that
finds nothing new is a stutter.

**What a record says.** The queue and the bus do not know which turn ended: a
turn end takes the oldest message awaited, the oldest open wake and, after the
lookup, the oldest open record, with the usage the snapshot then shows. After a
failed send, which takes every message of the batch off what is awaited
(`notice-queue.ts:503`), ends are missed, and the record of one wake gets the
usage and the acts of a later one. So a record does not always have its own
wake's figures. What holds is `EndsAfterItsTurn`: it is ended only after its own
turn and never with the usage of an older turn, unless the turn that ended had
no record (the owner's, or one whose reply was still out).

**Runs.**

| Run | Shows | Instance |
|---|---|---|
| `bus_publishes` | `TypeOK`, `OncePerKey`, `WindowKept` | an event of one mission and a conflict of two, two Orchestrators or none, two publishes at once, one message, drops, failures, a turn of the owner's, a reload |
| `bus_window` | `EndsAfterItsTurn`, `HeldKept`, and `HeldGoes` under `FairSpec` | a mission event and a danger that waits for its `backupAt`, one publish at a time, three messages, failing sends and lost replies, late hooks and lookups, a reload |
| `bus_held_lost` | finding: `HeldKept` fails when no Orchestrator is found | two events |

Two publishes are what a recorded turn and the minute pass make; a third adds no
new pair. Two missions and a conflict give every way one window meets another.
Three messages are a wake, its successor and one that fails between them, which
is what it takes for an end to be missed. `WindowKept` says that a mission is
woken within its window only by a publish during which another one woke it: the
code does not look at the window again after its awaits (section 9). `HeldGoes`
asks that a held event is queued, unless a reload forgets it.

**Fairness.** The minute pass publishes with nothing raised; time passes; the
look for the Orchestrator succeeds if it is tried again and again (strong
fairness: it may fail in between); the queue's enqueue answers. Nothing is
assumed of turns: `HeldGoes` asks for the queue, not for the agent.

`CHECK_DEADLOCK FALSE` is in the configurations of these three modules since
each instance has finitely many notices, records, events and reloads, after
which nothing is left to do. WakeGate's and Handoff's are checked for deadlock:
the owner can always write to the Worker, and turns always end.

## 6. WakeGate

A Worker that reports `blocked` on things by id is sent nothing that does not
meet its wait. The module is the wait of one bound request, the gate, the
release and the delivery of the owner's answers, with one Worker.

**Correspondence.** `wait` is the request's `waiting` (its report, `wakeOn`,
items, which are settled and which have a fact); `rec` and `ans` are the states
in the outbox and in the decisions' `delivery`; `over` says what has ended in
the world. In memory are `releasing` and `kept` (`heldFacts`), the queue's
entries `queue` and the message being sent `msg`, `here` (`queuedHere`), `run`
(the request's entry in `running` and where its `deliverOnce` awaits) and
`resumed`. `todo` and `due` are calls under way: records about to be delivered,
releases about to be made, each with the wait its caller was told of, which may
be stale. `got` counts what reached the Worker; guards read it only where the
code reads the Worker's turn record (`NoteArrived`).

| Action | Code |
|---|---|
| `Answer`, `Post`, `End` | a decision's `transition`, an outbox `add`, an ended request or link, each with its settle hook, which may fail for `MayMiss` |
| `StallPass` | `settleDeadWaitItems`: what ended without its hook and what is found dead |
| `Report` | `bm_report`'s `before` step: the wait is set or cleared, `releaseHeldOf` is due |
| `ReleaseDue` | `releaseSettledWaits` or `releaseHeldOf`, up to the queue's await |
| `Deliver` | `deliverRecord` from its `isReleasing`: left alone, held, released with, or queued |
| `Look`, `Find`, `Outcome` | `deliverOnce` up to the look for the Worker, from there to the queue, after it |
| `Resume`, `NoteArrived` | the methods of those names |
| `Flush` | the queue's `step` for an idle Worker: the gate is asked once more, entry by entry |
| `Sent`, `SendRejected` | the send's reply and the callbacks |
| `Reload` | memory is gone, a message on its way may have arrived, open records are delivered again |
| `StartTurn`, `EndTurn` | turns the plugin did not start (external) |

Decisions of the abstraction: the queue is a set and the order in a message is
any order (`HeldAt`: what meets the wait lets all after it go, so each order is
one choice of what is held); the newest Worker is the only one and its request
continues no other; a question leaves the open states by an answer only (no
withdrawal, override or expiry); a link is one of `Requests`; a failed read or
write of a store is left out, but for a hook's; `rollover-soft` records are
`Notes`. The two looks before the queue's await run in one step, as in the code.

**Runs.**

| Run | Shows | Instance |
|---|---|---|
| `wake_gate` | `TypeOK`, `NothingStuck`, `OneWay`, `HeldIsAwaited`, `OpenRecordIsCarried`, `NoUnmetWake`, `UnmetStands`, `FactsKept` | a question of the Worker's chat, a batch that ends or is found dead, a note told at once, 2 reports, rejected sends, a missing or unknown Worker, a reload |
| `wake_goes` | `MetIsReleased`, `HeldGoes`, `AnswerGoes` under `FairSpec` | a question, a request, a note, hooks that fail, 1 report |
| `wake_answer_lost` | finding: `SentWasSent` fails when an answer replaces another in the queue, without any failing send | three questions, 1 report |

Two reports are a wait and the one that replaces it, or a wait and its clearing;
a third adds only a second replacement. One item of each kind is enough to have
a delivery that meets the wait, one that meets half of it, and one (the note)
that meets none. Of several answers of one request the last run says what goes
wrong, and three are needed for it: one a release carries, one queued meanwhile,
one that replaces it. `AnswerGoes` is therefore about an only answer.

**Fairness.** The plugin's calls run on and its passes come (weak fairness of
each step of `Plugin` and of `StallPass`). `Flush` is strongly fair: the queue
looks at the Worker at each enqueue and at each turn end, and each of its turns
ends, but the owner may start others in between. Nothing makes the owner
answer, the Worker report, or what it awaits end: `HeldGoes` and `AnswerGoes`
except what waits for something still open (`AwaitsLive`).

## 7. Handoff

A Worker whose request grew too long is replaced by a successor. The module is
the handoffs of one request and of one Manager, from the turn end that starts
one to its end.

**Correspondence.** `entry` is the store, a handoff with its state, its Worker,
whether it is past the bound of that state (`late`), whether a command of it
went out (`cmd`), its successor and why it ended. `agents` are the Workers that
were created and what for, `asked` and `mail` what Paseo and the Manager were
asked, `news` the `agent.created` events not handled yet. In memory are
`creating` and `reconciled`, the sets of those names, and what the notice queue
holds: `held` commands and `note` requests. `task` is what each turn end, and
each handler of a new Worker, is at: `pc` names its await, `seen` and `on` what
it read before. `thread` is the call that runs between two awaits when its code
loops over handoffs there; while it is taken nothing else moves.

| Action | Code |
|---|---|
| `TurnEnds`, `LookUp`, `Listed`, `Expire` | `turnRecorded` up to `expire`, with `reconcileCreating` |
| `Start`, `Started` | `startWorker` before and after it reads the Manager |
| `Begin`, `Drop`, `PassBy`, `Return` | the loop over the pending handoffs |
| `AskNote`, `NoteQueued`, `NoteGoes`, `NoteDropped`, `NoteSent` | the request of a note and its place in the queue |
| `BuildBrief`, `BriefBuilt` | the brief, read before an await and stored after it |
| `Command`, `ManagerGone`, `ManagerBusy`, `SendCommand`, `Deliver`, `CommandSent`, `HeldGoes` | `command` for an unbound Manager |
| `Claim`, `Prepared`, `Created`, `CreateFails` | `claimCreation` and the creation for a bound one |
| `AgentCreated`, `Informed`, `Completed` | `agentCreated`, `finishCreated` and `complete` |
| `Make`, `ManagerCreates` | Paseo and the Manager (external) |
| `TimePasses`, `Switch`, `Reload` | a bound passes, the owner's switch, the unload |

Decisions of the abstraction: what a note and a brief say is left out, and so is
the move to another placement; a request's finish, the Manager's absence and the
refusals are choices in `Obstacles`; one Manager, whose binding does not change;
a Main's own handoff, and a Main replaced during one, are left out. A creation
under way is taken to be settled before its ten minutes are over
(`BeingSettled`): the bound is far longer than the calls.

**Run.** `handoff`: `TypeOK`, `OneCreation`, `CreatedIsKept`, `KeptCreation`, and
`PendingEnds` under `FairSpec`. Two handoffs are one and the next that could
collide with it, two new Workers a successor and a late one; one turn end at a
time, with the handlers of new Workers between its awaits. Two turn ends at once
break `CreatedIsKept` (section 9), which is why it is only model-checked;
`OneCreation` and `KeptCreation` are proved for any number of them. `KeptCreation`
leaves to `CreatedIsKept` what it cannot say of overlapping turn ends: that the
successor is looked for. It excepts a turn end that read the handoff as `briefed`
before another one claimed it, since what that one writes it writes without
looking. `"unread"` is no obstacle of the run: an agent list that is not read
loses a successor (section 9).

**Fairness.** A call's awaits are answered, Paseo answers a creation, an
`agent.created` is handled, a bound passes, and turns of some agent keep being
recorded. It is strong because the thread is taken by others in between, for
moments only.

## 8. What is proved

All assumptions are the named assumptions of the constants. No instance is fixed
in any theorem.

`NoticeQueue_proofs`

- `TypeCorrect`: `TypeOK`, whose `TaskRecord` says that a steering call has an
  entry, is inductive.
- `DeliveryOwned`, `OneDeliveryHolds`: `OwnsDelivery` is inductive given the
  types: a call comes to work on a target only by taking a free lock, and only
  the owner frees it. Two calls at work would both be the owner.
- `OwnTurnIsKept`: `NoOwnTurnToReplace` is inductive given the two above: while
  the owner of the delivery is past its refresh, nobody else can send, so a turn
  that began meanwhile is not a notice's; the action property follows step by
  step.

`NoticePlaces_proofs`

- `OnePlaceHolds`, `NeverTwiceHolds`, `AwaitedEndsHold` share the invariant
  `PlaceInv`: of each notice, where it is agrees with its state and is one place
  (`InPlace`), what the daemon took is past its sending (`NotAgain`), and an
  awaited turn end is of its own batch at the agent the message goes to
  (`EndsRight`). The first alone is not inductive: that a call between two
  notices carries none (`EmptyHanded`) keeps a returning steer from its last one.
  Each step leaves a notice as it is, settles it or queues it (`Untouched`,
  `Settles`, `Queues`), and there is a lemma for each of the three.
- `NoneOvertakes`: a queue is totally ordered by `before` (`QueuesOrdered`), and
  what a step takes is chosen by that order.

`Outbox_proofs`

- `TypeCorrect`: with the shape of copies and calls, in particular that a copy
  that asks for its peer again has retargets left.
- `SettledRecordsStay`, `MainRecordsKept`: from the types, one step per action.
- `OutboxKeepsPromise`: `Spec => PromiseKept`. The invariant adds that what
  calls, loops and copies carry is stored and not withheld and that a copy past
  its sending has reached an agent. Each action maps to a step of Delivery or to
  a stutter.

`OutboxRecords_proofs`

- `DropsAreTold`: `DropIsTold` is inductive given the invariant of
  `Outbox_proofs`. Each step writes outcomes or none (`WritesOutcome`,
  `WritesNone`), and a record that followed a drop stays delivered.
- `ShownNotesWereRead`: `NotesInv`: copies carry stored notes, the notes stored so
  far have a newest one, and a copy whose message was taken has notes that were
  read. That there is a newest one is what makes the list of at most `MaxNotes`
  end with it.
- `OpenRecordsAreCarried`: `WaitsInv`: a pending record is with a call, a loop, a
  copy, parked, or to be listed by the resend; a stored record's call is its own,
  and the replacement has delivered all it listed when it moves on.
- `OneCarrierHolds`: `AloneInv`: until a reload or a replacement no loop runs, no
  two copies are of one record, and a record with a copy has no call and is not
  held.

`EventBus_proofs`

- `TypeCorrect`: with `Numbered` (a message being sent has a number), which
  `Sent` needs to append one to the open wakes.
- `KeysOnce`: `Flights` (held events are not known; what publishes send is
  disjoint and in flight) and `Fated` (what the queue accepted is known; where
  an event is agrees with its fate) are inductive; an event queued by a publish
  is in its `going`, which `Fated` says the queue has not accepted.
- `HeldEvents`: while an Orchestrator is always there. `Remembered` is added:
  what a publish took is held, known or dropped, and when another publish sends
  an event of it, that one took it too or the queue dropped it. Without it a
  failed publish of the other would lose the event.
- `OneWakePerWindow`: for any number of overlapping publishes and any window.
  `WindowsPast`: of each mission of what a publish sends, the window is past until
  it is answered or another publish woke the mission meanwhile (`met`).
- `RecordsEndAfterTurns`: for any number of wakes, with failed sends, lost replies,
  late hooks and lookups, turns of the owner's and reloads. `WakeInv`, for each
  Orchestrator: records and turns grow in number (`Ordered`, `TurnsOf`), the
  snapshot shows no turn before the last that ended (`ShownOf`), and, unless a turn
  without a record was taken for a wake's, the wakes being closed and the ends of
  recorded wakes not told yet are no more than the open records whose turn is over
  (`Covered`). So the oldest open record is one of them whenever an end is written,
  in whatever order the lookups are answered.

`WakeGate_proofs`

- `TypeCorrect`: from the types alone, one lemma per action.
- `NoMarkIsStuck`: `NothingStuck` is inductive: a release puts what it marks in
  the queue, entries leave it only by a message, and every outcome of a message
  takes off the marks of its joint entries.
- `UnmetIsNotWoken`: a step lemma over `Flush`: the last gated entry that goes
  was let go by a wait that what precedes it had met, and settling more keeps it
  met. No other action takes a message.
- `UnmetWaitStands`: `Ended` (a batch with a record, an answered question and
  all that is on its way name things that are over) and `DueMet` (a due release
  was told of a met wait, and while that is the stored one all that had settled
  still has) are inductive. So a wait that a release or a delivery clears is met
  by what has ended, and of a due release for an older report `Cleared` leaves
  the stored one.
- `OpenIsOnItsWay`: `Carried` is inductive given the types: each action that
  takes a record from `todo`, `queue` or `msg` settles it, holds it or puts it
  in the next of these; a reload puts all open ones in `todo`.

`WakeWays_proofs`

- `OneWayHolds`: `Ways`, with `Carried`: the entries of one key are one entry; a
  record in an entry of a release is marked, one in an entry of its own is neither
  marked, nor held, nor about to be delivered. So a release, which takes what is
  held and not marked, and a delivery, which takes what is not marked, find no
  other copy.
- `HeldIsLookedAt`: `HeldInv`: a held record is not marked as releasing. The next
  release therefore takes it: what meets or replaces the wait makes a release due
  in the same step, and a reload delivers the record again. The same is not true
  of answers, whose key all answers of a request share (section 9).
- `FactsAreKept`: `FactsInv`: an entry with facts goes jointly under the key of
  their report or of facts, and the queue has one entry of the latter. So what
  `put` replaces carries the same facts, or newer ones came.

`Handoff_proofs`

- `TypeCorrect`: with `TaskOK` (a call that reads the Manager has a Worker whose
  turn ended, a handler goes nowhere after its end).
- `OneCreationHolds`: `CreationInv`: a handoff leaves the states up to `briefed`
  for good, one call prepares its creation and only after that asks Paseo, and
  what was asked is made once. It holds for any number of overlapping turn
  ends, since the claim compares and sets.
- `KeptCreationHolds`: from `TypeInv` and `CreationInv`, for any number of
  overlapping turn ends. One case per action that writes an entry: what a refusal
  or an error ends was not made (`CreationInv`), `noteBatch` and `brief` leave a
  `creating` entry as it is, and the steps of `command` and of the loop are of a
  turn end that had read the handoff before.

**Only model-checked.** `SentWasSent` is refuted by its run. `CreatedIsKept` holds
only while turn ends do not overlap and agent lists are read, neither of which
the code ensures (section 9), so it is checked on the instance and not stated as
a theorem. Liveness
(`QueuedLeaves`, `OpenSettles`, `HeldGoes`, `MetIsReleased`, `AnswerGoes`,
`PendingEnds`): fairness and ENABLED are out of the prover's reach.

## 9. Findings and known behaviours

Shown by a run, each quoted with its lines in `PROJECT.json`:

- `notice_lost_wakeup`: a turn that ends before its own send's reply strands the
  next notice.
- `bus_held_lost`: a publish that finds no Orchestrator forgets what a window
  held.
- `wake_answer_lost`: an answer that a later one of the request replaced in the
  queue, while a release of others was on its way, is recorded `sent`. It came up
  in the attempt to prove that it is not; without the replacement, a rejected
  send of a queued answer leads to the same record, since nothing is told of it
  (`decision-delivery.ts:347`).

Read off the code, and left out by a restriction of the instance or an exception
of the property, which says what holds without it (the hazards name most; there is
no run for each):

- a batch sent while the host handles a turn end is told of the turn before
  (`notice-queue.ts:755`; `AwaitedEndsAreReal` asks only that the end is real);
- a steer replaces what was queued while it was on (`notice-queue.ts:585`);
- a no-turn note of a delivery that moves on to another agent is shown to that
  agent (`outbox.ts:838`; `ShownWasRead`);
- two overlapping publishes wake a mission twice in one window
  (`event-bus.ts:880`; `WindowKept` excepts a publish during which another one
  woke the mission);
- a wake's record gets the usage and the acts of a later wake after a turn end the
  queue missed because a send of the batch failed (`notice-queue.ts:503`,
  `event-bus.ts:789`, against `event-bus.ts:46`), and so does one open at a reload
  (`orchestrator-store.ts:498`); `EndsAfterItsTurn` allows what is later;
- the end of a turn of the owner's, or of a wake whose reply is out, ends the
  record of the oldest wake though that runs (`notice-queue.ts:665`;
  `EndsAfterItsTurn` excepts the Orchestrators in `mistaken`);
- a wait met just before a reload stays stored until the next delivery or
  report: the stall pass skips waits with nothing unsettled (`waits.ts:408`);
- a wait met by an answer in the Worker's own chat is released by no delivery
  (`decision-delivery.ts:278`);
- an answer held while a block of other answers of the request is being released
  is passed over by that release, which finds held things by key, and then has no
  wait: it stays until the next report or answer (`wake-gate.ts:338`, against
  `:29-30`; `HeldIsAwaited` is about records);
- the answers of a second release replace those of the first that the queue still
  has for a running Worker: the replaced answer stays `queued` until a reload
  (`AnswerGoes` is about an only answer);
- answers read before the look for the Worker may go a second time when a
  release took them meanwhile (`decision-delivery.ts:308`);
- the facts of an older release not sent yet are replaced in the queue by those
  of a newer one (`wake-gate.ts:374`);
- two turn ends of one request that overlap while the Manager is read start two
  handoffs (`handoff.ts:1055` to `:1067`, against `handoff-store.ts:203`): with
  two calls and two handoffs TLC reaches two pending ones within seconds. No
  property is about it: with one turn end at a time it would restate the check;
- a command's last write takes the entry as it finds it: a handoff that ended
  while the command was sent is `commanded` again (`handoff.ts:846`);
- a turn end that overlaps the claim marks the handoff as looked up; after an
  error of the creation no later one of this run looks for the Worker
  (`handoff.ts:1144`, against `:1028`; `CreatedIsKept` is for one at a time);
- a turn end that read a handoff as `briefed` ends it, though another one has
  claimed it and its successor exists, when the switch was off as it began or it
  then finds the Manager gone (`handoff.ts:816`, `:1162`; the exception of
  `KeptCreation`);
- a handoff is marked as looked up as well when the agent list cannot be read, and is not looked up
  again in this run: a successor whose event a reload lost, or which was told while
  its creation was not answered, is then not found before the handoff's ten
  minutes end it (`handoff.ts:1144`);
- an unbound Manager may act on an old command while the next handoff of the same
  Worker is under way: both get a successor; no property is about it.

## 10. Not modelled

See `components` in `PROJECT.json`. The parts with a state machine of their own
are in the plan above. Left out for good: git and process I/O, generated texts,
parsers and metrics (pure functions of text), the React client, installation.
