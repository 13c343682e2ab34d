------------------------------ MODULE EventBus ------------------------------
(***************************************************************************)
(* The event bus of plugin/server/event-bus.ts and the wake records of     *)
(* orchestrator-store.ts.  A publish runs up to each of its two awaits in  *)
(* one action: the look for the Orchestrator, and the notice queue's       *)
(* enqueueBatch.  Several publishes overlap.                               *)
(*                                                                         *)
(* The events are the ones that wake (wakesGovernor) and are in scope; the *)
(* others are skipped before anything is read.  A publish without a data   *)
(* folder or a handle puts back what it took: a stuttering step.  The      *)
(* limit of the remembered keys (PUBLISHED_KEYS_LIMIT) is not reached.     *)
(* Of the notice queue, which NoticeQueue models, this module takes what   *)
(* it does to a batch: one group per message, to an idle agent.            *)
(***************************************************************************)
EXTENDS Naturals, FiniteSets, Sequences

CONSTANTS
  Missions,
  Events,         \* the events of the run, by their key
  Subject,        \* event -> the missions its wake concerns
  Dangers,        \* the danger signals: no window, the first of their group
  Backups,        \* danger signals a mission's Main was told of first (backupAt)
  Orchestrators,  \* the agents that are, or were, the Orchestrator
  Calls,          \* the publishes that may overlap
  Window,         \* MISSION_WAKE_MS, in ticks
  MayBeAbsent,    \* may there be no Orchestrator?
  MayFail,        \* may a look for the Orchestrator, or a send, fail?
  MaxMessages,    \* bound: BM-EVENTS messages
  MaxOwnerTurns,  \* bound: turns the owner begins in the Orchestrator's chat
  MaxReloads      \* bound: reloads of the plugin

ASSUME EventBusAssumption ==
  /\ Subject \in [Events -> SUBSET Missions]
  /\ \A e \in Events \ Dangers : Subject[e] # {}
  /\ Dangers \subseteq Events
  /\ Backups \subseteq Dangers
  /\ Orchestrators # {}
  /\ Window \in Nat \ {0}
  /\ {MayBeAbsent, MayFail} \subseteq BOOLEAN
  /\ {MaxMessages, MaxOwnerTurns, MaxReloads} \subseteq Nat

VARIABLES
  since,      \* mission -> ticks since missionWokenAt, no more than Window
  due,        \* backups whose backupAt is past
  held,       \* held: events that wait for their mission's window
  inFlight,   \* inFlight: keys a publish is queueing now
  published,  \* published: keys queued or sent in this run
  call,       \* publish -> where it is, what it took from held and sends
  queue,      \* Orchestrator -> the events queued for it
  fate,       \* event -> what its latest enqueueBatch made of it in this run
  sending,    \* Orchestrator -> the message being sent to it
  turn,       \* Orchestrator -> the message its turn answers
  ending,     \* Orchestrator -> ended turns whose turn_ended hook still runs
  shown,      \* Orchestrator -> the turn whose usage its snapshot shows
  awaiting,   \* Orchestrator -> how many messages the queue awaits the end of
  openWakes,  \* openWakes: Orchestrator -> messages, oldest first
  closing,    \* Orchestrator -> wakes taken off openWakes whose usage is looked up
  wakes,      \* wakes.json: the messages recorded, and what each was ended with
  messages,   \* how many messages were sent
  ownerTurns, \* how many turns the owner began
  reloads,    \* how often the plugin was reloaded
  met,        \* history: publish -> missions others woke while it ran
  mistaken    \* history: where the end of a turn without a record closed a wake

bus == <<since, held, inFlight, published, call, met>>
notices == <<queue, fate, sending, awaiting>>
records == <<openWakes, closing, wakes, mistaken>>
agents == <<turn, ending, shown>>
bounds == <<messages, ownerTurns, reloads>>
vars == <<due, bus, notices, records, agents, bounds>>

Idle == 0            \* no turn runs; also: a turn end that found no open wake
Owner == MaxMessages + 1
Numbers == 1..MaxMessages
NoCall == [pc |-> "idle", taken |-> {}, going |-> {}, age |-> 0, target |-> {}]
Begun(taken, going) == [pc |-> "finding", taken |-> taken, going |-> going, age |-> 0, target |-> {}]
Message(n, events) == [number |-> n, events |-> events, arrived |-> FALSE]
NoMessage == Message(Idle, {})

Fates == {"none", "queued", "sending", "sent", "dropped"}
Accepted == {"queued", "sending", "sent"}

MissionsOf(e) == IF e \in Dangers THEN {} ELSE Subject[e]

-----------------------------------------------------------------------------
(* publish                                                                 *)

\* Mutant: a key being queued is not known yet.
KnownAnswered == published

\* The keys a publish skips: already queued or sent, or being queued.
Known == published \cup inFlight

\* Mutant: a conflict waits only while the windows of all its missions are open.
WaitsForAll(e) ==
  \/ e \in Backups \ due
  \/ MissionsOf(e) # {} /\ \A m \in MissionsOf(e) : since[m] < Window

\* A mission event waits while the window of one of its missions is open, a
\* backup danger until its backupAt.
MustWait(e) ==
  \/ e \in Backups \ due
  \/ \E m \in MissionsOf(e) : since[m] < Window

\* Mutant: a publish that failed puts nothing back.
KeepNothing(taken, flying) == held

\* What goes back to held when a publish that took `taken` ends without it.
KeepHeld(taken, flying) == held \cup (taken \ (published \cup flying))

\* The synchronous part of publish: everything held and what a source raised.
Publish(c, raised) ==
  /\ call[c].pc = "idle"
  /\ LET fresh == (held \cup raised) \ Known
         waiting == {e \in fresh : MustWait(e)}
         going == fresh \ waiting
     IN  /\ fresh # {}
         /\ held' = waiting
         /\ inFlight' = inFlight \cup going
         /\ call' = IF going = {} THEN call
                    ELSE [call EXCEPT ![c] = Begun(held, going)]
         /\ met' = [met EXCEPT ![c] = {}]
  /\ UNCHANGED <<due, since, published, notices, records, agents, bounds>>

\* wakeableOrchestrator found none: nothing is queued, nothing is kept.
NoOrchestrator(c) ==
  /\ MayBeAbsent
  /\ call[c].pc = "finding"
  /\ inFlight' = inFlight \ call[c].going
  /\ call' = [call EXCEPT ![c] = NoCall]
  /\ met' = [met EXCEPT ![c] = {}]
  /\ UNCHANGED <<due, since, held, published, notices, records, agents, bounds>>

\* The look for the Orchestrator failed: what was held is held again.
FindFails(c) ==
  /\ MayFail
  /\ call[c].pc = "finding"
  /\ inFlight' = inFlight \ call[c].going
  /\ held' = KeepHeld(call[c].taken, inFlight')
  /\ call' = [call EXCEPT ![c] = NoCall]
  /\ met' = [met EXCEPT ![c] = {}]
  /\ UNCHANGED <<due, since, published, notices, records, agents, bounds>>

\* enqueueBatch, up to its await: every event of the publish is queued.  The
\* Orchestrator may be one a pass listed earlier, or one created just now.
Enqueue(c, o) ==
  /\ call[c].pc = "finding"
  /\ queue' = [queue EXCEPT ![o] = @ \cup call[c].going]
  /\ fate' = [e \in Events |-> IF e \in call[c].going THEN "queued" ELSE fate[e]]
  /\ call' = [call EXCEPT ![c].pc = "queueing", ![c].target = {o}]
  /\ UNCHANGED <<due, since, held, inFlight, published, met, sending, awaiting, records, agents, bounds>>

\* enqueueBatch answered: what it did not drop is remembered, and its missions
\* were woken when the publish began.
Answered(c) ==
  /\ call[c].pc = "queueing"
  /\ LET accepted == {e \in call[c].going : fate[e] \in Accepted}
         woken == {m \in Missions : \E e \in accepted : m \in MissionsOf(e)}
     IN  /\ published' = published \cup accepted
         /\ since' = [m \in Missions |-> IF m \in woken THEN call[c].age ELSE since[m]]
         /\ met' = [d \in Calls |-> IF d = c \/ call[d].pc = "idle" THEN {} ELSE met[d] \cup woken]
  /\ inFlight' = inFlight \ call[c].going
  /\ call' = [call EXCEPT ![c] = NoCall]
  /\ UNCHANGED <<due, held, notices, records, agents, bounds>>

-----------------------------------------------------------------------------
(* The notice queue and the Orchestrator                                   *)

\* The groups whose turn it is: the ones with a danger signal, if any.
NextGroups(o) ==
  LET dangers == queue[o] \cap Dangers
  IN  {Subject[e] : e \in IF dangers = {} THEN queue[o] ELSE dangers}

\* An idle Orchestrator is sent all of one group, less what settled meanwhile.
Send(o, group, settled) ==
  /\ messages < MaxMessages
  /\ turn[o] = Idle
  /\ sending[o] = NoMessage
  /\ LET items == {e \in queue[o] : Subject[e] = group}
     IN  /\ group \in NextGroups(o)
         /\ settled \subseteq items
         /\ queue' = [queue EXCEPT ![o] = @ \ items]
         /\ fate' = [e \in Events |-> IF e \in settled THEN "dropped"
                                      ELSE IF e \in items THEN "sending" ELSE fate[e]]
         /\ IF settled = items THEN UNCHANGED <<sending, awaiting, messages>>
            ELSE /\ messages' = messages + 1
                 /\ sending' = [sending EXCEPT ![o] = Message(messages + 1, items \ settled)]
                 /\ awaiting' = [awaiting EXCEPT ![o] = @ + 1]
  /\ UNCHANGED <<due, bus, records, agents, ownerTurns, reloads>>

\* The message begins the Orchestrator's turn; a turn the owner began since the
\* queue found it idle is replaced.
Arrive(o) ==
  /\ sending[o] # NoMessage
  /\ ~sending[o].arrived
  /\ turn' = [turn EXCEPT ![o] = sending[o].number]
  /\ sending' = [sending EXCEPT ![o].arrived = TRUE]
  /\ UNCHANGED <<due, bus, queue, fate, awaiting, records, ending, shown, bounds>>

\* The reply of the send: the batch's onSent opens the wake and records it.
Sent(o) ==
  /\ sending[o].arrived
  /\ fate' = [e \in Events |-> IF e \in sending[o].events THEN "sent" ELSE fate[e]]
  /\ openWakes' = [openWakes EXCEPT ![o] = Append(@, sending[o].number)]
  /\ wakes' = Append(wakes, [orchestrator |-> o, number |-> sending[o].number, endedBy |-> {}])
  /\ sending' = [sending EXCEPT ![o] = NoMessage]
  /\ UNCHANGED <<due, bus, queue, awaiting, closing, mistaken, agents, bounds>>

\* Mutant: a failed send takes one entry off what is awaited, there or not.
SendFailsOnce(o) ==
  /\ MayFail
  /\ sending[o] # NoMessage
  /\ fate' = [e \in Events |-> IF e \in sending[o].events THEN "dropped" ELSE fate[e]]
  /\ awaiting' = [awaiting EXCEPT ![o] = @ - 1]
  /\ sending' = [sending EXCEPT ![o] = NoMessage]
  /\ UNCHANGED <<due, bus, queue, records, agents, bounds>>

\* The send failed, or its reply was lost: dropped.  The queue takes every
\* entry of this batch off what it awaits, for all are the same batch.
SendFails(o) ==
  /\ MayFail
  /\ sending[o] # NoMessage
  /\ fate' = [e \in Events |-> IF e \in sending[o].events THEN "dropped" ELSE fate[e]]
  /\ awaiting' = [awaiting EXCEPT ![o] = 0]
  /\ sending' = [sending EXCEPT ![o] = NoMessage]
  /\ UNCHANGED <<due, bus, queue, records, agents, bounds>>

\* The owner writes to the idle Orchestrator.
OwnerTurn(o) ==
  /\ ownerTurns < MaxOwnerTurns
  /\ turn[o] = Idle
  /\ ownerTurns' = ownerTurns + 1
  /\ turn' = [turn EXCEPT ![o] = Owner]
  /\ UNCHANGED <<due, bus, notices, records, ending, shown, messages, reloads>>

\* A turn ends: the snapshot shows its usage, the host's turn_ended hook begins.
TurnEnds(o) ==
  /\ turn[o] # Idle
  /\ turn' = [turn EXCEPT ![o] = Idle]
  /\ ending' = [ending EXCEPT ![o] = @ \cup {turn[o]}]
  /\ shown' = [shown EXCEPT ![o] = turn[o]]
  /\ UNCHANGED <<due, bus, notices, records, bounds>>

Recorded(o, n) == \E i \in 1..Len(wakes) : wakes[i].orchestrator = o /\ wakes[i].number = n

\* After the hook, the queue tells the oldest batch message it awaits, whatever
\* turn it was that ended: the bus takes its oldest open wake, with what that
\* turn and the ones before it did, and looks up the usage.
TurnEnded(o, t) ==
  /\ t \in ending[o]
  /\ ending' = [ending EXCEPT ![o] = @ \ {t}]
  /\ IF awaiting[o] = 0 THEN UNCHANGED <<awaiting, openWakes, closing, mistaken>>
     ELSE /\ awaiting' = [awaiting EXCEPT ![o] = @ - 1]
          /\ openWakes' = [openWakes EXCEPT ![o] = IF @ = <<>> THEN @ ELSE Tail(@)]
          /\ closing' = [closing EXCEPT ![o] = Append(@, IF openWakes[o] = <<>> THEN Idle ELSE Head(openWakes[o]))]
          /\ mistaken' = mistaken \cup {p \in {o} : ~Recorded(o, t)}
  /\ UNCHANGED <<due, bus, queue, fate, sending, wakes, turn, shown, bounds>>

OpenRecords(o) == {i \in 1..Len(wakes) : wakes[i].orchestrator = o /\ wakes[i].endedBy = {}}
IsOldest(i, S) == i \in S /\ \A k \in S : i <= k
IsNewest(i, S) == i \in S /\ \A k \in S : k <= i

\* What a record is ended with: the usage of the turn the snapshot shows when
\* it is looked up, if it can be, and the acts of the wake taken.
Ends(o, i) == {[usage |-> shown[o], acts |-> closing[o][i]]} \cup
              (IF MayFail THEN {[usage |-> Idle, acts |-> closing[o][i]]} ELSE {})

\* Mutant: the newest open record ends.
EndNewest(o, i) ==
  /\ i \in 1..Len(closing[o])
  /\ \E end \in Ends(o, i) :
       wakes' = [j \in 1..Len(wakes) |->
         IF IsNewest(j, OpenRecords(o)) THEN [wakes[j] EXCEPT !.endedBy = {end}] ELSE wakes[j]]
  /\ closing' = [closing EXCEPT ![o] = SubSeq(@, 1, i - 1) \o SubSeq(@, i + 1, Len(@))]
  /\ UNCHANGED <<due, bus, notices, openWakes, mistaken, agents, bounds>>

\* endWake: the oldest open record of that Orchestrator ends.
EndWake(o, i) ==
  /\ i \in 1..Len(closing[o])
  /\ \E end \in Ends(o, i) :
       wakes' = [j \in 1..Len(wakes) |->
         IF IsOldest(j, OpenRecords(o)) THEN [wakes[j] EXCEPT !.endedBy = {end}] ELSE wakes[j]]
  /\ closing' = [closing EXCEPT ![o] = SubSeq(@, 1, i - 1) \o SubSeq(@, i + 1, Len(@))]
  /\ UNCHANGED <<due, bus, notices, openWakes, mistaken, agents, bounds>>

-----------------------------------------------------------------------------
(* Time and the plugin's life                                              *)

Tick ==
  /\ since' = [m \in Missions |-> IF since[m] < Window THEN since[m] + 1 ELSE Window]
  /\ call' = [c \in Calls |->
       IF call[c].pc # "idle" /\ call[c].age < Window THEN [call[c] EXCEPT !.age = @ + 1] ELSE call[c]]
  /\ <<since, call>>' # <<since, call>>
  /\ UNCHANGED <<due, held, inFlight, published, met, notices, records, agents, bounds>>

BackupDue(e) ==
  /\ e \in Backups \ due
  /\ due' = due \cup {e}
  /\ UNCHANGED <<bus, notices, records, agents, bounds>>

\* A reload forgets what is in memory; wakes.json and the turns stay.
Reload ==
  /\ reloads < MaxReloads
  /\ reloads' = reloads + 1
  /\ since' = [m \in Missions |-> Window]
  /\ held' = {} /\ inFlight' = {} /\ published' = {}
  /\ call' = [c \in Calls |-> NoCall]
  /\ queue' = [o \in Orchestrators |-> {}]
  /\ fate' = [e \in Events |-> "none"]
  /\ sending' = [o \in Orchestrators |-> NoMessage]
  /\ awaiting' = [o \in Orchestrators |-> 0]
  /\ openWakes' = [o \in Orchestrators |-> <<>>]
  /\ closing' = [o \in Orchestrators |-> <<>>]
  /\ ending' = [o \in Orchestrators |-> {}]
  /\ met' = [c \in Calls |-> {}]
  /\ UNCHANGED <<due, wakes, mistaken, turn, shown, messages, ownerTurns>>

Init ==
  /\ since = [m \in Missions |-> Window]
  /\ due = {} /\ held = {} /\ inFlight = {} /\ published = {}
  /\ call = [c \in Calls |-> NoCall]
  /\ queue = [o \in Orchestrators |-> {}]
  /\ fate = [e \in Events |-> "none"]
  /\ sending = [o \in Orchestrators |-> NoMessage]
  /\ turn = [o \in Orchestrators |-> Idle]
  /\ ending = [o \in Orchestrators |-> {}]
  /\ awaiting = [o \in Orchestrators |-> 0]
  /\ openWakes = [o \in Orchestrators |-> <<>>]
  /\ closing = [o \in Orchestrators |-> <<>>]
  /\ wakes = <<>>
  /\ shown = [o \in Orchestrators |-> Idle]
  /\ met = [c \in Calls |-> {}] /\ mistaken = {}
  /\ messages = 0 /\ ownerTurns = 0 /\ reloads = 0

Publishing(c) ==
  \/ \E raised \in SUBSET Events : Publish(c, raised)
  \/ NoOrchestrator(c)
  \/ FindFails(c)
  \/ \E o \in Orchestrators : Enqueue(c, o)
  \/ Answered(c)

Delivering(o) ==
  \/ \E group \in SUBSET Missions, settled \in SUBSET Events : Send(o, group, settled)
  \/ Arrive(o) \/ Sent(o) \/ SendFails(o)
  \/ OwnerTurn(o) \/ TurnEnds(o)
  \/ \E t \in ending[o] : TurnEnded(o, t)
  \/ \E i \in 1..Len(closing[o]) : EndWake(o, i)

Next ==
  \/ \E c \in Calls : Publishing(c)
  \/ \E o \in Orchestrators : Delivering(o)
  \/ Tick
  \/ \E e \in Backups : BackupDue(e)
  \/ Reload

Spec == Init /\ [][Next]_vars

\* The stall pass publishes each minute, with nothing raised; its look for the
\* Orchestrator succeeds in the end; the queue answers and time passes.
Fairness ==
  /\ WF_vars(Tick)
  /\ \A e \in Backups : WF_vars(BackupDue(e))
  /\ \A c \in Calls :
       /\ WF_vars(Publish(c, {}))
       /\ SF_vars(\E o \in Orchestrators : Enqueue(c, o))
       /\ WF_vars(Answered(c))

FairSpec == Spec /\ Fairness

-----------------------------------------------------------------------------
(* Properties                                                              *)

TypeOK ==
  /\ since \in [Missions -> 0..Window]
  /\ due \subseteq Backups
  /\ {held, inFlight, published} \subseteq SUBSET Events
  /\ call \in [Calls -> [pc : {"idle", "finding", "queueing"}, taken : SUBSET Events,
                         going : SUBSET Events, age : 0..Window, target : SUBSET Orchestrators]]
  /\ queue \in [Orchestrators -> SUBSET Events]
  /\ fate \in [Events -> Fates]
  /\ sending \in [Orchestrators -> [number : 0..MaxMessages, events : SUBSET Events, arrived : BOOLEAN]]
  /\ turn \in [Orchestrators -> 0..Owner]
  /\ ending \in [Orchestrators -> SUBSET (Numbers \cup {Owner})]
  /\ awaiting \in [Orchestrators -> Nat]
  /\ openWakes \in [Orchestrators -> Seq(Numbers)]
  /\ closing \in [Orchestrators -> Seq(0..MaxMessages)]
  /\ wakes \in Seq([orchestrator : Orchestrators, number : Numbers,
                     endedBy : SUBSET [usage : 0..Owner, acts : 0..MaxMessages]])
  /\ messages \in 0..MaxMessages
  /\ ownerTurns \in 0..MaxOwnerTurns
  /\ reloads \in 0..MaxReloads
  /\ shown \in [Orchestrators -> 0..Owner]
  /\ met \in [Calls -> SUBSET Missions]
  /\ mistaken \subseteq Orchestrators

\* An event is queued again only if the queue dropped it before it was
\* accepted: what is queued, on its way or sent in this run never goes twice,
\* however publishes overlap and whichever Orchestrator they found.
OncePerKey ==
  [][\A e \in Events : \A o \in Orchestrators :
       e \in queue'[o] \ queue[o] => fate[e] \in {"none", "dropped"}]_vars

\* What is held, or was when a publish that still runs took it.
Owed == held \cup UNION {call[c].taken : c \in Calls}

\* An event a window held is not forgotten while an Orchestrator is there: it
\* is held until it is queued, and a publish that took it and failed holds it
\* again.  Only a drop by the queue and a reload lose it.
HeldKept ==
  [][\A e \in Owed : \/ e \in (Owed \cup inFlight \cup published)'
                     \/ fate[e] = "dropped"
                     \/ reloads' # reloads]_vars

\* An event is accepted within the window of one of its missions only when
\* another publish woke that mission meanwhile: the window was past when this
\* one looked, and it does not look again after its awaits.
WindowKept ==
  [][\A e \in published' \ published : \A m \in MissionsOf(e) :
       \/ since[m] = Window
       \/ \E c \in Calls : e \in call[c].going /\ m \in met[c]]_vars

\* A wake's record ends only after the wake's own turn, with the usage of that
\* turn or of a later one, never of one before: the wake that runs is never
\* recorded as ended.  Sends may fail, replies be lost, hooks and lookups be
\* late and the plugin be reloaded; only where the end of a turn without a
\* record (the owner's, one whose reply is out) was taken for a wake's, it may.
EndsAfterItsTurn ==
  \A i \in 1..Len(wakes) : wakes[i].endedBy # {} =>
    \/ wakes[i].orchestrator \in mistaken
    \/ /\ turn[wakes[i].orchestrator] # wakes[i].number
       /\ \A end \in wakes[i].endedBy : end.usage = Idle \/ end.usage >= wakes[i].number

\* What a window holds reaches the queue, unless a reload forgets it.
HeldGoes ==
  \A e \in Events, n \in 0..MaxReloads : (e \in held /\ reloads = n) ~> (fate[e] # "none" \/ reloads # n)
=============================================================================
