------------------------------ MODULE WakeGate ------------------------------
(***************************************************************************)
(* The structured waits of plugin/server/waits.ts, the wake gate of        *)
(* plugin/server/wake-gate.ts and the owner's answers of                   *)
(* plugin/server/decision-delivery.ts, for one bound request and its       *)
(* newest Worker.                                                          *)
(*                                                                         *)
(* A Worker that reported `blocked' on things by id is sent nothing that   *)
(* settles none of them: records and answers are held in their stores and  *)
(* go together with what meets the wait.  The thing a question, a review   *)
(* batch or a request is, and what tells the Worker of it, have one name:  *)
(* an answer is its question, a verdict's record its batch.                *)
(*                                                                         *)
(* The notice queue is a set of entries here: it sends an idle Worker any  *)
(* single entry, or all that are joint, and asks the gate first.           *)
(***************************************************************************)
EXTENDS Naturals

CONSTANTS
  Questions,   \* the questions of the request
  Batches,     \* its review batches, and the record of each one's verdict
  Requests,    \* what it may wait on of others: requests, and links alike
  Notes,       \* records to the Worker that settle no item
  AtOnce,      \* the notes that are told with `now'
  Answers,     \* the key of the request's answers
  Facts,       \* the key of a wait's facts
  InChat,      \* questions answered in the Worker's own chat
  MayMiss,     \* things whose settle hook may fail
  MayDie,      \* things the stall pass may find dead before they end
  Lost,        \* what a look for the Worker may give: a subset of {"unknown", "none"}
  SendFails,   \* may a send be rejected?
  MaxReports,  \* bound: reports of the Worker
  MaxReloads   \* bound: plugin reloads

Things == Questions \cup Batches \cup Requests
Records == Batches \cup Notes

ASSUME WakeAssumption ==
  /\ Questions \cap (Batches \cup Requests \cup Notes) = {}
  /\ Batches \cap (Requests \cup Notes) = {}
  /\ Requests \cap Notes = {}
  /\ Answers # Facts /\ {Answers, Facts} \cap (Things \cup Notes) = {}
  /\ (Things \cup Notes \cup {Answers, Facts}) \cap Nat = {}
  /\ AtOnce \subseteq Notes
  /\ InChat \subseteq Questions
  /\ MayMiss \subseteq Things
  /\ MayDie \subseteq Things \ Questions
  /\ SendFails \in BOOLEAN
  /\ MaxReports \in Nat
  /\ MaxReloads \in Nat

VARIABLES
  over,       \* the things that ended
  wait,       \* the request's `waiting' in the registry
  rec,        \* record -> its state in the outbox
  ans,        \* question -> what its decision says of its delivery
  todo,       \* records a caller is about to deliver
  due,        \* releases about to be made, each with the wait it was told of
  queue,      \* what the notice queue holds for the Worker
  msg,        \* what it is sending to it
  releasing,  \* keys handed to a release and not told of yet
  kept,       \* facts held in memory, each by its report
  here,       \* queuedHere: answers this plugin run queued
  run,        \* the run that delivers the request's answers
  resumed,    \* whether this plugin run looked for answers left undelivered
  worker,     \* the Worker's status
  reports,    \* how many reports it made
  reloads,    \* how often the plugin was reloaded
  got         \* history: how often each item reached the Worker, up to 2

stores == <<over, wait, rec, ans>>
flight == <<queue, msg, releasing, kept>>
bounds == <<reports, reloads>>
vars == <<stores, flight, todo, due, here, run, resumed, worker, bounds, got>>

Items == Records \cup Questions \cup (1..MaxReports)
Keys == Records \cup {Answers, Facts} \cup (1..MaxReports)
Entry == [key : Keys, what : SUBSET Items, joint : BOOLEAN]
Wait == [report : 0..MaxReports, any : BOOLEAN,
         items : SUBSET Things, settled : SUBSET Things, facts : SUBSET Things]
NoWait == [report |-> 0, any |-> FALSE, items |-> {}, settled |-> {}, facts |-> {}]

RecStates == {"none", "pending", "held", "delivered", "dropped"}
AnsStates == {"open", "none", "queued", "held", "sent", "failed"}
Undelivered == {"none", "queued", "held"}
\* `held': what of `pending' was held when it was read.
Run == [pc : {"idle", "look", "find", "await"},
        pending : SUBSET Questions, held : SUBSET Questions,
        again : BOOLEAN, out : {"none", "lost", "waiting", "sent", "dropped", "held", "released"}]
NoRun == [pc |-> "idle", pending |-> {}, held |-> {}, again |-> FALSE, out |-> "none"]

-----------------------------------------------------------------------------
(* Waits.                                                                  *)

\* waitMet; a wait without items is met and gates nothing.
Met(w) ==
  \/ w.items = {}
  \/ w.any /\ w.settled # {}
  \/ w.settled = w.items

Unsettled(w) == w.items \ w.settled

\* settleItemsOf: what of S is new is settled, with a fact where F has one.
Settle(w, S, F) ==
  [w EXCEPT !.settled = @ \cup (S \cap w.items),
            !.facts = @ \cup (F \cap S \cap Unsettled(w))]

\* The hook of S, when it does not fail: what becomes of the wait.
Hook(S, F) == {Settle(wait, S, F)} \cup IF S \cap MayMiss # {} THEN {wait} ELSE {}

\* A mutant of Settled: nothing is released for what a hook met.
NeverSettled(w) == {}

\* releaseSettledWaits' list: w, when a hook changed and met it.
Settled(w) == IF w # wait /\ Met(w) THEN {w} ELSE {}

\* waitingForReport: an awaited request that has finished is settled at once.
WaitOf(n, I, any) ==
  IF I = {} THEN NoWait
  ELSE [report |-> n, any |-> any, items |-> I, settled |-> I \cap over, facts |-> I \cap over]

-----------------------------------------------------------------------------
(* The gate, and the queue.                                                *)

Alone(k, S) == [key |-> k, what |-> S, joint |-> FALSE]
Joint(k, S) == [key |-> k, what |-> S, joint |-> TRUE]

KeysOf(E) == {e.key : e \in E}
WhatOf(E) == UNION {e.what : e \in E}
JointKeys(E) == KeysOf({e \in E : e.joint})

\* The answers that go through the queue on their own.
Block(E) == {e \in E : e.key = Answers /\ ~e.joint}

\* The entries the gate is asked about.
Gated(E) == {e \in E : e.what \cap AtOnce = {}}

\* wakeGate: the wait, once what the delivery names is settled; it holds while
\* that is unmet.
Seen(S) == Settle(wait, S \cap Things, {})
Holds(S) == ~Met(Seen(S))

\* put: a newer entry of a key replaces an older one.
Put(E) ==
  queue' = {o \in queue : ~\E e \in E : e.key = o.key /\ e.joint = o.joint} \cup E

\* What one message may carry.
Messages == {{e} : e \in {e \in queue : ~e.joint}} \cup
            (LET J == {e \in queue : e.joint} IN IF J = {} THEN {} ELSE {J})

\* A mutant of HeldAt: the queue does not ask.
NeverHeld(T, H) == H = {}

\* step asks holdsAtSend of the entries T one by one: H is held and the rest
\* goes.  Each is settled first, so once the wait is met all that follow go.
HeldAt(T, H) ==
  LET goes == Gated(T \ H)
      names == WhatOf(H) IN
  /\ H \subseteq Gated(T)
  /\ H # {} => Holds(names)
  /\ goes # {} => \E e \in goes : ~Holds(names \cup e.what)

-----------------------------------------------------------------------------
(* releaseWait, for a store that reads r0 and a0 when it begins.  The wait w*)
(* is cleared if it is still the stored one; `first', the facts of w and    *)
(* all that is held go as one message.                                     *)

\* A mutant of Cleared: whatever is stored is cleared.
ClearedAny(w, stored) == IF w.items = {} THEN stored ELSE NoWait

Cleared(w, stored) ==
  IF w.items # {} /\ stored.report = w.report THEN NoWait ELSE stored

\* Mutants of HeldRecords and HeldAnswers: a release takes facts only.
NoRecords(first, r0) == {}
NoAnswers(first, a0) == {}

HeldRecords(first, r0) == {r \in Records \ (KeysOf(first) \cup releasing) : r0[r] = "held"}
HeldAnswers(first, a0) ==
  IF Answers \in KeysOf(first) \cup releasing THEN {} ELSE {q \in Questions : a0[q] = "held"}

HeldEntries(first, r0, a0) ==
  LET as == HeldAnswers(first, a0) IN
  {Joint(r, {r}) : r \in HeldRecords(first, r0)}
  \cup {Joint(n, {n}) : n \in kept \ releasing}
  \cup IF as = {} THEN {} ELSE {Joint(Answers, as)}

\* waitFactsBlockOf: facts, or the names of what settled when nothing else goes.
FactsOf(w, first, held) ==
  IF w.facts # {} \/ (w.settled # {} /\ first \cup held = {})
  THEN {Joint(Facts, {w.report})} ELSE {}

ReleaseWait(w, first, r0, a0) ==
  LET held == HeldEntries(first, r0, a0)
      all == first \cup FactsOf(w, first, held) \cup held IN
  /\ Put(all)
  /\ releasing' = releasing \cup KeysOf(all)
  /\ rec' = [r \in Records |-> IF r \in HeldRecords(first, r0) THEN "pending" ELSE r0[r]]
  /\ ans' = [q \in Questions |-> IF q \in HeldAnswers(first, a0) THEN "queued" ELSE a0[q]]
  /\ kept' = kept \cap releasing
  /\ UNCHANGED msg

\* releaseSettledWaits, with the wait w a hook returned.
ReleaseSettled(w) ==
  /\ ReleaseWait(w, {}, rec, ans)
  /\ wait' = Cleared(w, wait)

\* releaseHeldOf: the stored wait if it is met, all that is held without one.
ReleaseHeld ==
  IF Met(wait)
  THEN /\ ReleaseWait(wait, {}, rec, ans)
       /\ wait' = Cleared(wait, wait)
  ELSE UNCHANGED <<rec, ans, wait, flight>>

ReleaseDue(w) ==
  /\ w \in due
  /\ due' = due \ {w}
  /\ IF w = NoWait THEN ReleaseHeld ELSE ReleaseSettled(w)
  /\ UNCHANGED <<over, todo, here, run, resumed, worker, bounds, got>>

-----------------------------------------------------------------------------
(* What the Worker waits on, and its reports.                              *)

\* deliverRequest: begins the run, or asks the one in progress to look again.
AskRun == IF run.pc \in {"idle", "look"} THEN [NoRun EXCEPT !.pc = "look"]
          ELSE [run EXCEPT !.again = TRUE]

\* The hooks of things that end: the wait, settled where its hook works, and
\* the release of a wait that is met, where the caller makes one.
Answer(q) ==
  /\ ans[q] = "open"
  /\ ans' = [ans EXCEPT ![q] = "none"]
  /\ over' = over \cup {q}
  /\ wait' \in Hook({q}, {})
  /\ run' = AskRun
  /\ UNCHANGED <<rec, flight, todo, due, here, resumed, worker, bounds, got>>

\* add, and its hook: a verdict settles the wait on its batch.
Post(r) ==
  /\ rec[r] = "none"
  /\ rec' = [rec EXCEPT ![r] = "pending"]
  /\ over' = over \cup ({r} \cap Batches)
  /\ wait' \in Hook({r} \cap Batches, {})
  /\ todo' = todo \cup {r}
  /\ UNCHANGED <<ans, flight, due, here, run, resumed, worker, bounds, got>>

\* An awaited request reports finished or stopped, or the link closes.
End(x) ==
  /\ x \notin over
  /\ over' = over \cup {x}
  /\ wait' \in Hook({x}, {x})
  /\ due' = due \cup Settled(wait')
  /\ UNCHANGED <<rec, ans, flight, todo, here, run, resumed, worker, bounds, got>>

\* settleDeadWaitItems: what ended without its hook, and what is found dead.
\* A question or a verdict that only missed its hook has no fact.
StallPass ==
  \E D \in SUBSET ((Unsettled(wait) \cap MayDie) \ over) :
    LET S == D \cup (Unsettled(wait) \cap over) IN
    /\ S # {}
    /\ wait' = Settle(wait, S, Requests \cup D)
    /\ due' = due \cup Settled(wait')
    /\ UNCHANGED <<over, rec, ans, flight, todo, here, run, resumed, worker, bounds, got>>

\* bm_report: blocked on I, all of it open but for a request, sets the wait; any
\* other report clears it.  What is held is looked at once more.
Report(I, any) ==
  /\ worker = "running"
  /\ reports < MaxReports
  /\ I \cap over \subseteq Requests
  /\ reports' = reports + 1
  /\ wait' = WaitOf(reports + 1, I, any)
  /\ due' = due \cup {NoWait}
  /\ UNCHANGED <<over, rec, ans, flight, todo, here, run, resumed, worker, reloads, got>>

\* Turns that are not the plugin's: the owner's chat.
StartTurn ==
  /\ worker = "idle"
  /\ worker' = "running"
  /\ UNCHANGED <<stores, flight, todo, due, here, run, resumed, bounds, got>>

EndTurn ==
  /\ worker = "running"
  /\ worker' = "idle"
  /\ UNCHANGED <<stores, flight, todo, due, here, run, resumed, bounds, got>>

-----------------------------------------------------------------------------
(* deliverRecord, from its gate to its place in the queue.                 *)

\* A mutant of IsReleasing: what a release carries is not known.
NotKnown(r) == FALSE

IsReleasing(r) == r \in releasing

\* A mutant of HoldRecord: the record is not marked.
HoldUnmarked(r) ==
  /\ Holds({r})
  /\ wait' = Seen({r})
  /\ UNCHANGED <<rec, ans, flight>>

\* The gate holds r; a settled record stays as it is.
HoldRecord(r) ==
  /\ Holds({r})
  /\ wait' = Seen({r})
  /\ rec' = [rec EXCEPT ![r] = IF @ = "pending" THEN "held" ELSE @]
  /\ UNCHANGED <<ans, flight>>

\* r meets the wait: it goes in the release.
ReleaseWith(r) ==
  LET r0 == [rec EXCEPT ![r] = IF @ = "held" THEN "pending" ELSE @] IN
  /\ ~Holds({r})
  /\ wait.items # {}
  /\ ReleaseWait(Seen({r}), {Joint(r, {r})}, r0, ans)
  /\ wait' = Cleared(Seen({r}), wait)

\* No wait, or told at once.
QueueRecord(r) ==
  /\ wait.items = {} \/ r \in AtOnce
  /\ Put({Alone(r, {r})})
  /\ rec' = [rec EXCEPT ![r] = IF @ = "held" THEN "pending" ELSE @]
  /\ UNCHANGED <<ans, wait, msg, releasing, kept>>

Deliver(r) ==
  /\ r \in todo
  /\ todo' = todo \ {r}
  /\ \/ IsReleasing(r) /\ UNCHANGED <<rec, ans, wait, flight>>
     \/ ~IsReleasing(r) /\ r \notin AtOnce /\ (HoldRecord(r) \/ ReleaseWith(r))
     \/ ~IsReleasing(r) /\ QueueRecord(r)
  /\ UNCHANGED <<over, due, here, run, resumed, worker, bounds, got>>

-----------------------------------------------------------------------------
(* deliverRequest: one run at a time for the request's answers.            *)

\* The run ends, or looks once more.
NextLook(again) == [NoRun EXCEPT !.pc = IF again THEN "look" ELSE "idle"]

\* Queued by this plugin run, and no single notice of the queue any more.
WentOut(q) ==
  /\ ans[q] = "queued"
  /\ q \in here
  /\ Block(queue) = {}

\* undelivered, then the look for the Worker begins.
Look ==
  /\ run.pc = "look"
  /\ LET open == {q \in Questions : ans[q] \in Undelivered}
         mine == IF Answers \in releasing THEN {q \in open : ans[q] = "none"} ELSE open
         chat == {q \in mine \cap InChat : ans[q] = "none"}
         sent == chat \cup {q \in mine : WentOut(q)}
         left == mine \ sent IN
     /\ ans' = [q \in Questions |-> IF q \in sent THEN "sent" ELSE ans[q]]
     /\ here' = here \ sent
     /\ run' = IF left = {} THEN NextLook(FALSE)
               ELSE [NoRun EXCEPT !.pc = "find", !.pending = left,
                                  !.held = {q \in left : ans[q] = "held"}]
  /\ UNCHANGED <<over, wait, rec, flight, todo, due, resumed, worker, bounds, got>>

\* What the run's block is recorded as.
Write(S, state) == [q \in Questions |-> IF q \in S THEN state ELSE ans[q]]

\* The Worker could not be looked up: nothing is written, and nothing looks
\* again before another answer, a release or the next plugin run.
NotFound ==
  /\ "unknown" \in Lost
  /\ run' = [NextLook(run.again) EXCEPT !.out = "lost"]
  /\ UNCHANGED <<rec, ans, wait, flight, here>>

\* failAll: no single live Worker.
NoWorker ==
  /\ "none" \in Lost
  /\ ans' = Write(run.pending, "failed")
  /\ here' = here \ run.pending
  /\ run' = NextLook(run.again)
  /\ UNCHANGED <<rec, wait, flight>>

\* The gate holds the block: written for what Look did not read as held.
HoldAnswers ==
  /\ Holds(run.pending)
  /\ wait' = Seen(run.pending)
  /\ ans' = Write(run.pending \ run.held, "held")
  /\ here' = here \ (run.pending \ run.held)
  /\ run' = NextLook(run.again)
  /\ UNCHANGED <<rec, flight>>

\* The block meets the wait: it goes in the release.
ReleaseAnswers ==
  /\ ~Holds(run.pending)
  /\ wait.items # {}
  /\ ReleaseWait(Seen(run.pending), {Joint(Answers, run.pending)}, rec, Write(run.pending, "queued"))
  /\ wait' = Cleared(Seen(run.pending), wait)
  /\ here' = here \ run.pending
  /\ run' = [run EXCEPT !.pc = "await", !.out = "released"]

QueueAnswers ==
  /\ wait.items = {}
  /\ Put({Alone(Answers, run.pending)})
  /\ run' = [run EXCEPT !.pc = "await", !.out = "waiting"]
  /\ UNCHANGED <<rec, ans, wait, msg, releasing, kept, here>>

Find ==
  /\ run.pc = "find"
  /\ NotFound \/ NoWorker \/ HoldAnswers \/ ReleaseAnswers \/ QueueAnswers
  /\ UNCHANGED <<over, todo, due, resumed, worker, bounds, got>>

\* The queue answered: what is written of a block that went alone.  It waits
\* when the Worker is busy, cannot be read, or another delivery looks at it.
Outcome ==
  /\ run.pc = "await"
  /\ LET S == run.pending IN
     /\ ans' = CASE run.out = "waiting" -> Write(S, "queued")
                 [] run.out = "sent" -> Write(S, "sent")
                 [] run.out = "dropped" -> Write(S, "failed")
                 [] OTHER -> ans
     /\ here' = CASE run.out = "waiting" -> here \cup S
                  [] run.out \in {"sent", "dropped"} -> here \ S
                  [] OTHER -> here
  /\ run' = NextLook(run.again)
  /\ UNCHANGED <<over, wait, rec, flight, todo, due, resumed, worker, bounds, got>>

\* noteArrived: the Worker's turn record shows the block.
NoteArrived(q) ==
  /\ ans[q] = "queued"
  /\ got[q] > 0
  /\ ans' = [ans EXCEPT ![q] = "sent"]
  /\ here' = here \ {q}
  /\ UNCHANGED <<over, wait, rec, flight, todo, due, run, resumed, worker, bounds, got>>

\* resume, once per plugin run.
Resume ==
  /\ ~resumed
  /\ resumed' = TRUE
  /\ run' = IF \E q \in Questions : ans[q] \in Undelivered THEN AskRun ELSE run
  /\ UNCHANGED <<stores, flight, todo, due, here, worker, bounds, got>>

-----------------------------------------------------------------------------
(* The notice queue and its callbacks.                                     *)

\* The run awaits the newest block: one that is being sent while another is
\* queued is an older run's.
Told(E, out) ==
  IF run.out = "waiting" /\ Block(E) # {} /\ Block(queue \ E) = {}
  THEN [run EXCEPT !.out = out] ELSE run

\* Alone answers have no callback for an outcome, only for a hold.
JointAnswers(E) == WhatOf({e \in E : e.joint}) \cap Questions

\* settle and hold change an open record only.
Stored(E, state) ==
  [r \in Records |-> IF r \in WhatOf(E) /\ rec[r] \in {"pending", "held"} THEN state ELSE rec[r]]

\* Mutants of FactsIn: what is not facts is kept too; facts are not kept.
AllIn(E) == WhatOf(E)
NoneIn(E) == {}

\* The facts a hold keeps, as their reports.
FactsIn(E) == WhatOf(E) \cap Nat

\* A mutant of Done: what was held stays marked.
DoneSent(E) == IF E \subseteq msg THEN releasing \ JointKeys(E) ELSE releasing

Done(E) == releasing \ JointKeys(E)

\* The Worker is idle: the gate is asked of what goes next.
Flush ==
  /\ worker = "idle"
  /\ msg = {}
  /\ \E T \in Messages : \E H \in SUBSET T :
       /\ HeldAt(T, H)
       /\ queue' = queue \ T
       /\ msg' = T \ H
       /\ wait' = Seen(WhatOf(Gated(T)))
       /\ rec' = Stored(H, "held")
       /\ ans' = Write(WhatOf(H) \cap Questions, "held")
       /\ kept' = kept \cup FactsIn(H)
       /\ here' = here \ WhatOf({e \in H : ~e.joint})
       /\ releasing' = Done(H)
       /\ run' = Told(H, "held")
  /\ UNCHANGED <<over, todo, due, resumed, worker, bounds, got>>

Reached(E) == [i \in Items |-> IF i \in WhatOf(E) /\ got[i] < 2 THEN got[i] + 1 ELSE got[i]]

Sent ==
  /\ msg # {}
  /\ msg' = {}
  /\ worker' = "running"
  /\ got' = Reached(msg)
  /\ rec' = Stored(msg, "delivered")
  /\ ans' = Write(JointAnswers(msg), "sent")
  /\ releasing' = Done(msg)
  /\ run' = Told(msg, "sent")
  /\ UNCHANGED <<over, wait, queue, kept, todo, due, here, resumed, bounds>>

SendRejected ==
  /\ SendFails
  /\ msg # {}
  /\ msg' = {}
  /\ rec' = Stored(msg, "dropped")
  /\ ans' = Write(JointAnswers(msg), "failed")
  /\ releasing' = Done(msg)
  /\ run' = Told(msg, "dropped")
  /\ UNCHANGED <<over, wait, queue, kept, todo, due, here, resumed, worker, bounds, got>>

\* The plugin is loaded anew: what is in memory is gone, a message in flight
\* may have arrived, and every open record is delivered again.
Reload ==
  /\ reloads < MaxReloads
  /\ reloads' = reloads + 1
  /\ got' \in {got, Reached(msg)}
  /\ todo' = {r \in Records : rec[r] \in {"pending", "held"}}
  /\ queue' = {} /\ msg' = {} /\ releasing' = {} /\ kept' = {}
  /\ due' = {} /\ here' = {} /\ run' = NoRun /\ resumed' = FALSE
  /\ UNCHANGED <<stores, worker, reports>>

-----------------------------------------------------------------------------
Init ==
  /\ over = {} /\ wait = NoWait
  /\ rec = [r \in Records |-> "none"]
  /\ ans = [q \in Questions |-> "open"]
  /\ queue = {} /\ msg = {} /\ releasing = {} /\ kept = {}
  /\ todo = {} /\ due = {} /\ here = {} /\ run = NoRun
  /\ resumed = FALSE
  /\ worker = "idle"
  /\ reports = 0 /\ reloads = 0
  /\ got = [i \in Items |-> 0]

Waits ==
  \/ \E q \in Questions : Answer(q)
  \/ \E r \in Records : Post(r)
  \/ \E x \in Requests : End(x)
  \/ StallPass
  \/ \E I \in SUBSET Things, any \in BOOLEAN : Report(I, any)
  \/ StartTurn \/ EndTurn

Plugin ==
  \/ \E w \in due : ReleaseDue(w)
  \/ \E r \in todo : Deliver(r)
  \/ Look \/ Find \/ Outcome \/ Resume
  \/ \E q \in Questions : NoteArrived(q)
  \/ Flush \/ Sent \/ SendRejected

Next == Waits \/ Plugin \/ Reload

Spec == Init /\ [][Next]_vars

\* The plugin goes on: what it awaits returns, its handlers and passes run.  A
\* Worker's turns end, and each end, as each enqueue, has the queue look again.
\* Nothing makes the owner answer, the Worker report or what it awaits end.
FairSpec ==
  /\ Spec
  /\ \A r \in Records : WF_vars(r \in todo /\ Deliver(r))
  /\ WF_vars(\E w \in due : ReleaseDue(w))
  /\ WF_vars(Look) /\ WF_vars(Find) /\ WF_vars(Outcome) /\ WF_vars(Resume)
  /\ WF_vars(\E q \in Questions : NoteArrived(q))
  /\ WF_vars(StallPass)
  /\ SF_vars(Flush) /\ WF_vars(Sent) /\ SF_vars(EndTurn)

-----------------------------------------------------------------------------
(* Properties.                                                             *)

TypeOK ==
  /\ over \subseteq Things
  /\ wait \in Wait
  /\ rec \in [Records -> RecStates]
  /\ ans \in [Questions -> AnsStates]
  /\ todo \subseteq Records
  /\ due \subseteq Wait
  /\ queue \subseteq Entry
  /\ msg \subseteq Entry
  /\ releasing \subseteq Keys
  /\ kept \subseteq 1..MaxReports
  /\ here \subseteq Questions
  /\ run \in Run
  /\ resumed \in BOOLEAN
  /\ worker \in {"idle", "running"}
  /\ reports \in 0..MaxReports
  /\ reloads \in 0..MaxReloads
  /\ got \in [Items -> 0..2]

\* What a release took is on its way: no key stays marked when its item was
\* sent, dropped or held again, or nothing would send it before a reload.
NothingStuck == releasing \subseteq JointKeys(queue \cup msg)

\* A record is on its way to the Worker once, through its own delivery or a
\* release, and while a release carries it no other delivery takes it.
OneWay ==
  \A r \in Records :
    \A e, f \in queue \cup msg : r \in e.what \cap f.what => e = f

\* A held record is looked at again: a wait is stored, a release is due, or
\* after a reload it is yet to be delivered again.  It is not so for a held
\* answer, which a release leaves where other answers of the request go.
HeldIsAwaited ==
  \A r \in Records : rec[r] = "held" => wait # NoWait \/ due # {} \/ r \in todo

\* An open record is held, about to be delivered, or on its way.
OpenRecordIsCarried ==
  \A r \in Records : rec[r] = "pending" => r \in todo \cup WhatOf(queue \cup msg)

\* An answer recorded as sent was read in chat, or the Worker was sent it.  The
\* look at what left the queue assumes that; it is not so when a later answer's
\* block replaced this one while a release of others was on its way.
SentWasSent ==
  \A q \in Questions \ InChat : ans[q] = "sent" => got[q] > 0 \/ q \in WhatOf(msg)

\* The gate at the send: no gated item goes to a Worker whose wait is unmet
\* once the items it carries are settled, however long ago it was queued.
NoUnmetWake == [][Gated(msg' \ msg) # {} => Met(wait')]_vars

\* A wait that is not met by what has ended goes with the Worker's next report
\* only: no release begun for an older wait clears it.
UnmetStands ==
  [][~Met(Settle(wait, over, {})) /\ wait'.report # wait.report => reports' # reports]_vars

\* The facts of a released wait go on until they reached the Worker, but for
\* newer facts that replace them in the queue, a rejected send and a reload.
FactsOnTheWay == (WhatOf(queue \cup msg) \cap Nat) \cup kept
FactsKept ==
  [][\A n \in FactsOnTheWay \ FactsOnTheWay' :
       \/ got'[n] > 0
       \/ \E e \in queue' \ queue : e.key = Facts
       \/ SendFails /\ n \in WhatOf(msg)
       \/ reloads' # reloads]_vars

\* A wait that is met is released: the Worker is woken.
MetIsReleased ==
  \A n \in 1..MaxReports :
    (wait.report = n /\ Met(wait)) ~> (wait.report # n)

\* What is held goes on once all its wait is for has ended.
AwaitsLive == Unsettled(wait) \ over # {}
HeldGoes == \A r \in Records : (rec[r] = "held") ~> (rec[r] # "held" \/ AwaitsLive)

\* An only answer of the owner's reaches the Worker or fails, unless a wait
\* that is for something else still holds it, or the Worker could not be looked
\* up.  Of several, one can lose another its way: see SentWasSent.
Only(q) == \A p \in Questions \ {q} : ans[p] = "open"
AnswerGoes ==
  \A q \in Questions \ InChat :
    (ans[q] \in Undelivered) ~>
      (got[q] > 0 \/ ans[q] = "failed" \/ AwaitsLive \/ run.out = "lost" \/ ~Only(q))
=============================================================================
