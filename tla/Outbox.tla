------------------------------- MODULE Outbox -------------------------------
(***************************************************************************)
(* The outbox of plugin/server/outbox.ts, with the redelivery of           *)
(* mission-replace.ts.  A record is stored before it is delivered; the     *)
(* store survives a reload of the plugin, calls and queued copies do not.  *)
(*                                                                         *)
(* deliverRecord runs up to its await in one action.  What waits in or goes*)
(* through the notice queue is a copy: a closure of deliverRecord with its *)
(* own record, target and callbacks.  NoticeQueue models the queue itself; *)
(* here a target takes one message at a time, of one single copy or of all *)
(* its batched ones, and says sent or dropped.  The wake gate is a choice. *)
(*                                                                         *)
(* The records are of one workspace, one request and one mission; peer     *)
(* records are of one link.  A write of the store does not fail.           *)
(***************************************************************************)
EXTENDS Naturals, FiniteSets

CONSTANTS
  Records,        \* the records of the run
  Notes,          \* no-turn records, numbers in the order they are stored
  Mains,          \* agents that may become the mission's Main
  Peers,          \* agents that may be on the link's other side
  Workers,        \* other agents
  Class,          \* record -> "main", "peer" or "plain": who it is addressed to
  NoteTo,         \* note -> the agent it is addressed to
  MayHold,        \* records the wake gate may hold
  NoAgent,        \* no live agent on the link's other side
  Unknown,        \* a lookup of the link that failed
  NoCall,         \* no call in progress
  PeerRetargets,  \* PEER_RETARGETS
  MaxNotes,       \* MAX_NO_TURN_NOTES
  MayFail,        \* may the queue drop a copy?
  MaxReloads      \* bound: reloads of the plugin

Agents == Mains \cup Peers \cup Workers

ASSUME OutboxAssumption ==
  /\ Notes \subseteq Nat
  /\ Mains # {}
  /\ Class \in [Records -> {"main", "peer", "plain"}]
  /\ NoteTo \in [Notes -> Agents]
  /\ MayHold \subseteq {r \in Records : Class[r] # "main"}
  /\ NoAgent \notin Agents
  /\ Unknown \notin Agents \cup {NoAgent}
  /\ {"resend", "replace", "release"} \cap Records = {}
  /\ PeerRetargets \in Nat
  /\ MaxNotes \in Nat \ {0}
  /\ MayFail \in BOOLEAN
  /\ MaxReloads \in Nat

VARIABLES
  state,      \* record -> its state in the store ("none": not stored yet)
  to,         \* record -> its target in the store
  note,       \* note -> "none", "stored" or "shown"
  predates,   \* dropped record -> the records created before its drop
  alert,      \* whether the request's delivery-dropped alert is raised
  mission,    \* the mission's Main, the one it replaced, all former ones, is it open?
  peer,       \* the live agent on the link's other side, or NoAgent
  calls,      \* caller -> its deliverRecord, until it reaches the queue or ends
  left,       \* loop -> what it has yet to deliver, as it was listed
  copies,     \* what the notice queue holds or sends
  resend,     \* the resend of this run: "off", "begun" or "listed"
  replacing,  \* the step of replaceMain
  reloads,    \* how often the plugin was reloaded
  parked,     \* history: records whose drop left them to the mission's next Main
  excused,    \* history: drops whose alert the request's end cleared
  reached,    \* history: records that reached an agent
  read        \* history: pairs of a note and an agent that read it

store == <<state, to, note, predates, alert>>
world == <<mission, peer>>
run == <<calls, left, copies, resend, replacing>>
history == <<parked, excused, reached, read>>
vars == <<store, world, run, reloads, history>>

States == {"none", "pending", "held", "delivered", "dropped", "withheld"}
Settled == {"delivered", "dropped", "withheld"}
Loops == {"resend", "replace"}
Callers == Records \cup Loops

\* A record as a caller holds it: it may be stale.
Given == [rec : Records, to : Agents, was : States]
Call == {c \in [rec : Records, to : Agents, was : States, stage : {"stored", "asking"}] :
           c.stage = "asking" => Class[c.rec] = "peer"}

ASSUME NoCallAssumption == NoCall \notin Call

\* A copy: `to' is its closure's target, `at' the queue it is in.
Fields == [rec : Records, to : Agents, at : Agents, tries : 0..PeerRetargets,
           how : {"single", "batch", "release"}, by : Callers \cup {"release"},
           lead : SUBSET Notes, stage : {"queued", "sending", "taken", "asking"}]
Copy == {c \in Fields : c.stage = "asking" => Class[c.rec] = "peer" /\ c.tries < PeerRetargets}

TypeOK ==
  /\ state \in [Records -> States]
  /\ to \in [Records -> Agents \cup {NoAgent}]
  /\ note \in [Notes -> {"none", "stored", "shown"}]
  /\ predates \in [Records -> SUBSET Records]
  /\ alert \in BOOLEAN
  /\ mission \in [main : Mains, last : Mains, former : SUBSET Mains, open : BOOLEAN]
  /\ peer \in Peers \cup {NoAgent}
  /\ calls \in [Callers -> Call \cup {NoCall}]
  /\ left \in [Loops -> SUBSET Given]
  /\ copies \subseteq Copy
  /\ resend \in {"off", "begun", "listed"}
  /\ replacing \in {"no", "named", "moved"}
  /\ reloads \in Nat
  /\ parked \subseteq Records /\ excused \subseteq Records
  /\ reached \subseteq Records
  /\ read \subseteq Notes \X Agents

-----------------------------------------------------------------------------
(* The store.                                                              *)

\* A mutant of IsOpenRecord: a settled record counts as open.
IsStored(r) == state[r] # "none"

IsOpenRecord(r) == state[r] \in {"pending", "held"}

\* A mutant of Hold: a settled record is held or released too.
HoldAny(S, s) == [r \in Records |-> IF r \in S THEN s ELSE state[r]]

\* hold(r, on) for every r of S: a settled record never changes.
Hold(S, s) == [r \in Records |-> IF r \in S /\ IsOpenRecord(r) THEN s ELSE state[r]]

\* A mutant of DropsCovered: one covered drop clears the alert of all.
AnyCovered(st, pre) ==
  \E d \in Records : st[d] = "dropped" /\
    \E r \in Records \ pre[d] : st[r] = "delivered" /\ to[r] = to[d] /\ Class[r] = Class[d]

\* dropsCovered: a delivered record of the same target and kind follows every
\* drop.  Notes, which the code counts as well, cover nothing here.
DropsCovered(st, pre) ==
  \A d \in Records : st[d] = "dropped" =>
    \E r \in Records \ pre[d] : st[r] = "delivered" /\ to[r] = to[d] /\ Class[r] = Class[d]

\* recordOutcome: D are delivered or X are dropped, of those still open.
Outcome(D, X) ==
  LET done == {r \in D : IsOpenRecord(r)}
      lost == {r \in X : IsOpenRecord(r)}
  IN /\ state' = [r \in Records |-> IF r \in done THEN "delivered"
                                    ELSE IF r \in lost THEN "dropped" ELSE state[r]]
     /\ predates' = [r \in Records |-> IF r \in lost THEN {s \in Records : IsStored(s)}
                                       ELSE predates[r]]
     /\ alert' = (lost # {} \/ (alert /\ ~(done # {} /\ DropsCovered(state', predates'))))

\* noTurnLeadOf: the notes no delivery to a carried yet, of which a message
\* lists the newest.
Lead(a) == {n \in Notes : note[n] = "stored" /\ NoteTo[n] = a}

\* A mutant of Listed: a message lists the oldest.
ListedOldest(lead) == {n \in lead : Cardinality({m \in lead : m < n}) < MaxNotes}

Listed(lead) == {n \in lead : Cardinality({m \in lead : m > n}) < MaxNotes}

-----------------------------------------------------------------------------
(* Into the notice queue.                                                  *)

\* enqueueNotice: one item of the Main's channel, else a single notice.
Attempt(r, a, tries, lead, by) ==
  [rec |-> r, to |-> a, at |-> a, tries |-> tries, lead |-> lead, by |-> by, stage |-> "queued",
   how |-> IF mission.open /\ a = mission.main THEN "batch" ELSE "single"]

\* One item of releaseWait.
Released(r, a, lead, by) == [Attempt(r, a, 0, lead, by) EXCEPT !.how = "release"]

SameKind(old, new) ==
  /\ old.stage = "queued" /\ old.rec = new.rec /\ old.at = new.at
  /\ (old.how = "single") = (new.how = "single")

\* The queue's put: the newest of a kind replaces the older.
Put(queue, new) == {old \in queue : \A c \in new : ~SameKind(old, c)} \cup new

\* isReleasing: r is in a release to a that its callbacks have not ended.
IsReleasing(r, a) == \E c \in copies : c.how = "release" /\ c.rec = r /\ c.at = a

\* A mutant of HeldItems: a release takes every open record.
OpenItems(a) == {r \in Records : IsOpenRecord(r) /\ to[r] = a /\ ~IsReleasing(r, a)}

\* heldRecordItems, as heldItemsOf filters it.
HeldItems(a) == {r \in Records : state[r] = "held" /\ to[r] = a /\ ~IsReleasing(r, a)}

-----------------------------------------------------------------------------
(* deliverRecord.                                                          *)

\* deliverRecord of d by c, once its peer target is known: the mission's Main,
\* the notes, the wake gate, the queue.
CarryOn(c, d, tos) ==
  LET moved == Class[d.rec] = "main" /\ d.to # mission.main /\ IsOpenRecord(d.rec)
      a == IF moved THEN mission.main ELSE d.to
      unheld == IF (IF moved THEN state[d.rec] ELSE d.was) = "held" THEN {d.rec} ELSE {}
  IN /\ to' = IF moved THEN [tos EXCEPT ![d.rec] = a] ELSE tos
     /\ calls' = [calls EXCEPT ![c] = NoCall]
     /\ \/ /\ IsReleasing(d.rec, a)
           /\ UNCHANGED <<state, copies>>
        \/ /\ ~IsReleasing(d.rec, a)   \* the gate delivers
           /\ state' = Hold(unheld, "pending")
           /\ copies' = Put(copies, {Attempt(d.rec, a, 0, Lead(a), c)})
        \/ /\ ~IsReleasing(d.rec, a)   \* the gate holds
           /\ d.rec \in MayHold
           /\ state' = Hold({d.rec}, "held")
           /\ UNCHANGED copies
        \/ /\ ~IsReleasing(d.rec, a)   \* the record meets the wait: releaseWait
           /\ d.rec \in MayHold
           /\ LET held == HeldItems(a) \ {d.rec} IN
              /\ state' = Hold(unheld \cup held, "pending")
              /\ copies' = Put(copies, {Released(d.rec, a, Lead(a), c)}
                                 \cup {Released(r, a, {}, "release") : r \in held})
     /\ UNCHANGED <<note, predates, alert>>

\* The start of deliverRecord: a peer record's target is looked up first.
Begin(c, d) ==
  \/ /\ Class[d.rec] = "peer"
     /\ calls' = [calls EXCEPT ![c] = [rec |-> d.rec, to |-> d.to, was |-> d.was, stage |-> "asking"]]
     /\ UNCHANGED <<store, copies>>
  \/ /\ Class[d.rec] # "peer"
     /\ CarryOn(c, d, to)

\* storeAndDeliver: the record is stored pending; `before' runs before it goes.
Post(r) ==
  /\ state[r] = "none" /\ resend # "off"
  /\ \E a \in (CASE Class[r] = "main" -> {mission.main} \cup mission.former
                 [] Class[r] = "peer" -> {peer} \ {NoAgent}
                 [] Class[r] = "plain" -> Workers) :
       /\ to' = [to EXCEPT ![r] = a]
       /\ calls' = [calls EXCEPT ![r] = [rec |-> r, to |-> a, was |-> "pending", stage |-> "stored"]]
  /\ state' = [state EXCEPT ![r] = "pending"]
  /\ UNCHANGED <<note, predates, alert, world, left, copies, resend, replacing, reloads, history>>

\* add with `withheld': settled at once, never sent.
Withhold(r) ==
  /\ state[r] = "none" /\ Class[r] = "plain"
  /\ state' = [state EXCEPT ![r] = "withheld"]
  /\ \E a \in Workers : to' = [to EXCEPT ![r] = a]
  /\ UNCHANGED <<note, predates, alert, world, run, reloads, history>>

\* add with `noTurn': settled at once, read at the head of a later delivery.
PostNote(n) ==
  /\ note[n] = "none" /\ \A m \in Notes : m < n => note[m] # "none"
  /\ note' = [note EXCEPT ![n] = "stored"]
  /\ UNCHANGED <<state, to, predates, alert, world, run, reloads, history>>

DeliverStored(r) ==
  /\ calls[r] # NoCall /\ calls[r].stage = "stored"
  /\ Begin(r, calls[r])
  /\ UNCHANGED <<world, left, resend, replacing, reloads, history>>

\* peerTarget answered: no live agent, the stored target, or another agent.
Resolved(c) ==
  /\ calls[c] # NoCall /\ calls[c].stage = "asking"
  /\ LET d == calls[c] IN
     \/ /\ peer = NoAgent
        /\ calls' = [calls EXCEPT ![c] = NoCall]
        /\ Outcome({}, {d.rec})
        /\ UNCHANGED <<to, note, copies>>
     \/ \E a \in {peer, Unknown} \ {NoAgent} :
          IF a \in {Unknown, d.to} \/ ~IsOpenRecord(d.rec)
          THEN CarryOn(c, d, to)
          ELSE CarryOn(c, [rec |-> d.rec, to |-> a, was |-> state[d.rec]], [to EXCEPT ![d.rec] = a])
  /\ UNCHANGED <<world, left, resend, replacing, reloads, history>>

\* The next record of a loop, as it was when the loop listed it.
LoopNext(l) ==
  /\ calls[l] = NoCall
  /\ \E d \in left[l] : /\ left' = [left EXCEPT ![l] = @ \ {d}]
                        /\ Begin(l, d)
  /\ UNCHANGED <<world, resend, replacing, reloads, history>>

-----------------------------------------------------------------------------
(* The notice queue's callbacks.                                           *)

At(a, stages) == {c \in copies : c.at = a /\ c.stage \in stages}
RecordsOf(S) == {c.rec : c \in S}

\* The queue takes a message for an idle target; the gate is asked once more.
Take(a) ==
  /\ At(a, {"sending", "taken"}) = {}
  /\ \E c \in At(a, {"queued"}) :
       LET msg == IF c.how = "single" THEN {c} ELSE {b \in At(a, {"queued"}) : b.how # "single"} IN
       \E held \in SUBSET {b \in msg : b.rec \in MayHold} :
         /\ copies' = (copies \ msg) \cup {[b EXCEPT !.stage = "sending"] : b \in msg \ held}
         /\ state' = Hold(RecordsOf(held), "held")
  /\ UNCHANGED <<to, note, predates, alert, world, calls, left, resend, replacing, reloads, history>>

\* The daemon gives the message to the agent.
Reach(a) ==
  /\ At(a, {"sending"}) # {}
  /\ copies' = (copies \ At(a, {"sending"})) \cup {[c EXCEPT !.stage = "taken"] : c \in At(a, {"sending"})}
  /\ reached' = reached \cup RecordsOf(At(a, {"sending"}))
  /\ read' = read \cup (UNION {Listed(c.lead) : c \in At(a, {"sending"})}) \X {a}
  /\ UNCHANGED <<store, world, calls, left, resend, replacing, reloads, parked, excused>>

\* onSent of every copy of the message.
Sent(a) ==
  /\ At(a, {"taken"}) # {}
  /\ copies' = copies \ At(a, {"taken"})
  /\ Outcome(RecordsOf(At(a, {"taken"})), {})
  /\ note' = [n \in Notes |-> IF \E c \in At(a, {"taken"}) : n \in c.lead THEN "shown" ELSE note[n]]
  /\ UNCHANGED <<to, world, calls, left, resend, replacing, reloads, history>>

\* The mission has another Main now.
MovesAgain(c) == c.how # "release" /\ Class[c.rec] = "main" /\ c.to # mission.main

\* `dropped' of a copy to a Main: the mission's Main now, ...
MayMove(c) == MovesAgain(c) /\ c.tries < PeerRetargets

\* A mutant of MayPark: a drop is final although the mission is open.
NeverParks(c) == FALSE

\* ... else it stays pending for the next one.
MayPark(c) == c.how # "release" /\ Class[c.rec] = "main" /\ ~MayMove(c) /\ mission.open

\* A mutant of MayAsk: no bound on the targets of one delivery.
AsksAgain(c) == c.how # "release" /\ Class[c.rec] = "peer"

\* `dropped' of a peer's copy: its side is looked up again.
MayAsk(c) == c.how # "release" /\ Class[c.rec] = "peer" /\ c.tries < PeerRetargets

\* onDropped of every copy of the message: it did not reach the target, or it
\* did and the reply was lost.
Failed(a) ==
  LET msg == At(a, {"sending", "taken"})
      moves == {c \in msg : MayMove(c) /\ IsOpenRecord(c.rec)}
      asks == {c \in msg : MayAsk(c)}
      ends == {c \in msg : ~MayMove(c) /\ ~MayPark(c) /\ ~MayAsk(c)}
  IN /\ MayFail /\ msg # {}
     /\ copies' = Put((copies \ msg) \cup {[c EXCEPT !.stage = "asking"] : c \in asks},
                      {Attempt(c.rec, mission.main, c.tries + 1, c.lead, c.by) : c \in moves})
     /\ to' = [r \in Records |-> IF r \in RecordsOf(moves) THEN mission.main ELSE to[r]]
     /\ Outcome({}, RecordsOf(ends))
     /\ parked' = parked \cup {c.rec : c \in {b \in msg : MayPark(b)}}
     /\ UNCHANGED <<note, world, calls, left, resend, replacing, reloads, excused, reached, read>>

\* The next attempt of one delivery.
Again(c, a) == Attempt(c.rec, a, c.tries + 1, c.lead, c.by)

\* The lookup after a drop answered: another live agent gets the record.
Asked(c) ==
  /\ c.stage = "asking"
  /\ \E a \in {peer, Unknown} :
       \/ /\ a \in {NoAgent, Unknown, c.to}
          /\ Outcome({}, {c.rec})
          /\ copies' = copies \ {c}
          /\ UNCHANGED to
       \/ /\ a \notin {NoAgent, Unknown, c.to}
          /\ IF IsOpenRecord(c.rec)
             THEN /\ to' = [to EXCEPT ![c.rec] = a]
                  /\ copies' = Put(copies \ {c}, {Again(c, a)})
             ELSE /\ copies' = copies \ {c}
                  /\ UNCHANGED to
          /\ UNCHANGED <<state, predates, alert>>
  /\ UNCHANGED <<note, world, calls, left, resend, replacing, reloads, history>>

-----------------------------------------------------------------------------
(* Releases, the mission, the request, the link.                           *)

\* releaseWait of an agent's held records, with no delivery that met the wait.
Release(a) ==
  /\ HeldItems(a) # {}
  /\ state' = Hold(HeldItems(a), "pending")
  /\ copies' = Put(copies, {Released(r, a, {}, "release") : r \in HeldItems(a)})
  /\ UNCHANGED <<to, note, predates, alert, world, calls, left, resend, replacing, reloads, history>>

\* replaceMain, single flight: the mission names its next Main, ...
ReplaceMain(m) ==
  /\ replacing = "no" /\ left["replace"] = {} /\ calls["replace"] = NoCall
  /\ mission.open /\ m \notin mission.former \cup {mission.main}
  /\ mission' = [mission EXCEPT !.main = m, !.last = mission.main, !.former = @ \cup {mission.main}]
  /\ replacing' = "named"
  /\ UNCHANGED <<store, peer, calls, left, copies, resend, reloads, history>>

\* ... the queue moves what it holds for the old one ...
MoveQueue ==
  /\ replacing = "named"
  /\ LET moved == {c \in copies : c.stage = "queued" /\ c.at = mission.last} IN
     copies' = Put(copies \ moved, {[c EXCEPT !.at = mission.main] : c \in moved})
  /\ replacing' = "moved"
  /\ UNCHANGED <<store, world, calls, left, resend, reloads, history>>

\* A mutant of OpenGiven: only held records are listed.
HeldGiven(R) == {[rec |-> r, to |-> to[r], was |-> state[r]] : r \in {s \in R : state[s] = "held"}}

\* The open records among R as they are now.
OpenGiven(R) == {[rec |-> r, to |-> to[r], was |-> state[r]] : r \in {s \in R : IsOpenRecord(s)}}

\* A mutant of ToFormer: the successor gets what the queue moved, no more.
ToNobody == {}

ToFormer == {r \in Records : to[r] \in mission.former}

\* ... and the open records addressed to a former one are delivered again.
ListFormer ==
  /\ replacing = "moved"
  /\ left' = [left EXCEPT !["replace"] = OpenGiven(ToFormer)]
  /\ parked' = {r \in parked : to[r] \notin mission.former}
  /\ replacing' = "no"
  /\ UNCHANGED <<store, world, calls, copies, resend, reloads, excused, reached, read>>

EndMission ==
  /\ mission.open
  /\ mission' = [mission EXCEPT !.open = FALSE]
  /\ UNCHANGED <<store, peer, run, reloads, history>>

\* The request reported finished or stopped: clearDroppedAlert with null.
EndRequest ==
  /\ resend # "off" /\ alert
  /\ alert' = FALSE
  /\ excused' = {r \in Records : state[r] = "dropped"}
  /\ UNCHANGED <<state, to, note, predates, world, run, reloads, parked, reached, read>>

\* The agent on the link's other side is replaced, archived or opened.
PeerChanges ==
  /\ peer' \in (Peers \cup {NoAgent}) \ {peer}
  /\ UNCHANGED <<store, mission, run, reloads, history>>

-----------------------------------------------------------------------------
(* Reload.                                                                 *)

Reload ==
  /\ reloads < MaxReloads
  /\ reloads' = reloads + 1
  /\ calls' = [c \in Callers |-> NoCall]
  /\ left' = [l \in Loops |-> {}]
  /\ copies' = {}
  /\ resend' = "off" /\ replacing' = "no"
  /\ parked' = {}
  /\ UNCHANGED <<store, world, excused, reached, read>>

\* createOutboxResend.run: the first hook with a handle.
Resume ==
  /\ resend = "off" /\ resend' = "begun"
  /\ UNCHANGED <<store, world, calls, left, copies, replacing, reloads, history>>

\* It lists the workspace when it comes to it.
ListOpen ==
  /\ resend = "begun" /\ resend' = "listed"
  /\ left' = [left EXCEPT !["resend"] = OpenGiven(Records)]
  /\ UNCHANGED <<store, world, calls, copies, replacing, reloads, history>>

-----------------------------------------------------------------------------

Init ==
  /\ state = [r \in Records |-> "none"]
  /\ to = [r \in Records |-> NoAgent]
  /\ note = [n \in Notes |-> "none"]
  /\ predates = [r \in Records |-> {}]
  /\ alert = FALSE
  /\ \E m \in Mains : mission = [main |-> m, last |-> m, former |-> {}, open |-> TRUE]
  /\ peer \in Peers \cup {NoAgent}
  /\ calls = [c \in Callers |-> NoCall]
  /\ left = [l \in Loops |-> {}]
  /\ copies = {}
  /\ resend = "listed" /\ replacing = "no" /\ reloads = 0
  /\ parked = {} /\ excused = {} /\ reached = {} /\ read = {}

Environment ==
  \/ \E r \in Records : Post(r) \/ Withhold(r)
  \/ \E n \in Notes : PostNote(n)
  \/ \E a \in Agents : Release(a)
  \/ \E m \in Mains : ReplaceMain(m)
  \/ EndMission \/ EndRequest \/ PeerChanges \/ Reload

Answer(a) == Reach(a) \/ Sent(a) \/ Failed(a)
Replacement == MoveQueue \/ ListFormer
Resending == Resume \/ ListOpen

Next ==
  \/ Environment
  \/ \E r \in Records : DeliverStored(r)
  \/ \E c \in Callers : Resolved(c)
  \/ \E l \in Loops : LoopNext(l)
  \/ \E a \in Agents : Take(a) \/ Answer(a)
  \/ \E c \in copies : Asked(c)
  \/ Replacement \/ Resending

Spec == Init /\ [][Next]_vars

\* Calls run on, the resend begins with the first hook, agents become idle and
\* the daemon answers.
Fairness ==
  /\ WF_vars(Replacement) /\ WF_vars(Resending)
  /\ \A r \in Records : WF_vars(DeliverStored(r))
  /\ \A c \in Callers : WF_vars(Resolved(c))
  /\ \A l \in Loops : WF_vars(LoopNext(l))
  /\ \A a \in Agents : WF_vars(Take(a)) /\ WF_vars(Answer(a))
  /\ WF_vars(\E c \in copies : Asked(c))

FairSpec == Spec /\ Fairness

-----------------------------------------------------------------------------
(* Properties.                                                             *)

\* What delivers r in this run of the plugin: calls, loops and copies.
CallsOf(r) == {c \in Callers : calls[c] # NoCall /\ calls[c].rec = r}
LoopsOf(r) == {l \in Loops : \E d \in left[l] : d.rec = r}
CopiesOf(r) == {c \in copies : c.rec = r}

\* No open record is forgotten: outside a reload's resend, a pending record is
\* with a call, a loop or the notice queue, or its drop left it to the
\* mission's next Main.
OpenIsCarried ==
  \A r \in Records : state[r] = "pending" =>
    CallsOf(r) \cup LoopsOf(r) # {} \/ CopiesOf(r) # {} \/ r \in parked \/ resend # "listed"

\* Until the plugin is reloaded or the Main replaced, one thing at a time
\* delivers a record.
OneCarrier ==
  reloads = 0 /\ mission.former = {} =>
    \A r \in Records :
      Cardinality(CallsOf(r)) + Cardinality(LoopsOf(r)) + Cardinality(CopiesOf(r)) <= 1

\* The delivery-dropped alert stands while a drop is followed by no delivered
\* record of its target and kind, unless the request's end cleared it.
DropIsTold ==
  \A d \in Records \ excused : state[d] = "dropped" =>
    alert \/ \E r \in Records \ predates[d] :
               state[r] = "delivered" /\ to[r] = to[d] /\ Class[r] = Class[d]

\* A note is marked shown only when an agent read it, or a newer one in its
\* place (at most MaxNotes are listed).
ShownWasRead ==
  \A n \in Notes : note[n] = "shown" => \E m \in Notes, a \in Agents : m >= n /\ <<m, a>> \in read

\* "A settled record never changes": neither its state nor its target.
SettledStays ==
  [][\A r \in Records : state[r] \in Settled => state'[r] = state[r] /\ to'[r] = to[r]]_vars

\* While its mission is open, a record to a Main is never dropped.
MainRecordKept ==
  [][\A r \in Records : Class[r] = "main" /\ IsOpenRecord(r) /\ state'[r] = "dropped"
       => ~mission.open]_vars

\* The outbox keeps the promise of Delivery.
Promise == INSTANCE Delivery WITH
  state <- [r \in Records |-> IF state[r] \in {"pending", "held"} THEN "open" ELSE state[r]]
PromiseKept == Promise!Spec

\* A pending record is delivered, dropped, held by the gate or left to the
\* mission's next Main.
OpenSettles ==
  \A r \in Records : state[r] = "pending" ~> state[r] # "pending" \/ r \in parked
=============================================================================
