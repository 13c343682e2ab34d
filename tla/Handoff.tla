------------------------------- MODULE Handoff -------------------------------
(***************************************************************************)
(* The handoffs of one request of plugin/server/handoff.ts, with their     *)
(* store, plugin/server/handoff-store.ts.                                  *)
(*                                                                         *)
(* A Worker whose request grew too long is replaced by a successor: the    *)
(* plugin asks the Worker for a note, builds a brief and, when the Manager *)
(* is bound, creates the successor itself; else it commands the Manager to *)
(* create one.  Every recorded turn end is a call that takes each pending  *)
(* handoff a step further; calls overlap at their awaits, and with the     *)
(* `agent.created' handlers of new Workers.                                *)
(*                                                                         *)
(* The plugin is one thread.  Code between two awaits is one action, or    *)
(* several when it loops over handoffs: `thread' is then the call that     *)
(* runs, and nothing else moves.                                           *)
(***************************************************************************)
EXTENDS Integers, Sequences, FiniteSets

CONSTANTS
  Calls,          \* turn ends that may be handled at once
  MaxHandoffs,    \* bound: handoffs of the request
  MaxAgents,      \* bound: Workers created after the first
  MaxPerRequest,  \* handoff.maxPerRequest
  Bindings,       \* a subset of BOOLEAN: may the Manager be bound, or not?
  Obstacles,      \* what may go wrong, of AllObstacles
  MaySwitch,      \* may the owner turn handoff off and on?
  MaxReloads      \* bound: plugin reloads

AllObstacles ==
  {"finished",     \* the request finished meanwhile
   "no-manager",   \* the Manager is archived, or its snapshot cannot be read
   "refused",      \* the loop guard, the placement or the profile refuses
   "unreachable",  \* the queue could not deliver the command
   "error",        \* Paseo answers a creation with an error though it may do it
   "unread"}       \* the agent list or the new Worker cannot be read

ASSUME HandoffAssumption ==
  /\ Calls \cap Int = {}
  /\ MaxHandoffs \in Nat \ {0}
  /\ MaxAgents \in Nat
  /\ MaxPerRequest \in Nat
  /\ Bindings \subseteq BOOLEAN /\ Bindings # {}
  /\ Obstacles \subseteq AllObstacles
  /\ MaySwitch \in BOOLEAN
  /\ MaxReloads \in Nat

VARIABLES
  entry,       \* handoff -> its file
  agents,      \* the Workers created, in order: whom each replaces, for which handoff
  enabled,     \* the owner's handoff switch
  bound,       \* has the Manager a live binding?
  asked,       \* handoff -> what became of the plugin's request to create its successor
  mail,        \* handoff -> commands the Manager got and has not acted on
  held,        \* handoff -> commands in the notice queue for the Manager
  note,        \* handoff -> its note request in the notice queue for the Worker
  news,        \* Workers whose agent.created is not handled yet
  creating,    \* Workers whose successor this plugin run is creating
  reconciled,  \* handoffs this plugin run looked up in Paseo
  task,        \* call, or new Worker's handler -> what it is doing
  thread,      \* the call that runs between two awaits, else Free
  reloads      \* how often the plugin was reloaded

files == <<entry, agents, enabled, bound>>
daemon == <<asked, mail, news>>
memory == <<held, note, creating, reconciled>>
vars == <<files, daemon, memory, task, thread, reloads>>

Handoffs == 1..MaxHandoffs
Workers == 0..MaxAgents     \* 0 is the request's first Worker
NewWorkers == 1..MaxAgents
Nobody == -1
Free == 0
Tasks == Calls \cup NewWorkers

States == {"none", "waiting", "noting", "briefed", "creating", "commanded", "done", "dropped", "failed"}
Pending == {"waiting", "noting", "briefed", "creating", "commanded"}
Ended == {"done", "dropped", "failed"}
Endings == {"none", "no-safe-point", "no-successor", "other"}

\* `late': it is past the bound of its state; `cmd': a command of it went out.
Entry == [state : States, worker : Workers, late : BOOLEAN, cmd : BOOLEAN,
          succ : Workers \cup {Nobody}, ending : Endings]
NoEntry == [state |-> "none", worker |-> 0, late |-> FALSE, cmd |-> FALSE,
            succ |-> Nobody, ending |-> "none"]
Waiting(w) == [NoEntry EXCEPT !.state = "waiting", !.worker = w]

\* `own': the Worker whose turn ended; `look': listed as `creating'; `seen': the
\* states of the pending ones as listed; `on': the switch as read; `e', `s': the
\* handoff in hand and its successor; `back': where it goes on.
Task == [pc : {"idle", "look", "list", "start", "parent", "begin", "next", "note", "brief",
               "manager", "send", "sent", "prepare", "create", "inform", "label"},
         own : Workers \cup {Nobody}, look : SUBSET Handoffs, seen : [Handoffs -> States],
         on : BOOLEAN, e : Handoffs, s : Workers, back : {"look", "next", "idle"}]
Nothing == [h \in Handoffs |-> "none"]
Idle == [pc |-> "idle", own |-> Nobody, look |-> {}, seen |-> Nothing,
         on |-> FALSE, e |-> 1, s |-> 0, back |-> "idle"]

-----------------------------------------------------------------------------
(* The store.                                                              *)

\* A mutant of Stale: a creation has no bound.
StaleNotCreating(r) == r.late /\ r.state \in Pending \ {"noting", "creating"}

\* staleEndingOf: a `noting' entry has none.
Stale(r) == r.late /\ r.state \in Pending \ {"noting"}
StaleEnding(r) ==
  CASE r.state = "waiting" -> "no-safe-point"
    [] r.state = "briefed" -> "other"
    [] OTHER -> "no-successor"

\* endedHandoff.
End(r, why) ==
  [r EXCEPT !.state = IF r.cmd THEN "failed" ELSE "dropped", !.ending = why, !.late = FALSE]

\* What `end' of the runner stores: only a pending entry ends.
EndPending(r, why) == IF r.state \in Pending THEN End(r, why) ELSE r

Moved(r, to) == [r EXCEPT !.state = to, !.late = FALSE]

\* expire.
Expired == [h \in Handoffs |-> IF Stale(entry[h]) THEN End(entry[h], StaleEnding(entry[h])) ELSE entry[h]]

Starting == {h \in Handoffs : entry[h].state # "none"}
Unused == Handoffs \ Starting
PendingNow == {h \in Handoffs : entry[h].state \in Pending /\ ~Stale(entry[h])}

\* handoffTriesOf.
Tries == {h \in Handoffs : entry[h].succ # Nobody \/ entry[h].ending = "no-safe-point"}

IsOldest(h, H) == h \in H /\ \A g \in H : h <= g
IsNewest(h, H) == h \in H /\ \A g \in H : g <= h

May(o) == o \in Obstacles

-----------------------------------------------------------------------------
(* The thread.  A step goes on in it, or awaits and leaves it.             *)

Runs(c, pc) == thread = c /\ task[c].pc = pc
Awaits(t, pc) == thread = Free /\ task[t].pc = pc
GoOn(c, r) == task' = [task EXCEPT ![c] = r] /\ thread' = c
Await(t, r) == task' = [task EXCEPT ![t] = r] /\ thread' = Free

\* The handoffs a call has still to take further, oldest first.
Todo(c) == {h \in Handoffs : task[c].seen[h] # "none"}
First(c, h) == Runs(c, "next") /\ IsOldest(h, Todo(c))
Rest(c, h) == [task[c] EXCEPT !.pc = "next", !.seen[h] = "none"]
Skip(c) == GoOn(c, Rest(c, task[c].e))

Store(h, r) == entry' = [entry EXCEPT ![h] = r]
EndsWith(h, why) == Store(h, EndPending(entry[h], why))

-----------------------------------------------------------------------------
(* A successor appeared.                                                   *)

Taken(s) == \E h \in Handoffs : entry[h].succ = s
Labelled(w) == {s \in DOMAIN agents : agents[s].from = w}
SuccessorOf(r, s, cmd) ==
  [Moved(r, "done") EXCEPT !.succ = s, !.ending = "none", !.cmd = @ \/ cmd]

\* finishCreated: the Manager is informed, and then the entry is done.
FinishCreated(t, h, s, back) ==
  Await(t, [task[t] EXCEPT !.pc = "inform", !.e = h, !.s = s, !.back = back])

\* The send may be refused or fail.
Informed(t) ==
  /\ Awaits(t, "inform")
  /\ \E cmd \in BOOLEAN : Store(task[t].e, SuccessorOf(entry[task[t].e], task[t].s, cmd))
  /\ Await(t, [task[t] EXCEPT !.pc = "label"])
  /\ UNCHANGED <<agents, enabled, bound, daemon, memory, reloads>>

\* complete's end: the outgoing Worker was labelled and told.
Completed(t) ==
  LET w == entry[task[t].e].worker IN
  /\ Awaits(t, "label")
  /\ CASE task[t].back = "next" -> creating' = creating \ {w} /\ Skip(t)
       [] task[t].back = "look" -> UNCHANGED creating /\ GoOn(t, [task[t] EXCEPT !.pc = "look"])
       [] OTHER -> UNCHANGED creating /\ Await(t, Idle)
  /\ UNCHANGED <<files, daemon, held, note, reconciled, reloads>>

\* The handoffs agent.created of a successor of w may complete.
Awaited(w) ==
  {h \in Handoffs : /\ entry[h].worker = w /\ entry[h].succ = Nobody
                    /\ \/ entry[h].state \in {"commanded", "creating"}
                       \/ entry[h].state = "failed" /\ entry[h].ending = "no-successor"}

\* agentCreated of s, once its snapshot is read: its newest handoff.
LinkTo(s, h) ==
  IF entry[h].state = "creating"
  THEN FinishCreated(s, h, s, "idle") /\ UNCHANGED entry
  ELSE /\ Store(h, SuccessorOf(entry[h], s, FALSE))
       /\ Await(s, [task[s] EXCEPT !.pc = "label", !.e = h, !.s = s])

AgentCreated(s) ==
  LET w == agents[s].from IN
  /\ thread = Free
  /\ s \in news
  /\ news' = news \ {s}
  /\ \/ /\ May("unread") \/ w \in creating \/ Taken(s) \/ Awaited(w) = {}
        /\ UNCHANGED <<entry, task, thread>>
     \/ /\ w \notin creating /\ ~Taken(s)
        /\ \E h \in Handoffs : IsNewest(h, Awaited(w)) /\ LinkTo(s, h)
  /\ UNCHANGED <<agents, enabled, bound, asked, mail, memory, reloads>>

-----------------------------------------------------------------------------
(* A recorded turn end: turnRecorded.                                      *)

\* Of Worker w, or of another agent.
TurnEnds(c, w) ==
  /\ Awaits(c, "idle")
  /\ w \in {Nobody} \cup 0..Len(agents)
  /\ GoOn(c, [Idle EXCEPT !.pc = "look", !.own = w,
                          !.look = {h \in Handoffs : entry[h].state = "creating"}])
  /\ UNCHANGED <<files, daemon, memory, reloads>>

\* A mutant of ToLook: nothing is looked up.
NothingToLook(c) == {}

\* The listed `creating' entries this run neither creates for nor looked up.
ToLook(c) == {h \in task[c].look : entry[h].worker \notin creating /\ h \notin reconciled}

\* reconcileCreating asks Paseo for its agents.
LookUp(c, h) ==
  /\ Runs(c, "look")
  /\ IsOldest(h, ToLook(c))
  /\ reconciled' = reconciled \cup {h}
  /\ Await(c, [task[c] EXCEPT !.pc = "list", !.e = h, !.look = {x \in @ : x > h}])
  /\ UNCHANGED <<files, daemon, held, note, creating, reloads>>

LooksFor(c) == {s \in Labelled(entry[task[c].e].worker) : ~Taken(s)}

Listed(c) ==
  /\ Awaits(c, "list")
  /\ \/ \E s \in LooksFor(c) : FinishCreated(c, task[c].e, s, "look")
     \/ (LooksFor(c) = {} \/ May("unread")) /\ GoOn(c, [task[c] EXCEPT !.pc = "look"])
  /\ UNCHANGED <<files, daemon, memory, reloads>>

Expire(c) ==
  /\ Runs(c, "look")
  /\ ToLook(c) = {}
  /\ entry' = Expired
  /\ GoOn(c, [task[c] EXCEPT !.pc = "start"])
  /\ UNCHANGED <<agents, enabled, bound, daemon, memory, reloads>>

\* startWorker's checks before it reads the Manager.
MayStart(w) ==
  /\ enabled
  /\ PendingNow = {}
  /\ \A h \in Handoffs : entry[h].worker = w => entry[h].succ = Nobody
  /\ Cardinality(Tries) < MaxPerRequest

\* The turn crosses the request's threshold, or starts nothing.
Start(c) ==
  /\ Runs(c, "start")
  /\ \/ /\ task[c].own # Nobody
        /\ MayStart(task[c].own)
        /\ Await(c, [task[c] EXCEPT !.pc = "parent"])
     \/ GoOn(c, [task[c] EXCEPT !.pc = "begin"])
  /\ UNCHANGED <<files, daemon, memory, reloads>>

\* The Manager was read; nothing is checked again.
Started(c) ==
  /\ Awaits(c, "parent")
  /\ \/ \E h \in Handoffs : IsOldest(h, Unused) /\ Store(h, Waiting(task[c].own))
     \/ (Unused = {} \/ May("no-manager") \/ May("refused")) /\ UNCHANGED entry
  /\ GoOn(c, [task[c] EXCEPT !.pc = "begin"])
  /\ UNCHANGED <<agents, enabled, bound, daemon, memory, reloads>>

\* The pending handoffs and the switch, as this call sees them from here on.
Begin(c) ==
  /\ Runs(c, "begin")
  /\ GoOn(c, [task[c] EXCEPT !.pc = "next", !.on = enabled,
                !.seen = [h \in Handoffs |-> IF entry[h].state \in {"waiting", "noting", "briefed"}
                                             THEN entry[h].state ELSE "none"]])
  /\ UNCHANGED <<files, daemon, memory, reloads>>

Return(c) ==
  /\ Runs(c, "next")
  /\ Todo(c) = {}
  /\ Await(c, Idle)
  /\ UNCHANGED <<files, daemon, memory, reloads>>

\* The switch is off, or the request finished: the handoff ends.
Drop(c, h) ==
  /\ First(c, h)
  /\ \/ ~task[c].on
     \/ /\ May("finished")
        /\ \/ task[c].seen[h] = "waiting" /\ task[c].own = entry[h].worker
           \/ task[c].seen[h] = "briefed"
  /\ EndsWith(h, "other")
  /\ GoOn(c, Rest(c, h))
  /\ UNCHANGED <<agents, enabled, bound, daemon, memory, reloads>>

\* Not at a safe point; or the turn did not bring the note, within its bound.
PassBy(c, h) ==
  /\ First(c, h)
  /\ task[c].on
  /\ \/ task[c].seen[h] = "waiting"
     \/ task[c].seen[h] = "noting" /\ ~(entry[h].state = "noting" /\ entry[h].late)
  /\ GoOn(c, Rest(c, h))
  /\ UNCHANGED <<files, daemon, memory, reloads>>

AskNote(c, h) ==
  /\ First(c, h)
  /\ task[c].on
  /\ task[c].seen[h] = "waiting" /\ task[c].own = entry[h].worker
  /\ note' = [note EXCEPT ![h] = IF @ = "no" THEN "queued" ELSE @]
  /\ Await(c, [task[c] EXCEPT !.pc = "note", !.e = h])
  /\ UNCHANGED <<files, daemon, held, creating, reconciled, reloads>>

NoteQueued(c) ==
  /\ Awaits(c, "note")
  /\ Skip(c)
  /\ UNCHANGED <<files, daemon, memory, reloads>>

\* The turn brought the note or none will come: the brief is built.
BuildBrief(c, h) ==
  /\ First(c, h)
  /\ task[c].on
  /\ task[c].seen[h] = "noting"
  /\ task[c].own = entry[h].worker \/ entry[h].late \/ entry[h].state # "noting"
  /\ Await(c, [task[c] EXCEPT !.pc = "brief", !.e = h])
  /\ UNCHANGED <<files, daemon, memory, reloads>>

Briefed(r) == IF r.state = "noting" THEN Moved(r, "briefed") ELSE r

BriefBuilt(c) ==
  LET h == task[c].e IN
  /\ Awaits(c, "brief")
  /\ Store(h, Briefed(entry[h]))
  /\ GoOn(c, [task[c] EXCEPT !.pc = "next",
                !.seen[h] = IF Briefed(entry[h]).state = "briefed" THEN "briefed" ELSE "none"])
  /\ UNCHANGED <<agents, enabled, bound, daemon, memory, reloads>>

\* command reads the Manager.
Command(c, h) ==
  /\ First(c, h)
  /\ task[c].on
  /\ task[c].seen[h] = "briefed"
  /\ Await(c, [task[c] EXCEPT !.pc = "manager", !.e = h])
  /\ UNCHANGED <<files, daemon, memory, reloads>>

ManagerGone(c) ==
  /\ Awaits(c, "manager")
  /\ May("no-manager")
  /\ EndsWith(task[c].e, "other")
  /\ Skip(c)
  /\ UNCHANGED <<agents, enabled, bound, daemon, memory, reloads>>

-----------------------------------------------------------------------------
(* An unbound Manager is commanded.                                        *)

OthersQueued == \/ \E h \in Handoffs : held[h] > 0
                \/ \E c \in Calls : task[c].pc \in {"send", "sent"}

\* command's last write, whatever the entry is by then.
Commanded(r) == [Moved(r, "commanded") EXCEPT !.cmd = TRUE]

ManagerBusy(c) ==
  /\ Awaits(c, "manager")
  /\ ~bound
  /\ Skip(c)
  /\ UNCHANGED <<files, daemon, memory, reloads>>

SendCommand(c) ==
  /\ Awaits(c, "manager")
  /\ ~bound
  /\ ~OthersQueued
  /\ \/ /\ ~enabled \/ May("refused")
        /\ EndsWith(task[c].e, "other")
        /\ Skip(c)
     \/ /\ enabled
        /\ Await(c, [task[c] EXCEPT !.pc = "send"])
        /\ UNCHANGED entry
  /\ UNCHANGED <<agents, enabled, bound, daemon, memory, reloads>>

\* The queue reads the Manager again: it sends, keeps or drops the command.
Deliver(c) ==
  LET h == task[c].e IN
  /\ Awaits(c, "send")
  /\ \/ /\ mail' = [mail EXCEPT ![h] = @ + 1]
        /\ Await(c, [task[c] EXCEPT !.pc = "sent"])
        /\ UNCHANGED <<entry, held>>
     \/ /\ held' = [held EXCEPT ![h] = @ + 1]
        /\ Store(h, Commanded(entry[h]))
        /\ Skip(c)
        /\ UNCHANGED mail
     \/ /\ May("unreachable")
        /\ EndsWith(h, "other")
        /\ Skip(c)
        /\ UNCHANGED <<mail, held>>
  /\ UNCHANGED <<agents, enabled, bound, asked, news, note, creating, reconciled, reloads>>

CommandSent(c) ==
  /\ Awaits(c, "sent")
  /\ Store(task[c].e, Commanded(entry[task[c].e]))
  /\ Skip(c)
  /\ UNCHANGED <<agents, enabled, bound, daemon, memory, reloads>>

\* A mutant of HeldGoes: it does not look whether the command is still held.
HeldGoesAgain(h) ==
  /\ thread = Free
  /\ held' = [held EXCEPT ![h] = @ - 1]
  /\ mail' = [mail EXCEPT ![h] = @ + 1]
  /\ UNCHANGED <<files, asked, news, note, creating, reconciled, task, thread, reloads>>

HeldGoes(h) ==
  /\ thread = Free
  /\ held[h] > 0
  /\ held' = [held EXCEPT ![h] = @ - 1]
  /\ mail' = [mail EXCEPT ![h] = @ + 1]
  /\ UNCHANGED <<files, asked, news, note, creating, reconciled, task, thread, reloads>>

-----------------------------------------------------------------------------
(* For a bound one the plugin creates the successor.                       *)

\* claimCreation's compare-and-set.
Claimable(r) == r.state = "briefed"

Claim(c) ==
  LET h == task[c].e IN
  /\ Awaits(c, "manager")
  /\ bound
  /\ \/ /\ ~Claimable(entry[h])
        /\ Skip(c)
        /\ UNCHANGED entry
     \/ /\ Claimable(entry[h])
        /\ ~enabled \/ May("refused")
        /\ Store(h, End(entry[h], "other"))
        /\ Skip(c)
     \/ /\ Claimable(entry[h])
        /\ enabled
        /\ Store(h, Moved(entry[h], "creating"))
        /\ Await(c, [task[c] EXCEPT !.pc = "prepare"])
  /\ UNCHANGED <<agents, enabled, bound, daemon, memory, reloads>>

\* The tool switch, the profile, the placement and the folder were read.
Prepared(c) ==
  LET h == task[c].e IN
  /\ Awaits(c, "prepare")
  /\ \/ /\ May("refused")
        /\ EndsWith(h, "other")
        /\ Skip(c)
        /\ UNCHANGED <<creating, asked>>
     \/ /\ creating' = creating \cup {entry[h].worker}
        /\ asked' = [asked EXCEPT ![h] = "asked"]
        /\ Await(c, [task[c] EXCEPT !.pc = "create"])
        /\ UNCHANGED entry
  /\ UNCHANGED <<agents, enabled, bound, mail, news, held, note, reconciled, reloads>>

Created(c) ==
  LET h == task[c].e IN
  /\ Awaits(c, "create")
  /\ asked[h] = "made"
  /\ \E s \in DOMAIN agents : agents[s].by = h /\ FinishCreated(c, h, s, "next")
  /\ UNCHANGED <<files, daemon, memory, reloads>>

\* A mutant of CreateFails: after an error the brief is taken up again.
CreateRetried(c) ==
  LET h == task[c].e IN
  /\ Awaits(c, "create")
  /\ \/ asked[h] = "refused" /\ EndsWith(h, "other")
     \/ May("error") /\ Store(h, Moved(entry[h], "briefed"))
  /\ creating' = creating \ {entry[h].worker}
  /\ Skip(c)
  /\ UNCHANGED <<agents, enabled, bound, daemon, held, note, reconciled, reloads>>

\* A mutant of CreateFails: any error ends the handoff.
CreateEnds(c) ==
  LET h == task[c].e IN
  /\ Awaits(c, "create")
  /\ asked[h] = "refused" \/ May("error")
  /\ EndsWith(h, "other")
  /\ creating' = creating \ {entry[h].worker}
  /\ Skip(c)
  /\ UNCHANGED <<agents, enabled, bound, daemon, held, note, reconciled, reloads>>

\* Paseo refused it; or it answered with an error that tells nothing.
CreateFails(c) ==
  LET h == task[c].e IN
  /\ Awaits(c, "create")
  /\ \/ asked[h] = "refused" /\ EndsWith(h, "other")
     \/ May("error") /\ UNCHANGED entry
  /\ creating' = creating \ {entry[h].worker}
  /\ Skip(c)
  /\ UNCHANGED <<agents, enabled, bound, daemon, held, note, reconciled, reloads>>

-----------------------------------------------------------------------------
(* The daemon, the agents, the owner and time.                             *)

NewAgent(h, by) ==
  /\ Len(agents) < MaxAgents
  /\ agents' = Append(agents, [from |-> entry[h].worker, by |-> by])
  /\ news' = news \cup {Len(agents) + 1}

\* Paseo creates the successor the plugin asked for, or refuses.
Make(h) ==
  /\ thread = Free
  /\ asked[h] = "asked"
  /\ \/ NewAgent(h, h) /\ asked' = [asked EXCEPT ![h] = "made"]
     \/ asked' = [asked EXCEPT ![h] = "refused"] /\ UNCHANGED <<agents, news>>
  /\ UNCHANGED <<entry, enabled, bound, mail, memory, task, thread, reloads>>

\* The Manager creates one, as commanded.
ManagerCreates(h) ==
  /\ thread = Free
  /\ mail[h] > 0
  /\ mail' = [mail EXCEPT ![h] = @ - 1]
  /\ NewAgent(h, 0)
  /\ UNCHANGED <<entry, enabled, bound, asked, memory, task, thread, reloads>>

\* The note request at the Worker's idle moment: isCurrent is asked first.
NoteGoes(h) ==
  /\ thread = Free
  /\ note[h] = "queued"
  /\ note' = [note EXCEPT ![h] = IF entry[h].state = "waiting" /\ enabled THEN "sending" ELSE "no"]
  /\ UNCHANGED <<files, daemon, held, creating, reconciled, task, thread, reloads>>

\* It waited too long for that moment, or the Worker is gone.
NoteDropped(h) ==
  /\ thread = Free
  /\ note[h] = "queued"
  /\ note' = [note EXCEPT ![h] = "no"]
  /\ UNCHANGED <<files, daemon, held, creating, reconciled, task, thread, reloads>>

Noted(r) == IF r.state = "waiting" THEN Moved(r, "noting") ELSE r

NoteSent(h) ==
  /\ thread = Free
  /\ note[h] = "sending"
  /\ note' = [note EXCEPT ![h] = "no"]
  /\ Store(h, Noted(entry[h]))
  /\ UNCHANGED <<agents, enabled, bound, daemon, held, creating, reconciled, task, thread, reloads>>

\* A creation, what it sends and the reads that settle it take less than the
\* ten minutes of CREATING_WAIT_MS.
BeingSettled(h) ==
  \/ asked[h] = "asked"
  \/ \E s \in news : agents[s].from = entry[h].worker
  \/ \E t \in Tasks : task[t].pc \in {"prepare", "create", "inform"} /\ task[t].e = h

TimePasses(h) ==
  /\ thread = Free
  /\ entry[h].state \in Pending
  /\ entry[h].state = "creating" => ~BeingSettled(h)
  /\ ~entry[h].late
  /\ Store(h, [entry[h] EXCEPT !.late = TRUE])
  /\ UNCHANGED <<agents, enabled, bound, daemon, memory, task, thread, reloads>>

Switch ==
  /\ thread = Free
  /\ MaySwitch
  /\ enabled' = ~enabled
  /\ UNCHANGED <<entry, agents, bound, daemon, memory, task, thread, reloads>>

\* What is not on disk is gone, and the events of new agents meanwhile.
Reload ==
  /\ thread = Free
  /\ reloads < MaxReloads
  /\ reloads' = reloads + 1
  /\ task' = [t \in Tasks |-> Idle]
  /\ held' = [h \in Handoffs |-> 0]
  /\ note' = [h \in Handoffs |-> "no"]
  /\ creating' = {} /\ reconciled' = {} /\ news' = {}
  /\ UNCHANGED <<files, asked, mail, thread>>

-----------------------------------------------------------------------------
Init ==
  /\ entry = [h \in Handoffs |-> NoEntry]
  /\ agents = <<>>
  /\ enabled = TRUE
  /\ bound \in Bindings
  /\ asked = [h \in Handoffs |-> "no"]
  /\ mail = [h \in Handoffs |-> 0]
  /\ held = [h \in Handoffs |-> 0]
  /\ note = [h \in Handoffs |-> "no"]
  /\ news = {} /\ creating = {} /\ reconciled = {}
  /\ task = [t \in Tasks |-> Idle]
  /\ thread = Free
  /\ reloads = 0

Loop(c) ==
  \/ Return(c)
  \/ \E h \in Handoffs : Drop(c, h) \/ PassBy(c, h) \/ AskNote(c, h) \/ BuildBrief(c, h) \/ Command(c, h)
  \/ NoteQueued(c) \/ BriefBuilt(c)
  \/ ManagerGone(c) \/ ManagerBusy(c) \/ SendCommand(c) \/ Deliver(c) \/ CommandSent(c)
  \/ Claim(c) \/ Prepared(c) \/ Created(c) \/ CreateFails(c)

Finishing(t) == Informed(t) \/ Completed(t)

Call(c) ==
  \/ \E h \in Handoffs : LookUp(c, h)
  \/ Listed(c) \/ Expire(c) \/ Start(c) \/ Started(c) \/ Begin(c)
  \/ Loop(c)
  \/ Finishing(c)

Handler(s) == AgentCreated(s) \/ Finishing(s)

Notice(h) == HeldGoes(h) \/ NoteGoes(h) \/ NoteDropped(h) \/ NoteSent(h)

Next ==
  \/ \E c \in Calls, w \in Workers \cup {Nobody} : TurnEnds(c, w)
  \/ \E c \in Calls : Call(c)
  \/ \E s \in NewWorkers : Handler(s)
  \/ \E h \in Handoffs : Make(h) \/ ManagerCreates(h) \/ Notice(h) \/ TimePasses(h)
  \/ Switch
  \/ Reload

Spec == Init /\ [][Next]_vars

\* Awaits are answered, bounds pass, and turns of some agent keep being recorded.
\* The thread is held for moments only: what waits for it comes to run.
FairSpec ==
  /\ Spec
  /\ \A c \in Calls : SF_vars(Call(c)) /\ SF_vars(TurnEnds(c, Nobody))
  /\ SF_vars(\E s \in NewWorkers : Handler(s))
  /\ SF_vars(\E h \in Handoffs : Make(h))
  /\ SF_vars(\E h \in Handoffs : TimePasses(h))

-----------------------------------------------------------------------------
(* Properties.                                                             *)

\* The type of the state.
TypeOK ==
  /\ entry \in [Handoffs -> Entry]
  /\ agents \in Seq([from : Workers, by : Handoffs \cup {0}]) /\ Len(agents) <= MaxAgents
  /\ enabled \in BOOLEAN /\ bound \in BOOLEAN
  /\ asked \in [Handoffs -> {"no", "asked", "made", "refused"}]
  /\ mail \in [Handoffs -> Nat] /\ held \in [Handoffs -> Nat]
  /\ note \in [Handoffs -> {"no", "queued", "sending"}]
  /\ news \subseteq NewWorkers
  /\ creating \subseteq Workers
  /\ reconciled \subseteq Handoffs
  /\ task \in [Tasks -> Task]
  /\ thread \in Calls \cup {Free}
  /\ reloads \in 0..MaxReloads

\* However many turn ends reach a built brief at once, before and after a
\* reload, the plugin creates one successor of a handoff at most (claimCreation).
OneCreation ==
  \A s, x \in DOMAIN agents : agents[s].by = agents[x].by /\ agents[s].by # 0 => s = x

\* The successor the plugin created for a handoff is what completes it: while
\* the handoff is not done with it, it is still looked for, whatever was cut
\* short or failed in between (reconcileCreating, agentCreated).
CreatedIsKept ==
  \A s \in DOMAIN agents : LET h == agents[s].by IN
    h # 0 => \/ entry[h].succ = s
             \/ entry[h].state = "creating"
             \/ \E t \in Tasks : /\ task[t].e = h
                                 /\ task[t].pc = "list" \/ (task[t].pc = "inform" /\ task[t].s = s)

\* A turn end that read handoff h before its creation was claimed, and has not
\* done with it.
Behind(c, h) ==
  \/ task[c].pc = "next" /\ task[c].seen[h] # "none"
  \/ task[c].pc \in {"manager", "send", "sent"} /\ task[c].e = h

\* Once the successor exists, nothing takes its handoff out of `creating' but the
\* successor itself, the bound, or another turn end that read the handoff before
\* the claim: not an error, a refusal, a reload, the switch or a handler.
KeptCreation ==
  [][\A s \in DOMAIN agents : \A h \in Handoffs :
       (agents[s].by = h /\ entry[h].state = "creating" /\ entry'[h].state # "creating") =>
         \/ entry'[h].state = "done"
         \/ Stale(entry[h])
         \/ \E c \in Calls : Behind(c, h)]_vars

\* A handoff ends, whatever step of it is not answered or cut by a reload.
PendingEnds == \A h \in Handoffs : entry[h].state \in Pending ~> entry[h].state \in Ended
=============================================================================
