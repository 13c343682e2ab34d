--------------------------- MODULE Handoff_proofs ---------------------------
(***************************************************************************)
(* Proofs about Handoff for any number of handoffs, of new Workers and of  *)
(* turn ends that overlap.                                                 *)
(***************************************************************************)
EXTENDS Handoff, SequenceTheorems, FiniteSetTheorems, TLAPS

\* What TypeOK leaves out: a call that waits for the Manager to start a handoff
\* is of a Worker's turn, and the handler of a new Worker goes back nowhere.
TaskOK ==
  /\ task \in [Tasks -> Task]
  /\ thread \in Calls \cup {Free}
  /\ \A t \in Tasks : task[t].pc = "parent" => task[t].own # Nobody
  /\ \A s \in NewWorkers : task[s].back = "idle"

TypeInv == TypeOK /\ TaskOK

-----------------------------------------------------------------------------
(* Types of what the actions write.                                        *)

LEMMA Apart == \A c \in Calls : c \notin NewWorkers /\ c \in Tasks
<1>1. NewWorkers \subseteq Int
  BY HandoffAssumption DEF NewWorkers
<1>2. Calls \cap Int = {}
  BY HandoffAssumption
<1> QED
  BY <1>1, <1>2 DEF Tasks

LEMMA EntryTypes ==
  ASSUME NEW r \in Entry
  PROVE  /\ \A why \in Endings : End(r, why) \in Entry /\ EndPending(r, why) \in Entry
         /\ \A to \in States : Moved(r, to) \in Entry
         /\ \A s \in Workers, cmd \in BOOLEAN : SuccessorOf(r, s, cmd) \in Entry
         /\ Commanded(r) \in Entry /\ Noted(r) \in Entry /\ Briefed(r) \in Entry
         /\ StaleEnding(r) \in Endings
         /\ [r EXCEPT !.late = TRUE] \in Entry
<1>1. ASSUME NEW why \in Endings
      PROVE  End(r, why) \in Entry
  <2>1. (IF r.cmd THEN "failed" ELSE "dropped") \in States
    BY DEF States
  <2> QED
    BY <2>1 DEF End, Entry
<1>2. ASSUME NEW to \in States
      PROVE  Moved(r, to) \in Entry
  BY DEF Moved, Entry
<1>3. ASSUME NEW s \in Workers, NEW cmd \in BOOLEAN
      PROVE  SuccessorOf(r, s, cmd) \in Entry
  <2>1. Moved(r, "done") \in Entry
    BY <1>2 DEF States
  <2>2. (Moved(r, "done").cmd \/ cmd) \in BOOLEAN /\ "none" \in Endings
    BY DEF Endings
  <2> QED
    BY <2>1, <2>2 DEF SuccessorOf, Entry
<1>4. Commanded(r) \in Entry
  <2>1. Moved(r, "commanded") \in Entry
    BY <1>2 DEF States
  <2> QED
    BY <2>1 DEF Commanded, Entry
<1>5. StaleEnding(r) \in Endings
  BY DEF StaleEnding, Endings
<1>6. [r EXCEPT !.late = TRUE] \in Entry
  BY DEF Entry
<1>7. Noted(r) \in Entry /\ Briefed(r) \in Entry
  BY <1>2 DEF Noted, Briefed, States
<1>8. \A why \in Endings : EndPending(r, why) \in Entry
  BY <1>1 DEF EndPending
<1> QED
  BY <1>1, <1>2, <1>3, <1>4, <1>5, <1>6, <1>7, <1>8

LEMMA NewEntryType ==
  /\ NoEntry \in Entry
  /\ \A w \in Workers : Waiting(w) \in Entry
<1>1. 0 \in Workers
  BY HandoffAssumption DEF Workers
<1>2. NoEntry \in Entry
  BY <1>1 DEF NoEntry, Entry, States, Endings
<1> QED
  BY <1>2 DEF Waiting, Entry, States

LEMMA StoreType ==
  ASSUME TypeOK, NEW h \in Handoffs, NEW r \in Entry, Store(h, r)
  PROVE  entry' \in [Handoffs -> Entry]
  BY DEF TypeOK, Store

LEMMA IdleType == Idle \in Task /\ Idle.pc = "idle" /\ Idle.back = "idle"
<1>1. 1 \in Handoffs /\ 0 \in Workers /\ Nothing \in [Handoffs -> States]
  BY HandoffAssumption DEF Handoffs, Workers, Nothing, States
<1> QED
  BY <1>1 DEF Idle, Task

\* A call goes on or awaits with a well-typed record.
LEMMA GoOnType ==
  ASSUME TypeInv, NEW c \in Calls, NEW r \in Task, r.pc # "parent", GoOn(c, r)
  PROVE  TaskOK'
  BY Apart DEF TypeInv, TaskOK, GoOn

LEMMA AwaitType ==
  ASSUME TypeInv, NEW t \in Tasks, NEW r \in Task, Await(t, r),
         r.pc = "parent" => r.own # Nobody,
         t \in NewWorkers => r.back = "idle"
  PROVE  TaskOK'
  BY DEF TypeInv, TaskOK, Await

\* What the fields of a task are, and what changing them gives.
LEMMA TaskTypes ==
  ASSUME TypeInv, NEW t \in Tasks
  PROVE  /\ task[t] \in Task
         /\ task[t].e \in Handoffs /\ task[t].s \in Workers /\ task[t].own \in Workers \cup {Nobody}
         /\ task[t].seen \in [Handoffs -> States] /\ task[t].look \in SUBSET Handoffs
         /\ \A h \in Handoffs : [task[t].seen EXCEPT ![h] = "none"] \in [Handoffs -> States]
  BY DEF TypeInv, TaskOK, Task, States

LEMMA RestType ==
  ASSUME TypeInv, NEW c \in Calls, NEW h \in Handoffs
  PROVE  Rest(c, h) \in Task /\ Rest(c, h).pc = "next"
<1>1. task[c] \in Task
  BY TaskTypes, Apart
<1> QED
  BY <1>1 DEF Rest, Task, States

LEMMA SkipType ==
  ASSUME TypeInv, NEW c \in Calls, Skip(c)
  PROVE  TaskOK'
  BY RestType, GoOnType, TaskTypes, Apart DEF Skip

LEMMA OnlyTask ==
  ASSUME TypeInv, TaskOK', UNCHANGED <<files, daemon, memory, reloads>>
  PROVE  TypeInv'
  BY DEF TypeInv, TypeOK, TaskOK, files, daemon, memory

LEMMA OnlyEntry ==
  ASSUME TypeInv, TaskOK', entry' \in [Handoffs -> Entry],
         UNCHANGED <<agents, enabled, bound, daemon, memory, reloads>>
  PROVE  TypeInv'
  BY DEF TypeInv, TypeOK, TaskOK, daemon, memory

LEMMA EndsType ==
  ASSUME TypeInv, NEW h \in Handoffs, NEW why \in Endings, EndsWith(h, why)
  PROVE  entry' \in [Handoffs -> Entry]
<1>1. entry[h] \in Entry
  BY DEF TypeInv, TypeOK
<1> QED
  BY <1>1, EntryTypes, StoreType DEF EndsWith, TypeInv

LEMMA FinishType ==
  ASSUME TypeInv, NEW t \in Tasks, NEW h \in Handoffs, NEW s \in Workers, NEW back \in {"look", "next", "idle"},
         t \in NewWorkers => back = "idle", FinishCreated(t, h, s, back)
  PROVE  TaskOK'
<1> DEFINE r == [task[t] EXCEPT !.pc = "inform", !.e = h, !.s = s, !.back = back]
<1>1. task[t] \in Task
  BY TaskTypes
<1>2. r \in Task /\ r.pc = "inform" /\ r.back = back
  BY <1>1 DEF Task
<1>3. Await(t, r)
  BY DEF FinishCreated
<1> QED
  BY <1>2, <1>3, AwaitType

-----------------------------------------------------------------------------
(* Type correctness: one lemma per part of Next.                           *)

LEMMA InitType == ASSUME Init PROVE TypeInv
<1>1. Idle \in Task /\ Idle.pc = "idle" /\ Idle.back = "idle" /\ NoEntry \in Entry
  BY IdleType, NewEntryType
<1>2. task = [t \in Tasks |-> Idle] /\ NewWorkers \subseteq Tasks
  BY DEF Init, Tasks
<1>3. TaskOK
  BY <1>1, <1>2 DEF Init, TaskOK
<1>4. agents \in Seq([from : Workers, by : Handoffs \cup {0}]) /\ Len(agents) <= MaxAgents
  BY HandoffAssumption DEF Init
<1> QED
  BY <1>1, <1>2, <1>3, <1>4, HandoffAssumption DEF Init, TypeInv, TypeOK

LEMMA InformedType == ASSUME TypeInv, NEW t \in Tasks, Informed(t) PROVE TypeInv'
<1> DEFINE r == [task[t] EXCEPT !.pc = "label"]
<1>1. task[t] \in Task /\ task[t].e \in Handoffs /\ task[t].s \in Workers
  BY TaskTypes
<1>2. r \in Task /\ r.pc = "label" /\ r.back = task[t].back
  BY <1>1 DEF Task
<1>3. TaskOK'
  BY <1>2, AwaitType DEF Informed, TypeInv, TaskOK
<1>4. entry[task[t].e] \in Entry
  BY <1>1 DEF TypeInv, TypeOK
<1>5. entry' \in [Handoffs -> Entry]
  BY <1>1, <1>4, EntryTypes, StoreType DEF Informed, TypeInv
<1> QED
  BY <1>3, <1>5, OnlyEntry DEF Informed

LEMMA CompletedType == ASSUME TypeInv, NEW t \in Tasks, Completed(t) PROVE TypeInv'
<1> DEFINE r == [task[t] EXCEPT !.pc = "look"]
<1>1. task[t] \in Task /\ task[t].e \in Handoffs
  BY TaskTypes
<1>2. t \in NewWorkers => task[t].back = "idle"
  BY DEF TypeInv, TaskOK
<1>3. t \in Calls \/ t \in NewWorkers
  BY DEF Tasks
<1>4. creating' \subseteq Workers
  BY DEF Completed, TypeInv, TypeOK
<1>5. CASE task[t].back = "next"
  <2>1. TaskOK'
    BY <1>2, <1>3, <1>5, SkipType DEF Completed
  <2> QED
    BY <2>1, <1>4 DEF Completed, TypeInv, TypeOK, TaskOK, files, daemon
<1>6. CASE task[t].back = "look"
  <2>1. r \in Task /\ r.pc = "look"
    BY <1>1 DEF Task
  <2>2. GoOn(t, r)
    BY <1>6 DEF Completed
  <2>3. TaskOK'
    BY <2>1, <2>2, <1>2, <1>3, <1>6, GoOnType
  <2> QED
    BY <2>3, <1>6, OnlyTask DEF Completed, memory
<1>7. CASE task[t].back = "idle"
  <2>1. Await(t, Idle) /\ UNCHANGED creating
    BY <1>7 DEF Completed
  <2>2. TaskOK'
    BY <2>1, IdleType, AwaitType
  <2> QED
    BY <2>2, <2>1, OnlyTask DEF Completed, memory
<1> QED
  BY <1>1, <1>5, <1>6, <1>7 DEF Task

\* A call whose record only moves to pc, and some of its fields.
LEMMA MoveType ==
  ASSUME TypeInv, NEW c \in Calls, NEW pc
  PROVE  LET r == [task[c] EXCEPT !.pc = pc] IN
         /\ pc \in {"look", "start", "begin", "next"} => (r \in Task /\ (GoOn(c, r) => TaskOK'))
         /\ pc \in {"send", "sent", "prepare", "create"} => (r \in Task /\ (Await(c, r) => TaskOK'))
<1> DEFINE r == [task[c] EXCEPT !.pc = pc]
<1>1. task[c] \in Task /\ c \notin NewWorkers /\ c \in Tasks
  BY TaskTypes, Apart
<1>2. CASE pc \in {"look", "start", "begin", "next"}
  <2>1. r \in Task /\ r.pc # "parent"
    BY <1>1, <1>2 DEF Task
  <2> QED
    BY <2>1, <1>2, GoOnType
<1>3. CASE pc \in {"send", "sent", "prepare", "create"}
  <2>1. r \in Task /\ r.pc # "parent"
    BY <1>1, <1>3 DEF Task
  <2>2. Await(c, r) => TaskOK'
    BY <2>1, <1>1, AwaitType
  <2> QED
    BY <2>1, <2>2, <1>3
<1> QED
  BY <1>2, <1>3

LEMMA AgentCreatedType == ASSUME TypeInv, NEW s \in NewWorkers, AgentCreated(s) PROVE TypeInv'
<1> DEFINE w == agents[s].from
<1>1. news' \subseteq NewWorkers
  BY DEF AgentCreated, TypeInv, TypeOK
<1>2. s \in Tasks /\ s \in Workers /\ task[s].back = "idle" /\ task[s] \in Task
  BY TaskTypes, HandoffAssumption DEF Tasks, NewWorkers, Workers, TypeInv, TaskOK
<1>3. TaskOK' /\ entry' \in [Handoffs -> Entry]
  <2>1. CASE UNCHANGED <<entry, task, thread>>
    BY <2>1 DEF TypeInv, TypeOK, TaskOK
  <2>2. ASSUME NEW h \in Handoffs, LinkTo(s, h)
        PROVE  TaskOK' /\ entry' \in [Handoffs -> Entry]
    <3>1. entry[h] \in Entry
      BY DEF TypeInv, TypeOK
    <3>2. CASE entry[h].state = "creating"
      BY <2>2, <3>2, <1>2, FinishType DEF LinkTo, TypeInv, TypeOK
    <3>3. CASE entry[h].state # "creating"
      <4> DEFINE r == [task[s] EXCEPT !.pc = "label", !.e = h, !.s = s]
      <4>1. r \in Task /\ r.pc = "label" /\ r.back = "idle"
        BY <1>2 DEF Task
      <4>2. TaskOK'
        BY <2>2, <3>3, <4>1, <1>2, AwaitType DEF LinkTo
      <4>3. SuccessorOf(entry[h], s, FALSE) \in Entry
        BY <3>1, <1>2, EntryTypes
      <4> QED
        BY <2>2, <3>3, <4>2, <4>3, StoreType DEF LinkTo, TypeInv
    <3> QED
      BY <3>2, <3>3
  <2> QED
    BY <2>1, <2>2 DEF AgentCreated
<1> QED
  BY <1>1, <1>3 DEF AgentCreated, TypeInv, TypeOK, TaskOK, memory

LEMMA TurnEndsType ==
  ASSUME TypeInv, NEW c \in Calls, NEW w \in Workers \cup {Nobody}, TurnEnds(c, w)
  PROVE  TypeInv'
<1> DEFINE look == {h \in Handoffs : entry[h].state = "creating"}
           r == [Idle EXCEPT !.pc = "look", !.own = w, !.look = look]
<1>1. r \in Task /\ r.pc = "look"
  BY IdleType DEF Task
<1>2. GoOn(c, r)
  BY DEF TurnEnds
<1>3. TaskOK'
  BY <1>1, <1>2, GoOnType
<1> QED
  BY <1>3, OnlyTask DEF TurnEnds

LEMMA LookUpType ==
  ASSUME TypeInv, NEW c \in Calls, NEW h \in Handoffs, LookUp(c, h)
  PROVE  TypeInv'
<1> DEFINE r == [task[c] EXCEPT !.pc = "list", !.e = h, !.look = {x \in @ : x > h}]
<1>1. task[c] \in Task /\ c \notin NewWorkers /\ c \in Tasks
  BY TaskTypes, Apart
<1>2. r \in Task /\ r.pc = "list"
  BY <1>1 DEF Task
<1>3. Await(c, r)
  BY DEF LookUp
<1>4. TaskOK'
  BY <1>1, <1>2, <1>3, AwaitType
<1>5. reconciled' \subseteq Handoffs
  BY DEF LookUp, TypeInv, TypeOK
<1> QED
  BY <1>4, <1>5 DEF LookUp, TypeInv, TypeOK, TaskOK, files, daemon

\* Successors are among the Workers.
LEMMA AgentTypes ==
  ASSUME TypeInv
  PROVE  /\ DOMAIN agents = 1..Len(agents) /\ Len(agents) \in Nat
         /\ \A s \in DOMAIN agents : /\ s \in NewWorkers /\ s \in Workers
                                   /\ agents[s].from \in Workers /\ agents[s].by \in Handoffs \cup {0}
<1>1. agents \in Seq([from : Workers, by : Handoffs \cup {0}]) /\ Len(agents) <= MaxAgents
  BY DEF TypeInv, TypeOK
<1>2. DOMAIN agents = 1..Len(agents) /\ Len(agents) \in Nat
  BY <1>1
<1>3. \A s \in 1..Len(agents) : agents[s] \in [from : Workers, by : Handoffs \cup {0}]
  BY <1>1, ElementOfSeq
<1>4. \A s \in DOMAIN agents : s \in NewWorkers /\ s \in Workers
  BY <1>1, <1>2, HandoffAssumption DEF NewWorkers, Workers
<1> QED
  BY <1>2, <1>3, <1>4

LEMMA ListedType == ASSUME TypeInv, NEW c \in Calls, Listed(c) PROVE TypeInv'
<1>1. task[c].e \in Handoffs /\ c \in Tasks /\ c \notin NewWorkers
  BY TaskTypes, Apart
<1>2. TaskOK'
  <2>1. ASSUME NEW s \in LooksFor(c), FinishCreated(c, task[c].e, s, "look")
        PROVE  TaskOK'
    <3>1. s \in Workers
      BY AgentTypes DEF LooksFor, Labelled
    <3> QED
      BY <2>1, <3>1, <1>1, FinishType
  <2>2. CASE GoOn(c, [task[c] EXCEPT !.pc = "look"])
    BY <2>2, MoveType
  <2> QED
    BY <2>1, <2>2 DEF Listed
<1> QED
  BY <1>2, OnlyTask DEF Listed

LEMMA ExpireType == ASSUME TypeInv, NEW c \in Calls, Expire(c) PROVE TypeInv'
<1>1. TaskOK'
  BY MoveType DEF Expire
<1>2. \A h \in Handoffs : entry[h] \in Entry
  BY DEF TypeInv, TypeOK
<1>3. \A h \in Handoffs : End(entry[h], StaleEnding(entry[h])) \in Entry
  BY <1>2, EntryTypes
<1>4. entry' \in [Handoffs -> Entry]
  BY <1>2, <1>3 DEF Expire, Expired
<1> QED
  BY <1>1, <1>4, OnlyEntry DEF Expire

LEMMA StartType == ASSUME TypeInv, NEW c \in Calls, Start(c) PROVE TypeInv'
<1> DEFINE r == [task[c] EXCEPT !.pc = "parent"]
<1>1. task[c] \in Task /\ c \notin NewWorkers /\ c \in Tasks
  BY TaskTypes, Apart
<1>2. r \in Task /\ r.own = task[c].own
  BY <1>1 DEF Task
<1>3. task[c].own # Nobody /\ Await(c, r) => TaskOK'
  BY <1>1, <1>2, AwaitType
<1>4. GoOn(c, [task[c] EXCEPT !.pc = "begin"]) => TaskOK'
  BY MoveType
<1> QED
  BY <1>3, <1>4, OnlyTask DEF Start

LEMMA StartedType == ASSUME TypeInv, NEW c \in Calls, Started(c) PROVE TypeInv'
<1>1. TaskOK'
  BY MoveType DEF Started
<1>2. task[c].own \in Workers
  BY TaskTypes, Apart DEF Started, Awaits, TypeInv, TaskOK
<1>3. Waiting(task[c].own) \in Entry
  BY <1>2, NewEntryType
<1>4. entry' \in [Handoffs -> Entry]
  BY <1>3, StoreType DEF Started, TypeInv, TypeOK
<1> QED
  BY <1>1, <1>4, OnlyEntry DEF Started

LEMMA BeginType == ASSUME TypeInv, NEW c \in Calls, Begin(c) PROVE TypeInv'
<1> DEFINE seen == [h \in Handoffs |-> IF entry[h].state \in {"waiting", "noting", "briefed"}
                                      THEN entry[h].state ELSE "none"]
           r == [task[c] EXCEPT !.pc = "next", !.on = enabled, !.seen = seen]
<1>1. task[c] \in Task /\ enabled \in BOOLEAN
  BY TaskTypes, Apart DEF TypeInv, TypeOK
<1>2. seen \in [Handoffs -> States]
  BY DEF States
<1>3. r \in Task /\ r.pc = "next"
  BY <1>1, <1>2 DEF Task
<1>4. GoOn(c, r)
  BY DEF Begin
<1>5. TaskOK'
  BY <1>3, <1>4, GoOnType
<1> QED
  BY <1>5, OnlyTask DEF Begin

LEMMA ReturnType == ASSUME TypeInv, NEW c \in Calls, Return(c) PROVE TypeInv'
<1>1. TaskOK'
  BY IdleType, AwaitType, Apart DEF Return
<1> QED
  BY <1>1, OnlyTask DEF Return

\* The steps of the loop over the pending handoffs.
LEMMA WalkType ==
  ASSUME TypeInv, NEW c \in Calls, NEW h \in Handoffs,
         Drop(c, h) \/ PassBy(c, h) \/ BuildBrief(c, h) \/ Command(c, h)
  PROVE  TypeInv'
<1>1. task[c] \in Task /\ c \notin NewWorkers /\ c \in Tasks /\ "other" \in Endings
  BY TaskTypes, Apart DEF Endings
<1>2. Rest(c, h) \in Task /\ Rest(c, h).pc = "next"
  BY RestType
<1>3. GoOn(c, Rest(c, h)) => TaskOK'
  BY <1>2, GoOnType
<1>4. CASE Drop(c, h)
  BY <1>1, <1>3, <1>4, EndsType, OnlyEntry DEF Drop
<1>5. CASE PassBy(c, h)
  BY <1>3, <1>5, OnlyTask DEF PassBy
<1>6. ASSUME NEW pc \in {"brief", "manager"}, Await(c, [task[c] EXCEPT !.pc = pc, !.e = h])
      PROVE  TaskOK'
  <2> DEFINE r == [task[c] EXCEPT !.pc = pc, !.e = h]
  <2>1. r \in Task /\ r.pc # "parent"
    BY <1>1 DEF Task
  <2> QED
    BY <2>1, <1>1, <1>6, AwaitType
<1>7. CASE BuildBrief(c, h)
  BY <1>6, <1>7, OnlyTask DEF BuildBrief
<1>8. CASE Command(c, h)
  BY <1>6, <1>8, OnlyTask DEF Command
<1> QED
  BY <1>4, <1>5, <1>7, <1>8

LEMMA AskNoteType ==
  ASSUME TypeInv, NEW c \in Calls, NEW h \in Handoffs, AskNote(c, h)
  PROVE  TypeInv'
<1> DEFINE r == [task[c] EXCEPT !.pc = "note", !.e = h]
<1>1. task[c] \in Task /\ c \notin NewWorkers /\ c \in Tasks
  BY TaskTypes, Apart
<1>2. r \in Task /\ r.pc = "note"
  BY <1>1 DEF Task
<1>3. TaskOK'
  BY <1>1, <1>2, AwaitType DEF AskNote
<1>4. note' \in [Handoffs -> {"no", "queued", "sending"}]
  BY DEF AskNote, TypeInv, TypeOK
<1> QED
  BY <1>3, <1>4 DEF AskNote, TypeInv, TypeOK, TaskOK, files, daemon

LEMMA NoteQueuedType == ASSUME TypeInv, NEW c \in Calls, NoteQueued(c) PROVE TypeInv'
  BY SkipType, OnlyTask DEF NoteQueued

LEMMA BriefBuiltType == ASSUME TypeInv, NEW c \in Calls, BriefBuilt(c) PROVE TypeInv'
<1> DEFINE h == task[c].e
           to == IF Briefed(entry[h]).state = "briefed" THEN "briefed" ELSE "none"
           r == [task[c] EXCEPT !.pc = "next", !.seen[h] = to]
<1>1. task[c] \in Task /\ h \in Handoffs /\ to \in States
  BY TaskTypes, Apart DEF States
<1>2. r \in Task /\ r.pc = "next"
  BY <1>1 DEF Task
<1>3. GoOn(c, r)
  BY DEF BriefBuilt
<1>4. TaskOK'
  BY <1>2, <1>3, GoOnType
<1>5. Briefed(entry[h]) \in Entry
  BY <1>1, EntryTypes DEF TypeInv, TypeOK
<1>6. entry' \in [Handoffs -> Entry]
  BY <1>1, <1>5, StoreType DEF BriefBuilt, TypeInv
<1> QED
  BY <1>4, <1>6, OnlyEntry DEF BriefBuilt

LEMMA CommandTypes ==
  ASSUME TypeInv, NEW c \in Calls,
         ManagerGone(c) \/ ManagerBusy(c) \/ SendCommand(c) \/ CommandSent(c)
  PROVE  TypeInv'
<1>1. task[c].e \in Handoffs /\ "other" \in Endings
  BY TaskTypes, Apart DEF Endings
<1>2. Skip(c) => TaskOK'
  BY SkipType
<1>3. EndsWith(task[c].e, "other") => entry' \in [Handoffs -> Entry]
  BY <1>1, EndsType
<1>4. CASE ManagerGone(c)
  BY <1>2, <1>3, <1>4, OnlyEntry DEF ManagerGone
<1>5. CASE ManagerBusy(c)
  BY <1>2, <1>5, OnlyTask DEF ManagerBusy
<1>6. CASE SendCommand(c)
  <2>1. Await(c, [task[c] EXCEPT !.pc = "send"]) => TaskOK'
    BY MoveType
  <2> QED
    BY <1>2, <1>3, <1>6, <2>1, OnlyEntry DEF SendCommand, TypeInv, TypeOK
<1>7. CASE CommandSent(c)
  <2>1. Commanded(entry[task[c].e]) \in Entry
    BY <1>1, EntryTypes DEF TypeInv, TypeOK
  <2>2. entry' \in [Handoffs -> Entry]
    BY <1>1, <1>7, <2>1, StoreType DEF CommandSent, TypeInv
  <2> QED
    BY <1>2, <1>7, <2>2, OnlyEntry DEF CommandSent
<1> QED
  BY <1>4, <1>5, <1>6, <1>7

LEMMA DeliverType == ASSUME TypeInv, NEW c \in Calls, Deliver(c) PROVE TypeInv'
<1> DEFINE h == task[c].e
<1>1. h \in Handoffs /\ "other" \in Endings
  BY TaskTypes, Apart DEF Endings
<1>2. TaskOK'
  BY SkipType, MoveType DEF Deliver
<1>3. Commanded(entry[h]) \in Entry
  BY <1>1, EntryTypes DEF TypeInv, TypeOK
<1>4. entry' \in [Handoffs -> Entry]
  BY <1>1, <1>3, StoreType, EndsType DEF Deliver, TypeInv, TypeOK
<1>5. mail' \in [Handoffs -> Nat] /\ held' \in [Handoffs -> Nat]
  <2>1. mail[h] + 1 \in Nat /\ held[h] + 1 \in Nat
    BY <1>1 DEF TypeInv, TypeOK
  <2> QED
    BY <2>1 DEF Deliver, TypeInv, TypeOK
<1> QED
  BY <1>2, <1>4, <1>5 DEF Deliver, TypeInv, TypeOK, TaskOK

LEMMA ClaimType == ASSUME TypeInv, NEW c \in Calls, Claim(c) PROVE TypeInv'
<1> DEFINE h == task[c].e
<1>1. h \in Handoffs /\ "other" \in Endings /\ "creating" \in States
  BY TaskTypes, Apart DEF Endings, States
<1>2. TaskOK'
  <2>1. Await(c, [task[c] EXCEPT !.pc = "prepare"]) => TaskOK'
    BY MoveType
  <2> QED
    BY <2>1, SkipType DEF Claim
<1>3. entry[h] \in Entry
  BY <1>1 DEF TypeInv, TypeOK
<1>4. End(entry[h], "other") \in Entry /\ Moved(entry[h], "creating") \in Entry
  BY <1>1, <1>3, EntryTypes
<1>5. entry' \in [Handoffs -> Entry]
  BY <1>1, <1>4, StoreType DEF Claim, TypeInv, TypeOK
<1> QED
  BY <1>2, <1>5, OnlyEntry DEF Claim

LEMMA PreparedType == ASSUME TypeInv, NEW c \in Calls, Prepared(c) PROVE TypeInv'
<1> DEFINE h == task[c].e
<1>1. h \in Handoffs /\ "other" \in Endings
  BY TaskTypes, Apart DEF Endings
<1>2. TaskOK'
  <2>1. Await(c, [task[c] EXCEPT !.pc = "create"]) => TaskOK'
    BY MoveType
  <2> QED
    BY <2>1, SkipType DEF Prepared
<1>3. entry' \in [Handoffs -> Entry]
  BY <1>1, EndsType DEF Prepared, TypeInv, TypeOK
<1>4. entry[h].worker \in Workers
  BY <1>1 DEF TypeInv, TypeOK, Entry
<1>5. creating' \subseteq Workers
  BY <1>4 DEF Prepared, TypeInv, TypeOK
<1>6. asked' \in [Handoffs -> {"no", "asked", "made", "refused"}]
  BY DEF Prepared, TypeInv, TypeOK
<1> QED
  BY <1>2, <1>3, <1>5, <1>6 DEF Prepared, TypeInv, TypeOK, TaskOK

LEMMA CreatedType == ASSUME TypeInv, NEW c \in Calls, Created(c) PROVE TypeInv'
<1>1. task[c].e \in Handoffs /\ c \in Tasks /\ c \notin NewWorkers
  BY TaskTypes, Apart
<1>2. \A s \in DOMAIN agents : s \in Workers
  BY AgentTypes
<1>3. TaskOK'
  BY <1>1, <1>2, FinishType DEF Created
<1> QED
  BY <1>3, OnlyTask DEF Created

LEMMA CreateFailsType == ASSUME TypeInv, NEW c \in Calls, CreateFails(c) PROVE TypeInv'
<1>1. task[c].e \in Handoffs /\ "other" \in Endings
  BY TaskTypes, Apart DEF Endings
<1>2. TaskOK'
  BY SkipType DEF CreateFails
<1>3. entry' \in [Handoffs -> Entry]
  BY <1>1, EndsType DEF CreateFails, TypeInv, TypeOK
<1>4. creating' \subseteq Workers
  BY DEF CreateFails, TypeInv, TypeOK
<1> QED
  BY <1>2, <1>3, <1>4 DEF CreateFails, TypeInv, TypeOK, TaskOK, daemon

\* One agent more.
LEMMA NewAgentType ==
  ASSUME TypeInv, NEW h \in Handoffs, NEW by \in Handoffs \cup {0}, NewAgent(h, by)
  PROVE  /\ agents' \in Seq([from : Workers, by : Handoffs \cup {0}])
         /\ Len(agents') = Len(agents) + 1 /\ Len(agents') <= MaxAgents
         /\ \A s \in 1..Len(agents) : agents'[s] = agents[s]
         /\ agents'[Len(agents) + 1] = [from |-> entry[h].worker, by |-> by]
         /\ news' \subseteq NewWorkers
<1> DEFINE S == [from : Workers, by : Handoffs \cup {0}]
           a == [from |-> entry[h].worker, by |-> by]
<1>1. agents \in Seq(S) /\ Len(agents) \in Nat
  BY AgentTypes DEF TypeInv, TypeOK
<1>2. a \in S
  BY DEF TypeInv, TypeOK, Entry
<1>3. agents' = Append(agents, a)
  BY DEF NewAgent
<1> HIDE DEF S, a
<1>4. /\ agents' \in Seq(S) /\ Len(agents') = Len(agents) + 1
      /\ \A s \in 1..Len(agents) : agents'[s] = agents[s]
      /\ agents'[Len(agents) + 1] = a
  BY <1>1, <1>2, <1>3, AppendProperties
<1>5. Len(agents') <= MaxAgents /\ Len(agents) + 1 \in NewWorkers
  BY <1>1, <1>4, HandoffAssumption DEF NewAgent, NewWorkers
<1>6. news' \subseteq NewWorkers
  BY <1>5 DEF NewAgent, TypeInv, TypeOK
<1> QED
  BY <1>4, <1>5, <1>6 DEF S, a

LEMMA MakeType == ASSUME TypeInv, NEW h \in Handoffs, Make(h) PROVE TypeInv'
<1>1. asked' \in [Handoffs -> {"no", "asked", "made", "refused"}]
  BY DEF Make, TypeInv, TypeOK
<1>2. /\ agents' \in Seq([from : Workers, by : Handoffs \cup {0}]) /\ Len(agents') <= MaxAgents
      /\ news' \subseteq NewWorkers
  BY NewAgentType DEF Make, TypeInv, TypeOK
<1> QED
  BY <1>1, <1>2 DEF Make, TypeInv, TypeOK, TaskOK, memory

LEMMA ManagerCreatesType == ASSUME TypeInv, NEW h \in Handoffs, ManagerCreates(h) PROVE TypeInv'
<1>1. mail' \in [Handoffs -> Nat]
  <2>1. mail[h] - 1 \in Nat
    BY DEF ManagerCreates, TypeInv, TypeOK
  <2> QED
    BY <2>1 DEF ManagerCreates, TypeInv, TypeOK
<1>2. /\ agents' \in Seq([from : Workers, by : Handoffs \cup {0}]) /\ Len(agents') <= MaxAgents
      /\ news' \subseteq NewWorkers
  BY NewAgentType DEF ManagerCreates
<1> QED
  BY <1>1, <1>2 DEF ManagerCreates, TypeInv, TypeOK, TaskOK, memory

LEMMA NoticeType == ASSUME TypeInv, NEW h \in Handoffs, Notice(h) PROVE TypeInv'
<1>1. CASE HeldGoes(h)
  <2>1. held[h] - 1 \in Nat /\ mail[h] + 1 \in Nat
    BY <1>1 DEF HeldGoes, TypeInv, TypeOK
  <2>2. mail' \in [Handoffs -> Nat] /\ held' \in [Handoffs -> Nat]
    BY <1>1, <2>1 DEF HeldGoes, TypeInv, TypeOK
  <2> QED
    BY <1>1, <2>2 DEF HeldGoes, TypeInv, TypeOK, TaskOK, files
<1>2. CASE NoteGoes(h) \/ NoteDropped(h)
  <2>1. note' \in [Handoffs -> {"no", "queued", "sending"}]
    BY <1>2 DEF NoteGoes, NoteDropped, TypeInv, TypeOK
  <2> QED
    BY <1>2, <2>1 DEF NoteGoes, NoteDropped, TypeInv, TypeOK, TaskOK, files, daemon
<1>3. CASE NoteSent(h)
  <2>1. note' \in [Handoffs -> {"no", "queued", "sending"}]
    BY <1>3 DEF NoteSent, TypeInv, TypeOK
  <2>2. Noted(entry[h]) \in Entry
    BY EntryTypes DEF TypeInv, TypeOK
  <2>3. entry' \in [Handoffs -> Entry]
    BY <1>3, <2>2, StoreType DEF NoteSent, TypeInv
  <2> QED
    BY <1>3, <2>1, <2>3 DEF NoteSent, TypeInv, TypeOK, TaskOK, daemon
<1> QED
  BY <1>1, <1>2, <1>3 DEF Notice

LEMMA TimePassesType == ASSUME TypeInv, NEW h \in Handoffs, TimePasses(h) PROVE TypeInv'
<1>1. [entry[h] EXCEPT !.late = TRUE] \in Entry
  BY EntryTypes DEF TypeInv, TypeOK
<1>2. entry' \in [Handoffs -> Entry]
  BY <1>1, StoreType DEF TimePasses, TypeInv
<1>3. TaskOK'
  BY DEF TimePasses, TypeInv, TaskOK
<1> QED
  BY <1>2, <1>3, OnlyEntry DEF TimePasses

LEMMA ReloadType == ASSUME TypeInv, Reload PROVE TypeInv'
<1>1. Idle \in Task /\ Idle.pc = "idle" /\ Idle.back = "idle" /\ NewWorkers \subseteq Tasks
  BY IdleType DEF Tasks
<1>2. TaskOK'
  BY <1>1 DEF Reload, TypeInv, TaskOK
<1>3. reloads' \in 0..MaxReloads
  BY HandoffAssumption DEF Reload, TypeInv, TypeOK
<1>4. held' \in [Handoffs -> Nat] /\ note' \in [Handoffs -> {"no", "queued", "sending"}]
  BY DEF Reload
<1> QED
  BY <1>2, <1>3, <1>4 DEF Reload, TypeInv, TypeOK, TaskOK, files

LEMMA LoopType == ASSUME TypeInv, NEW c \in Calls, Loop(c) PROVE TypeInv'
  BY ReturnType, WalkType, AskNoteType, NoteQueuedType, BriefBuiltType, CommandTypes, DeliverType,
     ClaimType, PreparedType, CreatedType, CreateFailsType
     DEF Loop

LEMMA CallType == ASSUME TypeInv, NEW c \in Calls, Call(c) PROVE TypeInv'
  BY LookUpType, ListedType, ExpireType, StartType, StartedType, BeginType, LoopType,
     InformedType, CompletedType, Apart
     DEF Call, Finishing

LEMMA NextType == ASSUME TypeInv, [Next]_vars PROVE TypeInv'
<1>1. ASSUME NEW c \in Calls, NEW w \in Workers \cup {Nobody}, TurnEnds(c, w)
      PROVE  TypeInv'
  BY <1>1, TurnEndsType
<1>2. ASSUME NEW c \in Calls, Call(c)
      PROVE  TypeInv'
  BY <1>2, CallType
<1>3. ASSUME NEW s \in NewWorkers, Handler(s)
      PROVE  TypeInv'
  BY <1>3, AgentCreatedType, InformedType, CompletedType DEF Handler, Finishing, Tasks
<1>4. ASSUME NEW h \in Handoffs, Make(h) \/ ManagerCreates(h) \/ Notice(h) \/ TimePasses(h)
      PROVE  TypeInv'
  BY <1>4, MakeType, ManagerCreatesType, NoticeType, TimePassesType
<1>5. CASE Switch
  BY <1>5 DEF Switch, TypeInv, TypeOK, TaskOK, daemon, memory
<1>6. CASE Reload
  BY <1>6, ReloadType
<1>7. CASE UNCHANGED vars
  BY <1>7 DEF vars, files, daemon, memory, TypeInv, TypeOK, TaskOK
<1> QED
  BY <1>1, <1>2, <1>3, <1>4, <1>5, <1>6, <1>7 DEF Next

\* Type correctness, with what it rests on.
THEOREM TypesHold == Spec => []TypeInv
  BY InitType, NextType, PTL DEF Spec

\* The type of the state of handoff.ts and of its store holds throughout,
\* with any number of overlapping turn ends and handoffs.
THEOREM TypeCorrect == Spec => []TypeOK
<1>1. TypeInv => TypeOK
  BY DEF TypeInv
<1> QED
  BY <1>1, TypesHold, PTL

-----------------------------------------------------------------------------
(* One creation of a handoff's successor.                                  *)

\* The states a creation can still be claimed from.
Fresh == {"none", "waiting", "noting", "briefed"}

\* Each handoff is claimed once: it leaves Fresh for good, one call prepares it,
\* and what it asked of Paseo is made once.
CreationInv ==
  /\ OneCreation
  /\ \A s \in DOMAIN agents : agents[s].by # 0 => asked[agents[s].by] = "made"
  /\ \A t \in Tasks : task[t].pc = "prepare" => asked[task[t].e] = "no"
  /\ \A t, u \in Tasks : task[t].pc = "prepare" /\ task[u].pc = "prepare" /\ task[t].e = task[u].e => t = u
  /\ \A h \in Handoffs : entry[h].state \in Fresh =>
       /\ asked[h] = "no"
       /\ \A t \in Tasks : task[t].pc = "prepare" => task[t].e # h

\* No entry becomes fresh, and no call comes to prepare a creation.
NoneFresh == \A h \in Handoffs : entry'[h].state \in Fresh => entry[h].state \in Fresh
OnlyLeaves ==
  /\ NoneFresh
  /\ \A t \in Tasks : task'[t].pc = "prepare" => task[t].pc = "prepare" /\ task'[t].e = task[t].e

LEMMA LeavingKeeps ==
  ASSUME CreationInv, OnlyLeaves, UNCHANGED <<agents, asked>>
  PROVE  CreationInv'
  BY DEF CreationInv, OnlyLeaves, NoneFresh, OneCreation

\* What the store writes over an entry is fresh only when the entry was.
LEMMA FreshBefore ==
  ASSUME NEW r \in Entry
  PROVE  /\ \A why \in Endings : End(r, why).state \notin Fresh
         /\ \A why \in Endings : EndPending(r, why).state \in Fresh => r.state \in Fresh
         /\ \A s \in Workers, cmd \in BOOLEAN : SuccessorOf(r, s, cmd).state \notin Fresh
         /\ Commanded(r).state \notin Fresh
         /\ Moved(r, "creating").state \notin Fresh
         /\ Noted(r).state \in Fresh => r.state \in Fresh
         /\ Briefed(r).state \in Fresh => r.state \in Fresh
         /\ [r EXCEPT !.late = TRUE].state = r.state
<1>1. \A why \in Endings : End(r, why).state \in {"failed", "dropped"}
  BY DEF End, Entry
<1>2. \A s \in Workers, cmd \in BOOLEAN : SuccessorOf(r, s, cmd).state = "done"
  BY DEF SuccessorOf, Moved, Entry
<1>3. Commanded(r).state = "commanded" /\ Moved(r, "creating").state = "creating"
  BY DEF Commanded, Moved, Entry
<1>4. Noted(r) # r => r.state \in Fresh
  BY DEF Noted, Fresh
<1>5. Briefed(r) # r => r.state \in Fresh
  BY DEF Briefed, Fresh
<1>6. [r EXCEPT !.late = TRUE].state = r.state
  BY DEF Entry
<1>7. \A why \in Endings : EndPending(r, why) = r \/ EndPending(r, why) = End(r, why)
  BY DEF EndPending
<1> QED
  BY <1>1, <1>2, <1>3, <1>4, <1>5, <1>6, <1>7 DEF Fresh

LEMMA StoreLeaves ==
  ASSUME TypeInv, NEW h \in Handoffs, NEW r, Store(h, r),
         r.state \in Fresh => entry[h].state \in Fresh
  PROVE  \A g \in Handoffs : entry'[g].state \in Fresh => entry[g].state \in Fresh
  BY DEF Store, TypeInv, TypeOK

\* What the actions write over the entry in hand.
LEMMA WritesLeave ==
  ASSUME TypeInv, NEW h \in Handoffs,
         \/ UNCHANGED entry
         \/ \E why \in Endings : Store(h, End(entry[h], why)) \/ EndsWith(h, why)
         \/ \E s \in Workers, cmd \in BOOLEAN : Store(h, SuccessorOf(entry[h], s, cmd))
         \/ Store(h, Commanded(entry[h])) \/ Store(h, Noted(entry[h])) \/ Store(h, Briefed(entry[h]))
         \/ Store(h, [entry[h] EXCEPT !.late = TRUE])
  PROVE  \A g \in Handoffs : entry'[g].state \in Fresh => entry[g].state \in Fresh
<1>1. entry[h] \in Entry
  BY DEF TypeInv, TypeOK
<1>2. ASSUME NEW why \in Endings
      PROVE  /\ End(entry[h], why).state \in Fresh => entry[h].state \in Fresh
             /\ EndPending(entry[h], why).state \in Fresh => entry[h].state \in Fresh
  BY <1>1, FreshBefore
<1>3. ASSUME NEW s \in Workers, NEW cmd \in BOOLEAN
      PROVE  SuccessorOf(entry[h], s, cmd).state \in Fresh => entry[h].state \in Fresh
  BY <1>1, FreshBefore
<1>4. /\ Commanded(entry[h]).state \in Fresh => entry[h].state \in Fresh
      /\ Noted(entry[h]).state \in Fresh => entry[h].state \in Fresh
      /\ Briefed(entry[h]).state \in Fresh => entry[h].state \in Fresh
      /\ [entry[h] EXCEPT !.late = TRUE].state \in Fresh => entry[h].state \in Fresh
  BY <1>1, FreshBefore
<1>5. CASE \E why \in Endings : Store(h, End(entry[h], why)) \/ EndsWith(h, why)
  BY <1>2, <1>5, StoreLeaves DEF EndsWith
<1>6. CASE \E s \in Workers, cmd \in BOOLEAN : Store(h, SuccessorOf(entry[h], s, cmd))
  BY <1>3, <1>6, StoreLeaves
<1>7. CASE \/ Store(h, Commanded(entry[h])) \/ Store(h, Noted(entry[h])) \/ Store(h, Briefed(entry[h]))
          \/ Store(h, [entry[h] EXCEPT !.late = TRUE])
  BY <1>4, <1>7, StoreLeaves
<1> QED
  BY <1>5, <1>6, <1>7

LEMMA TaskLeaves ==
  ASSUME TypeInv, NEW t \in Tasks, NEW r, r.pc # "prepare",
         task' = [task EXCEPT ![t] = r]
  PROVE  \A u \in Tasks : task'[u].pc = "prepare" => task[u].pc = "prepare" /\ task'[u].e = task[u].e
  BY DEF TypeInv, TypeOK

LEMMA SkipLeaves ==
  ASSUME TypeInv, NEW c \in Calls, Skip(c)
  PROVE  \A u \in Tasks : task'[u].pc = "prepare" => task[u].pc = "prepare" /\ task'[u].e = task[u].e
  BY RestType, TaskTypes, Apart, TaskLeaves DEF Skip, GoOn

\* Steps that write no entry.
LEMMA TaskStepsLeave ==
  ASSUME TypeInv, NEW c \in Calls, UNCHANGED entry,
         \/ \E w \in Workers \cup {Nobody} : TurnEnds(c, w)
         \/ \E h \in Handoffs : LookUp(c, h) \/ PassBy(c, h) \/ AskNote(c, h) \/ BuildBrief(c, h) \/ Command(c, h)
         \/ Listed(c) \/ Start(c) \/ Begin(c) \/ Return(c) \/ NoteQueued(c) \/ ManagerBusy(c) \/ Created(c)
  PROVE  OnlyLeaves
<1> DEFINE Leaves == \A u \in Tasks :
             task'[u].pc = "prepare" => task[u].pc = "prepare" /\ task'[u].e = task[u].e
<1>1. task[c] \in Task /\ c \in Tasks /\ Idle.pc = "idle" /\ Idle \in Task
  BY TaskTypes, Apart, IdleType
<1>2. ASSUME NEW r, r.pc # "prepare", GoOn(c, r) \/ Await(c, r)
      PROVE  Leaves
  BY <1>1, <1>2, TaskLeaves DEF GoOn, Await
<1> HIDE DEF Leaves
<1>3. CASE \E w \in Workers \cup {Nobody} : TurnEnds(c, w)
  <2> PICK w \in Workers \cup {Nobody} : TurnEnds(c, w)
    BY <1>3
  <2> DEFINE r == [Idle EXCEPT !.pc = "look", !.own = w,
                          !.look = {h \in Handoffs : entry[h].state = "creating"}]
  <2>1. r.pc = "look" /\ GoOn(c, r)
    BY <1>1 DEF Task, TurnEnds
  <2> QED
    BY <2>1, <1>2 DEF Leaves, OnlyLeaves, NoneFresh
<1>4. ASSUME NEW h \in Handoffs, LookUp(c, h) \/ PassBy(c, h) \/ AskNote(c, h) \/ BuildBrief(c, h) \/ Command(c, h)
      PROVE  Leaves
  <2>1. CASE LookUp(c, h)
    <3> DEFINE r == [task[c] EXCEPT !.pc = "list", !.e = h, !.look = {x \in @ : x > h}]
    <3>1. r.pc = "list" /\ Await(c, r)
      BY <1>1, <2>1 DEF Task, LookUp
    <3> QED
      BY <3>1, <1>2
  <2>2. CASE PassBy(c, h)
    BY <2>2, <1>2, RestType DEF PassBy
  <2>3. ASSUME NEW pc \in {"note", "brief", "manager"}, Await(c, [task[c] EXCEPT !.pc = pc, !.e = h])
        PROVE  Leaves
    <3> DEFINE r == [task[c] EXCEPT !.pc = pc, !.e = h]
    <3>1. r.pc = pc
      BY <1>1 DEF Task
    <3> QED
      BY <2>3, <3>1, <1>2
  <2> QED
    BY <1>4, <2>1, <2>2, <2>3 DEF AskNote, BuildBrief, Command
<1>5. ASSUME NEW pc \in {"look", "parent", "begin"},
             GoOn(c, [task[c] EXCEPT !.pc = pc]) \/ Await(c, [task[c] EXCEPT !.pc = pc])
      PROVE  Leaves
  <2> DEFINE r == [task[c] EXCEPT !.pc = pc]
  <2>1. r.pc = pc
    BY <1>1 DEF Task
  <2> QED
    BY <1>5, <2>1, <1>2
<1>6. ASSUME NEW h, NEW s, NEW back, FinishCreated(c, h, s, back)
      PROVE  Leaves
  <2> DEFINE r == [task[c] EXCEPT !.pc = "inform", !.e = h, !.s = s, !.back = back]
  <2>1. r.pc = "inform" /\ Await(c, r)
    BY <1>1, <1>6 DEF Task, FinishCreated
  <2> QED
    BY <2>1, <1>2
<1>7. CASE Begin(c)
  <2> DEFINE r == [task[c] EXCEPT !.pc = "next", !.on = enabled,
                !.seen = [h \in Handoffs |-> IF entry[h].state \in {"waiting", "noting", "briefed"}
                                             THEN entry[h].state ELSE "none"]]
  <2>1. r.pc = "next" /\ GoOn(c, r)
    BY <1>1, <1>7 DEF Task, Begin
  <2> QED
    BY <2>1, <1>2 DEF Leaves, OnlyLeaves, NoneFresh
<1>8. CASE Listed(c) \/ Start(c) \/ Created(c)
  BY <1>5, <1>6, <1>8 DEF Listed, Start, Created, Leaves, OnlyLeaves, NoneFresh
<1>9. CASE Return(c)
  BY <1>1, <1>2, <1>9 DEF Return, Leaves, OnlyLeaves, NoneFresh
<1>10. CASE NoteQueued(c) \/ ManagerBusy(c)
  BY <1>10, SkipLeaves DEF NoteQueued, ManagerBusy, Leaves, OnlyLeaves, NoneFresh
<1> QED
  BY <1>3, <1>4, <1>7, <1>8, <1>9, <1>10 DEF Leaves, OnlyLeaves, NoneFresh

\* Steps of a call that write the entry in hand.
LEMMA EntryStepsLeave ==
  ASSUME TypeInv, NEW c \in Calls,
         \/ Expire(c) \/ Started(c) \/ BriefBuilt(c)
         \/ \E h \in Handoffs : Drop(c, h)
         \/ ManagerGone(c) \/ SendCommand(c) \/ Deliver(c) \/ CommandSent(c)
         \/ Prepared(c) \/ CreateFails(c)
  PROVE  OnlyLeaves
<1> DEFINE h == task[c].e
           Leaves == \A u \in Tasks :
             task'[u].pc = "prepare" => task[u].pc = "prepare" /\ task'[u].e = task[u].e
           Older == \A g \in Handoffs : entry'[g].state \in Fresh => entry[g].state \in Fresh
<1>1. task[c] \in Task /\ c \in Tasks /\ h \in Handoffs /\ "other" \in Endings
  BY TaskTypes, Apart DEF Endings
<1>2. \A g \in Handoffs : entry[g] \in Entry
  BY DEF TypeInv, TypeOK
<1>3. ASSUME NEW r, r.pc # "prepare", GoOn(c, r) \/ Await(c, r)
      PROVE  Leaves
  BY <1>1, <1>3, TaskLeaves DEF GoOn, Await
<1>4. ASSUME NEW pc, pc # "prepare",
             GoOn(c, [task[c] EXCEPT !.pc = pc]) \/ Await(c, [task[c] EXCEPT !.pc = pc])
      PROVE  Leaves
  <2> DEFINE r == [task[c] EXCEPT !.pc = pc]
  <2>1. r.pc = pc
    BY <1>1 DEF Task
  <2> QED
    BY <1>4, <2>1, <1>3
<1>5. Skip(c) => Leaves
  BY SkipLeaves
<1>6. \A g \in Handoffs : EndsWith(g, "other") => Older
  BY <1>1, WritesLeave
<1>7. UNCHANGED entry => Older
  OBVIOUS
<1>8. Store(h, Commanded(entry[h])) \/ Store(h, Briefed(entry[h])) => Older
  BY <1>1, WritesLeave
<1> HIDE DEF Leaves, Older
<1>9. CASE Expire(c)
  <2>1. \A g \in Handoffs : entry'[g] = entry[g] \/ entry'[g] = End(entry[g], StaleEnding(entry[g]))
    BY <1>9 DEF Expire, Expired
  <2>2. \A g \in Handoffs : StaleEnding(entry[g]) \in Endings
    BY <1>2, EntryTypes
  <2>3. \A g \in Handoffs : End(entry[g], StaleEnding(entry[g])).state \notin Fresh
    BY <1>2, <2>2, FreshBefore
  <2>4. Older
    BY <2>1, <2>3 DEF Older
  <2>5. Leaves
    BY <1>4, <1>9 DEF Expire
  <2> QED
    BY <2>4, <2>5 DEF OnlyLeaves, NoneFresh, Leaves, Older
<1>10. CASE Started(c)
  <2>1. ASSUME NEW g \in Handoffs, IsOldest(g, Unused), Store(g, Waiting(task[c].own))
        PROVE  Older
    <3>1. entry[g].state \in Fresh
      BY <2>1 DEF IsOldest, Unused, Starting, Fresh
    <3> QED
      BY <2>1, <3>1 DEF Older, Store, TypeInv, TypeOK
  <2>2. Older
    BY <1>7, <1>10, <2>1 DEF Started
  <2>3. Leaves
    BY <1>4, <1>10 DEF Started
  <2> QED
    BY <2>2, <2>3 DEF OnlyLeaves, NoneFresh, Leaves, Older
<1>11. CASE BriefBuilt(c)
  <2> DEFINE r == [task[c] EXCEPT !.pc = "next",
                !.seen[h] = IF Briefed(entry[h]).state = "briefed" THEN "briefed" ELSE "none"]
  <2>1. r.pc = "next" /\ GoOn(c, r)
    BY <1>1, <1>11 DEF Task, BriefBuilt
  <2>2. Leaves
    BY <2>1, <1>3
  <2>3. Older
    BY <1>8, <1>11 DEF BriefBuilt
  <2> QED
    BY <2>2, <2>3 DEF OnlyLeaves, NoneFresh, Leaves, Older
<1>12. ASSUME NEW g \in Handoffs, Drop(c, g)
       PROVE  OnlyLeaves
  <2>1. Leaves
    BY <1>3, <1>12, RestType DEF Drop
  <2>2. Older
    BY <1>6, <1>12 DEF Drop
  <2> QED
    BY <2>1, <2>2 DEF OnlyLeaves, NoneFresh, Leaves, Older
<1>13. CASE ManagerGone(c) \/ SendCommand(c) \/ CreateFails(c)
  <2>1. Leaves
    BY <1>4, <1>5, <1>13 DEF ManagerGone, SendCommand, CreateFails
  <2>2. Older
    BY <1>1, <1>6, <1>7, <1>13 DEF ManagerGone, SendCommand, CreateFails
  <2> QED
    BY <2>1, <2>2 DEF OnlyLeaves, NoneFresh, Leaves, Older
<1>14. CASE Deliver(c) \/ CommandSent(c)
  <2>1. Leaves
    BY <1>4, <1>5, <1>14 DEF Deliver, CommandSent
  <2>2. Older
    BY <1>1, <1>6, <1>7, <1>8, <1>14 DEF Deliver, CommandSent
  <2> QED
    BY <2>1, <2>2 DEF OnlyLeaves, NoneFresh, Leaves, Older
<1>15. CASE Prepared(c)
  <2>1. Leaves
    BY <1>4, <1>5, <1>15 DEF Prepared
  <2>2. Older
    BY <1>1, <1>6, <1>7, <1>15 DEF Prepared
  <2> QED
    BY <2>1, <2>2 DEF OnlyLeaves, NoneFresh, Leaves, Older
<1> QED
  BY <1>9, <1>10, <1>11, <1>12, <1>13, <1>14, <1>15

LEMMA FinishingLeaves ==
  ASSUME TypeInv, NEW t \in Tasks, Finishing(t)
  PROVE  OnlyLeaves
<1>1. task[t] \in Task /\ task[t].e \in Handoffs /\ task[t].s \in Workers
  BY TaskTypes
<1>2. ASSUME NEW r, r.pc # "prepare", GoOn(t, r) \/ Await(t, r)
      PROVE  \A u \in Tasks : task'[u].pc = "prepare" => task[u].pc = "prepare" /\ task'[u].e = task[u].e
  BY <1>2, TaskLeaves DEF GoOn, Await
<1>3. CASE Informed(t)
  <2> DEFINE r == [task[t] EXCEPT !.pc = "label"]
  <2>1. r.pc = "label" /\ Await(t, r)
    BY <1>1, <1>3 DEF Task, Informed
  <2>2. PICK cmd \in BOOLEAN : Store(task[t].e, SuccessorOf(entry[task[t].e], task[t].s, cmd))
    BY <1>3 DEF Informed
  <2>3. \A g \in Handoffs : entry'[g].state \in Fresh => entry[g].state \in Fresh
    BY <1>1, <2>2, WritesLeave
  <2> QED
    BY <2>1, <2>3, <1>2 DEF OnlyLeaves, NoneFresh
<1>4. CASE Completed(t)
  <2> DEFINE r == [task[t] EXCEPT !.pc = "look"]
  <2>1. r.pc = "look" /\ Idle.pc = "idle"
    BY <1>1, IdleType DEF Task
  <2>2. Rest(t, task[t].e).pc = "next"
    BY <1>1 DEF Rest, Task
  <2>3. GoOn(t, Rest(t, task[t].e)) \/ GoOn(t, r) \/ Await(t, Idle)
    BY <1>4 DEF Completed, Skip
  <2>4. UNCHANGED entry
    BY <1>4 DEF Completed, files
  <2> QED
    BY <2>1, <2>2, <2>3, <2>4, <1>2 DEF OnlyLeaves, NoneFresh
<1> QED
  BY <1>3, <1>4 DEF Finishing

LEMMA AgentCreatedLeaves ==
  ASSUME TypeInv, NEW s \in NewWorkers, AgentCreated(s)
  PROVE  OnlyLeaves
<1>1. task[s] \in Task /\ s \in Tasks /\ s \in Workers
  BY TaskTypes, HandoffAssumption DEF Tasks, NewWorkers, Workers
<1>2. ASSUME NEW h \in Handoffs, LinkTo(s, h)
      PROVE  OnlyLeaves
  <2> DEFINE q == [task[s] EXCEPT !.pc = "inform", !.e = h, !.s = s, !.back = "idle"]
             r == [task[s] EXCEPT !.pc = "label", !.e = h, !.s = s]
  <2>1. q.pc = "inform" /\ r.pc = "label"
    BY <1>1 DEF Task
  <2>2. Await(s, q) \/ Await(s, r)
    BY <1>2 DEF LinkTo, FinishCreated
  <2>3. \A u \in Tasks : task'[u].pc = "prepare" => task[u].pc = "prepare" /\ task'[u].e = task[u].e
    BY <2>1, <2>2, <1>1, TaskLeaves DEF Await
  <2>4. UNCHANGED entry \/ Store(h, SuccessorOf(entry[h], s, FALSE))
    BY <1>2 DEF LinkTo
  <2>5. \A g \in Handoffs : entry'[g].state \in Fresh => entry[g].state \in Fresh
    BY <1>1, <2>4, WritesLeave
  <2> QED
    BY <2>3, <2>5 DEF OnlyLeaves, NoneFresh
<1>3. CASE UNCHANGED <<entry, task, thread>>
  BY <1>3 DEF OnlyLeaves, NoneFresh
<1> QED
  BY <1>2, <1>3 DEF AgentCreated

LEMMA SystemLeaves ==
  ASSUME TypeInv,
         \/ \E h \in Handoffs : Make(h) \/ ManagerCreates(h) \/ Notice(h) \/ TimePasses(h)
         \/ Switch \/ Reload \/ UNCHANGED vars
  PROVE  OnlyLeaves
<1>1. ASSUME NEW h \in Handoffs, NoteSent(h) \/ TimePasses(h)
      PROVE  OnlyLeaves
  <2>1. \A g \in Handoffs : entry'[g].state \in Fresh => entry[g].state \in Fresh
    BY <1>1, WritesLeave DEF NoteSent, TimePasses
  <2> QED
    BY <1>1, <2>1 DEF NoteSent, TimePasses, OnlyLeaves, NoneFresh
<1>2. ASSUME NEW h \in Handoffs, Make(h) \/ ManagerCreates(h) \/ HeldGoes(h) \/ NoteGoes(h) \/ NoteDropped(h)
      PROVE  OnlyLeaves
  BY <1>2 DEF Make, ManagerCreates, HeldGoes, NoteGoes, NoteDropped, files, OnlyLeaves, NoneFresh
<1>3. CASE Switch \/ UNCHANGED vars
  BY <1>3 DEF Switch, vars, files, OnlyLeaves, NoneFresh
<1>4. CASE Reload
  BY <1>4, IdleType DEF Reload, files, OnlyLeaves, NoneFresh
<1> QED
  BY <1>1, <1>2, <1>3, <1>4 DEF Notice

\* The steps a creation is made of.
LEMMA ClaimLeaves == ASSUME TypeInv, NEW c \in Calls, Claim(c) PROVE NoneFresh
<1> DEFINE h == task[c].e
<1>1. h \in Handoffs /\ entry[h] \in Entry /\ "other" \in Endings
  BY TaskTypes, Apart DEF Endings, TypeInv, TypeOK
<1>2. Moved(entry[h], "creating").state \notin Fresh
  BY <1>1, FreshBefore
<1>3. CASE UNCHANGED entry \/ Store(h, End(entry[h], "other"))
  BY <1>1, <1>3, WritesLeave DEF NoneFresh
<1>4. CASE Store(h, Moved(entry[h], "creating"))
  BY <1>1, <1>2, <1>4, StoreLeaves DEF NoneFresh
<1> QED
  BY <1>3, <1>4 DEF Claim

LEMMA ClaimCreates ==
  ASSUME TypeInv, CreationInv, NEW c \in Calls, Claim(c)
  PROVE  CreationInv'
<1> DEFINE h == task[c].e
           r == [task[c] EXCEPT !.pc = "prepare"]
<1>1. task[c] \in Task /\ c \in Tasks /\ h \in Handoffs /\ "other" \in Endings
  BY TaskTypes, Apart DEF Endings
<1>2. entry[h] \in Entry
  BY <1>1 DEF TypeInv, TypeOK
<1>3. UNCHANGED <<agents, asked>>
  BY DEF Claim, daemon
<1>4. CASE Skip(c)
  <2>1. entry' = entry \/ Store(h, End(entry[h], "other"))
    <3>1. ~Await(c, r)
      BY <1>4, HandoffAssumption DEF Skip, GoOn, Await, Free
    <3> QED
      BY <3>1 DEF Claim
  <2>2. \A g \in Handoffs : entry'[g].state \in Fresh => entry[g].state \in Fresh
    BY <1>1, <2>1, WritesLeave
  <2> QED
    BY <1>3, <1>4, <2>2, SkipLeaves, LeavingKeeps DEF OnlyLeaves, NoneFresh
<1>5. CASE Claimable(entry[h]) /\ Store(h, Moved(entry[h], "creating")) /\ Await(c, r)
  <2>1. r.pc = "prepare" /\ r.e = h /\ entry[h].state \in Fresh
    BY <1>1, <1>5 DEF Task, Claimable, Fresh
  <2>2. \A u \in Tasks : u # c => task'[u].pc = task[u].pc /\ task'[u].e = task[u].e
    BY <1>5 DEF Await, TypeInv, TypeOK
  <2>3. task'[c].pc = "prepare" /\ task'[c].e = h
    BY <1>1, <1>5, <2>1 DEF Await, TypeInv, TypeOK
  <2>4. asked[h] = "no" /\ \A t \in Tasks : task[t].pc = "prepare" => task[t].e # h
    BY <1>1, <2>1 DEF CreationInv
  <2>5. \A g \in Handoffs : g # h => entry'[g] = entry[g]
    BY <1>5 DEF Store, TypeInv, TypeOK
  <2>6. entry'[h].state \notin Fresh
    BY <1>1, <1>2, <1>5, FreshBefore DEF Store, TypeInv, TypeOK
  <2>7. \A t \in Tasks : task'[t].pc = "prepare" => asked[task'[t].e] = "no"
    BY <2>1, <2>2, <2>3, <2>4 DEF CreationInv
  <2>8. \A t, u \in Tasks :
          task'[t].pc = "prepare" /\ task'[u].pc = "prepare" /\ task'[t].e = task'[u].e => t = u
    BY <2>1, <2>2, <2>3, <2>4 DEF CreationInv
  <2>9. \A g \in Handoffs : entry'[g].state \in Fresh =>
          asked[g] = "no" /\ \A t \in Tasks : task'[t].pc = "prepare" => task'[t].e # g
    BY <2>1, <2>2, <2>3, <2>5, <2>6 DEF CreationInv
  <2> QED
    BY <1>3, <2>7, <2>8, <2>9 DEF CreationInv, OneCreation
<1> QED
  BY <1>4, <1>5 DEF Claim

LEMMA PreparedCreates ==
  ASSUME TypeInv, CreationInv, NEW c \in Calls, Prepared(c)
  PROVE  CreationInv'
<1> DEFINE h == task[c].e
           r == [task[c] EXCEPT !.pc = "create"]
<1>1. task[c] \in Task /\ c \in Tasks /\ h \in Handoffs
  BY TaskTypes, Apart
<1>2. OnlyLeaves
  BY EntryStepsLeave
<1>3. UNCHANGED agents /\ task[c].pc = "prepare"
  BY DEF Prepared, Awaits
<1>4. CASE UNCHANGED asked
  BY <1>2, <1>3, <1>4, LeavingKeeps
<1>5. CASE asked' = [asked EXCEPT ![h] = "asked"] /\ Await(c, r)
  <2>1. asked[h] = "no" /\ \A t \in Tasks : t # c /\ task[t].pc = "prepare" => task[t].e # h
    BY <1>1, <1>3 DEF CreationInv
  <2>2. asked'[h] = "asked" /\ \A g \in Handoffs : g # h => asked'[g] = asked[g]
    BY <1>1, <1>5 DEF TypeInv, TypeOK
  <2>3. task'[c].pc = "create"
    BY <1>1, <1>5 DEF Await, Task, TypeInv, TypeOK
  <2>4. \A t \in Tasks : task[t].e \in Handoffs
    BY TaskTypes
  <2>5. \A t \in Tasks : task'[t].pc = "prepare" => asked'[task'[t].e] = "no"
    BY <1>2, <2>1, <2>2, <2>3, <2>4 DEF CreationInv, OnlyLeaves, NoneFresh
  <2>6. entry[h].state \notin Fresh
    BY <1>1, <1>3 DEF CreationInv
  <2>7. \A g \in Handoffs : entry'[g].state \in Fresh =>
          asked'[g] = "no" /\ \A t \in Tasks : task'[t].pc = "prepare" => task'[t].e # g
    BY <1>2, <2>2, <2>6 DEF CreationInv, OnlyLeaves, NoneFresh
  <2>8. \A s \in DOMAIN agents : agents[s].by # 0 => asked'[agents[s].by] = "made"
    BY <2>1, <2>2, AgentTypes DEF CreationInv
  <2>9. \A t, u \in Tasks :
          task'[t].pc = "prepare" /\ task'[u].pc = "prepare" /\ task'[t].e = task'[u].e => t = u
    BY <1>2 DEF CreationInv, OnlyLeaves, NoneFresh
  <2> QED
    BY <1>3, <2>5, <2>7, <2>8, <2>9 DEF CreationInv, OneCreation
<1> QED
  BY <1>4, <1>5 DEF Prepared

\* An agent made for h, or for no handoff, and what became of the request.
LEMMA AgentCreates ==
  ASSUME TypeInv, CreationInv, NEW h \in Handoffs, Make(h) \/ ManagerCreates(h)
  PROVE  CreationInv'
<1>1. OnlyLeaves
  BY SystemLeaves
<1>2. UNCHANGED <<entry, task>>
  BY DEF Make, ManagerCreates
<1>3. CASE UNCHANGED agents /\ asked[h] = "asked" /\ asked' = [asked EXCEPT ![h] = "refused"]
  <2>1. asked'[h] = "refused" /\ \A g \in Handoffs : g # h => asked'[g] = asked[g]
    BY <1>3 DEF TypeInv, TypeOK
  <2>2. \A s \in DOMAIN agents : agents[s].by # 0 => agents[s].by # h
    BY <1>3 DEF CreationInv
  <2>3. \A t \in Tasks : task[t].e \in Handoffs /\ (task[t].pc = "prepare" => task[t].e # h)
    BY <1>3, TaskTypes DEF CreationInv
  <2>4. \A s \in DOMAIN agents : agents[s].by # 0 => asked'[agents[s].by] = "made"
    BY <2>1, <2>2, AgentTypes DEF CreationInv
  <2> QED
    BY <1>2, <1>3, <2>1, <2>3, <2>4 DEF CreationInv, OneCreation
<1>4. ASSUME NEW by \in {h, 0}, NewAgent(h, by),
             \A g \in Handoffs : IF g = by THEN asked[g] = "asked" /\ asked'[g] = "made" ELSE asked'[g] = asked[g]
      PROVE  CreationInv'
  <2> DEFINE n == Len(agents) + 1
  <2>1. /\ DOMAIN agents = 1..Len(agents) /\ DOMAIN agents' = 1..n /\ Len(agents) \in Nat
        /\ \A s \in 1..Len(agents) : agents'[s] = agents[s] /\ agents[s].by \in Handoffs \cup {0}
        /\ agents'[n].by = by
    <3>1. by \in Handoffs \cup {0}
      BY <1>4
    <3>2. /\ agents' \in Seq([from : Workers, by : Handoffs \cup {0}]) /\ Len(agents') = n
          /\ \A s \in 1..Len(agents) : agents'[s] = agents[s]
          /\ agents'[n] = [from |-> entry[h].worker, by |-> by]
      BY <1>4, <3>1, NewAgentType
    <3>3. DOMAIN agents' = 1..n
      BY <3>2
    <3> QED
      BY <3>2, <3>3, AgentTypes
  <2>2. by # 0 => by \in Handoffs /\ asked[by] = "asked" /\ asked'[by] = "made"
    BY <1>4 DEF Handoffs
  <2>3. \A s \in 1..Len(agents) : agents[s].by # 0 => agents[s].by # by /\ asked'[agents[s].by] = "made"
    BY <1>4, <2>1, <2>2 DEF CreationInv
  <2>4. \A s \in 1..n : s = n \/ s \in 1..Len(agents)
    BY <2>1
  <2>5. \A s \in 1..n : agents'[s].by # 0 => asked'[agents'[s].by] = "made"
    BY <2>1, <2>2, <2>3, <2>4
  <2>6. \A s, x \in 1..n : agents'[s].by = agents'[x].by /\ agents'[s].by # 0 => s = x
    BY <2>1, <2>3, <2>4 DEF CreationInv, OneCreation
  <2>7. \A t \in Tasks : task[t].e \in Handoffs /\ (task[t].pc = "prepare" => task[t].e # by)
    BY <2>2, TaskTypes, <1>4 DEF CreationInv, Handoffs
  <2>8. \A t \in Tasks : task'[t].pc = "prepare" => asked'[task'[t].e] = "no"
    BY <1>2, <1>4, <2>7 DEF CreationInv
  <2>9. \A g \in Handoffs : entry'[g].state \in Fresh =>
          asked'[g] = "no" /\ \A t \in Tasks : task'[t].pc = "prepare" => task'[t].e # g
    BY <1>2, <1>4 DEF CreationInv
  <2> QED
    BY <1>2, <2>1, <2>5, <2>6, <2>8, <2>9 DEF CreationInv, OneCreation
<1>5. CASE ManagerCreates(h)
  <2>1. \A g \in Handoffs : g # 0
    BY DEF Handoffs
  <2> QED
    BY <1>4, <1>5, <2>1 DEF ManagerCreates
<1>6. CASE NewAgent(h, h) /\ asked[h] = "asked" /\ asked' = [asked EXCEPT ![h] = "made"]
  BY <1>4, <1>6 DEF TypeInv, TypeOK
<1> QED
  BY <1>3, <1>5, <1>6 DEF Make

LEMMA CreationStep == ASSUME TypeInv, CreationInv, [Next]_vars PROVE CreationInv'
<1>1. ASSUME NEW c \in Calls, NEW w \in Workers \cup {Nobody}, TurnEnds(c, w)
      PROVE  CreationInv'
  BY <1>1, TaskStepsLeave, LeavingKeeps DEF TurnEnds, files, daemon
<1>2. ASSUME NEW c \in Calls, NEW h \in Handoffs,
             LookUp(c, h) \/ PassBy(c, h) \/ AskNote(c, h) \/ BuildBrief(c, h) \/ Command(c, h)
      PROVE  CreationInv'
  <2>1. UNCHANGED <<entry, agents, asked>>
    BY <1>2 DEF LookUp, PassBy, AskNote, BuildBrief, Command, files, daemon
  <2> QED
    BY <1>2, <2>1, TaskStepsLeave, LeavingKeeps
<1>3. ASSUME NEW c \in Calls,
             Listed(c) \/ Start(c) \/ Begin(c) \/ Return(c) \/ NoteQueued(c) \/ ManagerBusy(c) \/ Created(c)
      PROVE  CreationInv'
  <2>1. UNCHANGED <<entry, agents, asked>>
    BY <1>3 DEF Listed, Start, Begin, Return, NoteQueued, ManagerBusy, Created, files, daemon
  <2> QED
    BY <1>3, <2>1, TaskStepsLeave, LeavingKeeps
<1>4. ASSUME NEW c \in Calls,
             \/ Expire(c) \/ Started(c) \/ BriefBuilt(c)
             \/ \E h \in Handoffs : Drop(c, h)
             \/ ManagerGone(c) \/ SendCommand(c) \/ Deliver(c) \/ CommandSent(c) \/ CreateFails(c)
      PROVE  CreationInv'
  <2>1. UNCHANGED <<agents, asked>>
    BY <1>4 DEF Expire, Started, BriefBuilt, Drop, ManagerGone, SendCommand, Deliver, CommandSent, CreateFails, daemon
  <2> QED
    BY <1>4, <2>1, EntryStepsLeave, LeavingKeeps
<1>5. ASSUME NEW c \in Calls, Claim(c) \/ Prepared(c)
      PROVE  CreationInv'
  BY <1>5, ClaimCreates, PreparedCreates
<1>6. ASSUME NEW t \in Tasks, Finishing(t)
      PROVE  CreationInv'
  <2>1. UNCHANGED <<agents, asked>>
    BY <1>6 DEF Finishing, Informed, Completed, files, daemon
  <2> QED
    BY <1>6, <2>1, FinishingLeaves, LeavingKeeps
<1>7. ASSUME NEW s \in NewWorkers, AgentCreated(s)
      PROVE  CreationInv'
  BY <1>7, AgentCreatedLeaves, LeavingKeeps DEF AgentCreated
<1>8. ASSUME NEW h \in Handoffs, Notice(h) \/ TimePasses(h)
      PROVE  CreationInv'
  <2>1. UNCHANGED <<agents, asked>>
    BY <1>8 DEF Notice, HeldGoes, NoteGoes, NoteDropped, NoteSent, TimePasses, files, daemon
  <2> QED
    BY <1>8, <2>1, SystemLeaves, LeavingKeeps
<1>9. CASE Switch \/ Reload \/ UNCHANGED vars
  <2>1. UNCHANGED <<agents, asked>>
    BY <1>9 DEF Switch, Reload, vars, files, daemon
  <2> QED
    BY <1>9, <2>1, SystemLeaves, LeavingKeeps
<1>10. ASSUME NEW c \in Calls, Call(c)
       PROVE  CreationInv'
  BY <1>2, <1>3, <1>4, <1>5, <1>6, <1>10, Apart DEF Call, Loop
<1>11. ASSUME NEW s \in NewWorkers, Handler(s)
       PROVE  CreationInv'
  BY <1>6, <1>7, <1>11 DEF Handler, Tasks
<1> QED
  BY <1>1, <1>8, <1>9, <1>10, <1>11, AgentCreates DEF Next

LEMMA CreationInit == ASSUME Init PROVE CreationInv
<1>1. DOMAIN agents = {}
  BY DEF Init
<1>2. \A t \in Tasks : task[t].pc = "idle"
  BY IdleType DEF Init
<1>3. \A h \in Handoffs : asked[h] = "no"
  BY DEF Init
<1> QED
  BY <1>1, <1>2, <1>3 DEF CreationInv, OneCreation

\* However many turn ends reach a built brief at once, before and after a
\* reload, the plugin creates one successor of a handoff at most.
THEOREM OneCreationHolds == Spec => []OneCreation
<1>1. Init => CreationInv
  BY CreationInit
<1>2. TypeInv /\ CreationInv /\ [Next]_vars => CreationInv'
  BY CreationStep
<1>3. CreationInv => OneCreation
  BY DEF CreationInv
<1> QED
  BY <1>1, <1>2, <1>3, TypesHold, PTL DEF Spec

-----------------------------------------------------------------------------
(* A creation once made is not undone.                                     *)

\* The step leaves h as it is.
Stays(h) == entry'[h].state = entry[h].state

LEMMA StoreStays ==
  ASSUME TypeInv, NEW g \in Handoffs, NEW r, Store(g, r), NEW h \in Handoffs
  PROVE  /\ g # h => Stays(h)
         /\ g = h => entry'[h] = r
  BY DEF Stays, Store, TypeInv, TypeOK

\* What is written over a `creating' entry without ending it.
LEMMA CreatingStays ==
  ASSUME NEW r \in Entry, r.state = "creating"
  PROVE  /\ Noted(r) = r /\ Briefed(r) = r
         /\ [r EXCEPT !.late = TRUE].state = "creating"
         /\ \A s \in Workers, cmd \in BOOLEAN : SuccessorOf(r, s, cmd).state = "done"
  BY DEF Noted, Briefed, SuccessorOf, Moved, Entry

\* The steps of a call that write an entry.
LEMMA CallStepKeeps ==
  ASSUME TypeInv, CreationInv, NEW c \in Calls, NEW h \in Handoffs,
         asked[h] = "made", entry[h].state = "creating",
         \/ \E g \in Handoffs : Drop(c, g)
         \/ Expire(c) \/ Started(c) \/ BriefBuilt(c) \/ ManagerGone(c) \/ SendCommand(c) \/ Deliver(c)
         \/ CommandSent(c) \/ Claim(c) \/ Prepared(c) \/ CreateFails(c)
  PROVE  Stays(h) \/ Stale(entry[h]) \/ Behind(c, h)
<1> DEFINE g == task[c].e
<1>1. g \in Handoffs /\ c \in Tasks /\ entry[h] \in Entry
  BY TaskTypes, Apart DEF TypeInv, TypeOK
<1>2. UNCHANGED entry => Stays(h)
  BY DEF Stays
<1>3. \A r : Store(g, r) /\ g # h => Stays(h)
  BY <1>1, StoreStays
<1>4. \A why : EndsWith(g, why) /\ g # h => Stays(h)
  BY <1>3 DEF EndsWith
<1>5. CASE \E x \in Handoffs : Drop(c, x)
  <2>1. PICK x \in Handoffs : Drop(c, x)
    BY <1>5
  <2>2. task[c].pc = "next" /\ task[c].seen[x] # "none"
    BY <2>1 DEF Drop, First, Runs, IsOldest, Todo
  <2>3. x = h \/ Stays(h)
    BY <2>1, StoreStays DEF Drop, EndsWith
  <2> QED
    BY <2>2, <2>3 DEF Behind
<1>6. CASE Expire(c)
  BY <1>6 DEF Expire, Expired, Stays
<1>7. CASE Started(c)
  <2>1. ASSUME NEW x \in Handoffs, IsOldest(x, Unused), Store(x, Waiting(task[c].own))
        PROVE  Stays(h)
    <3>1. x # h
      BY <2>1 DEF IsOldest, Unused, Starting
    <3> QED
      BY <2>1, <3>1, StoreStays
  <2> QED
    BY <1>2, <1>7, <2>1 DEF Started
<1>8. CASE BriefBuilt(c)
  <2>1. Store(g, Briefed(entry[g]))
    BY <1>8 DEF BriefBuilt
  <2>2. CASE g = h
    BY <1>1, <2>1, <2>2, StoreStays, CreatingStays DEF Stays
  <2> QED
    BY <1>3, <2>1, <2>2
<1>9. CASE ManagerGone(c) \/ SendCommand(c) \/ Deliver(c) \/ CommandSent(c) \/ Claim(c)
  <2>1. task[c].pc \in {"manager", "send", "sent"}
    BY <1>9 DEF ManagerGone, SendCommand, Deliver, CommandSent, Claim, Awaits
  <2>2. g = h \/ Stays(h)
    BY <1>2, <1>3, <1>4, <1>9 DEF ManagerGone, SendCommand, Deliver, CommandSent, Claim
  <2> QED
    BY <2>1, <2>2 DEF Behind
<1>10. CASE Prepared(c)
  <2>1. g # h
    BY <1>1, <1>10 DEF CreationInv, Prepared, Awaits
  <2> QED
    BY <1>2, <1>4, <1>10, <2>1 DEF Prepared
<1>11. CASE CreateFails(c)
  <2>1. asked[g] = "refused" => g # h
    OBVIOUS
  <2> QED
    BY <1>2, <1>4, <1>11, <2>1 DEF CreateFails
<1> QED
  BY <1>5, <1>6, <1>7, <1>8, <1>9, <1>10, <1>11

\* The steps of a call or a handler that find a successor.
LEMMA SuccessorStepKeeps ==
  ASSUME TypeInv, NEW t \in Tasks, NEW h \in Handoffs, entry[h].state = "creating",
         Finishing(t) \/ (t \in NewWorkers /\ AgentCreated(t))
  PROVE  Stays(h) \/ entry'[h].state = "done"
<1>1. task[t].e \in Handoffs /\ task[t].s \in Workers /\ entry[h] \in Entry
  BY TaskTypes DEF TypeInv, TypeOK
<1>2. CASE Informed(t)
  <2>1. PICK cmd \in BOOLEAN : Store(task[t].e, SuccessorOf(entry[task[t].e], task[t].s, cmd))
    BY <1>2 DEF Informed
  <2> QED
    BY <1>1, <2>1, StoreStays, CreatingStays
<1>3. CASE Completed(t)
  BY <1>3 DEF Completed, files, Stays
<1>4. ASSUME t \in NewWorkers, NEW x \in Handoffs, LinkTo(t, x)
      PROVE  Stays(h)
  <2>1. CASE entry[x].state = "creating"
    BY <1>4, <2>1 DEF LinkTo, Stays
  <2>2. CASE entry[x].state # "creating"
    BY <1>4, <2>2, StoreStays DEF LinkTo
  <2> QED
    BY <2>1, <2>2
<1>5. CASE t \in NewWorkers /\ AgentCreated(t)
  BY <1>4, <1>5 DEF AgentCreated, Stays
<1> QED
  BY <1>2, <1>3, <1>5 DEF Finishing

\* The daemon, the notices and time write no other state over it.
LEMMA SystemStepKeeps ==
  ASSUME TypeInv, NEW h \in Handoffs, entry[h].state = "creating",
         \/ \E g \in Handoffs : Make(g) \/ ManagerCreates(g) \/ Notice(g) \/ TimePasses(g)
         \/ Switch \/ Reload \/ UNCHANGED vars
  PROVE  Stays(h)
<1>1. entry[h] \in Entry
  BY DEF TypeInv, TypeOK
<1>2. ASSUME NEW g \in Handoffs, NoteSent(g) \/ TimePasses(g)
      PROVE  Stays(h)
  <2>1. Store(g, Noted(entry[g])) \/ Store(g, [entry[g] EXCEPT !.late = TRUE])
    BY <1>2 DEF NoteSent, TimePasses
  <2>2. Noted(entry[h]) = entry[h] /\ [entry[h] EXCEPT !.late = TRUE].state = "creating"
    BY <1>1, CreatingStays
  <2>3. CASE g = h
    <3>1. entry'[h] = Noted(entry[h]) \/ entry'[h] = [entry[h] EXCEPT !.late = TRUE]
      BY <2>1, <2>3, StoreStays
    <3> QED
      BY <2>2, <3>1 DEF Stays
  <2> QED
    BY <2>1, <2>3, StoreStays
<1>3. ASSUME NEW g \in Handoffs, Make(g) \/ ManagerCreates(g) \/ HeldGoes(g) \/ NoteGoes(g) \/ NoteDropped(g)
      PROVE  Stays(h)
  BY <1>3 DEF Make, ManagerCreates, HeldGoes, NoteGoes, NoteDropped, files, Stays
<1>4. CASE Switch \/ Reload \/ UNCHANGED vars
  BY <1>4 DEF Switch, Reload, vars, files, Stays
<1> QED
  BY <1>2, <1>3, <1>4 DEF Notice

\* The steps of a call that write no entry.
LEMMA ReadStepKeeps ==
  ASSUME NEW c \in Calls, NEW h \in Handoffs,
         \/ \E w \in Workers \cup {Nobody} : TurnEnds(c, w)
         \/ \E g \in Handoffs : LookUp(c, g) \/ PassBy(c, g) \/ AskNote(c, g) \/ BuildBrief(c, g) \/ Command(c, g)
         \/ Listed(c) \/ Start(c) \/ Begin(c) \/ Return(c) \/ NoteQueued(c) \/ ManagerBusy(c) \/ Created(c)
  PROVE  Stays(h)
  BY DEF TurnEnds, LookUp, PassBy, AskNote, BuildBrief, Command, Listed, Start, Begin, Return, NoteQueued,
         ManagerBusy, Created, files, Stays

\* What KeptCreation says of a step.
KeepsCreations ==
  \A s \in DOMAIN agents : \A h \in Handoffs :
    (agents[s].by = h /\ entry[h].state = "creating" /\ entry'[h].state # "creating") =>
      \/ entry'[h].state = "done"
      \/ Stale(entry[h])
      \/ \E c \in Calls : Behind(c, h)

LEMMA KeptStep == ASSUME TypeInv, CreationInv, [Next]_vars PROVE KeepsCreations
<1> SUFFICES ASSUME NEW s \in DOMAIN agents, NEW h \in Handoffs,
                    agents[s].by = h, entry[h].state = "creating", entry'[h].state # "creating"
             PROVE  \/ entry'[h].state = "done"
                    \/ Stale(entry[h])
                    \/ \E c \in Calls : Behind(c, h)
  BY DEF KeepsCreations
<1>1. asked[h] = "made" /\ ~Stays(h)
  BY DEF CreationInv, Handoffs, Stays
<1>2. ASSUME NEW c \in Calls, Call(c) \/ \E w \in Workers \cup {Nobody} : TurnEnds(c, w)
      PROVE  entry'[h].state = "done" \/ Stale(entry[h]) \/ Behind(c, h)
  BY <1>1, <1>2, CallStepKeeps, SuccessorStepKeeps, ReadStepKeeps, Apart DEF Call, Loop
<1>3. ASSUME NEW t \in NewWorkers, Handler(t)
      PROVE  entry'[h].state = "done"
  BY <1>1, <1>3, SuccessorStepKeeps DEF Handler, Tasks
<1> QED
  BY <1>1, <1>2, <1>3, SystemStepKeeps DEF Next

\* Once the successor exists, nothing takes its handoff out of `creating' but the
\* successor itself, the bound, or another turn end that read the handoff before
\* the claim.
THEOREM KeptCreationHolds == Spec => KeptCreation
<1>1. TypeInv /\ CreationInv /\ [Next]_vars => [KeepsCreations]_vars
  BY KeptStep
<1>2. Init => CreationInv
  BY CreationInit
<1>3. TypeInv /\ CreationInv /\ [Next]_vars => CreationInv'
  BY CreationStep
<1>4. Spec => [][KeepsCreations]_vars
  BY <1>1, <1>2, <1>3, TypesHold, PTL DEF Spec
<1> QED
  BY <1>4 DEF KeptCreation, KeepsCreations
=============================================================================
