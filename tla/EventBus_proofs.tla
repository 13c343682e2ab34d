-------------------------- MODULE EventBus_proofs --------------------------
(***************************************************************************)
(* Proofs about EventBus for every number of missions, events, publishes   *)
(* and Orchestrators: no event is queued twice, nothing held is forgotten, *)
(* a mission's window is kept but where publishes overlap, and the record  *)
(* of a wake ends only after the wake's own turn.                          *)
(***************************************************************************)
EXTENDS EventBus, FiniteSetTheorems, SequenceTheorems, TLAPS

-----------------------------------------------------------------------------
(* Types                                                                   *)

\* The records of wakes.json.
Record == [orchestrator : Orchestrators, number : Numbers,
           endedBy : SUBSET [usage : 0..Owner, acts : 0..MaxMessages]]

CallRecord == [pc : {"idle", "finding", "queueing"}, taken : SUBSET Events,
               going : SUBSET Events, age : 0..Window, target : SUBSET Orchestrators]

MessageRecord == [number : 0..MaxMessages, events : SUBSET Events, arrived : BOOLEAN]

\* The bus, the queue and the turns; the records have a type of their own.
BusType ==
  /\ since \in [Missions -> 0..Window]
  /\ due \subseteq Backups
  /\ held \subseteq Events /\ inFlight \subseteq Events /\ published \subseteq Events
  /\ call \in [Calls -> CallRecord]
  /\ queue \in [Orchestrators -> SUBSET Events]
  /\ fate \in [Events -> Fates]
  /\ sending \in [Orchestrators -> MessageRecord]
  /\ turn \in [Orchestrators -> 0..Owner]
  /\ ending \in [Orchestrators -> SUBSET (Numbers \cup {Owner})]
  /\ awaiting \in [Orchestrators -> Nat]
  /\ messages \in 0..MaxMessages
  /\ ownerTurns \in 0..MaxOwnerTurns
  /\ reloads \in 0..MaxReloads
  /\ shown \in [Orchestrators -> 0..Owner]
  /\ met \in [Calls -> SUBSET Missions]

RecordType ==
  /\ openWakes \in [Orchestrators -> Seq(Numbers)]
  /\ closing \in [Orchestrators -> Seq(0..MaxMessages)]
  /\ wakes \in Seq(Record)
  /\ mistaken \subseteq Orchestrators

\* A message on its way has a number.
Numbered == \A o \in Orchestrators : sending[o] # NoMessage => sending[o].number \in Numbers

LEMMA TypeParts == TypeOK <=> BusType /\ RecordType
  BY DEF TypeOK, BusType, RecordType, Record, CallRecord, MessageRecord

LEMMA NoMessageType == NoMessage \in MessageRecord /\ ~NoMessage.arrived /\ NoMessage.events = {}
  BY EventBusAssumption DEF NoMessage, Message, MessageRecord, Idle

LEMMA NoCallType == NoCall \in CallRecord /\ NoCall.pc = "idle" /\ NoCall.going = {} /\ NoCall.taken = {}
  BY EventBusAssumption DEF NoCall, CallRecord

\* The publish and the message that Publish and Send begin.
LEMMA BeginType ==
  ASSUME NEW going \in SUBSET Events, NEW taken \in SUBSET Events
  PROVE  /\ Begun(taken, going) \in CallRecord
         /\ Begun(taken, going).pc = "finding"
         /\ Begun(taken, going).going = going
         /\ Begun(taken, going).taken = taken
  BY EventBusAssumption DEF Begun, CallRecord

LEMMA MessageType ==
  ASSUME NEW n \in 0..MaxMessages, NEW events \in SUBSET Events
  PROVE  /\ Message(n, events) \in MessageRecord
         /\ Message(n, events).number = n
         /\ Message(n, events).events = events
         /\ ~Message(n, events).arrived
  BY DEF Message, MessageRecord

LEMMA BusTypeInit == Init => BusType /\ RecordType /\ Numbered
<1> SUFFICES ASSUME Init PROVE BusType /\ RecordType /\ Numbered
  OBVIOUS
<1>1. BusType
  BY NoMessageType, NoCallType, EventBusAssumption DEF Init, BusType, Fates, Idle, Owner
<1>2. RecordType
  BY EmptySeq DEF Init, RecordType
<1>3. Numbered
  BY NoMessageType DEF Init, Numbered
<1> QED
  BY <1>1, <1>2, <1>3

\* What the parts of a step change, for the steps that leave the others alone.
LEMMA PublishType ==
  ASSUME BusType, Numbered, NEW c \in Calls, Publishing(c)
  PROVE  BusType' /\ Numbered'
<1>1. ASSUME NEW raised \in SUBSET Events, Publish(c, raised) PROVE BusType' /\ Numbered'
  <2> DEFINE fresh == (held \cup raised) \ Known
             waiting == {e \in fresh : MustWait(e)}
             going == fresh \ waiting
  <2>1. going \in SUBSET Events /\ waiting \in SUBSET Events /\ held \in SUBSET Events
    BY DEF BusType
  <2>2. call' \in [Calls -> CallRecord]
    BY <1>1, <2>1, BeginType DEF Publish, BusType
  <2>3. held' \subseteq Events /\ inFlight' \subseteq Events
    BY <1>1, <2>1 DEF Publish, BusType
  <2>4. met' \in [Calls -> SUBSET Missions]
    BY <1>1 DEF Publish, BusType
  <2> QED
    BY <1>1, <2>2, <2>3, <2>4 DEF Publish, BusType, Numbered, notices, records, agents, bounds
<1>2. ASSUME NoOrchestrator(c) PROVE BusType' /\ Numbered'
  BY <1>2, NoCallType DEF NoOrchestrator, BusType, Numbered, notices, records, agents, bounds
<1>3. ASSUME FindFails(c) PROVE BusType' /\ Numbered'
  <2>1. call[c].taken \subseteq Events
    BY DEF BusType, CallRecord
  <2> QED
    BY <1>3, <2>1, NoCallType DEF FindFails, KeepHeld, BusType, Numbered, notices, records, agents, bounds
<1>4. ASSUME NEW o \in Orchestrators, Enqueue(c, o) PROVE BusType' /\ Numbered'
  <2>1. call[c] \in CallRecord
    BY DEF BusType
  <2>2. call' = [call EXCEPT ![c] = [call[c] EXCEPT !.pc = "queueing", !.target = {o}]]
    BY <1>4 DEF Enqueue
  <2>3. [call[c] EXCEPT !.pc = "queueing", !.target = {o}] \in CallRecord
    BY <2>1 DEF CallRecord
  <2>4. call' \in [Calls -> CallRecord]
    BY <2>2, <2>3 DEF BusType
  <2>5. queue' \in [Orchestrators -> SUBSET Events]
    BY <1>4, <2>1 DEF Enqueue, BusType, CallRecord
  <2>6. fate' \in [Events -> Fates]
    BY <1>4 DEF Enqueue, BusType, Fates
  <2> QED
    BY <1>4, <2>4, <2>5, <2>6 DEF Enqueue, BusType, Numbered, records, agents, bounds
<1>5. ASSUME Answered(c) PROVE BusType' /\ Numbered'
  <2>1. call[c] \in CallRecord
    BY DEF BusType
  <2>2. since' \in [Missions -> 0..Window]
    BY <1>5, <2>1 DEF Answered, BusType, CallRecord
  <2>3. published' \subseteq Events
    BY <1>5, <2>1 DEF Answered, BusType, CallRecord
  <2>4. met' \in [Calls -> SUBSET Missions]
    BY <1>5 DEF Answered, BusType
  <2> QED
    BY <1>5, <2>2, <2>3, <2>4, NoCallType DEF Answered, BusType, Numbered, notices, records, agents, bounds
<1> QED
  BY <1>1, <1>2, <1>3, <1>4, <1>5 DEF Publishing

LEMMA DeliverType ==
  ASSUME BusType, Numbered, NEW o \in Orchestrators, Delivering(o)
  PROVE  BusType' /\ Numbered'
<1> USE EventBusAssumption
<1>1. ASSUME NEW group \in SUBSET Missions, NEW settled \in SUBSET Events, Send(o, group, settled)
      PROVE  BusType' /\ Numbered'
  <2> DEFINE items == {e \in queue[o] : Subject[e] = group}
             message == Message(messages + 1, items \ settled)
  <2>1. queue' \in [Orchestrators -> SUBSET Events] /\ items \in SUBSET Events
    BY <1>1 DEF Send, BusType
  <2>2. fate' \in [Events -> Fates]
    BY <1>1 DEF Send, BusType, Fates
  <2>3. messages + 1 \in Numbers /\ messages + 1 \in 0..MaxMessages
    BY <1>1 DEF Send, BusType, Numbers
  <2>8. message \in MessageRecord /\ message.number \in Numbers
    BY <2>1, <2>3, MessageType
  <2>4. \/ UNCHANGED <<sending, awaiting, messages>>
        \/ /\ messages' = messages + 1
           /\ sending' = [sending EXCEPT ![o] = message]
           /\ awaiting' = [awaiting EXCEPT ![o] = @ + 1]
    BY <1>1 DEF Send
  <2>5. messages < MaxMessages /\ UNCHANGED <<due, bus, records, agents, ownerTurns, reloads>>
    BY <1>1 DEF Send
  <2> HIDE DEF message, items
  <2>6. sending' \in [Orchestrators -> MessageRecord] /\ Numbered'
    BY <2>8, <2>4 DEF BusType, Numbered
  <2>7. awaiting' \in [Orchestrators -> Nat] /\ messages' \in 0..MaxMessages
    BY <2>4, <2>5 DEF BusType
  <2> QED
    BY <2>1, <2>2, <2>5, <2>6, <2>7 DEF BusType, bus, records, agents
<1>2. ASSUME Arrive(o) PROVE BusType' /\ Numbered'
  <2>1. sending[o] \in MessageRecord /\ sending[o] # NoMessage /\ ~sending[o].arrived
    BY <1>2 DEF Arrive, BusType
  <2>2. sending[o].number \in Numbers
    BY <2>1 DEF Numbered
  <2>3. sending' = [sending EXCEPT ![o] = [sending[o] EXCEPT !.arrived = TRUE]]
    BY <1>2 DEF Arrive
  <2>4. LET m == [sending[o] EXCEPT !.arrived = TRUE] IN m \in MessageRecord /\ m.number = sending[o].number
    BY <2>1 DEF MessageRecord
  <2>5. sending' \in [Orchestrators -> MessageRecord] /\ Numbered'
    BY <2>2, <2>3, <2>4 DEF BusType, Numbered
  <2>6. turn' \in [Orchestrators -> 0..Owner]
    BY <1>2, <2>2 DEF Arrive, BusType, Owner, Numbers
  <2> QED
    BY <1>2, <2>5, <2>6 DEF Arrive, BusType, bus, records, bounds
<1>3. ASSUME Sent(o) PROVE BusType' /\ Numbered'
  BY <1>3, NoMessageType DEF Sent, BusType, Numbered, Fates, bus, agents, bounds
<1>4. ASSUME SendFails(o) PROVE BusType' /\ Numbered'
  BY <1>4, NoMessageType DEF SendFails, BusType, Numbered, Fates, bus, agents, bounds, records
<1>5. ASSUME OwnerTurn(o) PROVE BusType' /\ Numbered'
  BY <1>5 DEF OwnerTurn, BusType, Numbered, Owner, bus, notices, records
<1>6. ASSUME TurnEnds(o) PROVE BusType' /\ Numbered'
  BY <1>6 DEF TurnEnds, BusType, Numbered, Owner, Idle, Numbers, bus, notices, records, bounds
<1>7. ASSUME NEW t \in ending[o], TurnEnded(o, t) PROVE BusType' /\ Numbered'
  <2>1. awaiting' \in [Orchestrators -> Nat]
    <3>1. CASE awaiting[o] = 0
      BY <1>7, <3>1 DEF TurnEnded, BusType
    <3>2. CASE awaiting[o] # 0
      <4>1. awaiting[o] - 1 \in Nat
        BY <3>2 DEF BusType
      <4> QED
        BY <1>7, <3>2, <4>1 DEF TurnEnded, BusType
    <3> QED
      BY <3>1, <3>2
  <2>2. ending' \in [Orchestrators -> SUBSET (Numbers \cup {Owner})]
    BY <1>7 DEF TurnEnded, BusType
  <2> QED
    BY <1>7, <2>1, <2>2 DEF TurnEnded, BusType, Numbered, bus, bounds
<1>8. ASSUME NEW i \in 1..Len(closing[o]), EndWake(o, i) PROVE BusType' /\ Numbered'
  BY <1>8 DEF EndWake, BusType, Numbered, bus, notices, agents, bounds
<1> QED
  BY <1>1, <1>2, <1>3, <1>4, <1>5, <1>6, <1>7, <1>8 DEF Delivering

LEMMA RestType ==
  ASSUME BusType, Numbered, [Tick \/ (\E e \in Backups : BackupDue(e)) \/ Reload]_vars
  PROVE  BusType' /\ Numbered'
<1> USE EventBusAssumption
<1>1. ASSUME Tick PROVE BusType' /\ Numbered'
  <2>1. \A c \in Calls : call[c] \in CallRecord
    BY DEF BusType
  <2>2. \A c \in Calls : call[c].age < Window => [call[c] EXCEPT !.age = @ + 1] \in CallRecord
    BY <2>1 DEF CallRecord
  <2>3. call' \in [Calls -> CallRecord]
    BY <1>1, <2>1, <2>2 DEF Tick
  <2>4. since' \in [Missions -> 0..Window]
    BY <1>1 DEF Tick, BusType
  <2> QED
    BY <1>1, <2>3, <2>4 DEF Tick, BusType, Numbered, notices, records, agents, bounds
<1>2. ASSUME NEW e \in Backups, BackupDue(e) PROVE BusType' /\ Numbered'
  BY <1>2 DEF BackupDue, BusType, Numbered, bus, notices, records, agents, bounds
<1>3. ASSUME Reload PROVE BusType' /\ Numbered'
  BY <1>3, NoMessageType, NoCallType DEF Reload, BusType, Numbered, Fates
<1>4. ASSUME UNCHANGED vars PROVE BusType' /\ Numbered'
  BY <1>4 DEF vars, BusType, Numbered, bus, notices, records, agents, bounds
<1> QED
  BY <1>1, <1>2, <1>3, <1>4

LEMMA RecordStep == RecordType /\ BusType /\ Numbered /\ [Next]_vars => RecordType'
<1> SUFFICES ASSUME RecordType, BusType, Numbered, [Next]_vars PROVE RecordType'
  OBVIOUS
<1> USE EventBusAssumption
<1>1. ASSUME UNCHANGED records PROVE RecordType'
  BY <1>1 DEF RecordType, records
<1>2. ASSUME NEW o \in Orchestrators, Sent(o) PROVE RecordType'
  <2>1. sending[o] # NoMessage /\ sending[o].number \in Numbers
    BY <1>2, NoMessageType DEF Sent, Numbered
  <2>2. Append(openWakes[o], sending[o].number) \in Seq(Numbers)
    BY <2>1, AppendProperties DEF RecordType
  <2>3. [orchestrator |-> o, number |-> sending[o].number, endedBy |-> {}] \in Record
    BY <2>1 DEF Record
  <2>4. wakes' \in Seq(Record)
    BY <1>2, <2>3, AppendProperties DEF RecordType, Sent
  <2> QED
    BY <1>2, <2>2, <2>4 DEF RecordType, Sent
<1>3. ASSUME NEW o \in Orchestrators, NEW t \in ending[o], TurnEnded(o, t) PROVE RecordType'
  <2>1. CASE awaiting[o] = 0
    BY <1>3, <2>1 DEF TurnEnded, RecordType
  <2>2. CASE awaiting[o] # 0
    <3>1. openWakes[o] \in Seq(Numbers) /\ closing[o] \in Seq(0..MaxMessages)
      BY DEF RecordType
    <3> DEFINE rest == IF openWakes[o] = <<>> THEN openWakes[o] ELSE Tail(openWakes[o])
               ended == IF openWakes[o] = <<>> THEN Idle ELSE Head(openWakes[o])
    <3>2. rest \in Seq(Numbers) /\ ended \in 0..MaxMessages
      <4>1. CASE openWakes[o] = <<>>
        BY <3>1, <4>1 DEF Idle
      <4>2. CASE openWakes[o] # <<>>
        <5>1. Head(openWakes[o]) \in Numbers /\ Tail(openWakes[o]) \in Seq(Numbers)
          BY <3>1, <4>2, HeadTailProperties
        <5> QED
          BY <4>2, <5>1 DEF Numbers
      <4> QED
        BY <4>1, <4>2
    <3>3. Append(closing[o], ended) \in Seq(0..MaxMessages)
      BY <3>1, <3>2, AppendProperties
    <3>4. /\ openWakes' = [openWakes EXCEPT ![o] = rest]
          /\ closing' = [closing EXCEPT ![o] = Append(closing[o], ended)]
          /\ wakes' = wakes
          /\ mistaken' \subseteq mistaken \cup {o}
      BY <1>3, <2>2 DEF TurnEnded
    <3> HIDE DEF rest, ended
    <3> QED
      BY <3>2, <3>3, <3>4 DEF RecordType
  <2> QED
    BY <2>1, <2>2
<1>4. ASSUME NEW o \in Orchestrators, NEW i \in 1..Len(closing[o]), EndWake(o, i) PROVE RecordType'
  <2>1. closing[o] \in Seq(0..MaxMessages) /\ wakes \in Seq(Record)
    BY DEF RecordType
  <2>2. closing[o][i] \in 0..MaxMessages
    BY <2>1, ElementOfSeq
  <2>3. /\ SubSeq(closing[o], 1, i - 1) \in Seq(0..MaxMessages)
        /\ SubSeq(closing[o], i + 1, Len(closing[o])) \in Seq(0..MaxMessages)
    <3>1. Len(closing[o]) \in Nat
      BY <2>1, LenProperties
    <3>2. \A k \in 1..(i - 1) : closing[o][k] \in 0..MaxMessages
      BY <2>1, <3>1, ElementOfSeq
    <3>3. \A k \in (i + 1)..Len(closing[o]) : closing[o][k] \in 0..MaxMessages
      BY <2>1, <3>1, ElementOfSeq
    <3> QED
      BY <2>1, <3>1, <3>2, <3>3, SubSeqProperties
  <2>4. SubSeq(closing[o], 1, i - 1) \o SubSeq(closing[o], i + 1, Len(closing[o])) \in Seq(0..MaxMessages)
    BY <2>3, ConcatProperties
  <2>9. PICK end \in Ends(o, i) :
          wakes' = [j \in 1..Len(wakes) |->
            IF IsOldest(j, OpenRecords(o)) THEN [wakes[j] EXCEPT !.endedBy = {end}] ELSE wakes[j]]
    BY <1>4 DEF EndWake
  <2>10. end \in [usage : 0..Owner, acts : 0..MaxMessages]
    <3>1. shown[o] \in 0..Owner /\ Idle \in 0..Owner
      BY DEF BusType, Idle, Owner
    <3> QED
      BY <2>2, <3>1 DEF Ends
  <2>5. \A j \in 1..Len(wakes) : wakes[j] \in Record /\ [wakes[j] EXCEPT !.endedBy = {end}] \in Record
    <3> SUFFICES ASSUME NEW j \in 1..Len(wakes)
                 PROVE  wakes[j] \in Record /\ [wakes[j] EXCEPT !.endedBy = {end}] \in Record
      OBVIOUS
    <3>1. wakes[j] \in Record
      BY <2>1, ElementOfSeq
    <3> QED
      BY <2>10, <3>1 DEF Record
  <2>6. Len(wakes) \in Nat
    BY <2>1, LenProperties
  <2>7. wakes' \in [1..Len(wakes) -> Record]
    BY <2>5, <2>9
  <2>8. wakes' \in Seq(Record)
    BY <2>6, <2>7, SeqDef
  <2> QED
    BY <1>4, <2>4, <2>8 DEF EndWake, RecordType
<1>5. ASSUME Reload PROVE RecordType'
  BY <1>5, EmptySeq DEF Reload, RecordType
<1>6. CASE UNCHANGED vars
  BY <1>1, <1>6 DEF vars
<1>7. ASSUME NEW c \in Calls, Publishing(c) PROVE UNCHANGED records
  BY <1>7 DEF Publishing, Publish, NoOrchestrator, FindFails, Enqueue, Answered
<1>8. ASSUME NEW o \in Orchestrators, Delivering(o) PROVE RecordType'
  <2>1. ASSUME NEW g \in SUBSET Missions, NEW s \in SUBSET Events, Send(o, g, s) PROVE UNCHANGED records
    BY <2>1 DEF Send
  <2>2. ASSUME Arrive(o) \/ SendFails(o) \/ OwnerTurn(o) \/ TurnEnds(o) PROVE UNCHANGED records
    BY <2>2 DEF Arrive, SendFails, OwnerTurn, TurnEnds
  <2> QED
    BY <1>1, <1>2, <1>3, <1>4, <1>8, <2>1, <2>2 DEF Delivering
<1>9. ASSUME Tick \/ \E e \in Backups : BackupDue(e) PROVE UNCHANGED records
  BY <1>9 DEF Tick, BackupDue
<1> QED
  BY <1>1, <1>5, <1>6, <1>7, <1>8, <1>9 DEF Next

TypeInv == BusType /\ RecordType /\ Numbered

LEMMA TypeStep == TypeInv /\ [Next]_vars => TypeInv'
<1> SUFFICES ASSUME TypeInv, [Next]_vars PROVE BusType' /\ Numbered'
  BY RecordStep DEF TypeInv
<1> QED
  BY PublishType, DeliverType, RestType DEF TypeInv, Next

\* The bus, the queue, the turns and the wake records keep their types.
THEOREM TypeCorrect == Spec => []TypeOK
<1>1. Init => TypeInv
  BY BusTypeInit DEF TypeInv
<1>2. TypeInv /\ [Next]_vars => TypeInv'
  BY TypeStep
<1>3. TypeInv => TypeOK
  BY TypeParts DEF TypeInv
<1> QED
  BY <1>1, <1>2, <1>3, PTL DEF Spec

-----------------------------------------------------------------------------
(* Once per key                                                            *)

\* Events are held, or being queued by one publish.
Flights ==
  /\ held \cap Known = {}
  /\ \A c \in Calls : call[c].going \subseteq inFlight
  /\ \A c, d \in Calls : c # d => call[c].going \cap call[d].going = {}
  /\ \A c \in Calls : call[c].pc = "idle" => call[c].taken = {}

\* What became of an event agrees with where it is; what the queue accepted
\* is known to the bus.
Fated ==
  /\ \A e \in Events : fate[e] \in Accepted => e \in Known
  /\ \A c \in Calls : \A e \in call[c].going :
       /\ call[c].pc = "finding" => fate[e] \notin Accepted
       /\ call[c].pc = "queueing" => fate[e] # "none"
  /\ \A o \in Orchestrators : \A e \in queue[o] : fate[e] = "queued"
  /\ \A o \in Orchestrators : \A e \in sending[o].events : fate[e] = "sending"
  /\ \A o, p \in Orchestrators : o # p => /\ queue[o] \cap queue[p] = {}
                                         /\ sending[o].events \cap sending[p].events = {}

\* What a publish took from held is held, known, or dropped by the queue.
Remembered ==
  /\ \A c \in Calls : \A e \in call[c].taken : e \in held \cup Known \/ fate[e] = "dropped"
  /\ \A c, d \in Calls : \A e \in call[c].taken :
       (call[d].pc = "finding" /\ e \in call[d].going /\ e \notin call[d].taken) => fate[e] = "dropped"

KeyInv == BusType /\ Flights /\ Fated

OnceStep == \A e \in Events : \A o \in Orchestrators :
              e \in queue'[o] \ queue[o] => fate[e] \in {"none", "dropped"}

HeldStep == \A e \in Owed : \/ e \in (Owed \cup inFlight \cup published)'
                            \/ fate[e] = "dropped"
                            \/ reloads' # reloads

LEMMA KeyInit == Init => Flights /\ Fated /\ Remembered
  BY NoMessageType, NoCallType DEF Init, Flights, Fated, Remembered, Known, Accepted

LEMMA CallFields ==
  ASSUME BusType
  PROVE  \A c \in Calls : call[c].going \subseteq Events /\ call[c].taken \subseteq Events
  BY DEF BusType, CallRecord

LEMMA PublishKeeps ==
  ASSUME KeyInv, NEW c \in Calls, NEW raised \in SUBSET Events, Publish(c, raised)
  PROVE  /\ Flights' /\ Fated' /\ OnceStep
         /\ Remembered => Remembered' /\ HeldStep
<1> DEFINE fresh == (held \cup raised) \ Known
           waiting == {e \in fresh : MustWait(e)}
           going == fresh \ waiting
<1>1. /\ held' = waiting
      /\ inFlight' = inFlight \cup going
      /\ call' = IF going = {} THEN call ELSE [call EXCEPT ![c] = Begun(held, going)]
      /\ UNCHANGED <<published, queue, fate, sending, reloads>>
      /\ call[c].pc = "idle"
  BY DEF Publish, notices, bounds
<1>2. /\ going \subseteq Events /\ waiting \subseteq Events /\ going \cap waiting = {}
      /\ going \cap Known = {} /\ waiting \cap Known = {} /\ held \subseteq waiting \cup going
  BY DEF KeyInv, BusType, Flights
<1> HIDE DEF fresh, waiting, going
<1>3. Begun(held, going).pc = "finding" /\ Begun(held, going).going = going /\ Begun(held, going).taken = held
  BY DEF Begun
<1>4. /\ (call'[c] = call[c] /\ going = {}) \/ call'[c] = Begun(held, going)
      /\ \A d \in Calls : d # c => call'[d] = call[d]
  BY <1>1 DEF KeyInv, BusType
<1>5. Flights'
  BY <1>1, <1>2, <1>3, <1>4 DEF KeyInv, Flights, Known
<1>6. Fated'
  BY <1>1, <1>2, <1>3, <1>4 DEF KeyInv, Fated, Known
<1>7. OnceStep
  BY <1>1 DEF OnceStep
<1>8. ASSUME Remembered PROVE Remembered'
  BY <1>1, <1>2, <1>3, <1>4, <1>8 DEF KeyInv, Remembered, Flights, Known
<1>9. HeldStep
  <2>1. call[c].taken = {}
    BY <1>1 DEF KeyInv, Flights
  <2> QED
    BY <1>1, <1>2, <1>3, <1>4, <2>1 DEF HeldStep, Owed
<1> QED
  BY <1>5, <1>6, <1>7, <1>8, <1>9

\* What a publish that ends does to the calls.
LEMMA CallEnds ==
  ASSUME KeyInv, NEW c \in Calls, call' = [call EXCEPT ![c] = NoCall]
  PROVE  /\ call'[c] = NoCall
         /\ \A d \in Calls : d # c => call'[d] = call[d]
         /\ NoCall.pc = "idle" /\ NoCall.going = {} /\ NoCall.taken = {}
  BY NoCallType DEF KeyInv, BusType

LEMMA EndsFated ==
  ASSUME KeyInv, NEW c \in Calls, call' = [call EXCEPT ![c] = NoCall],
         UNCHANGED <<fate, queue, sending>>,
         \A e \in Events : fate[e] \in Accepted => e \in Known'
  PROVE  Fated'
<1>1. \A d \in Calls : \A e \in call'[d].going :
        /\ call'[d].pc = "finding" => fate'[e] \notin Accepted
        /\ call'[d].pc = "queueing" => fate'[e] # "none"
  <2> SUFFICES ASSUME NEW d \in Calls, NEW e \in call'[d].going
               PROVE  /\ call'[d].pc = "finding" => fate'[e] \notin Accepted
                      /\ call'[d].pc = "queueing" => fate'[e] # "none"
    OBVIOUS
  <2>1. d # c /\ call'[d] = call[d]
    BY CallEnds
  <2> QED
    BY <2>1 DEF KeyInv, Fated
<1> QED
  BY <1>1 DEF KeyInv, Fated

LEMMA EndsFlights ==
  ASSUME KeyInv, NEW c \in Calls, call' = [call EXCEPT ![c] = NoCall],
         inFlight' = inFlight \ call[c].going, held' \cap Known' = {}
  PROVE  Flights'
<1>1. \A d \in Calls : call'[d].going \subseteq inFlight'
  <2> SUFFICES ASSUME NEW d \in Calls PROVE call'[d].going \subseteq inFlight'
    OBVIOUS
  <2>1. CASE d = c
    BY <2>1, CallEnds
  <2>2. CASE d # c
    <3>1. call'[d] = call[d]
      BY <2>2, CallEnds
    <3>2. call[d].going \subseteq inFlight /\ call[d].going \cap call[c].going = {}
      BY <2>2 DEF KeyInv, Flights
    <3> QED
      BY <3>1, <3>2
  <2> QED
    BY <2>1, <2>2
<1>2. \A a, d \in Calls : a # d => call'[a].going \cap call'[d].going = {}
  <2> SUFFICES ASSUME NEW a \in Calls, NEW d \in Calls, a # d
               PROVE  call'[a].going \cap call'[d].going = {}
    OBVIOUS
  <2>1. CASE a = c \/ d = c
    BY <2>1, CallEnds
  <2>2. CASE a # c /\ d # c
    <3>1. call'[a] = call[a] /\ call'[d] = call[d]
      BY <2>2, CallEnds
    <3> QED
      BY <3>1 DEF KeyInv, Flights
  <2> QED
    BY <2>1, <2>2
<1>3. \A d \in Calls : call'[d].pc = "idle" => call'[d].taken = {}
  BY CallEnds DEF KeyInv, Flights
<1> QED
  BY <1>1, <1>2, <1>3 DEF Flights

LEMMA NoOrchestratorKeeps ==
  ASSUME KeyInv, NEW c \in Calls, NoOrchestrator(c)
  PROVE  Flights' /\ Fated' /\ OnceStep
<1>1. /\ inFlight' = inFlight \ call[c].going
      /\ call' = [call EXCEPT ![c] = NoCall]
      /\ call[c].pc = "finding"
      /\ UNCHANGED <<held, published, queue, fate, sending>>
  BY DEF NoOrchestrator, notices
<1>2. Flights'
  <2>1. held' \cap Known' = {}
    BY <1>1 DEF KeyInv, Flights, Known
  <2> QED
    BY <1>1, <2>1, EndsFlights
<1>3. Fated'
  <2>1. \A e \in Events : fate[e] \in Accepted => e \in Known'
    BY <1>1 DEF KeyInv, Fated, Known
  <2> QED
    BY <1>1, <2>1, EndsFated
<1> QED
  BY <1>1, <1>2, <1>3 DEF OnceStep

LEMMA FindFailsKeeps ==
  ASSUME KeyInv, NEW c \in Calls, FindFails(c)
  PROVE  /\ Flights' /\ Fated' /\ OnceStep
         /\ Remembered => Remembered' /\ HeldStep
<1>1. /\ inFlight' = inFlight \ call[c].going
      /\ held' = held \cup (call[c].taken \ (published \cup inFlight'))
      /\ call' = [call EXCEPT ![c] = NoCall]
      /\ call[c].pc = "finding"
      /\ UNCHANGED <<published, queue, fate, sending>>
  BY DEF FindFails, KeepHeld, notices
<1>2. Flights'
  <2>1. held' \cap Known' = {}
    BY <1>1 DEF KeyInv, Flights, Known
  <2> QED
    BY <1>1, <2>1, EndsFlights
<1>3. Fated'
  <2>1. \A e \in Events : fate[e] \in Accepted => e \in Known'
    BY <1>1 DEF KeyInv, Fated, Known
  <2> QED
    BY <1>1, <2>1, EndsFated
<1>4. ASSUME Remembered PROVE Remembered' /\ HeldStep
  <2>1. Remembered'
    <3>1. \A d \in Calls : \A e \in call'[d].taken :
            e \in (held \cup Known)' \/ fate'[e] = "dropped"
      <4> SUFFICES ASSUME NEW d \in Calls, d # c, NEW e \in call[d].taken
                   PROVE  e \in (held \cup Known)' \/ fate'[e] = "dropped"
        BY <1>1, CallEnds
      <4>1. e \in held \cup Known \/ fate[e] = "dropped"
        BY <1>4 DEF Remembered
      <4>2. CASE e \in call[c].going /\ e \notin call[c].taken
        BY <1>1, <1>4, <4>2 DEF Remembered
      <4>3. CASE e \in call[c].taken
        BY <1>1, <4>3 DEF Known
      <4>4. CASE e \notin call[c].going
        BY <1>1, <4>1, <4>4 DEF Known
      <4> QED
        BY <4>2, <4>3, <4>4
    <3>2. \A a, d \in Calls : \A e \in call'[a].taken :
            (call'[d].pc = "finding" /\ e \in call'[d].going /\ e \notin call'[d].taken) => fate'[e] = "dropped"
      <4> SUFFICES ASSUME NEW a \in Calls, NEW d \in Calls, NEW e \in call'[a].taken,
                          call'[d].pc = "finding", e \in call'[d].going, e \notin call'[d].taken
                   PROVE  fate'[e] = "dropped"
        OBVIOUS
      <4>1. call'[a] = call[a] /\ call'[d] = call[d]
        BY <1>1, CallEnds
      <4> QED
        BY <1>1, <1>4, <4>1 DEF Remembered
    <3> QED
      BY <3>1, <3>2 DEF Remembered
  <2>2. \A e \in held : e \in held'
    BY <1>1
  <2>3. \A e \in call[c].taken : e \in (held \cup inFlight \cup published)'
    BY <1>1
  <2>4. \A d \in Calls : d # c => call'[d].taken = call[d].taken
    BY <1>1, CallEnds
  <2> QED
    BY <2>1, <2>2, <2>3, <2>4 DEF HeldStep, Owed
<1> QED
  BY <1>1, <1>2, <1>3, <1>4 DEF OnceStep

LEMMA EnqueueKeeps ==
  ASSUME KeyInv, NEW c \in Calls, NEW o \in Orchestrators, Enqueue(c, o)
  PROVE  /\ Flights' /\ Fated' /\ OnceStep
         /\ Remembered => Remembered' /\ HeldStep
<1>1. /\ queue' = [queue EXCEPT ![o] = @ \cup call[c].going]
      /\ fate' = [e \in Events |-> IF e \in call[c].going THEN "queued" ELSE fate[e]]
      /\ call[c].pc = "finding"
      /\ UNCHANGED <<held, inFlight, published, sending>>
  BY DEF Enqueue
<1>2. /\ call'[c].pc = "queueing" /\ call'[c].going = call[c].going /\ call'[c].taken = call[c].taken
      /\ \A d \in Calls : d # c => call'[d] = call[d]
  BY DEF Enqueue, KeyInv, BusType, CallRecord
<1>3. Flights'
  BY <1>1, <1>2 DEF KeyInv, Flights, Known
<1>4. /\ queue'[o] = queue[o] \cup call[c].going
      /\ \A p \in Orchestrators : p # o => queue'[p] = queue[p]
  BY <1>1 DEF KeyInv, BusType
<1>5. \A e \in Events :
        \/ /\ e \in call[c].going /\ fate'[e] = "queued"
           /\ fate[e] \in {"none", "dropped"} /\ e \in Known
        \/ e \notin call[c].going /\ fate'[e] = fate[e]
  <2> SUFFICES ASSUME NEW e \in Events
               PROVE  \/ /\ e \in call[c].going /\ fate'[e] = "queued"
                         /\ fate[e] \in {"none", "dropped"} /\ e \in Known
                      \/ e \notin call[c].going /\ fate'[e] = fate[e]
    OBVIOUS
  <2>1. CASE e \notin call[c].going
    <3>1. fate'[e] = fate[e]
      BY <1>1, <2>1
    <3> QED
      BY <2>1, <3>1
  <2>2. CASE e \in call[c].going
    <3>1. fate[e] \in Fates /\ fate[e] \notin Accepted
      BY <1>1, <2>2 DEF KeyInv, Fated, BusType
    <3>2. fate[e] \in {"none", "dropped"}
      BY <3>1 DEF Fates, Accepted
    <3>3. e \in Known
      BY <2>2 DEF KeyInv, Flights, Known
    <3>4. fate'[e] = "queued"
      BY <1>1, <2>2
    <3> QED
      BY <2>2, <3>2, <3>3, <3>4
  <2> QED
    BY <2>1, <2>2
<1>6. Fated'
  <2>1. \A e \in Events : fate'[e] \in Accepted => e \in Known'
    BY <1>1, <1>5 DEF KeyInv, Fated, Known
  <2>2. \A d \in Calls : \A e \in call'[d].going :
          /\ call'[d].pc = "finding" => fate'[e] \notin Accepted
          /\ call'[d].pc = "queueing" => fate'[e] # "none"
    BY <1>2, <1>5, CallFields DEF KeyInv, Fated, Flights
  <2>3. \A p \in Orchestrators : \A e \in queue'[p] : fate'[e] = "queued"
    BY <1>4, <1>5, CallFields DEF KeyInv, Fated, BusType
  <2>4. \A p \in Orchestrators : \A e \in sending'[p].events : fate'[e] = "sending"
    BY <1>1, <1>5 DEF KeyInv, Fated, BusType, MessageRecord
  <2>5. \A p, q \in Orchestrators : p # q => queue'[p] \cap queue'[q] = {}
    BY <1>4, <1>5, CallFields DEF KeyInv, Fated, BusType
  <2> QED
    BY <1>1, <2>1, <2>2, <2>3, <2>4, <2>5 DEF KeyInv, Fated
<1>7. OnceStep
  BY <1>4, <1>5 DEF OnceStep
<1>8. ASSUME Remembered PROVE Remembered'
  BY <1>1, <1>2, <1>5, <1>8, CallFields DEF KeyInv, Flights, Remembered, Known
<1>9. HeldStep
  BY <1>1, <1>2 DEF HeldStep, Owed
<1> QED
  BY <1>3, <1>6, <1>7, <1>8, <1>9

LEMMA AnsweredKeeps ==
  ASSUME KeyInv, NEW c \in Calls, Answered(c)
  PROVE  /\ Flights' /\ Fated' /\ OnceStep
         /\ Remembered => Remembered' /\ HeldStep
<1> DEFINE accepted == {e \in call[c].going : fate[e] \in Accepted}
<1>1. /\ inFlight' = inFlight \ call[c].going
      /\ published' = published \cup accepted
      /\ call' = [call EXCEPT ![c] = NoCall]
      /\ call[c].pc = "queueing"
      /\ UNCHANGED <<held, queue, fate, sending>>
  BY DEF Answered, notices
<1>2. Flights'
  <2>1. held' \cap Known' = {}
    BY <1>1 DEF KeyInv, Flights, Known
  <2> QED
    BY <1>1, <2>1, EndsFlights
<1>3. Fated'
  <2>1. \A e \in Events : fate[e] \in Accepted => e \in Known'
    BY <1>1 DEF KeyInv, Fated, Known
  <2> QED
    BY <1>1, <2>1, EndsFated
<1>4. \A e \in call[c].going : e \in accepted \/ fate[e] = "dropped"
  BY <1>1, CallFields DEF KeyInv, Fated, BusType, Fates, Accepted
<1>5. ASSUME Remembered PROVE Remembered' /\ HeldStep
  <2>1. Remembered'
    <3>1. \A d \in Calls : \A e \in call'[d].taken :
            e \in (held \cup Known)' \/ fate'[e] = "dropped"
      <4> SUFFICES ASSUME NEW d \in Calls, d # c, NEW e \in call[d].taken
                   PROVE  e \in (held \cup Known)' \/ fate'[e] = "dropped"
        BY <1>1, CallEnds
      <4>1. e \in held \cup Known \/ fate[e] = "dropped"
        BY <1>5 DEF Remembered
      <4> QED
        BY <1>1, <1>4, <4>1 DEF Known
    <3>2. \A a, d \in Calls : \A e \in call'[a].taken :
            (call'[d].pc = "finding" /\ e \in call'[d].going /\ e \notin call'[d].taken) => fate'[e] = "dropped"
      <4> SUFFICES ASSUME NEW a \in Calls, NEW d \in Calls, NEW e \in call'[a].taken,
                          call'[d].pc = "finding", e \in call'[d].going, e \notin call'[d].taken
                   PROVE  fate'[e] = "dropped"
        OBVIOUS
      <4>1. call'[a] = call[a] /\ call'[d] = call[d]
        BY <1>1, CallEnds
      <4> QED
        BY <1>1, <1>5, <4>1 DEF Remembered
    <3> QED
      BY <3>1, <3>2 DEF Remembered
  <2>2. \A e \in call[c].taken : \/ e \in (held \cup inFlight \cup published)'
                                \/ fate[e] = "dropped"
    BY <1>1, <1>4, <1>5 DEF Remembered, Known
  <2>3. \A d \in Calls : d # c => call'[d].taken = call[d].taken
    BY <1>1, CallEnds
  <2> QED
    BY <1>1, <2>1, <2>2, <2>3 DEF HeldStep, Owed
<1> QED
  BY <1>1, <1>2, <1>3, <1>5 DEF OnceStep

\* A send takes events from the queue only, and settles or sends just those.
LEMMA SendKeeps ==
  ASSUME KeyInv, NEW o \in Orchestrators, NEW group \in SUBSET Missions,
         NEW settled \in SUBSET Events, Send(o, group, settled)
  PROVE  Fated' /\ \A p \in Orchestrators : queue'[p] \subseteq queue[p]
<1> DEFINE items == {e \in queue[o] : Subject[e] = group}
           message == Message(messages + 1, items \ settled)
<1>1. /\ queue' = [queue EXCEPT ![o] = @ \ items]
      /\ fate' = [e \in Events |-> IF e \in settled THEN "dropped"
                                   ELSE IF e \in items THEN "sending" ELSE fate[e]]
      /\ \/ sending' = sending /\ settled = items
         \/ sending' = [sending EXCEPT ![o] = message]
      /\ sending[o] = NoMessage
      /\ UNCHANGED <<call, inFlight, published>>
      /\ items \subseteq queue[o] /\ settled \subseteq items
  BY DEF Send, bus
<1>2. message.events = items \ settled
  BY DEF Message
<1> HIDE DEF items, message
<1>3. /\ queue'[o] = queue[o] \ items
      /\ \A p \in Orchestrators : p # o => queue'[p] = queue[p]
  BY <1>1 DEF KeyInv, BusType
<1>4. /\ \A p \in Orchestrators : queue[p] \subseteq Events
      /\ \A p \in Orchestrators : sending[p].events \subseteq Events
  BY DEF KeyInv, BusType, MessageRecord
<1>5. NoMessage.events = {}
  BY DEF NoMessage, Message
<1>6. /\ \A p \in Orchestrators : p # o => sending'[p] = sending[p]
      /\ sending'[o].events \subseteq items \ settled
  <2>1. CASE sending' = sending
    BY <1>1, <1>5, <2>1
  <2>2. CASE sending' = [sending EXCEPT ![o] = message]
    BY <1>2, <2>2 DEF KeyInv, BusType
  <2> QED
    BY <1>1, <2>1, <2>2
<1>7. /\ \A e \in items : fate[e] = "queued"
      /\ \A e \in items \ settled : fate'[e] = "sending"
      /\ \A e \in settled : fate'[e] = "dropped"
      /\ \A e \in Events \ items : fate'[e] = fate[e]
  BY <1>1, <1>4 DEF KeyInv, Fated
<1>8. \A e \in Events : fate'[e] \in Accepted => e \in Known'
  BY <1>1, <1>7 DEF KeyInv, Fated, Known, Accepted
<1>9. \A d \in Calls : \A e \in call'[d].going :
        /\ call'[d].pc = "finding" => fate'[e] \notin Accepted
        /\ call'[d].pc = "queueing" => fate'[e] # "none"
  <2> SUFFICES ASSUME NEW d \in Calls, NEW e \in call[d].going
               PROVE  /\ call[d].pc = "finding" => fate'[e] \notin Accepted
                      /\ call[d].pc = "queueing" => fate'[e] # "none"
    BY <1>1
  <2>1. e \in Events
    BY CallFields DEF KeyInv
  <2>2. /\ call[d].pc = "finding" => fate[e] \notin Accepted
        /\ call[d].pc = "queueing" => fate[e] # "none"
    BY DEF KeyInv, Fated
  <2> QED
    BY <1>7, <2>1, <2>2 DEF Accepted
<1>10. \A p \in Orchestrators : \A e \in queue'[p] : fate'[e] = "queued"
  <2> SUFFICES ASSUME NEW p \in Orchestrators, NEW e \in queue'[p] PROVE fate'[e] = "queued"
    OBVIOUS
  <2>1. e \in queue[p] /\ e \notin items
    BY <1>1, <1>3 DEF KeyInv, Fated
  <2> QED
    BY <1>4, <1>7, <2>1 DEF KeyInv, Fated
<1>11. \A p \in Orchestrators : \A e \in sending'[p].events : fate'[e] = "sending"
  BY <1>1, <1>4, <1>6, <1>7 DEF KeyInv, Fated
<1>12. \A p, q \in Orchestrators : p # q => /\ queue'[p] \cap queue'[q] = {}
                                           /\ sending'[p].events \cap sending'[q].events = {}
  <2>1. \A p \in Orchestrators : p # o => sending'[p].events \cap items = {}
    BY <1>6, <1>7 DEF KeyInv, Fated
  <2> QED
    BY <1>3, <1>6, <2>1 DEF KeyInv, Fated
<1> QED
  BY <1>3, <1>8, <1>9, <1>10, <1>11, <1>12 DEF Fated

\* A reply of a send, or its failure, settles the fate of what it carried.
LEMMA ReplyKeeps ==
  ASSUME KeyInv, NEW o \in Orchestrators, NEW outcome \in {"sent", "dropped"},
         fate' = [e \in Events |-> IF e \in sending[o].events THEN outcome ELSE fate[e]],
         sending' = [sending EXCEPT ![o] = NoMessage],
         UNCHANGED <<queue, call, inFlight, published>>
  PROVE  Fated'
<1>1. NoMessage.events = {}
  BY DEF NoMessage, Message
<1>2. sending'[o].events = {} /\ \A p \in Orchestrators : p # o => sending'[p] = sending[p]
  BY <1>1 DEF KeyInv, BusType
<1>3. /\ \A p \in Orchestrators : queue[p] \subseteq Events
      /\ \A p \in Orchestrators : sending[p].events \subseteq Events
  BY DEF KeyInv, BusType, MessageRecord
<1>4. /\ \A e \in sending[o].events : fate[e] = "sending" /\ fate'[e] = outcome
      /\ \A e \in Events \ sending[o].events : fate'[e] = fate[e]
  BY <1>3 DEF KeyInv, Fated
<1>5. \A e \in Events : fate'[e] \in Accepted => e \in Known'
  BY <1>4 DEF KeyInv, Fated, Known, Accepted
<1>6. \A d \in Calls : \A e \in call'[d].going :
        /\ call'[d].pc = "finding" => fate'[e] \notin Accepted
        /\ call'[d].pc = "queueing" => fate'[e] # "none"
  <2> SUFFICES ASSUME NEW d \in Calls, NEW e \in call[d].going
               PROVE  /\ call[d].pc = "finding" => fate'[e] \notin Accepted
                      /\ call[d].pc = "queueing" => fate'[e] # "none"
    OBVIOUS
  <2>1. e \in Events
    BY CallFields DEF KeyInv
  <2>2. /\ call[d].pc = "finding" => fate[e] \notin Accepted
        /\ call[d].pc = "queueing" => fate[e] # "none"
    BY DEF KeyInv, Fated
  <2> QED
    BY <1>4, <2>1, <2>2 DEF Accepted
<1>7. \A p \in Orchestrators : \A e \in queue'[p] : fate'[e] = "queued"
  BY <1>3, <1>4 DEF KeyInv, Fated
<1>8. \A p \in Orchestrators : \A e \in sending'[p].events : fate'[e] = "sending"
  BY <1>2, <1>3, <1>4 DEF KeyInv, Fated
<1>9. \A p, q \in Orchestrators : p # q => /\ queue'[p] \cap queue'[q] = {}
                                          /\ sending'[p].events \cap sending'[q].events = {}
  BY <1>2 DEF KeyInv, Fated
<1> QED
  BY <1>5, <1>6, <1>7, <1>8, <1>9 DEF Fated

\* What the delivery of a batch leaves alone.
LEMMA DeliverFrame ==
  ASSUME NEW o \in Orchestrators, Delivering(o)
  PROVE  UNCHANGED <<bus, reloads>>
  BY DEF Delivering, Send, Arrive, Sent, SendFails, OwnerTurn, TurnEnds, TurnEnded, EndWake, bounds

LEMMA DeliverFated ==
  ASSUME KeyInv, NEW o \in Orchestrators, Delivering(o)
  PROVE  Fated' /\ \A p \in Orchestrators : queue'[p] \subseteq queue[p]
<1>1. ASSUME NEW group \in SUBSET Missions, NEW settled \in SUBSET Events, Send(o, group, settled)
      PROVE  Fated' /\ \A p \in Orchestrators : queue'[p] \subseteq queue[p]
  BY <1>1, SendKeeps
<1>2. ASSUME Arrive(o) PROVE Fated' /\ queue' = queue
  <2>1. \A p \in Orchestrators : sending'[p].events = sending[p].events
    BY <1>2 DEF Arrive, KeyInv, BusType, MessageRecord
  <2> QED
    BY <1>2, <2>1 DEF Arrive, bus, KeyInv, Fated, Known
<1>3. ASSUME Sent(o) PROVE Fated' /\ queue' = queue
  BY <1>3, ReplyKeeps DEF Sent, bus
<1>4. ASSUME SendFails(o) PROVE Fated' /\ queue' = queue
  BY <1>4, ReplyKeeps DEF SendFails, bus
<1>5. ASSUME OwnerTurn(o) \/ TurnEnds(o) PROVE Fated' /\ queue' = queue
  BY <1>5 DEF OwnerTurn, TurnEnds, bus, notices, KeyInv, Fated, Known
<1>6. ASSUME NEW t \in ending[o], TurnEnded(o, t) PROVE Fated' /\ queue' = queue
  BY <1>6 DEF TurnEnded, bus, KeyInv, Fated, Known
<1>7. ASSUME NEW i \in 1..Len(closing[o]), EndWake(o, i) PROVE Fated' /\ queue' = queue
  BY <1>7 DEF EndWake, bus, notices, KeyInv, Fated, Known
<1> QED
  BY <1>1, <1>2, <1>3, <1>4, <1>5, <1>6, <1>7 DEF Delivering

LEMMA DeliverDropped ==
  ASSUME KeyInv, NEW o \in Orchestrators, Delivering(o)
  PROVE  \A e \in Events : fate[e] = "dropped" => fate'[e] = "dropped"
<1>1. \A p \in Orchestrators : \A e \in sending[p].events : fate[e] = "sending"
  BY DEF KeyInv, Fated
<1>2. \A p \in Orchestrators : \A e \in queue[p] : fate[e] = "queued"
  BY DEF KeyInv, Fated
<1>3. ASSUME NEW group \in SUBSET Missions, NEW settled \in SUBSET Events, Send(o, group, settled)
      PROVE  \A e \in Events : fate[e] = "dropped" => fate'[e] = "dropped"
  BY <1>2, <1>3 DEF Send
<1>4. ASSUME Sent(o) \/ SendFails(o)
      PROVE  \A e \in Events : fate[e] = "dropped" => fate'[e] = "dropped"
  BY <1>1, <1>4 DEF Sent, SendFails
<1>5. ASSUME Arrive(o) \/ OwnerTurn(o) \/ TurnEnds(o) PROVE fate' = fate
  BY <1>5 DEF Arrive, OwnerTurn, TurnEnds, notices
<1>6. ASSUME NEW t \in ending[o], TurnEnded(o, t) PROVE fate' = fate
  BY <1>6 DEF TurnEnded
<1>7. ASSUME NEW i \in 1..Len(closing[o]), EndWake(o, i) PROVE fate' = fate
  BY <1>7 DEF EndWake, notices
<1> QED
  BY <1>3, <1>4, <1>5, <1>6, <1>7 DEF Delivering

LEMMA DeliverKeeps ==
  ASSUME KeyInv, NEW o \in Orchestrators, Delivering(o)
  PROVE  /\ Flights' /\ Fated' /\ OnceStep
         /\ Remembered => Remembered' /\ HeldStep
<1>1. UNCHANGED <<call, held, inFlight, published, reloads>>
  BY DeliverFrame DEF bus
<1>2. Flights'
  BY <1>1 DEF KeyInv, Flights, Known
<1>3. Fated' /\ OnceStep
  BY DeliverFated DEF OnceStep
<1>4. ASSUME Remembered PROVE Remembered'
  BY <1>1, <1>4, DeliverDropped, CallFields DEF KeyInv, Remembered, Known
<1>5. HeldStep
  BY <1>1 DEF HeldStep, Owed
<1> QED
  BY <1>2, <1>3, <1>4, <1>5

LEMMA RestKeeps ==
  ASSUME KeyInv, [Tick \/ (\E e \in Backups : BackupDue(e)) \/ Reload]_vars
  PROVE  /\ Flights' /\ Fated' /\ OnceStep
         /\ Remembered => Remembered' /\ HeldStep
<1>1. ASSUME Tick
      PROVE  Flights' /\ Fated' /\ OnceStep /\ (Remembered => Remembered' /\ HeldStep)
  <2>1. \A c \in Calls : /\ call'[c].pc = call[c].pc
                         /\ call'[c].going = call[c].going
                         /\ call'[c].taken = call[c].taken
    BY <1>1 DEF Tick, KeyInv, BusType, CallRecord
  <2>2. UNCHANGED <<held, inFlight, published, queue, fate, sending>>
    BY <1>1 DEF Tick, notices
  <2> QED
    BY <2>1, <2>2 DEF KeyInv, Flights, Fated, Known, OnceStep, HeldStep, Owed, Remembered
<1>2. ASSUME (\E e \in Backups : BackupDue(e)) \/ UNCHANGED vars
      PROVE  Flights' /\ Fated' /\ OnceStep /\ (Remembered => Remembered' /\ HeldStep)
  <2>1. UNCHANGED <<call, held, inFlight, published, queue, fate, sending>>
    BY <1>2 DEF BackupDue, bus, notices, vars
  <2> QED
    BY <2>1 DEF KeyInv, Flights, Fated, Known, OnceStep, HeldStep, Owed, Remembered
<1>3. ASSUME Reload
      PROVE  Flights' /\ Fated' /\ OnceStep /\ (Remembered => Remembered' /\ HeldStep)
  <2>1. reloads' # reloads
    BY <1>3 DEF Reload, KeyInv, BusType
  <2> QED
    BY <1>3, <2>1, NoCallType, NoMessageType
    DEF Reload, Flights, Fated, Known, Accepted, OnceStep, HeldStep, Remembered
<1> QED
  BY <1>1, <1>2, <1>3

LEMMA KeyStep ==
  ASSUME KeyInv, [Next]_vars
  PROVE  /\ Flights' /\ Fated' /\ OnceStep
         /\ Remembered /\ ~MayBeAbsent => Remembered' /\ HeldStep
<1>1. ASSUME NEW c \in Calls, Publishing(c)
      PROVE  /\ Flights' /\ Fated' /\ OnceStep
             /\ Remembered /\ ~MayBeAbsent => Remembered' /\ HeldStep
  <2>1. CASE NoOrchestrator(c)
    BY <2>1, NoOrchestratorKeeps DEF NoOrchestrator
  <2> QED
    BY <1>1, <2>1, PublishKeeps, FindFailsKeeps, EnqueueKeeps, AnsweredKeeps DEF Publishing
<1>2. ASSUME NEW o \in Orchestrators, Delivering(o)
      PROVE  /\ Flights' /\ Fated' /\ OnceStep
             /\ Remembered => Remembered' /\ HeldStep
  BY <1>2, DeliverKeeps
<1> QED
  BY <1>1, <1>2, RestKeeps DEF Next

\* However publishes overlap, an event that is queued, on its way or sent in
\* this run of the plugin is not queued again.
THEOREM KeysOnce == Spec => OncePerKey
<1> DEFINE Inv == TypeInv /\ Flights /\ Fated
<1>1. Init => Inv
  BY BusTypeInit, KeyInit DEF TypeInv
<1>2. Inv /\ [Next]_vars => Inv'
  BY TypeStep, KeyStep DEF TypeInv, KeyInv
<1>3. Inv /\ [Next]_vars => [OnceStep]_vars
  BY KeyStep DEF TypeInv, KeyInv
<1>4. [][OnceStep]_vars => OncePerKey
  BY PTL DEF OncePerKey, OnceStep
<1> HIDE DEF Inv
<1> QED
  BY <1>1, <1>2, <1>3, <1>4, PTL DEF Spec

\* While an Orchestrator is there, no event a window held is forgotten but by
\* a drop of the queue or by a reload.
THEOREM HeldEvents == ~MayBeAbsent => (Spec => HeldKept)
<1> SUFFICES ASSUME ~MayBeAbsent PROVE Spec => HeldKept
  OBVIOUS
<1> DEFINE Inv == TypeInv /\ Flights /\ Fated /\ Remembered
<1>1. Init => Inv
  BY BusTypeInit, KeyInit DEF TypeInv
<1>2. Inv /\ [Next]_vars => Inv'
  BY TypeStep, KeyStep DEF TypeInv, KeyInv
<1>3. Inv /\ [Next]_vars => [HeldStep]_vars
  BY KeyStep DEF TypeInv, KeyInv
<1>4. [][HeldStep]_vars => HeldKept
  BY PTL DEF HeldKept, HeldStep
<1> HIDE DEF Inv
<1> QED
  BY <1>1, <1>2, <1>3, <1>4, PTL DEF Spec
-----------------------------------------------------------------------------
(* One wake per window                                                     *)

\* While a publish is on, every window of what it sends stays past, or another
\* publish woke that mission meanwhile.
WindowsPast ==
  \A c \in Calls : call[c].pc # "idle" =>
    \A e \in call[c].going : \A m \in MissionsOf(e) : since[m] = Window \/ m \in met[c]

WindowStep ==
  \A e \in published' \ published : \A m \in MissionsOf(e) :
    \/ since[m] = Window
    \/ \E c \in Calls : e \in call[c].going /\ m \in met[c]

LEMMA MissionsKnown == \A e \in Events : MissionsOf(e) \subseteq Missions
  BY EventBusAssumption DEF MissionsOf

\* A publish that ends without an answer leaves the others as they are.
LEMMA EndsWindows ==
  ASSUME BusType, WindowsPast, NEW c \in Calls,
         call' = [call EXCEPT ![c] = NoCall], since' = since,
         \A d \in Calls : d # c => met'[d] = met[d]
  PROVE  WindowsPast'
<1> SUFFICES ASSUME NEW d \in Calls, call'[d].pc # "idle",
                    NEW e \in call'[d].going, NEW m \in MissionsOf(e)
             PROVE  since'[m] = Window \/ m \in met'[d]
  BY DEF WindowsPast, MissionsOf
<1>1. d # c /\ call'[d] = call[d]
  BY NoCallType DEF BusType
<1> QED
  BY <1>1 DEF WindowsPast

LEMMA WindowPublish ==
  ASSUME BusType, WindowsPast, NEW c \in Calls, Publishing(c)
  PROVE  WindowsPast' /\ WindowStep
<1> USE EventBusAssumption
<1>1. ASSUME NEW raised \in SUBSET Events, Publish(c, raised) PROVE WindowsPast' /\ WindowStep
  <2> DEFINE fresh == (held \cup raised) \ Known
             waiting == {e \in fresh : MustWait(e)}
             going == fresh \ waiting
  <2>1. \A e \in going : \A m \in MissionsOf(e) : since[m] = Window
    <3> SUFFICES ASSUME NEW e \in going, NEW m \in MissionsOf(e) PROVE since[m] = Window
      OBVIOUS
    <3>1. e \in Events /\ ~MustWait(e)
      BY DEF BusType
    <3>2. m \in Missions
      BY <3>1, MissionsKnown
    <3> QED
      BY <3>1, <3>2 DEF MustWait, BusType
  <2>2. /\ call[c].pc = "idle"
        /\ call' = IF going = {} THEN call ELSE [call EXCEPT ![c] = Begun(held, going)]
        /\ met' = [met EXCEPT ![c] = {}]
        /\ UNCHANGED <<since, published>>
    BY <1>1 DEF Publish
  <2>3. Begun(held, going).going = going
    BY DEF Begun
  <2> HIDE DEF fresh, waiting, going
  <2>4. \/ call'[c].pc = "idle"
        \/ call'[c].going = going
    BY <2>2, <2>3 DEF BusType
  <2>5. \A d \in Calls : d # c => call'[d] = call[d] /\ met'[d] = met[d]
    BY <2>2 DEF BusType
  <2>6. WindowsPast'
    <3> SUFFICES ASSUME NEW d \in Calls, call'[d].pc # "idle",
                        NEW e \in call'[d].going, NEW m \in MissionsOf(e)
                 PROVE  since'[m] = Window \/ m \in met'[d]
      BY DEF WindowsPast, MissionsOf
    <3>1. CASE d = c
      BY <2>1, <2>2, <2>4, <3>1
    <3>2. CASE d # c
      BY <2>2, <2>5, <3>2 DEF WindowsPast
    <3> QED
      BY <3>1, <3>2
  <2> QED
    BY <2>2, <2>6 DEF WindowStep
<1>2. ASSUME NoOrchestrator(c) \/ FindFails(c) PROVE WindowsPast' /\ WindowStep
  <2>1. /\ call' = [call EXCEPT ![c] = NoCall]
        /\ met' = [met EXCEPT ![c] = {}]
        /\ UNCHANGED <<since, published>>
    BY <1>2 DEF NoOrchestrator, FindFails
  <2>2. \A d \in Calls : d # c => met'[d] = met[d]
    BY <2>1 DEF BusType
  <2> QED
    BY <2>1, <2>2, EndsWindows DEF WindowStep
<1>3. ASSUME NEW o \in Orchestrators, Enqueue(c, o) PROVE WindowsPast' /\ WindowStep
  <2>1. /\ call[c].pc = "finding"
        /\ call' = [call EXCEPT ![c].pc = "queueing", ![c].target = {o}]
        /\ UNCHANGED <<since, published, met>>
    BY <1>3 DEF Enqueue
  <2>2. \A d \in Calls : call'[d].going = call[d].going
    BY <2>1 DEF BusType, CallRecord
  <2>3. \A d \in Calls : d # c => call'[d] = call[d]
    BY <2>1 DEF BusType
  <2> QED
    BY <2>1, <2>2, <2>3 DEF WindowsPast, WindowStep, MissionsOf
<1>4. ASSUME Answered(c) PROVE WindowsPast' /\ WindowStep
  <2> DEFINE accepted == {e \in call[c].going : fate[e] \in Accepted}
             woken == {m \in Missions : \E e \in accepted : m \in MissionsOf(e)}
  <2>1. /\ call[c].pc = "queueing" /\ call' = [call EXCEPT ![c] = NoCall]
        /\ published' = published \cup accepted
        /\ since' = [m \in Missions |-> IF m \in woken THEN call[c].age ELSE since[m]]
        /\ met' = [d \in Calls |-> IF d = c \/ call[d].pc = "idle" THEN {} ELSE met[d] \cup woken]
    BY <1>4 DEF Answered
  <2>2. accepted \subseteq call[c].going
    OBVIOUS
  <2> HIDE DEF accepted, woken
  <2>3. WindowsPast'
    <3> SUFFICES ASSUME NEW d \in Calls, call'[d].pc # "idle",
                        NEW e \in call'[d].going, NEW m \in MissionsOf(e)
                 PROVE  since'[m] = Window \/ m \in met'[d]
      BY DEF WindowsPast, MissionsOf
    <3>1. d # c /\ call'[d] = call[d]
      BY <2>1, NoCallType DEF BusType
    <3>2. since[m] = Window \/ m \in met[d]
      BY <3>1 DEF WindowsPast
    <3>3. e \in Events
      BY <3>1, CallFields
    <3>4. m \in Missions
      BY <3>3, MissionsKnown
    <3>5. met'[d] = met[d] \cup woken
      BY <2>1, <3>1
    <3>6. m \notin woken => since'[m] = since[m]
      BY <2>1, <3>4
    <3> QED
      BY <3>2, <3>5, <3>6
  <2>4. WindowStep
    BY <2>1, <2>2 DEF WindowsPast, WindowStep
  <2> QED
    BY <2>3, <2>4
<1> QED
  BY <1>1, <1>2, <1>3, <1>4 DEF Publishing

LEMMA WindowRest ==
  ASSUME BusType, WindowsPast, [Tick \/ (\E e \in Backups : BackupDue(e)) \/ Reload]_vars
  PROVE  WindowsPast' /\ WindowStep
<1>1. ASSUME Tick PROVE WindowsPast' /\ WindowStep
  <2>1. \A c \in Calls : call'[c].pc = call[c].pc /\ call'[c].going = call[c].going
    BY <1>1 DEF Tick, BusType, CallRecord
  <2>2. \A m \in Missions : since[m] = Window => since'[m] = Window
    BY <1>1, EventBusAssumption DEF Tick
  <2>3. \A c \in Calls : \A e \in call[c].going : MissionsOf(e) \subseteq Missions
    BY CallFields, MissionsKnown
  <2> QED
    BY <1>1, <2>1, <2>2, <2>3 DEF Tick, WindowsPast, WindowStep, MissionsOf
<1>2. ASSUME (\E e \in Backups : BackupDue(e)) \/ UNCHANGED vars PROVE WindowsPast' /\ WindowStep
  BY <1>2 DEF BackupDue, bus, vars, WindowsPast, WindowStep, MissionsOf
<1>3. ASSUME Reload PROVE WindowsPast' /\ WindowStep
  BY <1>3, NoCallType DEF Reload, WindowsPast, WindowStep
<1> QED
  BY <1>1, <1>2, <1>3

\* However publishes overlap, an event of a mission is accepted within the
\* mission's window only by a publish during which another one woke the mission.
THEOREM OneWakePerWindow == Spec => WindowKept
<1> DEFINE Inv == TypeInv /\ WindowsPast
<1>1. Init => Inv
  BY BusTypeInit, NoCallType DEF TypeInv, Init, WindowsPast
<1>2. ASSUME Inv, [Next]_vars PROVE WindowsPast' /\ WindowStep
  <2>1. ASSUME NEW o \in Orchestrators, Delivering(o) PROVE WindowsPast' /\ WindowStep
    BY <1>2, <2>1, DeliverFrame DEF bus, WindowsPast, WindowStep, MissionsOf
  <2> QED
    BY <1>2, <2>1, WindowPublish, WindowRest DEF TypeInv, Next
<1>3. Inv /\ [Next]_vars => Inv'
  BY <1>2, TypeStep
<1>4. Inv /\ [Next]_vars => [WindowStep]_vars
  BY <1>2
<1>5. [][WindowStep]_vars => WindowKept
  BY PTL DEF WindowKept, WindowStep
<1> HIDE DEF Inv
<1> QED
  BY <1>1, <1>3, <1>4, <1>5, PTL DEF Spec

-----------------------------------------------------------------------------
(* The records of the wakes                                                *)

RecordsOf(o) == {i \in 1..Len(wakes) : wakes[i].orchestrator = o}

\* What the number of o's next record, and of its next turn, is at least.
NextNumber(o) == IF sending[o] = NoMessage THEN messages + 1 ELSE sending[o].number
NextTurn(o) == IF sending[o] = NoMessage \/ sending[o].arrived THEN messages + 1 ELSE sending[o].number

\* Records are written in the order of the messages.
Ordered(o) ==
  /\ sending[o] # NoMessage => sending[o].number <= messages
  /\ \A i \in RecordsOf(o) : wakes[i].number < NextNumber(o)
  /\ \A i, j \in RecordsOf(o) : i < j => wakes[i].number < wakes[j].number

\* So are the turns begun; one that ended is not the one that runs.
TurnsOf(o) ==
  /\ sending[o] # NoMessage /\ ~sending[o].arrived => turn[o] \in {Idle, Owner}
  /\ sending[o].arrived => turn[o] \in {Idle, Owner, sending[o].number}
  /\ turn[o] = Owner \/ turn[o] < NextTurn(o)
  /\ \A t \in ending[o] : t = Owner \/ (t < NextTurn(o) /\ t # turn[o])

\* The snapshot shows no turn before the last one that ended.
ShownOf(o) ==
  /\ sending[o].arrived /\ turn[o] # sending[o].number => sending[o].number <= shown[o]
  /\ \A i \in RecordsOf(o) : /\ turn[o] # Idle => wakes[i].number <= turn[o]
                             /\ turn[o] # wakes[i].number => wakes[i].number <= shown[o]

\* Turn ends to be told of that are a record's, and open records whose turn ended.
Told(o) == {t \in ending[o] : Recorded(o, t)}
Over(o) == {i \in OpenRecords(o) : wakes[i].number # turn[o]}

EndedAfter(o) ==
  \A i \in RecordsOf(o) : wakes[i].endedBy # {} =>
    /\ turn[o] # wakes[i].number
    /\ \A end \in wakes[i].endedBy : end.usage = Idle \/ end.usage >= wakes[i].number

\* Each lookup, and each turn end that may begin one, has an open record whose
\* turn is over: so the oldest open record's is.
Covered(o) == Len(closing[o]) + Cardinality(Told(o)) <= Cardinality(Over(o))

WakeInv(o) ==
  /\ Ordered(o) /\ TurnsOf(o) /\ ShownOf(o)
  /\ o \notin mistaken => Covered(o) /\ EndedAfter(o)

LEMMA WakeTypes ==
  ASSUME TypeInv, NEW o \in Orchestrators
  PROVE  /\ MaxMessages \in Nat /\ Owner = MaxMessages + 1 /\ Idle = 0
         /\ messages \in 0..MaxMessages /\ sending[o].number \in 0..MaxMessages
         /\ turn[o] \in 0..Owner /\ shown[o] \in 0..Owner /\ ending[o] \subseteq 1..Owner
         /\ Len(closing[o]) \in Nat /\ Len(wakes) \in Nat
         /\ \A i \in RecordsOf(o) : /\ i \in 1..Len(wakes) /\ wakes[i] \in Record
                                    /\ wakes[i].number \in 1..MaxMessages
<1> USE EventBusAssumption DEF TypeInv
<1>1. MaxMessages \in Nat /\ Owner = MaxMessages + 1 /\ Idle = 0
  BY DEF Owner, Idle
<1>2. /\ messages \in 0..MaxMessages /\ sending[o].number \in 0..MaxMessages
      /\ turn[o] \in 0..Owner /\ shown[o] \in 0..Owner
  BY DEF BusType, MessageRecord
<1>3. ending[o] \subseteq 1..Owner
  BY <1>1 DEF BusType, Numbers
<1>4. closing[o] \in Seq(0..MaxMessages) /\ wakes \in Seq(Record)
  BY DEF RecordType
<1>5. Len(closing[o]) \in Nat /\ Len(wakes) \in Nat /\ \A i \in 1..Len(wakes) : wakes[i] \in Record
  BY <1>4, LenProperties, ElementOfSeq
<1>6. \A i \in RecordsOf(o) : i \in 1..Len(wakes) /\ wakes[i] \in Record
  BY <1>5 DEF RecordsOf
<1>7. \A r \in Record : r.number \in 1..MaxMessages
  BY DEF Record, Numbers
<1> QED
  BY <1>1, <1>2, <1>3, <1>5, <1>6, <1>7

LEMMA OpenOnes ==
  ASSUME NEW o \in Orchestrators
  PROVE  /\ OpenRecords(o) = {i \in RecordsOf(o) : wakes[i].endedBy = {}}
         /\ \A t : Recorded(o, t) <=> \E i \in RecordsOf(o) : wakes[i].number = t
  BY DEF OpenRecords, RecordsOf, Recorded

LEMMA FiniteWakes ==
  ASSUME TypeInv, NEW o \in Orchestrators
  PROVE  /\ IsFiniteSet(Told(o)) /\ Cardinality(Told(o)) \in Nat
         /\ IsFiniteSet(Over(o)) /\ Cardinality(Over(o)) \in Nat
<1>1. Told(o) \subseteq 1..Owner /\ Over(o) \subseteq 1..Len(wakes)
  BY WakeTypes DEF Told, Over, OpenRecords
<1>2. IsFiniteSet(1..Owner) /\ IsFiniteSet(1..Len(wakes))
  BY WakeTypes, FS_Interval
<1>3. IsFiniteSet(Told(o)) /\ IsFiniteSet(Over(o))
  BY <1>1, <1>2, FS_Subset
<1> QED
  BY <1>3, FS_CardinalityType

LEMMA FiniteNext ==
  ASSUME TypeInv', NEW o \in Orchestrators
  PROVE  /\ IsFiniteSet(Told(o)') /\ Cardinality(Told(o)') \in Nat
         /\ IsFiniteSet(Over(o)') /\ Cardinality(Over(o)') \in Nat
         /\ Len(closing'[o]) \in Nat
<1>1. MaxMessages \in Nat /\ Owner = MaxMessages + 1
  BY EventBusAssumption DEF Owner
<1>2. closing'[o] \in Seq(0..MaxMessages) /\ wakes' \in Seq(Record)
  BY DEF TypeInv, RecordType
<1>3. Len(closing'[o]) \in Nat /\ Len(wakes') \in Nat
  BY <1>2, LenProperties
<1>4. Told(o)' \subseteq 1..Owner /\ Over(o)' \subseteq 1..Len(wakes')
  BY <1>1 DEF Told, Over, OpenRecords, TypeInv, BusType, Numbers
<1>5. IsFiniteSet(1..Owner) /\ IsFiniteSet(1..Len(wakes'))
  BY <1>1, <1>3, FS_Interval
<1>6. IsFiniteSet(Told(o)') /\ IsFiniteSet(Over(o)')
  BY <1>4, <1>5, FS_Subset
<1> QED
  BY <1>3, <1>6, FS_CardinalityType

LEMMA OneMore ==
  ASSUME NEW S, IsFiniteSet(S), NEW t
  PROVE  /\ IsFiniteSet(S \cup {t}) /\ Cardinality(S \cup {t}) \in Nat
         /\ Cardinality(S \cup {t}) <= Cardinality(S) + 1
         /\ t \notin S => Cardinality(S \cup {t}) = Cardinality(S) + 1
<1> DEFINE n == Cardinality(S)
           k == Cardinality(S \cup {t})
<1>1. IsFiniteSet(S \cup {t}) /\ k = (IF t \in S THEN n ELSE n + 1) /\ n \in Nat
  BY FS_AddElement, FS_CardinalityType
<1> HIDE DEF n, k
<1>2. k \in Nat /\ k <= n + 1 /\ (t \notin S => k = n + 1)
  BY <1>1
<1> QED
  BY <1>1, <1>2 DEF n, k

\* A step keeps what is covered when lookups and turn ends to be told of
\* become no more, and records whose turn is over become no fewer.
LEMMA CoverKept ==
  ASSUME TypeInv, TypeInv', NEW o \in Orchestrators, Covered(o),
         Len(closing'[o]) <= Len(closing[o]), Told(o)' \subseteq Told(o), Over(o) \subseteq Over(o)'
  PROVE  Covered(o)'
<1>1. Cardinality(Told(o)') <= Cardinality(Told(o)) /\ Cardinality(Over(o)) <= Cardinality(Over(o)')
  BY FiniteWakes, FiniteNext, FS_Subset
<1>2. /\ Len(closing'[o]) \in Nat /\ Len(closing[o]) \in Nat
      /\ Cardinality(Told(o)') \in Nat /\ Cardinality(Told(o)) \in Nat
      /\ Cardinality(Over(o)') \in Nat /\ Cardinality(Over(o)) \in Nat
  BY FiniteWakes, FiniteNext, WakeTypes
<1> QED
  BY <1>1, <1>2 DEF Covered

\* When one more turn end is to be told of, one more record's turn must be over.
LEMMA CoverGrows ==
  ASSUME TypeInv, TypeInv', NEW o \in Orchestrators, Covered(o), NEW t, NEW i,
         Len(closing'[o]) <= Len(closing[o]), Told(o)' \subseteq Told(o) \cup {t},
         i \notin Over(o), Over(o) \cup {i} \subseteq Over(o)'
  PROVE  Covered(o)'
<1>1. Cardinality(Told(o)') <= Cardinality(Told(o)) + 1
  <2>1. /\ IsFiniteSet(Told(o) \cup {t})
        /\ Cardinality(Told(o) \cup {t}) <= Cardinality(Told(o)) + 1
        /\ Cardinality(Told(o) \cup {t}) \in Nat
    BY FiniteWakes, OneMore
  <2>2. Cardinality(Told(o)') <= Cardinality(Told(o) \cup {t})
    BY <2>1, FS_Subset
  <2> QED
    BY <2>1, <2>2, FiniteWakes, FiniteNext
<1>2. Cardinality(Over(o)) + 1 <= Cardinality(Over(o)')
  <2>1. Cardinality(Over(o) \cup {i}) = Cardinality(Over(o)) + 1
    BY FiniteWakes, OneMore
  <2>2. Cardinality(Over(o) \cup {i}) <= Cardinality(Over(o)')
    BY FiniteNext, FS_Subset
  <2> QED
    BY <2>1, <2>2
<1>3. /\ Len(closing'[o]) \in Nat /\ Len(closing[o]) \in Nat
      /\ Cardinality(Told(o)') \in Nat /\ Cardinality(Told(o)) \in Nat
      /\ Cardinality(Over(o)') \in Nat /\ Cardinality(Over(o)) \in Nat
  BY FiniteWakes, FiniteNext, WakeTypes
<1> QED
  BY <1>1, <1>2, <1>3 DEF Covered

\* What a step of another Orchestrator, or of the bus, leaves as it is.
LEMMA SameWakes ==
  ASSUME TypeInv, TypeInv', NEW o \in Orchestrators, WakeInv(o),
         sending'[o] = sending[o], turn'[o] = turn[o], shown'[o] = shown[o],
         ending'[o] = ending[o], closing'[o] = closing[o],
         messages <= messages', mistaken \subseteq mistaken',
         RecordsOf(o)' = RecordsOf(o), \A i \in RecordsOf(o) : wakes'[i] = wakes[i]
  PROVE  WakeInv(o)'
<1>1. /\ messages \in Nat /\ messages' \in Nat /\ sending[o].number \in Nat /\ turn[o] \in Nat
      /\ ending[o] \subseteq Nat /\ \A i \in RecordsOf(o) : wakes[i].number \in Nat
  <2>1. messages' \in Nat
    BY EventBusAssumption DEF TypeInv, BusType
  <2> QED
    BY <2>1, WakeTypes
<1>2. Ordered(o)'
  BY <1>1 DEF WakeInv, Ordered, NextNumber
<1>3. TurnsOf(o)'
  BY <1>1 DEF WakeInv, TurnsOf, NextTurn
<1>4. ShownOf(o)'
  BY DEF WakeInv, ShownOf
<1>5. Told(o)' = Told(o) /\ Over(o)' = Over(o)
  <2>1. /\ Told(o) = {t \in ending[o] : \E i \in RecordsOf(o) : wakes[i].number = t}
        /\ Told(o)' = {t \in ending[o] : \E i \in RecordsOf(o) : wakes[i].number = t}
    BY DEF Told, Recorded, RecordsOf
  <2>2. /\ Over(o) = {i \in RecordsOf(o) : wakes[i].endedBy = {} /\ wakes[i].number # turn[o]}
        /\ Over(o)' = {i \in RecordsOf(o) : wakes[i].endedBy = {} /\ wakes[i].number # turn[o]}
    BY DEF Over, OpenRecords, RecordsOf
  <2> QED
    BY <2>1, <2>2
<1>6. o \notin mistaken' => Covered(o)' /\ EndedAfter(o)'
  BY <1>5 DEF WakeInv, Covered, EndedAfter
<1> QED
  BY <1>2, <1>3, <1>4, <1>6 DEF WakeInv

\* Send: the next number and the next turn grow, nothing else counts.
LEMMA SendWakes ==
  ASSUME TypeInv, TypeInv', NEW o \in Orchestrators, WakeInv(o),
         NEW g \in SUBSET Missions, NEW s \in SUBSET Events, Send(o, g, s)
  PROVE  WakeInv(o)'
<1> DEFINE items == {e \in queue[o] : Subject[e] = g}
           message == Message(messages + 1, items \ s)
<1>1. /\ UNCHANGED <<records, agents>>
      /\ turn[o] = Idle /\ sending[o] = NoMessage /\ messages < MaxMessages
      /\ \/ UNCHANGED <<sending, messages>>
         \/ messages' = messages + 1 /\ sending' = [sending EXCEPT ![o] = message]
  BY DEF Send
<1>2. UNCHANGED <<openWakes, closing, wakes, mistaken, turn, ending, shown>> /\ RecordsOf(o)' = RecordsOf(o)
  BY <1>1 DEF records, agents, RecordsOf
<1>3. CASE UNCHANGED <<sending, messages>>
  <2>1. messages <= messages'
    BY <1>3, WakeTypes
  <2> QED
    BY <1>2, <1>3, <2>1, SameWakes
<1>4. CASE messages' = messages + 1 /\ sending' = [sending EXCEPT ![o] = message]
  <2>1. message.number = messages + 1 /\ ~message.arrived /\ NoMessage.number = 0 /\ ~NoMessage.arrived
    BY DEF Message, NoMessage, Idle
  <2> HIDE DEF items, message
  <2>2. sending'[o] = message
    BY <1>4 DEF TypeInv, BusType
  <2>3. messages \in Nat /\ message # NoMessage
    BY <2>1, WakeTypes
  <2>4. NextNumber(o) = messages + 1 /\ NextNumber(o)' = messages + 1
        /\ NextTurn(o) = messages + 1 /\ NextTurn(o)' = messages + 1
    BY <1>1, <1>4, <2>1, <2>2, <2>3 DEF NextNumber, NextTurn
  <2>5. Ordered(o)'
    BY <1>2, <1>4, <2>1, <2>2, <2>3, <2>4 DEF WakeInv, Ordered
  <2>6. TurnsOf(o)'
    BY <1>1, <1>2, <2>1, <2>2, <2>4 DEF WakeInv, TurnsOf
  <2>7. ShownOf(o)'
    BY <1>2, <2>1, <2>2 DEF WakeInv, ShownOf
  <2>8. Covered(o)' = Covered(o) /\ EndedAfter(o)' = EndedAfter(o)
    BY <1>2 DEF Covered, Told, Over, OpenRecords, Recorded, EndedAfter
  <2> QED
    BY <1>2, <2>5, <2>6, <2>7, <2>8 DEF WakeInv
<1> QED
  BY <1>1, <1>3, <1>4

\* Arrive: the turn that begins is newer than every record and every ended turn.
LEMMA ArriveWakes ==
  ASSUME TypeInv, TypeInv', NEW o \in Orchestrators, WakeInv(o), Arrive(o)
  PROVE  WakeInv(o)'
<1> DEFINE n == sending[o].number
<1>1. /\ sending[o] # NoMessage /\ ~sending[o].arrived
      /\ UNCHANGED <<records, ending, shown, messages>>
      /\ turn'[o] = n /\ sending' = [sending EXCEPT ![o] = [sending[o] EXCEPT !.arrived = TRUE]]
  BY DEF Arrive, bounds, TypeInv, BusType
<1>2. n \in 1..MaxMessages /\ messages \in Nat /\ MaxMessages \in Nat /\ Owner = MaxMessages + 1 /\ Idle = 0
  BY <1>1, WakeTypes DEF TypeInv, Numbered, Numbers
<1>3. sending'[o].number = n /\ sending'[o].arrived /\ sending'[o] # NoMessage
  BY <1>1, NoMessageType DEF TypeInv, BusType, MessageRecord
<1>4. UNCHANGED <<openWakes, closing, wakes, mistaken, ending, shown>> /\ RecordsOf(o)' = RecordsOf(o)
  BY <1>1 DEF records, RecordsOf
<1>5. /\ n <= messages /\ NextNumber(o) = n /\ NextNumber(o)' = n /\ NextTurn(o) = n /\ NextTurn(o)' = messages + 1
      /\ turn[o] \in {Idle, Owner}
  BY <1>1, <1>3 DEF WakeInv, Ordered, TurnsOf, NextNumber, NextTurn
<1>6. \A i \in RecordsOf(o) : wakes[i].number < n /\ wakes[i].number \in 1..MaxMessages
  BY <1>5, WakeTypes DEF WakeInv, Ordered
<1>7. Ordered(o)'
  BY <1>1, <1>3, <1>4, <1>5 DEF WakeInv, Ordered
<1>8. TurnsOf(o)'
  <2>1. \A t \in ending[o] : t = Owner \/ (t < messages + 1 /\ t # n)
    <3>1. \A t \in ending[o] : t \in Nat /\ (t = Owner \/ t < n)
      BY <1>5, WakeTypes DEF WakeInv, TurnsOf
    <3> QED
      BY <1>2, <1>5, <3>1
  <2>2. n < messages + 1
    BY <1>2, <1>5
  <2> QED
    BY <1>1, <1>3, <1>4, <1>5, <2>1, <2>2 DEF TurnsOf
<1>9. ShownOf(o)'
  <2>1. \A i \in RecordsOf(o) : wakes[i].number <= n /\ wakes[i].number <= shown[o]
    BY <1>2, <1>5, <1>6 DEF WakeInv, ShownOf
  <2> QED
    BY <1>1, <1>3, <1>4, <2>1 DEF ShownOf
<1>10. ASSUME o \notin mistaken PROVE Covered(o)' /\ EndedAfter(o)'
  <2>1. Told(o)' = Told(o)
    BY <1>4 DEF Told, Recorded
  <2>2. Over(o)' = Over(o)
    <3>1. \A i \in OpenRecords(o) : wakes[i].number # n /\ wakes[i].number # turn[o]
      BY <1>2, <1>5, <1>6, OpenOnes
    <3>2. OpenRecords(o)' = OpenRecords(o)
      BY <1>4 DEF OpenRecords
    <3> QED
      BY <1>1, <1>4, <3>1, <3>2 DEF Over
  <2>3. EndedAfter(o)'
    <3>1. \A i \in RecordsOf(o) : wakes[i].number # n
      BY <1>2, <1>6
    <3> QED
      BY <1>1, <1>4, <1>10, <3>1 DEF WakeInv, EndedAfter
  <2> QED
    BY <1>4, <1>10, <2>1, <2>2, <2>3 DEF WakeInv, Covered
<1> QED
  BY <1>4, <1>7, <1>8, <1>9, <1>10 DEF WakeInv

\* SendFails: only the message on its way is gone.
LEMMA SendFailsWakes ==
  ASSUME TypeInv, TypeInv', NEW o \in Orchestrators, WakeInv(o), SendFails(o)
  PROVE  WakeInv(o)'
<1>1. /\ sending[o] # NoMessage /\ sending'[o] = NoMessage
      /\ UNCHANGED <<records, agents, messages>>
  BY DEF SendFails, bounds, TypeInv, BusType
<1>2. UNCHANGED <<openWakes, closing, wakes, mistaken, turn, ending, shown>> /\ RecordsOf(o)' = RecordsOf(o)
  BY <1>1 DEF records, agents, RecordsOf
<1>3. messages \in Nat /\ sending[o].number \in Nat /\ sending[o].number <= messages /\ ~NoMessage.arrived
  BY <1>1, WakeTypes, NoMessageType DEF WakeInv, Ordered
<1>4. Ordered(o)'
  <2>1. \A i \in RecordsOf(o) : wakes[i].number < messages + 1
    <3>1. \A i \in RecordsOf(o) : wakes[i].number \in Nat /\ wakes[i].number < sending[o].number
      BY <1>1, WakeTypes DEF WakeInv, Ordered, NextNumber
    <3> QED
      BY <1>3, <3>1
  <2> QED
    BY <1>1, <1>2, <2>1 DEF WakeInv, Ordered, NextNumber
<1>5. TurnsOf(o)'
  <2>1. NextTurn(o) <= messages + 1 /\ NextTurn(o) \in Nat /\ NextTurn(o)' = messages + 1
    BY <1>1, <1>3 DEF NextTurn
  <2>2. turn[o] \in Nat /\ ending[o] \subseteq Nat
    BY WakeTypes
  <2>3. turn[o] = Owner \/ turn[o] < messages + 1
    BY <1>3, <2>1, <2>2 DEF WakeInv, TurnsOf
  <2>4. \A t \in ending[o] : t = Owner \/ (t < messages + 1 /\ t # turn[o])
    BY <1>3, <2>1, <2>2 DEF WakeInv, TurnsOf
  <2> QED
    BY <1>1, <1>2, <1>3, <2>1, <2>3, <2>4 DEF TurnsOf
<1>6. ShownOf(o)'
  BY <1>1, <1>2, <1>3 DEF WakeInv, ShownOf
<1>7. Covered(o)' = Covered(o) /\ EndedAfter(o)' = EndedAfter(o)
  BY <1>2 DEF Covered, Told, Over, OpenRecords, Recorded, EndedAfter
<1> QED
  BY <1>2, <1>4, <1>5, <1>6, <1>7 DEF WakeInv

\* OwnerTurn: the owner's turn has no record.
LEMMA OwnerWakes ==
  ASSUME TypeInv, TypeInv', NEW o \in Orchestrators, WakeInv(o), OwnerTurn(o)
  PROVE  WakeInv(o)'
<1>1. /\ turn[o] = Idle /\ turn'[o] = Owner /\ messages' = messages
      /\ UNCHANGED <<sending, openWakes, closing, wakes, mistaken, ending, shown>>
      /\ RecordsOf(o)' = RecordsOf(o)
  BY DEF OwnerTurn, notices, records, TypeInv, BusType, RecordsOf
<1>2. /\ MaxMessages \in Nat /\ Owner = MaxMessages + 1 /\ Idle = 0
      /\ \A i \in RecordsOf(o) : wakes[i].number \in 1..MaxMessages
  BY WakeTypes
<1>3. \A i \in RecordsOf(o) : wakes[i].number <= Owner /\ wakes[i].number # Owner /\ wakes[i].number # Idle
  BY <1>2
<1>4. Ordered(o)'
  BY <1>1 DEF WakeInv, Ordered, NextNumber
<1>5. TurnsOf(o)'
  BY <1>1 DEF WakeInv, TurnsOf, NextTurn
<1>6. ShownOf(o)'
  <2>1. \A i \in RecordsOf(o) : wakes[i].number <= shown[o]
    BY <1>1, <1>3 DEF WakeInv, ShownOf
  <2>2. sending[o].arrived => sending[o].number <= shown[o]
    <3>1. sending[o].arrived => sending[o].number # Idle
      <4>1. sending[o].arrived => sending[o] # NoMessage
        BY NoMessageType
      <4> QED
        BY <1>2, <4>1 DEF TypeInv, Numbered, Numbers
    <3> QED
      BY <1>1, <3>1 DEF WakeInv, ShownOf
  <2> QED
    BY <1>1, <1>3, <2>1, <2>2 DEF ShownOf
<1>7. Over(o)' = Over(o) /\ Told(o)' = Told(o)
  <2>1. OpenRecords(o) \subseteq RecordsOf(o) /\ OpenRecords(o)' = OpenRecords(o)
    BY <1>1, OpenOnes DEF OpenRecords
  <2>2. Over(o)' = Over(o)
    BY <1>1, <1>3, <2>1 DEF Over
  <2> QED
    BY <1>1, <2>2 DEF Told, Recorded
<1>8. o \notin mistaken => Covered(o)' /\ EndedAfter(o)'
  BY <1>1, <1>3, <1>7 DEF WakeInv, Covered, EndedAfter
<1> QED
  BY <1>1, <1>4, <1>5, <1>6, <1>8 DEF WakeInv

\* TurnEnds: a recorded turn that ends has an open record, whose turn is over now.
LEMMA TurnEndsWakes ==
  ASSUME TypeInv, TypeInv', NEW o \in Orchestrators, WakeInv(o), TurnEnds(o)
  PROVE  WakeInv(o)'
<1> DEFINE t == turn[o]
<1>1. /\ t # Idle /\ turn'[o] = Idle /\ shown'[o] = t /\ ending'[o] = ending[o] \cup {t}
      /\ UNCHANGED <<sending, openWakes, closing, wakes, mistaken, messages>>
      /\ RecordsOf(o)' = RecordsOf(o) /\ OpenRecords(o)' = OpenRecords(o)
  BY DEF TurnEnds, notices, records, bounds, TypeInv, BusType, RecordsOf, OpenRecords
<1>2. /\ MaxMessages \in Nat /\ Owner = MaxMessages + 1 /\ Idle = 0 /\ t \in 0..Owner
      /\ sending[o].number \in 0..MaxMessages /\ ending[o] \subseteq 1..Owner
      /\ \A i \in RecordsOf(o) : wakes[i].number \in 1..MaxMessages
  BY WakeTypes
<1>3. \A i \in RecordsOf(o) : wakes[i].number <= t /\ wakes[i].number # Idle
  BY <1>1, <1>2 DEF WakeInv, ShownOf
<1>4. Ordered(o)'
  BY <1>1 DEF WakeInv, Ordered, NextNumber
<1>5. TurnsOf(o)'
  <2>1. NextTurn(o)' = NextTurn(o) /\ (sending[o] # NoMessage => sending[o].number # Idle)
    BY <1>1, <1>2 DEF NextTurn, TypeInv, Numbered, Numbers
  <2>2. t = Owner \/ (t < NextTurn(o) /\ t # Idle)
    BY <1>1 DEF WakeInv, TurnsOf
  <2>3. \A x \in ending[o] : x = Owner \/ (x < NextTurn(o) /\ x # Idle)
    <3>1. \A x \in ending[o] : x # Idle
      BY <1>2
    <3> QED
      BY <3>1 DEF WakeInv, TurnsOf
  <2>4. Idle < NextTurn(o)
    BY <1>2, <2>1, WakeTypes DEF NextTurn
  <2> QED
    BY <1>1, <2>1, <2>2, <2>3, <2>4 DEF TurnsOf
<1>6. ShownOf(o)'
  <2>1. sending[o].arrived => sending[o].number <= t
    BY <1>1, <1>2 DEF WakeInv, TurnsOf
  <2> QED
    BY <1>1, <1>3, <2>1 DEF ShownOf
<1>7. ASSUME o \notin mistaken PROVE Covered(o)' /\ EndedAfter(o)'
  <2>1. EndedAfter(o)'
    BY <1>1, <1>3, <1>7 DEF WakeInv, EndedAfter
  <2>2. Over(o)' = OpenRecords(o) /\ Over(o) \subseteq OpenRecords(o)
    <3>1. \A i \in OpenRecords(o) : wakes[i].number # Idle
      BY <1>3, OpenOnes
    <3> QED
      BY <1>1, <3>1 DEF Over
  <2>3. Told(o)' = {x \in ending[o] \cup {t} : Recorded(o, x)}
    BY <1>1 DEF Told, Recorded
  <2>4. Len(closing[o]) \in Nat /\ closing'[o] = closing[o] /\ Covered(o)
    BY <1>1, <1>7, WakeTypes DEF WakeInv
  <2>5. CASE ~Recorded(o, t)
    <3>1. Told(o)' \subseteq Told(o)
      BY <2>3, <2>5 DEF Told
    <3> QED
      BY <2>1, <2>2, <2>4, <3>1, CoverKept
  <2>6. CASE Recorded(o, t)
    <3>1. PICK i \in RecordsOf(o) : wakes[i].number = t
      BY <2>6, OpenOnes
    <3>2. i \in OpenRecords(o)
      BY <1>7, <3>1, OpenOnes DEF WakeInv, EndedAfter
    <3>3. i \notin Over(o)
      BY <3>1 DEF Over
    <3>4. Told(o)' \subseteq Told(o) \cup {t} /\ Over(o) \cup {i} \subseteq Over(o)'
      BY <2>2, <2>3, <3>2 DEF Told
    <3> HIDE DEF t
    <3> QED
      BY <2>1, <2>4, <3>3, <3>4, CoverGrows
  <2> QED
    BY <2>5, <2>6
<1> QED
  BY <1>1, <1>4, <1>5, <1>6, <1>7 DEF WakeInv

\* TurnEnded: a lookup begins for a turn end that is a record's, or by mistake.
LEMMA TurnEndedWakes ==
  ASSUME TypeInv, TypeInv', NEW o \in Orchestrators, WakeInv(o), NEW t \in ending[o], TurnEnded(o, t)
  PROVE  WakeInv(o)'
<1>1. /\ ending'[o] = ending[o] \ {t}
      /\ UNCHANGED <<sending, wakes, turn, shown, messages>>
      /\ mistaken \subseteq mistaken'
      /\ RecordsOf(o)' = RecordsOf(o) /\ OpenRecords(o)' = OpenRecords(o)
  BY DEF TurnEnded, bounds, TypeInv, BusType, RecordsOf, OpenRecords
<1>2. Ordered(o)'
  BY <1>1 DEF WakeInv, Ordered, NextNumber
<1>3. TurnsOf(o)'
  BY <1>1 DEF WakeInv, TurnsOf, NextTurn
<1>4. ShownOf(o)'
  BY <1>1 DEF WakeInv, ShownOf
<1>5. ASSUME o \notin mistaken' PROVE Covered(o)' /\ EndedAfter(o)'
  <2>1. o \notin mistaken /\ Covered(o) /\ EndedAfter(o)'
    BY <1>1, <1>5 DEF WakeInv, EndedAfter
  <2>2. Over(o)' = Over(o) /\ Told(o)' = Told(o) \ {t}
    BY <1>1 DEF Over, Told, Recorded
  <2>3. CASE awaiting[o] = 0
    <3>1. closing'[o] = closing[o] /\ Len(closing[o]) \in Nat
      BY <2>3, WakeTypes DEF TurnEnded
    <3> QED
      BY <2>1, <2>2, <3>1, CoverKept
  <2>4. CASE awaiting[o] # 0
    <3>1. t \in Told(o)
      BY <1>1, <1>5, <2>4 DEF TurnEnded, Told
    <3>2. Len(closing'[o]) = Len(closing[o]) + 1
      <4>1. PICK x \in 0..MaxMessages : closing' = [closing EXCEPT ![o] = Append(closing[o], x)]
        <5> DEFINE x == IF openWakes[o] = <<>> THEN Idle ELSE Head(openWakes[o])
        <5>1. openWakes[o] \in Seq(Numbers)
          BY DEF TypeInv, RecordType
        <5>2. x \in 0..MaxMessages
          BY <5>1, WakeTypes, HeadTailProperties DEF Numbers
        <5>3. closing' = [closing EXCEPT ![o] = Append(closing[o], x)]
          BY <2>4 DEF TurnEnded
        <5> QED
          BY <5>2, <5>3
      <4>2. closing[o] \in Seq(0..MaxMessages) /\ closing'[o] = Append(closing[o], x)
        BY <4>1 DEF TypeInv, RecordType
      <4> QED
        BY <4>2, AppendProperties
    <3>3. Cardinality(Told(o)') = Cardinality(Told(o)) - 1
      BY <2>2, <3>1, FiniteWakes, FS_RemoveElement
    <3>4. Len(closing[o]) \in Nat /\ Cardinality(Told(o)) \in Nat /\ Cardinality(Over(o)) \in Nat
      BY WakeTypes, FiniteWakes
    <3>5. Covered(o)'
      BY <2>1, <2>2, <3>2, <3>3, <3>4 DEF Covered
    <3> QED
      BY <2>1, <3>5
  <2> QED
    BY <2>3, <2>4
<1> QED
  BY <1>2, <1>3, <1>4, <1>5 DEF WakeInv

\* What Sent writes: the newest record.
LEMMA SentRecord ==
  ASSUME TypeInv, NEW o \in Orchestrators, Sent(o)
  PROVE  LET k == Len(wakes) + 1
         IN  /\ RecordsOf(o)' = RecordsOf(o) \cup {k} /\ \A i \in RecordsOf(o) : i < k /\ wakes'[i] = wakes[i]
             /\ wakes'[k].number = sending[o].number /\ wakes'[k].endedBy = {}
             /\ \A p \in Orchestrators : p # o =>
                  RecordsOf(p)' = RecordsOf(p) /\ \A i \in RecordsOf(p) : wakes'[i] = wakes[i]
<1> DEFINE L == Len(wakes)
           r == [orchestrator |-> o, number |-> sending[o].number, endedBy |-> {}]
<1>1. sending[o].number \in Numbers
  BY NoMessageType DEF Sent, TypeInv, Numbered
<1>2. r \in Record /\ wakes \in Seq(Record) /\ wakes' = Append(wakes, r)
  BY <1>1 DEF Record, Sent, TypeInv, RecordType
<1>3. L \in Nat
  BY <1>2, LenProperties
<1>4. r.orchestrator = o /\ r.number = sending[o].number /\ r.endedBy = {}
  OBVIOUS
<1> HIDE DEF r
<1>5. Len(wakes') = L + 1 /\ (\A i \in 1..L : wakes'[i] = wakes[i]) /\ wakes'[L + 1] = r
  BY <1>2, AppendProperties
<1> HIDE DEF L
<1>6. 1..(L + 1) = 1..L \cup {L + 1} /\ \A i \in 1..L : i < L + 1
  BY <1>3
<1>7. \A p : \A i \in RecordsOf(p) : i \in 1..L /\ wakes'[i] = wakes[i]
  BY <1>5 DEF RecordsOf, L
<1>8. RecordsOf(o)' = RecordsOf(o) \cup {L + 1}
  BY <1>4, <1>5, <1>6 DEF RecordsOf, L
<1>9. \A p : p # o => RecordsOf(p)' = RecordsOf(p)
  BY <1>4, <1>5, <1>6 DEF RecordsOf, L
<1> QED
  BY <1>4, <1>5, <1>6, <1>7, <1>8, <1>9 DEF L

\* Sent: if the new record's turn is over, its end is to be told of or was.
LEMMA SentWakes ==
  ASSUME TypeInv, TypeInv', NEW o \in Orchestrators, WakeInv(o), Sent(o)
  PROVE  WakeInv(o)'
<1> DEFINE n == sending[o].number
           k == Len(wakes) + 1
<1>1. /\ sending[o] # NoMessage /\ sending[o].arrived /\ sending'[o] = NoMessage
      /\ UNCHANGED <<closing, mistaken, turn, ending, shown, messages>>
  BY NoMessageType DEF Sent, agents, bounds, TypeInv, BusType
<1>2. /\ RecordsOf(o)' = RecordsOf(o) \cup {k} /\ \A i \in RecordsOf(o) : i < k /\ wakes'[i] = wakes[i]
      /\ wakes'[k].number = n /\ wakes'[k].endedBy = {}
  BY SentRecord
<1>3. n \in 1..MaxMessages /\ messages \in Nat /\ n <= messages /\ k \in Nat
      /\ MaxMessages \in Nat /\ Owner = MaxMessages + 1
  BY <1>1, WakeTypes DEF TypeInv, Numbered, Numbers, WakeInv, Ordered
<1>4. \A i \in RecordsOf(o) : wakes[i].number < n /\ wakes[i].number \in Nat /\ i \in Nat
  BY <1>1, WakeTypes DEF WakeInv, Ordered, NextNumber
<1>5. ~NoMessage.arrived /\ NextTurn(o) = messages + 1 /\ NextTurn(o)' = messages + 1
  BY <1>1, NoMessageType DEF NextTurn
<1> HIDE DEF n, k
<1>6. Ordered(o)'
  <2>1. NextNumber(o)' = messages + 1
    BY <1>1 DEF NextNumber
  <2>2. \A i \in RecordsOf(o) \cup {k} : wakes'[i].number < messages + 1
    BY <1>2, <1>3, <1>4
  <2>3. \A i, j \in RecordsOf(o) : i < j => wakes'[i].number < wakes'[j].number
    BY <1>2 DEF WakeInv, Ordered
  <2>4. \A i \in RecordsOf(o) : wakes'[i].number < wakes'[k].number /\ ~(k < i)
    BY <1>2, <1>3, <1>4
  <2>5. ~(k < k)
    BY <1>3
  <2> QED
    BY <1>1, <1>2, <2>1, <2>2, <2>3, <2>4, <2>5 DEF Ordered
<1>7. TurnsOf(o)'
  BY <1>1, <1>5 DEF WakeInv, TurnsOf
<1>8. ShownOf(o)'
  <2>1. /\ turn[o] # Idle => n <= turn[o]
        /\ turn[o] # n => n <= shown[o]
    <3>1. turn[o] \in {Idle, Owner, n}
      BY <1>1 DEF WakeInv, TurnsOf, n
    <3>2. n <= Owner
      BY <1>3
    <3> QED
      BY <1>1, <1>3, <3>1, <3>2 DEF WakeInv, ShownOf, n
  <2> QED
    BY <1>1, <1>2, <1>5, <2>1 DEF WakeInv, ShownOf
<1>9. ASSUME o \notin mistaken PROVE Covered(o)' /\ EndedAfter(o)'
  <2>1. EndedAfter(o)'
    BY <1>1, <1>2, <1>9 DEF WakeInv, EndedAfter
  <2>2. /\ Told(o)' = {t \in ending[o] : Recorded(o, t) \/ t = n}
        /\ Told(o) = {t \in ending[o] : Recorded(o, t)}
    <3>1. \A t : Recorded(o, t)' <=> \E i \in RecordsOf(o)' : wakes'[i].number = t
      BY DEF Recorded, RecordsOf
    <3>2. \A t : Recorded(o, t)' <=> Recorded(o, t) \/ t = n
      BY <1>2, <3>1, OpenOnes
    <3> QED
      BY <1>1, <3>2 DEF Told
  <2>3. OpenRecords(o)' = OpenRecords(o) \cup {k} /\ k \notin OpenRecords(o)
        /\ \A i \in OpenRecords(o) : wakes'[i] = wakes[i]
    <3>1. OpenRecords(o)' = {i \in RecordsOf(o)' : wakes'[i].endedBy = {}}
      BY DEF OpenRecords, RecordsOf
    <3> QED
      BY <1>2, <1>3, <3>1, OpenOnes
  <2>4. Over(o) \subseteq Over(o)' /\ k \notin Over(o) /\ (turn[o] # n => k \in Over(o)')
    BY <1>1, <1>2, <2>3 DEF Over
  <2>5. Len(closing[o]) \in Nat /\ closing'[o] = closing[o] /\ Covered(o)
    BY <1>1, <1>9, WakeTypes DEF WakeInv
  <2>6. CASE n \in ending[o]
    <3>1. turn[o] # n
      BY <1>3, <2>6 DEF WakeInv, TurnsOf
    <3>2. Told(o)' \subseteq Told(o) \cup {n} /\ Over(o) \cup {k} \subseteq Over(o)'
      BY <2>2, <2>4, <3>1
    <3> QED
      BY <2>1, <2>4, <2>5, <3>2, CoverGrows
  <2>7. CASE n \notin ending[o]
    <3>1. Told(o)' \subseteq Told(o)
      BY <2>2, <2>7
    <3> QED
      BY <2>1, <2>4, <2>5, <3>1, CoverKept
  <2> QED
    BY <2>6, <2>7
<1> QED
  BY <1>1, <1>6, <1>7, <1>8, <1>9 DEF WakeInv

LEMMA OneLess ==
  ASSUME NEW S, NEW c \in Seq(S), NEW i \in 1..Len(c)
  PROVE  Len(SubSeq(c, 1, i - 1) \o SubSeq(c, i + 1, Len(c))) = Len(c) - 1
<1>1. Len(c) \in Nat /\ i \in Nat /\ 1 <= i /\ i <= Len(c)
  BY LenProperties
<1>2. \A k \in 1..(i - 1) : c[k] \in S
  BY <1>1, ElementOfSeq
<1>3. \A k \in (i + 1)..Len(c) : c[k] \in S
  BY <1>1, ElementOfSeq
<1>4. /\ SubSeq(c, 1, i - 1) \in Seq(S) /\ Len(SubSeq(c, 1, i - 1)) = i - 1
      /\ SubSeq(c, i + 1, Len(c)) \in Seq(S) /\ Len(SubSeq(c, i + 1, Len(c))) = Len(c) - i
  BY <1>1, <1>2, <1>3, SubSeqProperties
<1> DEFINE a == SubSeq(c, 1, i - 1)
           b == SubSeq(c, i + 1, Len(c))
<1>6. a \in Seq(S) /\ b \in Seq(S) /\ Len(a) = i - 1 /\ Len(b) = Len(c) - i
  BY <1>4
<1> HIDE DEF a, b
<1>5. Len(a) + Len(b) = Len(c) - 1
  BY <1>1, <1>6
<1>7. Len(a \o b) = Len(a) + Len(b)
  BY <1>6, ConcatProperties
<1> QED
  BY <1>5, <1>7 DEF a, b

\* What EndWake writes: the end of o's oldest open record, if it has one.
LEMMA EndRecord ==
  ASSUME TypeInv, TypeInv', NEW o \in Orchestrators, NEW i \in 1..Len(closing[o]), EndWake(o, i)
  PROVE  /\ \A p : RecordsOf(p)' = RecordsOf(p) /\ \A j \in RecordsOf(p) : wakes'[j].number = wakes[j].number
         /\ \A p : p # o => \A j \in RecordsOf(p) : wakes'[j] = wakes[j]
         /\ \A j \in RecordsOf(o) : ~IsOldest(j, OpenRecords(o)) => wakes'[j] = wakes[j]
         /\ \E end \in Ends(o, i) : \A j \in RecordsOf(o) :
              IsOldest(j, OpenRecords(o)) => wakes'[j].endedBy = {end}
<1>1. PICK end \in Ends(o, i) :
        wakes' = [j \in 1..Len(wakes) |->
          IF IsOldest(j, OpenRecords(o)) THEN [wakes[j] EXCEPT !.endedBy = {end}] ELSE wakes[j]]
  BY DEF EndWake
<1>2. /\ wakes \in Seq(Record) /\ wakes' \in Seq(Record)
      /\ Len(wakes) \in Nat /\ \A j \in 1..Len(wakes) : wakes[j] \in Record
  <2>1. wakes \in Seq(Record) /\ wakes' \in Seq(Record)
    BY DEF TypeInv, RecordType
  <2> QED
    BY <2>1, LenProperties, ElementOfSeq
<1>3. Len(wakes') = Len(wakes)
  <2>1. Len(wakes') \in Nat /\ DOMAIN wakes' = 1..Len(wakes')
    BY <1>2, LenProperties
  <2>2. DOMAIN wakes' = 1..Len(wakes)
    BY <1>1
  <2>3. ASSUME NEW a \in Nat, NEW b \in Nat, 1..a = 1..b PROVE a = b
    <3>1. a \in 1..a <=> a \in 1..b
      BY <2>3
    <3>2. b \in 1..a <=> b \in 1..b
      BY <2>3
    <3> QED
      BY <3>1, <3>2
  <2> QED
    BY <1>2, <2>1, <2>2, <2>3
<1>4. ASSUME NEW j \in 1..Len(wakes)
      PROVE  /\ wakes'[j].number = wakes[j].number
             /\ wakes'[j].orchestrator = wakes[j].orchestrator
  <2>1. wakes[j] \in Record
    BY <1>2
  <2>2. CASE IsOldest(j, OpenRecords(o))
    <3>1. wakes'[j] = [wakes[j] EXCEPT !.endedBy = {end}]
      BY <1>1, <2>2
    <3> QED
      BY <2>1, <3>1 DEF Record
  <2>3. CASE ~IsOldest(j, OpenRecords(o))
    BY <1>1, <2>3
  <2> QED
    BY <2>2, <2>3
<1>5. ASSUME NEW j \in 1..Len(wakes), IsOldest(j, OpenRecords(o)) PROVE wakes'[j].endedBy = {end}
  <2>1. wakes'[j] = [wakes[j] EXCEPT !.endedBy = {end}] /\ wakes[j] \in Record
    BY <1>1, <1>2, <1>5
  <2> QED
    BY <2>1 DEF Record
<1>13. ASSUME NEW j \in 1..Len(wakes), ~IsOldest(j, OpenRecords(o)) PROVE wakes'[j] = wakes[j]
  BY <1>1, <1>13
<1>6. \A p : RecordsOf(p)' = RecordsOf(p) /\ RecordsOf(p) \subseteq 1..Len(wakes)
  BY <1>3, <1>4 DEF RecordsOf
<1>7. \A p : p # o => \A j \in RecordsOf(p) : ~IsOldest(j, OpenRecords(o))
  BY DEF RecordsOf, OpenRecords, IsOldest
<1>8. \A p : \A j \in RecordsOf(p) : j \in 1..Len(wakes)
  BY <1>6
<1>9. \A p : \A j \in RecordsOf(p) : wakes'[j].number = wakes[j].number
  BY <1>4, <1>8
<1>10. \A p : p # o => \A j \in RecordsOf(p) : wakes'[j] = wakes[j]
  BY <1>7, <1>8, <1>13
<1>11. \A j \in RecordsOf(o) : ~IsOldest(j, OpenRecords(o)) => wakes'[j] = wakes[j]
  BY <1>8, <1>13
<1>12. \A j \in RecordsOf(o) : IsOldest(j, OpenRecords(o)) => wakes'[j].endedBy = {end}
  BY <1>5, <1>8
<1> QED
  BY <1>6, <1>9, <1>10, <1>11, <1>12

\* EndWake: the oldest open record is one whose turn is over.
LEMMA EndWakes ==
  ASSUME TypeInv, TypeInv', NEW o \in Orchestrators, WakeInv(o),
         NEW i \in 1..Len(closing[o]), EndWake(o, i)
  PROVE  WakeInv(o)'
<1>1. /\ closing' = [closing EXCEPT ![o] = SubSeq(@, 1, i - 1) \o SubSeq(@, i + 1, Len(@))]
      /\ UNCHANGED <<sending, mistaken, turn, ending, shown, messages>>
  BY DEF EndWake, notices, agents, bounds
<1>2. /\ RecordsOf(o)' = RecordsOf(o) /\ \A j \in RecordsOf(o) : wakes'[j].number = wakes[j].number
      /\ \A j \in RecordsOf(o) : ~IsOldest(j, OpenRecords(o)) => wakes'[j] = wakes[j]
  BY EndRecord
<1>3. PICK end \in Ends(o, i) : \A j \in RecordsOf(o) : IsOldest(j, OpenRecords(o)) => wakes'[j].endedBy = {end}
  BY EndRecord
<1>4. Ordered(o)'
  BY <1>1, <1>2 DEF WakeInv, Ordered, NextNumber
<1>5. TurnsOf(o)'
  BY <1>1 DEF WakeInv, TurnsOf, NextTurn
<1>6. ShownOf(o)'
  BY <1>1, <1>2 DEF WakeInv, ShownOf
<1>7. ASSUME o \notin mistaken PROVE Covered(o)' /\ EndedAfter(o)'
  <2>1. Len(closing'[o]) = Len(closing[o]) - 1 /\ Len(closing[o]) \in Nat /\ Len(closing[o]) >= 1
    <3>1. closing[o] \in Seq(0..MaxMessages)
      BY DEF TypeInv, RecordType
    <3>2. closing'[o] = SubSeq(closing[o], 1, i - 1) \o SubSeq(closing[o], i + 1, Len(closing[o]))
      BY <1>1 DEF TypeInv, RecordType
    <3>3. Len(closing'[o]) = Len(closing[o]) - 1
      BY <3>1, <3>2, OneLess
    <3> QED
      BY <3>3, WakeTypes
  <2>2. Covered(o) /\ EndedAfter(o)
    BY <1>7 DEF WakeInv
  <2>3. OpenRecords(o)' = {j \in OpenRecords(o) : ~IsOldest(j, OpenRecords(o))}
    <3>1. OpenRecords(o)' = {j \in RecordsOf(o)' : wakes'[j].endedBy = {}}
      BY DEF OpenRecords, RecordsOf
    <3>2. \A j \in RecordsOf(o) : IsOldest(j, OpenRecords(o)) => wakes'[j].endedBy # {}
      BY <1>3
    <3> QED
      BY <1>2, <3>1, <3>2, OpenOnes
  <2>4. Told(o)' = Told(o)
    <3>1. \A t : Recorded(o, t)' <=> \E j \in RecordsOf(o)' : wakes'[j].number = t
      BY DEF Recorded, RecordsOf
    <3>2. \A t : Recorded(o, t)' <=> Recorded(o, t)
      BY <1>2, <3>1, OpenOnes
    <3> QED
      BY <1>1, <3>2 DEF Told
  <2>5. Over(o)' = {j \in Over(o) : ~IsOldest(j, OpenRecords(o))}
    <3>1. \A j \in OpenRecords(o) : wakes'[j].number = wakes[j].number
      BY <1>2, OpenOnes
    <3> QED
      BY <1>1, <2>3, <3>1 DEF Over
  <2>6. CASE ~\E k \in OpenRecords(o) : IsOldest(k, OpenRecords(o))
    <3>1. \A j : ~IsOldest(j, OpenRecords(o))
      BY <2>6 DEF IsOldest
    <3>2. Over(o)' = Over(o)
      BY <2>5, <3>1
    <3>3. Len(closing'[o]) <= Len(closing[o])
      BY <2>1
    <3>4. Covered(o)'
      BY <2>2, <2>4, <3>2, <3>3, CoverKept
    <3>5. EndedAfter(o)'
      BY <1>1, <1>2, <2>2, <3>1 DEF EndedAfter
    <3> QED
      BY <3>4, <3>5
  <2>7. ASSUME NEW k \in OpenRecords(o), IsOldest(k, OpenRecords(o)) PROVE Covered(o)' /\ EndedAfter(o)'
    <3>1. Over(o) # {}
      <4>1. Cardinality(Over(o)) # 0
        BY <2>1, <2>2, FiniteWakes DEF Covered
      <4> QED
        BY <4>1, FiniteWakes, FS_EmptySet
    <3>2. PICK j \in Over(o) : TRUE
      BY <3>1
    <3>3. /\ k \in RecordsOf(o) /\ j \in RecordsOf(o) /\ j \in OpenRecords(o) /\ k <= j
          /\ wakes[j].number # turn[o]
      BY <2>7, <3>2, OpenOnes DEF Over, IsOldest
    <3>4. /\ k \in Nat /\ j \in Nat /\ wakes[k].number \in Nat /\ wakes[j].number \in Nat
          /\ wakes[j].number # 0 /\ wakes[k].number # 0 /\ Idle = 0 /\ turn[o] \in Nat
      BY <3>3, WakeTypes
    <3>5. wakes[k].number <= wakes[j].number
      <4>1. k < j => wakes[k].number < wakes[j].number
        BY <3>3 DEF WakeInv, Ordered
      <4> QED
        BY <3>3, <3>4, <4>1
    <3>6. wakes[k].number # turn[o]
      <4>1. turn[o] # Idle => wakes[j].number <= turn[o]
        BY <3>3 DEF WakeInv, ShownOf
      <4> QED
        BY <3>3, <3>4, <3>5, <4>1
    <3>7. Over(o)' = Over(o) \ {k} /\ k \in Over(o)
      <4>1. \A l \in OpenRecords(o) : IsOldest(l, OpenRecords(o)) => l = k
        <5>1. \A l \in OpenRecords(o) : l \in Nat
          BY OpenOnes, WakeTypes
        <5> QED
          BY <2>7, <5>1 DEF IsOldest
      <4>2. \A l \in Over(o) : l \in OpenRecords(o)
        BY DEF Over
      <4>3. k \in Over(o)
        BY <3>6 DEF Over
      <4> QED
        BY <2>5, <2>7, <4>1, <4>2, <4>3
    <3>8. Covered(o)'
      <4>1. Cardinality(Over(o)') = Cardinality(Over(o)) - 1
        BY <3>7, FiniteWakes, FS_RemoveElement
      <4> QED
        BY <2>1, <2>2, <2>4, <4>1, FiniteWakes DEF Covered
    <3>9. end.usage = Idle \/ end.usage >= wakes[k].number
      <4>1. wakes[k].number <= shown[o]
        BY <3>3, <3>6 DEF WakeInv, ShownOf
      <4>2. end.usage \in {Idle, shown[o]}
        BY <1>3 DEF Ends
      <4> QED
        BY <3>4, <4>1, <4>2, WakeTypes
    <3>10. EndedAfter(o)'
      <4> SUFFICES ASSUME NEW l \in RecordsOf(o), wakes'[l].endedBy # {}
                   PROVE  /\ turn[o] # wakes[l].number
                          /\ \A x \in wakes'[l].endedBy : x.usage = Idle \/ x.usage >= wakes[l].number
        BY <1>1, <1>2 DEF EndedAfter
      <4>1. CASE IsOldest(l, OpenRecords(o))
        <5>1. l = k
          <6>1. l \in Nat /\ l \in OpenRecords(o)
            BY <4>1, WakeTypes DEF IsOldest
          <6> QED
            BY <2>7, <3>4, <4>1, <6>1 DEF IsOldest
        <5> QED
          BY <1>3, <3>6, <3>9, <4>1, <5>1
      <4>2. CASE ~IsOldest(l, OpenRecords(o))
        BY <1>2, <2>2, <4>2 DEF EndedAfter
      <4> QED
        BY <4>1, <4>2
    <3> QED
      BY <3>8, <3>10
  <2> QED
    BY <2>6, <2>7
<1> QED
  BY <1>1, <1>4, <1>5, <1>6, <1>7 DEF WakeInv

\* Reload: no lookup is left and no turn end is to be told of.
LEMMA ReloadWakes ==
  ASSUME TypeInv, TypeInv', NEW o \in Orchestrators, WakeInv(o), Reload
  PROVE  WakeInv(o)'
<1>1. /\ sending'[o] = NoMessage /\ ending'[o] = {} /\ closing'[o] = <<>>
      /\ UNCHANGED <<wakes, mistaken, turn, shown, messages>> /\ RecordsOf(o)' = RecordsOf(o)
  BY DEF Reload, RecordsOf
<1>2. /\ messages \in Nat /\ sending[o].number \in Nat /\ turn[o] \in Nat /\ ~NoMessage.arrived
      /\ \A i \in RecordsOf(o) : wakes[i].number \in Nat
  BY WakeTypes, NoMessageType
<1>3. /\ NextNumber(o) <= messages + 1 /\ NextTurn(o) <= messages + 1
      /\ NextNumber(o) \in Nat /\ NextTurn(o) \in Nat
  BY <1>2 DEF WakeInv, Ordered, NextNumber, NextTurn
<1>4. Ordered(o)'
  <2>1. \A i \in RecordsOf(o) : wakes[i].number < messages + 1
    BY <1>2, <1>3 DEF WakeInv, Ordered
  <2> QED
    BY <1>1, <2>1 DEF WakeInv, Ordered, NextNumber
<1>5. TurnsOf(o)'
  <2>1. turn[o] = Owner \/ turn[o] < messages + 1
    BY <1>2, <1>3 DEF WakeInv, TurnsOf
  <2> QED
    BY <1>1, <1>2, <2>1 DEF TurnsOf, NextTurn
<1>6. ShownOf(o)'
  BY <1>1, <1>2 DEF WakeInv, ShownOf
<1>7. Covered(o)'
  <2>1. Told(o)' = {} /\ Len(closing'[o]) = 0
    BY <1>1 DEF Told
  <2>2. Cardinality(Told(o)') = 0
    BY <2>1, FS_EmptySet
  <2> QED
    BY <2>1, <2>2, FiniteNext DEF Covered
<1>8. EndedAfter(o)' = EndedAfter(o)
  BY <1>1 DEF EndedAfter
<1> QED
  BY <1>1, <1>4, <1>5, <1>6, <1>7, <1>8 DEF WakeInv

LEMMA InitWakes ==
  ASSUME TypeInv, Init, NEW o \in Orchestrators
  PROVE  WakeInv(o)
<1>1. /\ sending[o] = NoMessage /\ ending[o] = {} /\ closing[o] = <<>> /\ wakes = <<>>
      /\ turn[o] = Idle /\ messages = 0 /\ ~NoMessage.arrived
  BY NoMessageType DEF Init
<1>2. RecordsOf(o) = {}
  BY <1>1 DEF RecordsOf
<1>3. Ordered(o) /\ TurnsOf(o) /\ ShownOf(o) /\ EndedAfter(o)
  BY <1>1, <1>2 DEF Ordered, TurnsOf, ShownOf, EndedAfter, NextTurn, Idle
<1>4. Covered(o)
  <2>1. Told(o) = {} /\ Len(closing[o]) = 0
    BY <1>1 DEF Told
  <2>2. Cardinality(Told(o)) = 0
    BY <2>1, FS_EmptySet
  <2> QED
    BY <2>1, <2>2, FiniteWakes DEF Covered
<1> QED
  BY <1>3, <1>4 DEF WakeInv

\* A step of another Orchestrator's.
LEMMA OtherWakes ==
  ASSUME TypeInv, TypeInv', NEW o \in Orchestrators, NEW p \in Orchestrators, p # o,
         WakeInv(p), Delivering(o)
  PROVE  WakeInv(p)'
<1>1. /\ sending'[p] = sending[p] /\ turn'[p] = turn[p] /\ shown'[p] = shown[p]
      /\ ending'[p] = ending[p] /\ closing'[p] = closing[p]
      /\ messages' \in {messages, messages + 1} /\ mistaken \subseteq mistaken'
  <2> USE DEF TypeInv, BusType, RecordType
  <2>1. ASSUME NEW g \in SUBSET Missions, NEW s \in SUBSET Events, Send(o, g, s) PROVE <1>1!:
    BY <2>1 DEF Send, records, agents
  <2>2. CASE Arrive(o)
    BY <2>2 DEF Arrive, records, bounds
  <2>3. CASE Sent(o)
    BY <2>3 DEF Sent, agents, bounds
  <2>4. CASE SendFails(o)
    BY <2>4 DEF SendFails, records, agents, bounds
  <2>5. CASE OwnerTurn(o) \/ TurnEnds(o)
    BY <2>5 DEF OwnerTurn, TurnEnds, notices, records, bounds
  <2>6. ASSUME NEW t \in ending[o], TurnEnded(o, t) PROVE <1>1!:
    BY <2>6 DEF TurnEnded, bounds
  <2>7. ASSUME NEW i \in 1..Len(closing[o]), EndWake(o, i) PROVE <1>1!:
    BY <2>7 DEF EndWake, notices, agents, bounds
  <2> QED
    BY <2>1, <2>2, <2>3, <2>4, <2>5, <2>6, <2>7 DEF Delivering
<1>2. RecordsOf(p)' = RecordsOf(p) /\ \A i \in RecordsOf(p) : wakes'[i] = wakes[i]
  <2>1. CASE wakes' = wakes
    BY <2>1 DEF RecordsOf
  <2>2. CASE Sent(o)
    BY <2>2, SentRecord
  <2>3. ASSUME NEW i \in 1..Len(closing[o]), EndWake(o, i)
        PROVE  RecordsOf(p)' = RecordsOf(p) /\ \A j \in RecordsOf(p) : wakes'[j] = wakes[j]
    BY <2>3, EndRecord
  <2>4. ASSUME \/ \E g \in SUBSET Missions, s \in SUBSET Events : Send(o, g, s)
               \/ Arrive(o) \/ SendFails(o) \/ OwnerTurn(o) \/ TurnEnds(o)
               \/ \E t \in ending[o] : TurnEnded(o, t)
        PROVE  wakes' = wakes
    BY <2>4 DEF Send, Arrive, SendFails, OwnerTurn, TurnEnds, TurnEnded, records
  <2> QED
    BY <2>1, <2>2, <2>3, <2>4 DEF Delivering
<1>3. messages <= messages'
  BY <1>1, WakeTypes
<1> QED
  BY <1>1, <1>2, <1>3, SameWakes

LEMMA WakeStep ==
  ASSUME TypeInv, NEW o \in Orchestrators, WakeInv(o), [Next]_vars
  PROVE  WakeInv(o)'
<1>1. TypeInv'
  BY TypeStep
<1>2. ASSUME UNCHANGED <<sending, records, agents, messages>> PROVE WakeInv(o)'
  <2>1. UNCHANGED <<sending, messages, closing, wakes, mistaken, turn, ending, shown>>
    BY <1>2 DEF records, agents
  <2>2. messages <= messages' /\ RecordsOf(o)' = RecordsOf(o)
    BY <2>1, WakeTypes DEF RecordsOf
  <2> QED
    BY <1>1, <2>1, <2>2, SameWakes
<1>3. ASSUME NEW c \in Calls, Publishing(c) PROVE UNCHANGED <<sending, records, agents, messages>>
  BY <1>3 DEF Publishing, Publish, NoOrchestrator, FindFails, Enqueue, Answered, notices, bounds
<1>4. ASSUME Tick \/ (\E e \in Backups : BackupDue(e)) \/ UNCHANGED vars
      PROVE  UNCHANGED <<sending, records, agents, messages>>
  BY <1>4 DEF Tick, BackupDue, vars, notices, bounds
<1>5. ASSUME NEW p \in Orchestrators, Delivering(p) PROVE WakeInv(o)'
  <2>1. CASE p # o
    BY <1>1, <1>5, <2>1, OtherWakes
  <2>2. CASE p = o
    BY <1>1, <1>5, <2>2, SendWakes, ArriveWakes, SentWakes, SendFailsWakes, OwnerWakes,
       TurnEndsWakes, TurnEndedWakes, EndWakes DEF Delivering
  <2> QED
    BY <2>1, <2>2
<1> QED
  BY <1>1, <1>2, <1>3, <1>4, <1>5, ReloadWakes DEF Next

\* The record of a wake ends only after the wake's own turn and with nothing
\* older, whatever sends fail, hooks and lookups are late and reloads happen, but
\* where the end of a turn that has no record was taken for a wake's.
THEOREM RecordsEndAfterTurns == Spec => []EndsAfterItsTurn
<1> DEFINE Inv == TypeInv /\ \A o \in Orchestrators : WakeInv(o)
<1>1. Init => Inv
  BY BusTypeInit, InitWakes DEF TypeInv
<1>2. Inv /\ [Next]_vars => Inv'
  BY TypeStep, WakeStep
<1>3. Inv => EndsAfterItsTurn
  <2> SUFFICES ASSUME Inv, NEW i \in 1..Len(wakes), wakes[i].endedBy # {},
                      wakes[i].orchestrator \notin mistaken
               PROVE  /\ turn[wakes[i].orchestrator] # wakes[i].number
                      /\ \A end \in wakes[i].endedBy : end.usage = Idle \/ end.usage >= wakes[i].number
    BY DEF EndsAfterItsTurn
  <2> DEFINE o == wakes[i].orchestrator
  <2>1. o \in Orchestrators
    <3>1. wakes \in Seq(Record)
      BY DEF TypeInv, RecordType
    <3>2. wakes[i] \in Record
      BY <3>1, ElementOfSeq
    <3> QED
      BY <3>2 DEF Record
  <2>2. i \in RecordsOf(o)
    BY DEF RecordsOf
  <2> QED
    BY <2>1, <2>2 DEF WakeInv, EndedAfter
<1> HIDE DEF Inv
<1> QED
  BY <1>1, <1>2, <1>3, PTL DEF Spec
=============================================================================
