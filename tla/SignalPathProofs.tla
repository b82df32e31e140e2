-------------------------- MODULE SignalPathProofs --------------------------
(***************************************************************************)
(* Proofs about the way of a signal, for every set of orders and workers,  *)
(* every topic, queue and channel size and retry bound, and everything     *)
(* that may go wrong.                                                      *)
(*                                                                         *)
(*  - TypeInv: the types, and that a worker past the insert has an order.  *)
(*  - EntryInv: what makes "a second entry only after a lost result"       *)
(*    inductive, and with it that a cancelled order is never opened.       *)
(*  - ExitInv: who is to register an order with a manager, from its        *)
(*    routing to its fill.                                                 *)
(*                                                                         *)
(* EntryInv and ExitInv speak of one order at a time; a step changes what  *)
(* is known of the order it is about, and is apart from all others.        *)
(***************************************************************************)
EXTENDS SignalPath, TLAPS

-----------------------------------------------------------------------------
\* A busy worker has a message, and one past the insert has an order.
WorkOK ==
    \A w \in Workers :
        /\ work[w].pc # "idle" => work[w].off # 0
        /\ work[w].pc \in {"route", "execute", "placed"} => Message(w) # Malformed

(***************************************************************************)
(* The two ways of writing a row.                                          *)
(***************************************************************************)
LEMMA UpdateTypes ==
    ASSUME MonitorTypeOK, NEW o \in Orders, NEW st \in Statuses, NEW id \in BOOLEAN,
           Update(o, st, id) \/ UpdateStatus(o, st)
    PROVE  /\ row' \in [Orders -> RowRecords]
           /\ \A x \in Orders \ {o} : row'[x] = row[x]
           /\ \/ row'[o] = row[o]
              \/ Update(o, st, id) /\ row'[o] = [status |-> st, brokerId |-> id]
              \/ UpdateStatus(o, st) /\ row'[o] = [row[o] EXCEPT !.status = st]
<1>1. row \in [Orders -> RowRecords]
  BY DEF MonitorTypeOK
<1>2. ASSUME NEW r \in RowRecords, row' = [row EXCEPT ![o] = r]
      PROVE  /\ row' \in [Orders -> RowRecords] /\ row'[o] = r
             /\ \A x \in Orders \ {o} : row'[x] = row[x]
  BY <1>1, <1>2
<1>3. [status |-> st, brokerId |-> id] \in RowRecords
  BY DEF RowRecords
<1>4. [row[o] EXCEPT !.status = st] \in RowRecords
  BY <1>1 DEF RowRecords
<1>5. CASE row' = row
  BY <1>1, <1>5
<1>6. CASE Update(o, st, id)
  BY <1>2, <1>3, <1>5, <1>6 DEF Update
<1>7. CASE UpdateStatus(o, st)
  <2>1. CASE row' = [row EXCEPT ![o].status = st]
    <3> DEFINE r == [row[o] EXCEPT !.status = st]
    <3>1. row' = [row EXCEPT ![o] = r]
      BY <1>1, <2>1
    <3>2. r \in RowRecords
      BY <1>4
    <3> HIDE DEF r
    <3> QED BY <1>2, <1>7, <3>1, <3>2 DEF r
  <2> QED BY <1>5, <1>7, <2>1 DEF UpdateStatus
<1> QED BY <1>6, <1>7

(***************************************************************************)
(* What ExecuteOrder may do to the rows and the broker's books.            *)
(***************************************************************************)
LEMMA AcceptedTypes ==
    ASSUME MonitorTypeOK, NEW o \in Orders, Accepted(o) \/ Refused(o)
    PROVE  /\ row' \in [Orders -> RowRecords]
           /\ placed' \in [Orders -> Nat] /\ lost' \in [Orders -> Nat]
           /\ writing' \subseteq Orders /\ open' \subseteq Orders
<1>1. /\ row \in [Orders -> RowRecords]
      /\ placed \in [Orders -> Nat] /\ lost \in [Orders -> Nat]
      /\ writing \subseteq Orders /\ open \subseteq Orders
  BY DEF MonitorTypeOK
<1>2. CASE Accepted(o)
  <2>1. row' \in [Orders -> RowRecords]
    <3>1. Update(o, "FILLED", TRUE) \/ row' = row
      BY <1>2 DEF Accepted
    <3> QED BY <1>1, <3>1, UpdateTypes DEF Statuses
  <2>2. placed' = [placed EXCEPT ![o] = placed[o] + 1] /\ lost' = lost
    BY <1>2 DEF Accepted
  <2>3. writing' \subseteq writing \union {o} /\ open' \subseteq open \union {o}
    BY <1>2 DEF Accepted
  <2> QED BY <1>1, <2>1, <2>2, <2>3
<1>3. CASE Refused(o)
  <2>1. /\ \/ placed' = placed /\ lost' = lost
           \/ /\ placed' = [placed EXCEPT ![o] = placed[o] + 1]
              /\ lost' = [lost EXCEPT ![o] = lost[o] + 1]
        /\ row' = row /\ writing' = writing /\ open' = open
    BY <1>3 DEF Refused
  <2>2. placed[o] + 1 \in Nat /\ lost[o] + 1 \in Nat
    BY <1>1
  <2> QED BY <1>1, <2>1, <2>2
<1> QED BY <1>2, <1>3

(***************************************************************************)
(* Setting the flag of a watch entry.                                      *)
(***************************************************************************)
LEMMA FlagTypes ==
    ASSUME MonitorTypeOK, NEW o \in Orders,
           entry' = [entry EXCEPT ![o].triggered = TRUE]
    PROVE  /\ entry' \in [Orders -> EntryRecords]
           /\ entry'[o] = [entry[o] EXCEPT !.triggered = TRUE]
           /\ entry'[o].triggered = TRUE /\ entry'[o].after = entry[o].after
           /\ \A x \in Orders \ {o} : entry'[x] = entry[x]
<1> DEFINE e == [entry[o] EXCEPT !.triggered = TRUE]
<1>1. entry \in [Orders -> EntryRecords]
  BY DEF MonitorTypeOK
<1>2. e \in EntryRecords /\ e.triggered = TRUE /\ e.after = entry[o].after
  BY <1>1 DEF EntryRecords
<1>3. entry' = [entry EXCEPT ![o] = e]
  BY <1>1
<1> HIDE DEF e
<1> QED BY <1>1, <1>2, <1>3 DEF e

(***************************************************************************)
(* Every step of the monitor keeps its types.                              *)
(***************************************************************************)
LEMMA MonitorTypes ==
    ASSUME MonitorTypeOK, MonitorNext
    PROVE  MonitorTypeOK'
<1>1. ASSUME NEW j \in Jobs, TakeJob(j) PROVE MonitorTypeOK'
  BY <1>1 DEF TakeJob, MonitorTypeOK, brokerVars, exitVars
<1>2. ASSUME NEW j \in Jobs, Overshoot(j) PROVE MonitorTypeOK'
  <2>1. j.order \in Orders
    BY DEF Jobs
  <2>2. entry' \in [Orders -> EntryRecords]
    BY <1>2, <2>1, FlagTypes DEF Overshoot
  <2> QED BY <1>2, <2>1, <2>2 DEF Overshoot, MonitorTypeOK, brokerVars, exitVars
<1>3. ASSUME NEW j \in Jobs, Claim(j) PROVE MonitorTypeOK'
  <2>1. j.order \in Orders
    BY DEF Jobs
  <2>2. CASE entry' = entry /\ trig' = trig
    BY <1>3, <2>2 DEF Claim, MonitorTypeOK, brokerVars, exitVars
  <2>3. CASE /\ entry' = [entry EXCEPT ![j.order].triggered = TRUE]
             /\ trig' = [trig EXCEPT ![j.order] = "check"]
    <3>1. entry' \in [Orders -> EntryRecords]
      BY <2>1, <2>3, FlagTypes
    <3> QED BY <1>3, <2>1, <2>3, <3>1 DEF Claim, MonitorTypeOK, brokerVars, exitVars
  <2> QED BY <1>3, <2>2, <2>3 DEF Claim
<1>4. ASSUME NEW o \in Orders, CheckRow(o) PROVE MonitorTypeOK'
  BY <1>4 DEF CheckRow, MonitorTypeOK, brokerVars, exitVars
<1>5. ASSUME NEW o \in Orders, TriggerPlaces(o) PROVE MonitorTypeOK'
  <2>1. Accepted(o)
    BY <1>5 DEF TriggerPlaces
  <2>2. /\ trig' \in [Orders -> {"idle", "check", "execute", "placed", "failed"}]
        /\ manager' \in [Orders -> {"none", "oco", "ml", "bracket"}]
    BY <1>5 DEF TriggerPlaces, MonitorTypeOK
  <2> QED BY <1>5, <2>1, <2>2, AcceptedTypes DEF TriggerPlaces, MonitorTypeOK, evalVars
<1>6. ASSUME NEW o \in Orders, TriggerRefused(o) PROVE MonitorTypeOK'
  <2>1. Refused(o)
    BY <1>6 DEF TriggerRefused
  <2> QED BY <1>6, <2>1, AcceptedTypes
          DEF TriggerRefused, MonitorTypeOK, evalVars, exitVars
<1>7. ASSUME NEW o \in Orders, TriggerDone(o) PROVE MonitorTypeOK'
  <2>1. entry[o].after \in {"none", "oco", "ml"}
    BY DEF MonitorTypeOK, EntryRecords
  <2> QED BY <1>7, <2>1 DEF TriggerDone, MonitorTypeOK, brokerVars
<1>8. ASSUME NEW o \in Orders, TriggerFails(o) PROVE MonitorTypeOK'
  <2>1. row' \in [Orders -> RowRecords]
    BY <1>8, UpdateTypes DEF TriggerFails, Statuses
  <2>2. entry' \in [Orders -> EntryRecords]
    <3> DEFINE last == entry[o].attempts + 1 >= MaxTriggerAttempts
    <3>0. last \in BOOLEAN
      OBVIOUS
    <3>1. entry' = [entry EXCEPT ![o].attempts = entry[o].attempts + 1, ![o].triggered = last]
      BY <1>8 DEF TriggerFails
    <3> HIDE DEF last
    <3>2. entry \in [Orders -> EntryRecords]
      BY DEF MonitorTypeOK
    <3> DEFINE e1 == [entry[o] EXCEPT !.attempts = entry[o].attempts + 1]
               e == [e1 EXCEPT !.triggered = last]
    <3>3. e \in EntryRecords
      <4>1. entry[o] \in EntryRecords
        BY <3>2
      <4>2. e1 \in EntryRecords
        BY <4>1 DEF EntryRecords
      <4> HIDE DEF e1
      <4> QED BY <3>0, <4>2 DEF EntryRecords
    <3>4. entry' = [entry EXCEPT ![o] = e]
      BY <3>1, <3>2
    <3> HIDE DEF e
    <3> QED BY <3>2, <3>3, <3>4
  <2> QED BY <1>8, <2>1, <2>2
          DEF TriggerFails, MonitorTypeOK, brokerVars, exitVars
<1>9. ASSUME NEW o \in Orders, DropExceeded(o) PROVE MonitorTypeOK'
  <2>1. row' \in [Orders -> RowRecords]
    BY <1>9, UpdateTypes DEF DropExceeded, Statuses
  <2> QED BY <1>9, <2>1 DEF DropExceeded, MonitorTypeOK, brokerVars, exitVars
<1>10. ASSUME NEW o \in Orders, CancelWatch(o) PROVE MonitorTypeOK'
  <2>1. row' \in [Orders -> RowRecords]
    BY <1>10, UpdateTypes DEF CancelWatch, Statuses
  <2> QED BY <1>10, <2>1 DEF CancelWatch, MonitorTypeOK, brokerVars, exitVars
<1>11. ASSUME NEW o \in Orders, WriteSubmitted(o) PROVE MonitorTypeOK'
  <2>1. row' \in [Orders -> RowRecords] /\ lost' \in [Orders -> Nat]
    <3> DEFINE r == [status |-> "SUBMITTED", brokerId |-> TRUE]
    <3>1. row \in [Orders -> RowRecords] /\ lost \in [Orders -> Nat]
      BY DEF MonitorTypeOK
    <3>2. r \in RowRecords
      BY DEF RowRecords, Statuses
    <3>3. \/ row' = [row EXCEPT ![o] = r] /\ lost' = lost
          \/ row' = row /\ lost' = [lost EXCEPT ![o] = lost[o] + 1]
      BY <1>11 DEF WriteSubmitted
    <3> HIDE DEF r
    <3> QED BY <3>1, <3>2, <3>3
  <2> QED BY <1>11, <2>1 DEF WriteSubmitted, MonitorTypeOK, evalVars, exitVars
<1>12. ASSUME NEW o \in Orders, NEW ltp \in Zones, Tick(o, ltp) PROVE MonitorTypeOK'
  <2>1. [order |-> o, ltp |-> ltp] \in Jobs
    BY DEF Jobs
  <2> QED BY <1>12, <2>1 DEF Tick, MonitorTypeOK, brokerVars, exitVars
<1> QED
  BY <1>1, <1>2, <1>3, <1>4, <1>5, <1>6, <1>7, <1>8, <1>9, <1>10, <1>11, <1>12
     DEF MonitorNext, EvaluateEntry, ActOn, TriggerOrder

(***************************************************************************)
(* The parts of TypeOK outside the monitor.                                *)
(***************************************************************************)
SignalTypeOK ==
    /\ topic \in Seq(Orders \union {Malformed})
    /\ position \in 1..Len(topic) + 1 /\ committed \in 0..Len(topic) + 1
    /\ queue \in Seq(1..Len(topic)) /\ Len(queue) <= QueueCap
    /\ work \in [Workers -> WorkRecords]
    /\ closing \in {"no", "started", "done"} /\ restarted \in BOOLEAN

TypeInv == MonitorTypeOK /\ SignalTypeOK /\ WorkOK

\* The initial states are well typed.
LEMMA SignalInit == Init => TypeInv
<1> SUFFICES ASSUME Init PROVE TypeInv
  OBVIOUS
<1>1. PICK c \in Cases : scenario = c.hazards /\ kind = c.kinds /\ topic = c.topic
  BY DEF Init
<1>2. MonitorTypeOK
  <2>1. NoRow \in RowRecords /\ NewEntry(FALSE, "none") \in EntryRecords
    BY DEF NoRow, NewEntry, RowRecords, EntryRecords, Statuses
  <2> QED BY <1>1, <2>1, MonitorAssumption DEF Init, MonitorInit, MonitorTypeOK
<1>3. topic \in Seq(Orders \union {Malformed}) /\ Len(topic) \in Nat
  BY <1>1, SignalAssumption
<1>4. work \in [Workers -> WorkRecords]
  <2>1. Idle \in WorkRecords
    BY <1>3 DEF Idle, WorkRecords
  <2> QED BY <2>1 DEF Init
<1>5. SignalTypeOK
  <2>1. /\ position \in 1..Len(topic) + 1 /\ committed \in 0..Len(topic) + 1
        /\ closing \in {"no", "started", "done"}
    <3>1. position = 1 /\ committed = 0 /\ closing = "no"
      BY DEF Init
    <3>2. Len(topic) \in Nat
      BY <1>3
    <3> QED BY <3>1, <3>2
  <2>2. queue \in Seq(1..Len(topic)) /\ Len(queue) <= QueueCap
    BY SignalAssumption DEF Init
  <2>3. restarted \in BOOLEAN
    BY DEF Init
  <2> QED BY <1>3, <1>4, <2>1, <2>2, <2>3 DEF SignalTypeOK
<1>6. WorkOK
  BY DEF Init, WorkOK, Idle
<1> QED BY <1>2, <1>5, <1>6 DEF TypeInv

\* The message of a worker that is past the insert.
LEMMA MessageIsOrder ==
    ASSUME TypeInv, NEW w \in Workers,
           \/ work[w].pc \in {"route", "execute", "placed"}
           \/ work[w].pc = "insert" /\ Message(w) # Malformed
    PROVE  Message(w) \in Orders
<1>1. work[w] \in WorkRecords /\ topic \in Seq(Orders \union {Malformed})
  BY DEF TypeInv, SignalTypeOK
<1>2. work[w].off # 0 /\ Message(w) # Malformed
  BY DEF TypeInv, WorkOK
<1>3. work[w].off \in 0..Len(topic)
  BY <1>1 DEF WorkRecords
<1>4. work[w].off \in 1..Len(topic)
  <2>1. Len(topic) \in Nat
    BY <1>1
  <2> QED BY <1>2, <1>3, <2>1
<1> QED BY <1>1, <1>2, <1>4 DEF Message

\* A step of one worker.
LEMMA WorkerStepTypes ==
    ASSUME TypeInv, NEW w \in Workers, topic' = topic, NEW rec \in WorkRecords,
           work' = [work EXCEPT ![w] = rec],
           rec.pc # "idle" => rec.off # 0,
           rec.pc \in {"route", "execute", "placed"} => topic[rec.off] # Malformed
    PROVE  work' \in [Workers -> WorkRecords] /\ WorkOK'
<1>1. work \in [Workers -> WorkRecords] /\ WorkOK
  BY DEF TypeInv, SignalTypeOK
<1>2. work' \in [Workers -> WorkRecords]
  BY <1>1
<1>3. \A x \in Workers : work'[x] = IF x = w THEN rec ELSE work[x]
  BY <1>1
<1>4. WorkOK'
  BY <1>1, <1>3 DEF WorkOK, Message
<1> QED BY <1>2, <1>4

\* The steps that move a worker on, or end its message.
LEMMA GoToTypes ==
    ASSUME TypeInv, NEW w \in Workers, topic' = topic, work[w].pc # "idle",
           \/ GiveUp(w)
           \/ GoTo(w, "commit")
           \/ GoTo(w, "route") /\ Message(w) # Malformed
           \/ GoTo(w, "placed") /\ Message(w) # Malformed
    PROVE  work' \in [Workers -> WorkRecords] /\ WorkOK'
<1>1. work \in [Workers -> WorkRecords] /\ work[w] \in WorkRecords /\ work[w].off # 0
  BY DEF TypeInv, SignalTypeOK, WorkOK
<1>2. CASE GiveUp(w)
  <2>1. Idle \in WorkRecords /\ Idle.pc = "idle"
    <3>1. Len(topic) \in Nat
      BY DEF TypeInv, SignalTypeOK
    <3> QED BY <3>1 DEF Idle, WorkRecords
  <2> QED BY <1>2, <2>1, WorkerStepTypes DEF GiveUp
<1>3. ASSUME NEW pc \in {"commit", "route", "placed"}, GoTo(w, pc),
             pc # "commit" => Message(w) # Malformed
      PROVE  work' \in [Workers -> WorkRecords] /\ WorkOK'
  <2> DEFINE rec == [work[w] EXCEPT !.pc = pc]
  <2>1. work' = [work EXCEPT ![w] = rec]
    BY <1>1, <1>3 DEF GoTo
  <2>2. rec \in WorkRecords /\ rec.pc = pc /\ rec.off = work[w].off
    BY <1>1 DEF WorkRecords
  <2> HIDE DEF rec
  <2> QED BY <1>1, <1>3, <2>1, <2>2, WorkerStepTypes DEF Message
<1> QED BY <1>2, <1>3

(***************************************************************************)
(* The steps of the reader and the workers keep the types.                 *)
(***************************************************************************)
LEMMA FetchTypes ==
    ASSUME TypeInv, Fetch
    PROVE  TypeInv'
<1>1. /\ position <= Len(topic) /\ Len(queue) < QueueCap /\ position' = position + 1
      /\ queue' = Append(queue, position) /\ topic' = topic /\ work' = work
      /\ UNCHANGED <<monitorVars, committed, closing, restarted>>
  BY DEF Fetch
<1>2. MonitorTypeOK /\ SignalTypeOK /\ WorkOK
  BY DEF TypeInv
<1>3. MonitorTypeOK'
  BY <1>1, <1>2 DEF MonitorTypeOK, monitorVars, evalVars, brokerVars, exitVars
<1>4. Len(topic) \in Nat /\ position \in 1..Len(topic) /\ queue \in Seq(1..Len(topic))
  <2>1. Len(topic) \in Nat /\ position \in 1..Len(topic) + 1 /\ queue \in Seq(1..Len(topic))
    BY <1>2 DEF SignalTypeOK
  <2> QED BY <1>1, <2>1
<1>5. queue' \in Seq(1..Len(topic)) /\ Len(queue') <= QueueCap
  BY <1>1, <1>4, SignalAssumption
<1>6. SignalTypeOK'
  <2>1. position' \in 1..Len(topic') + 1
    BY <1>1, <1>4
  <2> QED BY <1>1, <1>2, <1>5, <2>1 DEF SignalTypeOK, WorkRecords
<1>7. WorkOK'
  BY <1>1, <1>2 DEF WorkOK, Message
<1> QED BY <1>3, <1>6, <1>7 DEF TypeInv

\* Take keeps the types.
LEMMA TakeTypes ==
    ASSUME TypeInv, NEW w \in Workers, Take(w)
    PROVE  TypeInv'
<1>1. /\ queue # << >> /\ queue' = Tail(queue) /\ topic' = topic
      /\ work' = [work EXCEPT ![w] = [Idle EXCEPT !.pc = "insert", !.off = Head(queue)]]
      /\ UNCHANGED <<monitorVars, position, committed, closing, restarted>>
  BY DEF Take
<1>2. MonitorTypeOK /\ SignalTypeOK /\ WorkOK
  BY DEF TypeInv
<1>3. MonitorTypeOK'
  BY <1>1, <1>2 DEF MonitorTypeOK, monitorVars, evalVars, brokerVars, exitVars
<1>4. queue \in Seq(1..Len(topic)) /\ Len(queue) \in Nat /\ Len(queue) <= QueueCap
  BY <1>2 DEF SignalTypeOK
<1>5. /\ Head(queue) \in 1..Len(topic)
      /\ queue' \in Seq(1..Len(topic)) /\ Len(queue') <= QueueCap
  BY <1>1, <1>4, SignalAssumption
<1> DEFINE rec == [Idle EXCEPT !.pc = "insert", !.off = Head(queue)]
<1>6. rec \in WorkRecords /\ rec.pc = "insert" /\ rec.off # 0
  <2> DEFINE r1 == [Idle EXCEPT !.pc = "insert"]
  <2>1. Head(queue) \in 0..Len(topic) /\ Head(queue) # 0 /\ 0 \in 0..Len(topic)
    BY <1>5
  <2>2. Idle \in WorkRecords
    BY <2>1 DEF Idle, WorkRecords
  <2>3. r1 \in WorkRecords /\ r1.pc = "insert"
    BY <2>2 DEF WorkRecords
  <2>4. rec = [r1 EXCEPT !.off = Head(queue)]
    BY <2>2 DEF WorkRecords
  <2> HIDE DEF r1
  <2> QED BY <2>1, <2>3, <2>4 DEF WorkRecords
<1>7. work' = [work EXCEPT ![w] = rec]
  BY <1>1
<1> HIDE DEF rec
<1>8. work' \in [Workers -> WorkRecords] /\ WorkOK'
  BY <1>1, <1>6, <1>7, WorkerStepTypes
<1>9. SignalTypeOK'
  BY <1>1, <1>2, <1>5, <1>8 DEF SignalTypeOK, WorkRecords
<1> QED BY <1>3, <1>8, <1>9 DEF TypeInv

(***************************************************************************)
(* A worker's step that leaves the reader alone, but for the commit.       *)
(***************************************************************************)
LEMMA WorkTypes ==
    ASSUME TypeInv, MonitorTypeOK', work' \in [Workers -> WorkRecords], WorkOK',
           UNCHANGED <<topic, position, queue, closing, restarted>>,
           committed' \in 0..Len(topic) + 1
    PROVE  TypeInv'
<1>1. SignalTypeOK
  BY DEF TypeInv
<1>2. SignalTypeOK'
  BY <1>1 DEF SignalTypeOK, WorkRecords
<1> QED BY <1>2 DEF TypeInv

\* Commit keeps the types.
LEMMA CommitTypes ==
    ASSUME TypeInv, NEW w \in Workers, Commit(w)
    PROVE  TypeInv'
<1>1. /\ work[w].pc = "commit" /\ GiveUp(w)
      /\ committed' = work[w].off + 1 \/ committed' = committed
      /\ UNCHANGED <<monitorVars, topic, position, queue, closing, restarted>>
  BY DEF Commit, GiveUp
<1>2. MonitorTypeOK /\ SignalTypeOK
  BY DEF TypeInv
<1>3. MonitorTypeOK'
  BY <1>1, <1>2 DEF MonitorTypeOK, monitorVars, evalVars, brokerVars, exitVars
<1>4. work' \in [Workers -> WorkRecords] /\ WorkOK'
  BY <1>1, GoToTypes
<1>5. committed' \in 0..Len(topic) + 1
  <2>1. Len(topic) \in Nat /\ committed \in 0..Len(topic) + 1 /\ work[w] \in WorkRecords
    BY <1>2 DEF SignalTypeOK
  <2>2. work[w].off \in 0..Len(topic)
    BY <2>1 DEF WorkRecords
  <2> QED BY <1>1, <2>1, <2>2
<1> QED BY <1>1, <1>3, <1>4, <1>5, WorkTypes

\* Insert keeps the types.
LEMMA InsertTypes ==
    ASSUME TypeInv, NEW w \in Workers, Insert(w)
    PROVE  TypeInv'
<1>1. /\ work[w].pc = "insert"
      /\ \/ (GiveUp(w) \/ GoTo(w, "commit")) /\ row' = row
         \/ Message(w) # Malformed /\ Create(Message(w)) /\ GoTo(w, "route")
      /\ UNCHANGED <<scenario, kind, evalVars, trig, brokerVars, exitVars, readerVars,
                     closing, restarted>>
  BY DEF Insert
<1>2. MonitorTypeOK /\ SignalTypeOK
  BY DEF TypeInv
<1>3. row' \in [Orders -> RowRecords]
  <2>1. CASE Message(w) # Malformed /\ Create(Message(w))
    <3>1. Message(w) \in Orders
      BY <1>1, <2>1, MessageIsOrder
    <3>2. UpdateStatus(Message(w), "RECEIVED")
      BY <2>1 DEF Create, UpdateStatus
    <3> QED BY <1>2, <3>1, <3>2, UpdateTypes DEF Statuses
  <2> QED BY <1>1, <1>2, <2>1 DEF MonitorTypeOK
<1>4. MonitorTypeOK'
  BY <1>1, <1>2, <1>3 DEF MonitorTypeOK, evalVars, brokerVars, exitVars
<1>5. work' \in [Workers -> WorkRecords] /\ WorkOK'
  <2>1. topic' = topic
    BY <1>1 DEF readerVars
  <2> QED BY <1>1, <2>1, GoToTypes
<1>6. committed' \in 0..Len(topic) + 1
  BY <1>1, <1>2 DEF readerVars, SignalTypeOK
<1> QED BY <1>1, <1>4, <1>5, <1>6, WorkTypes DEF readerVars

(***************************************************************************)
(* What Route does, by the way the order takes.                            *)
(***************************************************************************)
RoutedToMonitor(w, auth) ==
    LET o == Message(w) IN
    /\ RouteOf(o, auth) = "monitor"
    /\ Watch(o, kind[o].max, AfterFill(o, auth))
    /\ GoTo(w, "commit") /\ UNCHANGED <<manager, excuse>>
RoutedNowhere(w) == GiveUp(w) /\ UNCHANGED <<watched, entry, manager, excuse>>
RoutedToExecutor(w, auth, via) ==
    LET o == Message(w) IN
    /\ via = RouteOf(o, auth) /\ via # "monitor"
    /\ work' = [work EXCEPT ![w].pc = "execute", ![w].via = via, ![w].auth = auth]
    /\ manager' = IF via = "ml" THEN [manager EXCEPT ![o] = "ml"] ELSE manager
    /\ excuse' = [excuse EXCEPT ![o] =
                     IF auth \/ kind[o].paper THEN @ ELSE @ \union {"no credentials"}]
    /\ UNCHANGED <<watched, entry>>

\* Route does one of the three, and leaves the rest alone.
LEMMA RouteCases ==
    ASSUME TypeInv, NEW w \in Workers, Route(w)
    PROVE  /\ work[w].pc = "route"
           /\ \/ \E auth \in BOOLEAN : RoutedToMonitor(w, auth)
              \/ RoutedNowhere(w)
              \/ \E auth \in BOOLEAN, via \in {"exec", "oco", "ml"} :
                    RoutedToExecutor(w, auth, via)
           /\ UNCHANGED <<scenario, kind, row, jobs, looking, dropping, trig, brokerVars, fill,
                          readerVars, closing, restarted>>
<1>1. /\ work[w].pc = "route"
      /\ UNCHANGED <<scenario, kind, row, jobs, looking, dropping, trig, brokerVars, fill,
                     readerVars, closing, restarted>>
  BY DEF Route
<1>2. PICK auth \in Credentials(Message(w)) :
         \/ RoutedToMonitor(w, auth)
         \/ RoutedNowhere(w)
         \/ RoutedToExecutor(w, auth, RouteOf(Message(w), auth))
  BY DEF Route, RoutedToMonitor, RoutedNowhere, RoutedToExecutor
<1>3. auth \in BOOLEAN
  BY DEF Credentials
<1>4. RouteOf(Message(w), auth) \in {"monitor", "exec", "oco", "ml"}
  BY DEF RouteOf
<1>5. CASE RoutedToExecutor(w, auth, RouteOf(Message(w), auth))
  <2>1. RouteOf(Message(w), auth) # "monitor"
    BY <1>5 DEF RoutedToExecutor
  <2> QED BY <1>1, <1>3, <1>4, <1>5, <2>1
<1> QED BY <1>1, <1>2, <1>3, <1>5

\* What the worker knows after it has routed an order to the executor.
LEMMA ToExecutor ==
    ASSUME TypeInv, NEW w \in Workers, work[w].pc = "route", topic' = topic,
           NEW auth \in BOOLEAN, NEW via \in {"exec", "oco", "ml"},
           RoutedToExecutor(w, auth, via)
    PROVE  /\ work' \in [Workers -> WorkRecords] /\ WorkOK'
           /\ \A x \in Workers \ {w} : work'[x] = work[x]
           /\ work'[w].pc = "execute" /\ work'[w].off = work[w].off
           /\ work'[w].via = via /\ work'[w].auth = auth
<1>1. work \in [Workers -> WorkRecords] /\ work[w] \in WorkRecords /\ work[w].off # 0
  BY DEF TypeInv, SignalTypeOK, WorkOK
<1> DEFINE r1 == [work[w] EXCEPT !.pc = "execute"]
           r2 == [r1 EXCEPT !.via = via]
           rec == [r2 EXCEPT !.auth = auth]
<1>2. work' = [work EXCEPT ![w] = rec]
  BY <1>1 DEF RoutedToExecutor
<1>3. r1 \in WorkRecords /\ r1.pc = "execute" /\ r1.off = work[w].off
  BY <1>1 DEF WorkRecords
<1> HIDE DEF r1
<1>4. r2 \in WorkRecords /\ r2.pc = "execute" /\ r2.off = work[w].off /\ r2.via = via
  BY <1>3 DEF WorkRecords
<1> HIDE DEF r2
<1>5. /\ rec \in WorkRecords /\ rec.pc = "execute" /\ rec.off = work[w].off
      /\ rec.via = via /\ rec.auth = auth
  BY <1>4 DEF WorkRecords
<1> HIDE DEF rec
<1>6. topic[rec.off] # Malformed
  BY <1>5 DEF TypeInv, WorkOK, Message
<1>7. work' \in [Workers -> WorkRecords] /\ WorkOK'
  BY <1>1, <1>2, <1>5, <1>6, WorkerStepTypes
<1> QED BY <1>1, <1>2, <1>5, <1>7

\* Route keeps the types.
LEMMA RouteTypes ==
    ASSUME TypeInv, NEW w \in Workers, Route(w)
    PROVE  TypeInv'
<1>1. /\ work[w].pc = "route"
      /\ UNCHANGED <<scenario, kind, row, jobs, looking, dropping, trig, brokerVars, fill,
                     readerVars, closing, restarted>>
  BY RouteCases
<1>2. MonitorTypeOK /\ SignalTypeOK /\ topic' = topic /\ committed' = committed
  BY <1>1 DEF TypeInv, readerVars
<1>3. Message(w) \in Orders
  BY <1>1, MessageIsOrder
<1>4. kind[Message(w)] \in Kinds
  BY <1>2, <1>3 DEF MonitorTypeOK
<1>5. ASSUME NEW auth \in BOOLEAN, RoutedToMonitor(w, auth)
      PROVE  TypeInv'
  <2>1. kind[Message(w)].max \in BOOLEAN /\ AfterFill(Message(w), auth) \in {"none", "oco", "ml"}
    BY <1>4 DEF Kinds, AfterFill
  <2> DEFINE e == NewEntry(kind[Message(w)].max, AfterFill(Message(w), auth))
  <2>2. e \in EntryRecords
    BY <2>1 DEF NewEntry, EntryRecords
  <2>3. /\ watched' = watched \union {Message(w)}
        /\ entry' = entry \/ entry' = [entry EXCEPT ![Message(w)] = e]
    BY <1>5 DEF RoutedToMonitor, Watch
  <2> HIDE DEF e
  <2>4. watched' \subseteq Orders /\ entry' \in [Orders -> EntryRecords]
    <3>1. watched \subseteq Orders /\ entry \in [Orders -> EntryRecords]
      BY <1>2 DEF MonitorTypeOK
    <3> DEFINE o == Message(w)
    <3>2. o \in Orders /\ watched' = watched \union {o}
          /\ (entry' = entry \/ entry' = [entry EXCEPT ![o] = e])
      BY <1>3, <2>3
    <3> HIDE DEF o
    <3> QED BY <2>2, <3>1, <3>2
  <2>t. MonitorTypeOK'
    <3>1. UNCHANGED <<manager, excuse>>
      BY <1>5 DEF RoutedToMonitor
    <3> QED BY <1>1, <1>2, <2>4, <3>1 DEF MonitorTypeOK, brokerVars
  <2>5. work' \in [Workers -> WorkRecords] /\ WorkOK'
    BY <1>1, <1>2, <1>5, GoToTypes DEF RoutedToMonitor
  <2> QED BY <1>1, <1>2, <2>t, <2>5, WorkTypes DEF readerVars, SignalTypeOK
<1>6. CASE RoutedNowhere(w)
  <2>1. MonitorTypeOK'
    BY <1>1, <1>2, <1>6 DEF RoutedNowhere, MonitorTypeOK, brokerVars
  <2>2. work' \in [Workers -> WorkRecords] /\ WorkOK'
    BY <1>1, <1>2, <1>6, GoToTypes DEF RoutedNowhere
  <2> QED BY <1>1, <1>2, <2>1, <2>2, WorkTypes DEF readerVars, SignalTypeOK
<1>7. ASSUME NEW auth \in BOOLEAN, NEW via \in {"exec", "oco", "ml"},
             RoutedToExecutor(w, auth, via)
      PROVE  TypeInv'
  <2>1. /\ manager' \in [Orders -> {"none", "oco", "ml", "bracket"}]
        /\ excuse' \in [Orders -> SUBSET {"reloaded", "no credentials", "early fill"}]
    <3>1. manager' = manager \/ manager' = [manager EXCEPT ![Message(w)] = "ml"]
      BY <1>7 DEF RoutedToExecutor
    <3>2. \/ excuse' = [excuse EXCEPT ![Message(w)] = excuse[Message(w)]]
          \/ excuse' = [excuse EXCEPT ![Message(w)] =
                           excuse[Message(w)] \union {"no credentials"}]
      BY <1>7 DEF RoutedToExecutor
    <3>3. /\ manager \in [Orders -> {"none", "oco", "ml", "bracket"}]
          /\ excuse \in [Orders -> SUBSET {"reloaded", "no credentials", "early fill"}]
      BY <1>2 DEF MonitorTypeOK
    <3> QED BY <1>3, <3>1, <3>2, <3>3
  <2>2. MonitorTypeOK'
    BY <1>1, <1>2, <1>7, <2>1 DEF RoutedToExecutor, MonitorTypeOK, brokerVars
  <2>3. work' \in [Workers -> WorkRecords] /\ WorkOK'
    BY <1>1, <1>2, <1>7, ToExecutor
  <2> QED BY <1>1, <1>2, <2>2, <2>3, WorkTypes DEF readerVars, SignalTypeOK
<1> QED BY <1>5, <1>6, <1>7, RouteCases

\* The placement, its failure and the adoption keep the types.
LEMMA ExecuteTypes ==
    ASSUME TypeInv, NEW w \in Workers, Execute(w) \/ ExecuteFails(w) \/ Adopt(w)
    PROVE  TypeInv'
<1> DEFINE o == Message(w)
<1>1. /\ work[w].pc \in {"execute", "placed"}
      /\ GoTo(w, "placed") \/ GiveUp(w) \/ GoTo(w, "commit")
      /\ UNCHANGED <<scenario, kind, evalVars, trig, fill, excuse, readerVars,
                     closing, restarted>>
  BY DEF Execute, ExecuteFails, Adopt, exitVars
<1>2. MonitorTypeOK /\ SignalTypeOK /\ topic' = topic /\ committed' = committed
  BY <1>1 DEF TypeInv, readerVars
<1>3. o \in Orders /\ Message(w) # Malformed
  BY <1>1, MessageIsOrder, SignalAssumption
<1>4. work' \in [Workers -> WorkRecords] /\ WorkOK'
  BY <1>1, <1>2, <1>3, GoToTypes
<1>5. /\ row \in [Orders -> RowRecords]
      /\ placed \in [Orders -> Nat] /\ lost \in [Orders -> Nat]
      /\ writing \subseteq Orders /\ open \subseteq Orders
      /\ manager \in [Orders -> {"none", "oco", "ml", "bracket"}]
  BY <1>2 DEF MonitorTypeOK
<1> HIDE DEF o
<1>6. /\ row' \in [Orders -> RowRecords]
      /\ placed' \in [Orders -> Nat] /\ lost' \in [Orders -> Nat]
      /\ writing' \subseteq Orders /\ open' \subseteq Orders
      /\ manager' \in [Orders -> {"none", "oco", "ml", "bracket"}]
  <2>0. placed[o] + 1 \in Nat /\ lost[o] + 1 \in Nat
    BY <1>3, <1>5
  <2>1. CASE Execute(w) /\ work[w].via = "oco"
    <3>1. /\ placed' = [placed EXCEPT ![o] = placed[o] + 1] /\ open' = open \union {o}
          /\ manager' = [manager EXCEPT ![o] = "oco"] /\ UNCHANGED <<row, lost, writing>>
      BY <2>1 DEF Execute, o
    <3> QED BY <1>3, <1>5, <2>0, <3>1
  <2>2. CASE Execute(w) /\ work[w].via # "oco"
    <3>1. Accepted(o) /\ manager' = manager
      BY <2>2 DEF Execute, o
    <3> QED BY <1>2, <1>3, <1>5, <3>1, AcceptedTypes
  <2>3. CASE ExecuteFails(w)
    <3>1. /\ \/ placed' = placed /\ lost' = lost
             \/ /\ placed' = [placed EXCEPT ![o] = placed[o] + 1]
                /\ lost' = [lost EXCEPT ![o] = lost[o] + 1]
          /\ row' = row \/ Update(o, "FAILED", FALSE)
          /\ UNCHANGED <<writing, open, manager>>
      BY <2>3 DEF ExecuteFails, exitVars, o
    <3>2. row' \in [Orders -> RowRecords]
      BY <1>2, <1>3, <1>5, <3>1, UpdateTypes DEF Statuses
    <3> QED BY <1>3, <1>5, <2>0, <3>1, <3>2
  <2>4. CASE Adopt(w)
    <3>1. /\ manager' = manager \/ manager' = [manager EXCEPT ![o] = "oco"]
          /\ UNCHANGED <<row, placed, lost, writing, open>>
      BY <2>4 DEF Adopt, AdoptOrder, brokerVars, o
    <3> QED BY <1>3, <1>5, <3>1
  <2> QED BY <2>1, <2>2, <2>3, <2>4
<1>7. MonitorTypeOK'
  BY <1>1, <1>2, <1>6 DEF MonitorTypeOK, evalVars
<1> QED BY <1>1, <1>2, <1>4, <1>7, WorkTypes DEF readerVars, SignalTypeOK

(***************************************************************************)
(* Closing, the restart and the fill events keep the types.                *)
(***************************************************************************)
LEMMA ClosingTypes ==
    ASSUME TypeInv, StartClosing \/ FinishClosing
    PROVE  TypeInv'
<1>1. MonitorTypeOK /\ SignalTypeOK /\ WorkOK
  BY DEF TypeInv
<1>2. /\ UNCHANGED <<readerVars, work, restarted>> /\ closing' \in {"started", "done"}
  BY DEF StartClosing, FinishClosing
<1>3. SignalTypeOK' /\ WorkOK'
  BY <1>1, <1>2 DEF SignalTypeOK, WorkOK, Message, readerVars, WorkRecords
<1>4. CASE StartClosing
  <2>1. MonitorTypeOK'
    BY <1>1, <1>4 DEF StartClosing, MonitorTypeOK, brokerVars, exitVars
  <2> QED BY <1>3, <2>1 DEF TypeInv
<1>5. CASE FinishClosing
  <2>1. row' \in [Orders -> RowRecords]
    <3>1. row \in [Orders -> RowRecords]
      BY <1>1 DEF MonitorTypeOK
    <3>2. \A o \in Orders : [row[o] EXCEPT !.status = "CANCELLED"] \in RowRecords
      BY <3>1 DEF RowRecords, Statuses
    <3>3. NoRow \in RowRecords
      BY DEF NoRow, RowRecords, Statuses
    <3> QED BY <1>5, <3>2, <3>3 DEF FinishClosing
  <2>2. MonitorTypeOK'
    BY <1>1, <1>5, <2>1 DEF FinishClosing, MonitorTypeOK, evalVars, brokerVars, exitVars
  <2> QED BY <1>3, <2>2 DEF TypeInv
<1> QED BY <1>4, <1>5

\* Restart keeps the types.
LEMMA RestartTypes ==
    ASSUME TypeInv, Restart
    PROVE  TypeInv'
<1>1. MonitorTypeOK /\ SignalTypeOK
  BY DEF TypeInv
<1>2. /\ topic' = topic /\ committed' = committed /\ restarted' = TRUE
      /\ position' \in IF committed = 0 THEN position..Len(topic) + 1 ELSE {committed}
      /\ queue' = << >> /\ work' = [w \in Workers |-> Idle]
      /\ closing' = IF closing = "started" THEN "no" ELSE closing
  BY DEF Restart
<1>3. Len(topic) \in Nat /\ position \in 1..Len(topic) + 1 /\ committed \in 0..Len(topic) + 1
  BY <1>1 DEF SignalTypeOK
<1>4. /\ position' \in 1..Len(topic') + 1 /\ committed' \in 0..Len(topic') + 1
  BY <1>2, <1>3
<1>5. (work \in [Workers -> WorkRecords])'
  <2>0. WorkRecords' = WorkRecords /\ 0 \in 0..Len(topic)
    BY <1>2, <1>3 DEF WorkRecords
  <2>1. Idle \in WorkRecords'
    BY <2>0 DEF Idle, WorkRecords
  <2> QED BY <1>2, <2>1
<1>6. queue' \in Seq(1..Len(topic')) /\ Len(queue') <= QueueCap
  BY <1>2, SignalAssumption
<1>7. closing' \in {"no", "started", "done"} /\ restarted' \in BOOLEAN
  BY <1>1, <1>2 DEF SignalTypeOK
<1>8. SignalTypeOK'
  BY <1>1, <1>2, <1>4, <1>5, <1>6, <1>7 DEF SignalTypeOK
<1>9. WorkOK'
  BY <1>2 DEF WorkOK, Idle
<1>10. MonitorTypeOK'
  <2>1. /\ lost \in [Orders -> Nat]
        /\ excuse \in [Orders -> SUBSET {"reloaded", "no credentials", "early fill"}]
        /\ row \in [Orders -> RowRecords] /\ placed \in [Orders -> Nat]
        /\ fill \in [Orders -> {"none", "handled", "missed"}]
        /\ scenario \subseteq Hazards /\ kind \in [Orders -> Kinds]
    BY <1>1 DEF MonitorTypeOK
  <2>2. /\ UNCHANGED <<scenario, kind, row, placed, fill>>
        /\ watched' \subseteq Orders /\ jobs' = {} /\ looking' = {} /\ dropping' = {}
        /\ writing' = {} /\ open' = {}
        /\ trig' = [o \in Orders |-> "idle"] /\ manager' = [o \in Orders |-> "none"]
    BY DEF Restart, PendingMonitorOrders
  <2>3. lost' \in [Orders -> Nat]
    <3>1. lost' = [o \in Orders |-> lost[o] + IF o \in writing THEN 1 ELSE 0]
      BY DEF Restart
    <3>2. \A o \in Orders : (lost[o] + IF o \in writing THEN 1 ELSE 0) \in Nat
      <4> TAKE o \in Orders
      <4>1. lost[o] \in Nat
        BY <2>1
      <4>2. CASE o \in writing
        BY <4>1, <4>2
      <4>3. CASE o \notin writing
        BY <4>1, <4>3
      <4> QED BY <4>2, <4>3
    <3> QED BY <3>1, <3>2
  <2>4. excuse' \in [Orders -> SUBSET {"reloaded", "no credentials", "early fill"}]
    <3>1. excuse' = [o \in Orders |->
                       IF o \in watched' THEN excuse[o] \union {"reloaded"} ELSE excuse[o]]
      BY DEF Restart
    <3> QED BY <2>1, <3>1
  <2>5. entry' \in [Orders -> EntryRecords]
    <3>1. NewEntry(FALSE, "none") \in EntryRecords
      BY DEF NewEntry, EntryRecords
    <3> QED BY <3>1 DEF Restart
  <2> QED BY <2>1, <2>2, <2>3, <2>4, <2>5 DEF MonitorTypeOK
<1> QED BY <1>8, <1>9, <1>10 DEF TypeInv

\* A fill event keeps the types.
LEMMA FillTypes ==
    ASSUME TypeInv, NEW o \in Orders, FillEvent(o)
    PROVE  TypeInv'
<1>1. MonitorTypeOK /\ SignalTypeOK /\ WorkOK
  BY DEF TypeInv
<1>2. /\ Fill(o, InHand(o)) /\ UNCHANGED <<readerVars, work, closing, restarted>>
  BY DEF FillEvent
<1>3. SignalTypeOK' /\ WorkOK'
  BY <1>1, <1>2 DEF SignalTypeOK, WorkOK, Message, readerVars, WorkRecords
<1>4. excuse' \in [Orders -> SUBSET {"reloaded", "no credentials", "early fill"}]
  <2>1. \/ excuse' = [excuse EXCEPT ![o] = excuse[o]]
        \/ excuse' = [excuse EXCEPT ![o] = excuse[o] \union {"early fill"}]
    BY <1>2 DEF Fill
  <2>2. excuse \in [Orders -> SUBSET {"reloaded", "no credentials", "early fill"}]
    BY <1>1 DEF MonitorTypeOK
  <2> QED BY <2>1, <2>2
<1>5. fill' \in [Orders -> {"none", "handled", "missed"}]
  BY <1>1, <1>2 DEF Fill, MonitorTypeOK
<1>6. MonitorTypeOK'
  BY <1>1, <1>2, <1>4, <1>5 DEF Fill, MonitorTypeOK, evalVars
<1> QED BY <1>3, <1>6 DEF TypeInv

\* Every step keeps the types.
LEMMA TypeStep == TypeInv /\ [Next]_vars => TypeInv'
<1> SUFFICES ASSUME TypeInv, [Next]_vars PROVE TypeInv'
  OBVIOUS
<1>1. ASSUME UNCHANGED <<readerVars, work, closing, restarted>>, MonitorTypeOK'
      PROVE  TypeInv'
  BY <1>1 DEF TypeInv, SignalTypeOK, WorkOK, Message, readerVars, WorkRecords
<1>2. CASE UNCHANGED vars
  <2>1. MonitorTypeOK'
    BY <1>2 DEF TypeInv, MonitorTypeOK, vars, monitorVars, evalVars, brokerVars, exitVars
  <2> QED BY <1>1, <1>2, <2>1 DEF vars
<1>3. CASE MonitorNext /\ UNCHANGED <<readerVars, work, closing, restarted>>
  BY <1>1, <1>3, MonitorTypes DEF TypeInv
<1>4. CASE Working
  BY <1>4, FetchTypes, TakeTypes, InsertTypes, RouteTypes, ExecuteTypes, CommitTypes
     DEF Working
<1> QED
  BY <1>2, <1>3, <1>4, ClosingTypes, RestartTypes, FillTypes DEF Next

(***************************************************************************)
(* The variables of the signal path keep their types.                      *)
(***************************************************************************)
THEOREM TypeCorrect == Spec => []TypeOK
<1>1. TypeInv => TypeOK
  BY DEF TypeInv, SignalTypeOK, TypeOK
<1> QED BY <1>1, SignalInit, TypeStep, PTL DEF Spec

-----------------------------------------------------------------------------
(***************************************************************************)
(* One signal, one entry.  An order is spent when it has an entry whose    *)
(* result is not lost.  SecondEntryOnlyAfterLostResult is inductive once   *)
(* it is known that nobody can place a spent order: the worker that routes *)
(* an order is the only one and comes before any placement (the insert of  *)
(* the row decides), an attempt of the monitor holds the flag of its entry *)
(* and is made for an order that is not spent, and a spent order either    *)
(* keeps the flag or is not pursued; after a restart it is not reloaded,   *)
(* because its row says that it was placed, or its background write was    *)
(* still to come and its result is lost with the process.                  *)
(***************************************************************************)
Pursued(o) ==
    \/ o \in watched \/ trig[o] # "idle"
    \/ \E j \in jobs \union looking : j.order = o
Routing(w, o) == work[w].pc \in {"route", "execute"} /\ Message(w) = o
Executing(w, o) == work[w].pc = "execute" /\ Message(w) = o
Spent(o) == placed[o] > lost[o]
Untried(o) == placed[o] = 0 /\ lost[o] = 0 /\ ~Pursued(o)

Balanced(o) == lost[o] <= placed[o] /\ placed[o] <= 1 + lost[o]
WriteIsOwed(o) == o \in writing => Spent(o)
Unrouted(o) == row[o] = NoRow => Untried(o) /\ \A w \in Workers : ~Routing(w, o)
RoutedOnce(o) ==
    \A w \in Workers : Routing(w, o) => Untried(o) /\ \A x \in Workers \ {w} : ~Routing(x, o)
DirectIsNotWatched(o) == \A w \in Workers : Executing(w, o) => ~kind[o].belowMin
FlagHeld(o) == trig[o] # "idle" => entry[o].triggered
AttemptIsDue(o) == trig[o] \in {"check", "execute", "failed"} => ~Spent(o)
SpentIsOver(o) == Spent(o) => entry[o].triggered \/ ~Pursued(o)
SpentIsRecorded(o) ==
    Spent(o) /\ kind[o].belowMin /\ ~kind[o].paper =>
        o \in writing \/ row[o].status # "RECEIVED" \/ row[o].brokerId

EntryOK(o) ==
    /\ Balanced(o) /\ WriteIsOwed(o)
    /\ Unrouted(o) /\ RoutedOnce(o) /\ DirectIsNotWatched(o)
    /\ FlagHeld(o) /\ AttemptIsDue(o) /\ SpentIsOver(o) /\ SpentIsRecorded(o)

EntryInv == \A o \in Orders : EntryOK(o)

\* A step that is not about the order o: it may only end a pursuit or a routing, or
\* take the row of o out of the orders that are to be reloaded.
RowClosed(o) == row'[o] # NoRow /\ row'[o].status # "RECEIVED"
Apart(o) ==
    /\ row'[o] = row[o] \/ RowClosed(o)
    /\ entry'[o] = entry[o] /\ trig'[o] = trig[o] /\ kind'[o] = kind[o]
    /\ placed'[o] = placed[o] /\ lost'[o] = lost[o] /\ (o \in writing' <=> o \in writing)
    /\ Pursued(o)' => Pursued(o)
    /\ \A w \in Workers : /\ Routing(w, o)' => Routing(w, o)
                          /\ Executing(w, o)' => Executing(w, o)

(***************************************************************************)
(* Such a step keeps what is known of o.                                   *)
(***************************************************************************)
LEMMA ApartKeeps ==
    ASSUME NEW o \in Orders, EntryOK(o), Apart(o)
    PROVE  EntryOK(o)'
<1>1. Spent(o)' <=> Spent(o)
  BY DEF Apart, Spent
<1>2. Untried(o) => Untried(o)'
  BY DEF Apart, Untried
<1>3. Balanced(o)' /\ WriteIsOwed(o)' /\ FlagHeld(o)' /\ AttemptIsDue(o)'
  BY <1>1 DEF EntryOK, Apart, Balanced, WriteIsOwed, FlagHeld, AttemptIsDue
<1>4. Unrouted(o)' /\ RoutedOnce(o)'
  BY <1>2 DEF EntryOK, Apart, RowClosed, Unrouted, RoutedOnce
<1>5. DirectIsNotWatched(o)' /\ SpentIsOver(o)' /\ SpentIsRecorded(o)'
  BY <1>1 DEF EntryOK, Apart, RowClosed, DirectIsNotWatched, SpentIsOver, SpentIsRecorded
<1> QED BY <1>3, <1>4, <1>5 DEF EntryOK

\* No worker turns to o.
NoNewRouting(o) ==
    \A w \in Workers : /\ Routing(w, o)' => Routing(w, o)
                       /\ Executing(w, o)' => Executing(w, o)

\* A step that leaves the workers alone.
LEMMA SameWork ==
    ASSUME topic' = topic, work' = work
    PROVE  \A o : NoNewRouting(o)
  BY DEF NoNewRouting, Routing, Executing, Message

\* A worker's step to a record that routes nothing.
LEMMA LeavesRouting ==
    ASSUME TypeInv, NEW w \in Workers, topic' = topic, NEW rec,
           work' = [work EXCEPT ![w] = rec], rec.pc \notin {"route", "execute"}
    PROVE  /\ \A o : NoNewRouting(o) /\ ~Routing(w, o)' /\ ~Executing(w, o)'
<1>1. \A x \in Workers : work'[x] = IF x = w THEN rec ELSE work[x]
  BY DEF TypeInv, SignalTypeOK
<1> QED BY <1>1 DEF NoNewRouting, Routing, Executing, Message

\* A step of a worker out of the placement.
LEMMA GoToLeaves ==
    ASSUME TypeInv, NEW w \in Workers, topic' = topic,
           GiveUp(w) \/ GoTo(w, "commit") \/ GoTo(w, "placed")
    PROVE  /\ \A o : NoNewRouting(o) /\ ~Routing(w, o)' /\ ~Executing(w, o)'
<1>1. work \in [Workers -> WorkRecords] /\ work[w] \in WorkRecords
  BY DEF TypeInv, SignalTypeOK
<1>2. CASE GiveUp(w)
  BY <1>2, LeavesRouting DEF GiveUp, Idle
<1>3. ASSUME NEW pc \in {"commit", "placed"}, GoTo(w, pc)
      PROVE  /\ \A o : NoNewRouting(o) /\ ~Routing(w, o)' /\ ~Executing(w, o)'
  <2> DEFINE rec == [work[w] EXCEPT !.pc = pc]
  <2>1. work' = [work EXCEPT ![w] = rec]
    BY <1>1, <1>3 DEF GoTo
  <2>2. rec.pc \notin {"route", "execute"}
    BY <1>1 DEF WorkRecords
  <2> HIDE DEF rec
  <2> QED BY <2>1, <2>2, LeavesRouting
<1> QED BY <1>2, <1>3

(***************************************************************************)
(* A step on an order that the monitor pursues, or that no worker routes:  *)
(* what the insert of the row guarantees stays out of the way.             *)
(***************************************************************************)
LEMMA PursuedStep ==
    ASSUME NEW o \in Orders, EntryOK(o), Pursued(o), NoNewRouting(o),
           row'[o] = row[o] \/ row'[o] # NoRow,
           Balanced(o)', WriteIsOwed(o)', FlagHeld(o)', AttemptIsDue(o)',
           SpentIsOver(o)', SpentIsRecorded(o)'
    PROVE  EntryOK(o)'
<1>1. \A w \in Workers : ~Routing(w, o)
  BY DEF EntryOK, RoutedOnce, Untried
<1>2. \A w \in Workers : ~Routing(w, o)' /\ ~Executing(w, o)'
  BY <1>1 DEF NoNewRouting, Routing, Executing
<1>3. row'[o] # NoRow
  BY DEF EntryOK, Unrouted, Untried
<1>4. Unrouted(o)' /\ RoutedOnce(o)' /\ DirectIsNotWatched(o)'
  BY <1>2, <1>3 DEF Unrouted, RoutedOnce, DirectIsNotWatched
<1> QED BY <1>4 DEF EntryOK

\* A step that adds no pursuit.
LEMMA SamePursuit ==
    ASSUME NEW o, watched' \subseteq watched, trig'[o] \in {trig[o], "idle"},
           jobs' \union looking' \subseteq jobs \union looking
    PROVE  Pursued(o)' => Pursued(o)
  BY DEF Pursued

\* The orders are functions of the order IDs.
LEMMA OrderFunctions ==
    ASSUME TypeInv
    PROVE  /\ row \in [Orders -> RowRecords] /\ entry \in [Orders -> EntryRecords]
           /\ trig \in [Orders -> {"idle", "check", "execute", "placed", "failed"}]
           /\ placed \in [Orders -> Nat] /\ lost \in [Orders -> Nat]
           /\ kind \in [Orders -> Kinds]
  BY DEF TypeInv, MonitorTypeOK

(***************************************************************************)
(* Rows that are closed are not those of a restart.                        *)
(***************************************************************************)
LEMMA StatusCloses ==
    ASSUME TypeInv, NEW o \in Orders, NEW st \in Statuses \ {"NONE", "RECEIVED"},
           NEW id \in BOOLEAN, Update(o, st, id) \/ UpdateStatus(o, st)
    PROVE  /\ row'[o] = row[o] \/ RowClosed(o)
           /\ \A x \in Orders \ {o} : row'[x] = row[x]
<1>1. /\ \A x \in Orders \ {o} : row'[x] = row[x]
      /\ \/ row'[o] = row[o]
         \/ row'[o] = [status |-> st, brokerId |-> id]
         \/ row'[o] = [row[o] EXCEPT !.status = st]
  BY UpdateTypes DEF TypeInv
<1>2. row[o] \in RowRecords
  BY OrderFunctions
<1>3. [row[o] EXCEPT !.status = st].status = st
  BY <1>2 DEF RowRecords
<1>4. row'[o] = row[o] \/ row'[o].status = st
  <2>1. CASE row'[o] = [row[o] EXCEPT !.status = st]
    BY <1>3, <2>1
  <2>2. CASE row'[o] = [status |-> st, brokerId |-> id]
    BY <2>2
  <2> QED BY <1>1, <2>1, <2>2
<1> QED BY <1>1, <1>4 DEF RowClosed, NoRow

\* What a step of the monitor leaves alone.
LEMMA MonitorQuiet ==
    ASSUME UNCHANGED <<readerVars, work, closing, restarted>>
    PROVE  \A o : NoNewRouting(o)
  BY SameWork DEF readerVars

-----------------------------------------------------------------------------
(***************************************************************************)
(* The steps of the monitor keep EntryInv.                                 *)
(***************************************************************************)
LEMMA EvaluationKeepsEntries ==
    ASSUME TypeInv, EntryInv, UNCHANGED <<readerVars, work, closing, restarted>>,
           NEW j \in Jobs, EvaluateEntry(j)
    PROVE  EntryInv'
<1> DEFINE o == j.order
<1>0. o \in Orders /\ \A x : NoNewRouting(x)
  BY MonitorQuiet DEF Jobs
<1>1. UNCHANGED <<kind, row, placed, lost, writing, watched>>
  BY DEF EvaluateEntry, ActOn, TakeJob, Overshoot, Claim, brokerVars
<1>2. /\ entry \in [Orders -> EntryRecords]
      /\ trig \in [Orders -> {"idle", "check", "execute", "placed", "failed"}]
  BY OrderFunctions
<1>3. jobs' \union looking' \subseteq jobs \union looking
  BY DEF EvaluateEntry, ActOn, TakeJob, Overshoot, Claim
<1>4. \A x \in Orders : entry'[x] = entry[x] /\ trig'[x] = trig[x] => Apart(x)
  BY <1>0, <1>1, <1>3, SamePursuit DEF Apart, NoNewRouting
<1>5. CASE entry' = entry /\ trig' = trig
  BY <1>4, <1>5, ApartKeeps DEF EntryInv
<1>6. CASE /\ j \in looking /\ entry' = [entry EXCEPT ![o].triggered = TRUE]
           /\ trig' = trig \/ (~entry[o].triggered /\ trig' = [trig EXCEPT ![o] = "check"])
  <2>1. \A x \in Orders \ {o} : entry'[x] = entry[x] /\ trig'[x] = trig[x]
    BY <1>0, <1>2, <1>6, FlagTypes DEF TypeInv
  <2>2. entry'[o].triggered
    BY <1>0, <1>6, FlagTypes DEF TypeInv
  <2>3. Pursued(o) /\ EntryOK(o)
    BY <1>0, <1>6 DEF Pursued, EntryInv
  <2>4. Spent(o)' <=> Spent(o)
    BY <1>1 DEF Spent
  <2>5. Balanced(o)' /\ WriteIsOwed(o)' /\ SpentIsRecorded(o)'
    BY <1>1, <2>3, <2>4 DEF EntryOK, Balanced, WriteIsOwed, SpentIsRecorded
  <2>6. FlagHeld(o)' /\ SpentIsOver(o)'
    BY <2>2 DEF FlagHeld, SpentIsOver
  <2>7. AttemptIsDue(o)'
    <3>1. CASE trig' = trig
      BY <2>3, <2>4, <3>1 DEF EntryOK, AttemptIsDue
    <3>2. CASE ~entry[o].triggered
      <4>1. ~Spent(o)
        BY <2>3, <3>2 DEF EntryOK, SpentIsOver
      <4> QED BY <2>4, <4>1 DEF AttemptIsDue
    <3> QED BY <1>6, <3>1, <3>2
  <2>8. EntryOK(o)'
    BY <1>0, <1>1, <2>3, <2>5, <2>6, <2>7, PursuedStep
  <2> QED BY <1>4, <2>1, <2>8, ApartKeeps DEF EntryInv
<1>7. CASE TakeJob(j)
  BY <1>5, <1>7 DEF TakeJob
<1>8. CASE Overshoot(j)
  BY <1>6, <1>8 DEF Overshoot
<1>9. CASE Claim(j)
  BY <1>5, <1>6, <1>9 DEF Claim
<1> QED BY <1>7, <1>8, <1>9 DEF EvaluateEntry, ActOn

\* Everything a step of triggerOrder(o) leaves alone in the other orders.
LEMMA OneTriggerApart ==
    ASSUME TypeInv, UNCHANGED <<readerVars, work, closing, restarted>>, kind' = kind,
           watched' \subseteq watched, jobs' = jobs, looking' = looking,
           NEW o \in Orders, NEW x \in Orders \ {o},
           row'[x] = row[x] \/ RowClosed(x), entry'[x] = entry[x], trig'[x] = trig[x],
           placed'[x] = placed[x], lost'[x] = lost[x], x \in writing' <=> x \in writing
    PROVE  Apart(x)
<1>1. NoNewRouting(x)
  BY MonitorQuiet
<1>2. Pursued(x)' => Pursued(x)
  BY SamePursuit
<1> QED BY <1>1, <1>2 DEF Apart, NoNewRouting

(***************************************************************************)
(* The attempts of triggerOrder keep EntryInv.                             *)
(***************************************************************************)
LEMMA CheckKeepsEntries ==
    ASSUME TypeInv, EntryInv, UNCHANGED <<readerVars, work, closing, restarted>>,
           NEW o \in Orders, CheckRow(o) \/ TriggerDone(o)
    PROVE  EntryInv'
<1>1. /\ trig[o] \in {"check", "placed"}
      /\ UNCHANGED <<kind, row, entry, jobs, looking, placed, lost, writing>>
      /\ watched' \subseteq watched
      /\ \/ trig' = [trig EXCEPT ![o] = "idle"]
         \/ trig[o] = "check" /\ trig' = [trig EXCEPT ![o] = "execute"]
  BY DEF CheckRow, TriggerDone, brokerVars
<1>2. trig \in [Orders -> {"idle", "check", "execute", "placed", "failed"}]
  BY OrderFunctions
<1>3. \A x \in Orders \ {o} : Apart(x)
  BY <1>1, <1>2, OneTriggerApart
<1>4. Pursued(o) /\ EntryOK(o) /\ NoNewRouting(o)
  BY <1>1, MonitorQuiet DEF Pursued, EntryInv
<1>5. Spent(o)' <=> Spent(o)
  BY <1>1 DEF Spent
<1>6. entry'[o].triggered
  BY <1>1, <1>4 DEF EntryOK, FlagHeld
<1>7. Balanced(o)' /\ WriteIsOwed(o)' /\ SpentIsRecorded(o)'
  BY <1>1, <1>4, <1>5 DEF EntryOK, Balanced, WriteIsOwed, SpentIsRecorded
<1>8. FlagHeld(o)' /\ SpentIsOver(o)'
  BY <1>6 DEF FlagHeld, SpentIsOver
<1>9. AttemptIsDue(o)'
  BY <1>1, <1>2, <1>4, <1>5 DEF EntryOK, AttemptIsDue
<1>10. EntryOK(o)'
  BY <1>1, <1>4, <1>7, <1>8, <1>9, PursuedStep
<1> QED BY <1>3, <1>10, ApartKeeps DEF EntryInv

\* The attempt that is accepted: the order was not spent, and its flag is held.
LEMMA PlacementKeepsEntries ==
    ASSUME TypeInv, EntryInv, UNCHANGED <<readerVars, work, closing, restarted>>,
           NEW o \in Orders, TriggerPlaces(o)
    PROVE  EntryInv'
<1>1. /\ trig[o] = "execute" /\ trig' = [trig EXCEPT ![o] = "placed"]
      /\ UNCHANGED <<kind, watched, entry, jobs, looking, lost>>
      /\ placed' = [placed EXCEPT ![o] = placed[o] + 1]
      /\ Accepted(o)
  BY DEF TriggerPlaces, evalVars, Accepted
<1>2. /\ trig \in [Orders -> {"idle", "check", "execute", "placed", "failed"}]
      /\ placed \in [Orders -> Nat] /\ lost \in [Orders -> Nat]
  BY OrderFunctions
<1>3. /\ row'[o] = row[o] \/ RowClosed(o)
      /\ \A x \in Orders \ {o} : row'[x] = row[x] /\ (x \in writing' <=> x \in writing)
      /\ writing' \subseteq writing \union {o}
      /\ ~kind[o].paper => o \in writing'
  <2>1. CASE kind[o].paper
    <3>1. Update(o, "FILLED", TRUE) /\ writing' = writing
      BY <1>1, <2>1 DEF Accepted
    <3> QED BY <2>1, <3>1, StatusCloses DEF Statuses
  <2>2. CASE ~kind[o].paper
    BY <1>1, <2>2 DEF Accepted
  <2> QED BY <2>1, <2>2
<1>4. \A x \in Orders \ {o} : Apart(x)
  BY <1>1, <1>2, <1>3, OneTriggerApart
<1>5. Pursued(o) /\ EntryOK(o) /\ NoNewRouting(o)
  BY <1>1, MonitorQuiet DEF Pursued, EntryInv
<1>6. entry'[o].triggered
  BY <1>1, <1>5 DEF EntryOK, FlagHeld
<1>7. placed[o] = lost[o]
  <2>1. lost[o] <= placed[o] /\ ~(placed[o] > lost[o])
    BY <1>1, <1>5 DEF EntryOK, AttemptIsDue, Spent, Balanced
  <2> QED BY <1>2, <2>1
<1>8. placed'[o] = lost'[o] + 1 /\ lost'[o] \in Nat
  BY <1>1, <1>2, <1>7
<1>9. Spent(o)' /\ Balanced(o)'
  BY <1>8 DEF Spent, Balanced
<1>10. WriteIsOwed(o)' /\ FlagHeld(o)' /\ SpentIsOver(o)'
  BY <1>6, <1>9 DEF WriteIsOwed, FlagHeld, SpentIsOver
<1>11. AttemptIsDue(o)'
  BY <1>1, <1>2 DEF AttemptIsDue
<1>12. SpentIsRecorded(o)'
  BY <1>1, <1>3 DEF SpentIsRecorded
<1>13. EntryOK(o)'
  BY <1>3, <1>5, <1>9, <1>10, <1>11, <1>12, PursuedStep DEF RowClosed
<1> QED BY <1>4, <1>13, ApartKeeps DEF EntryInv

\* The attempt that fails, and the release of the flag after it.
LEMMA RefusalKeepsEntries ==
    ASSUME TypeInv, EntryInv, UNCHANGED <<readerVars, work, closing, restarted>>,
           NEW o \in Orders, TriggerRefused(o) \/ TriggerFails(o)
    PROVE  EntryInv'
<1>1. /\ trig[o] \in {"execute", "failed"} /\ kind' = kind
      /\ UNCHANGED <<jobs, looking, writing>> /\ watched' \subseteq watched
      /\ \/ placed' = placed /\ lost' = lost
         \/ /\ placed' = [placed EXCEPT ![o] = placed[o] + 1]
            /\ lost' = [lost EXCEPT ![o] = lost[o] + 1]
  BY DEF TriggerRefused, TriggerFails, Refused, evalVars, brokerVars
<1>2. /\ trig \in [Orders -> {"idle", "check", "execute", "placed", "failed"}]
      /\ placed \in [Orders -> Nat] /\ lost \in [Orders -> Nat]
      /\ entry \in [Orders -> EntryRecords]
  BY OrderFunctions
<1>3. \/ trig' = [trig EXCEPT ![o] = "failed"] /\ entry' = entry /\ row' = row
      \/ trig' = [trig EXCEPT ![o] = "idle"] /\ Update(o, "FAILED", FALSE)
  BY DEF TriggerRefused, TriggerFails, Refused, evalVars
<1>4. \A x \in Orders \ {o} : entry'[x] = entry[x]
  <2>1. CASE TriggerRefused(o)
    BY <2>1 DEF TriggerRefused, evalVars
  <2>2. CASE TriggerFails(o)
    <3> DEFINE last == entry[o].attempts + 1 >= MaxTriggerAttempts
    <3>1. entry' = [entry EXCEPT ![o].attempts = entry[o].attempts + 1, ![o].triggered = last]
      BY <2>2 DEF TriggerFails
    <3> HIDE DEF last
    <3> QED BY <1>2, <3>1
  <2> QED BY <2>1, <2>2
<1>5. /\ row'[o] = row[o] \/ RowClosed(o)
      /\ \A x \in Orders \ {o} : row'[x] = row[x]
  BY <1>3, StatusCloses DEF Statuses
<1>6. \A x \in Orders \ {o} : Apart(x)
  <2> TAKE x \in Orders \ {o}
  <2>1. trig'[x] = trig[x]
    BY <1>2, <1>3
  <2>2. placed'[x] = placed[x] /\ lost'[x] = lost[x]
    BY <1>1, <1>2
  <2> QED BY <1>1, <1>4, <1>5, <2>1, <2>2, OneTriggerApart
<1>7. Pursued(o) /\ EntryOK(o) /\ NoNewRouting(o)
  BY <1>1, MonitorQuiet DEF Pursued, EntryInv
<1>8. placed[o] = lost[o]
  <2>1. lost[o] <= placed[o] /\ ~(placed[o] > lost[o])
    BY <1>1, <1>7 DEF EntryOK, AttemptIsDue, Spent, Balanced
  <2> QED BY <1>2, <2>1
<1>9. placed'[o] = lost'[o] /\ lost'[o] \in Nat
  BY <1>1, <1>2, <1>8
<1>10. ~Spent(o)' /\ Balanced(o)'
  BY <1>9 DEF Spent, Balanced
<1>11. o \notin writing'
  BY <1>1, <1>2, <1>7, <1>8 DEF EntryOK, WriteIsOwed, Spent
<1>12. FlagHeld(o)'
  <2>1. CASE trig' = [trig EXCEPT ![o] = "failed"] /\ entry' = entry
    BY <1>1, <1>2, <1>7, <2>1 DEF EntryOK, FlagHeld
  <2>2. CASE trig' = [trig EXCEPT ![o] = "idle"]
    BY <1>2, <2>2 DEF FlagHeld
  <2> QED BY <1>3, <2>1, <2>2
<1>13. /\ WriteIsOwed(o)' /\ AttemptIsDue(o)' /\ SpentIsOver(o)' /\ SpentIsRecorded(o)'
  BY <1>10, <1>11 DEF WriteIsOwed, AttemptIsDue, SpentIsOver, SpentIsRecorded
<1>14. EntryOK(o)'
  BY <1>5, <1>7, <1>10, <1>12, <1>13, PursuedStep DEF RowClosed
<1> QED BY <1>6, <1>14, ApartKeeps DEF EntryInv

(***************************************************************************)
(* The other goroutines of the monitor keep EntryInv.                      *)
(***************************************************************************)
LEMMA DropKeepsEntries ==
    ASSUME TypeInv, EntryInv, UNCHANGED <<readerVars, work, closing, restarted>>,
           NEW o \in Orders, DropExceeded(o) \/ CancelWatch(o)
    PROVE  EntryInv'
<1>1. /\ UNCHANGED <<kind, entry, trig, jobs, looking, placed, lost, writing>>
      /\ watched' \subseteq watched /\ UpdateStatus(o, "CANCELLED")
  BY DEF DropExceeded, CancelWatch, brokerVars
<1>2. \A x \in Orders : row'[x] = row[x] \/ RowClosed(x)
  BY <1>1, StatusCloses DEF Statuses
<1>3. \A x \in Orders : Apart(x)
  <2> TAKE x \in Orders
  <2>1. NoNewRouting(x)
    BY MonitorQuiet
  <2>2. Pursued(x)' => Pursued(x)
    BY <1>1, SamePursuit
  <2> QED BY <1>1, <1>2, <2>1, <2>2 DEF Apart, NoNewRouting
<1> QED BY <1>3, ApartKeeps DEF EntryInv

\* A tick only queues jobs for watched orders.
LEMMA TickKeepsEntries ==
    ASSUME TypeInv, EntryInv, UNCHANGED <<readerVars, work, closing, restarted>>,
           NEW o \in Orders, NEW ltp \in Zones, Tick(o, ltp)
    PROVE  EntryInv'
<1>1. /\ UNCHANGED <<kind, row, entry, trig, watched, looking, placed, lost, writing>>
      /\ o \in watched /\ jobs' = jobs \union {[order |-> o, ltp |-> ltp]}
  BY DEF Tick, brokerVars
<1>2. \A x \in Orders : Pursued(x)' => Pursued(x)
  BY <1>1 DEF Pursued
<1>3. \A x \in Orders : Apart(x)
  <2> TAKE x \in Orders
  <2>1. NoNewRouting(x)
    BY MonitorQuiet
  <2> QED BY <1>1, <1>2, <2>1 DEF Apart, NoNewRouting
<1> QED BY <1>3, ApartKeeps DEF EntryInv

\* The background write ends in the row, or its result is lost.
LEMMA WriteKeepsEntries ==
    ASSUME TypeInv, EntryInv, UNCHANGED <<readerVars, work, closing, restarted>>,
           NEW o \in Orders, WriteSubmitted(o)
    PROVE  EntryInv'
<1>1. /\ UNCHANGED <<kind, watched, entry, jobs, looking, trig, placed>>
      /\ o \in writing /\ writing' = writing \ {o}
      /\ \/ row' = [row EXCEPT ![o] = [status |-> "SUBMITTED", brokerId |-> TRUE]] /\ lost' = lost
         \/ row' = row /\ lost' = [lost EXCEPT ![o] = lost[o] + 1]
  BY DEF WriteSubmitted, evalVars
<1>2. /\ row \in [Orders -> RowRecords]
      /\ placed \in [Orders -> Nat] /\ lost \in [Orders -> Nat]
  BY OrderFunctions
<1>3. \A x \in Orders \ {o} : Apart(x)
  <2> TAKE x \in Orders \ {o}
  <2>1. row'[x] = row[x]
    BY <1>1, <1>2
  <2>2. lost'[x] = lost[x]
    BY <1>1, <1>2
  <2> QED BY <1>1, <2>1, <2>2, OneTriggerApart
<1>4. EntryOK(o) /\ NoNewRouting(o)
  BY MonitorQuiet DEF EntryInv
<1>5. placed[o] = lost[o] + 1
  <2>1. placed[o] > lost[o] /\ placed[o] <= 1 + lost[o]
    BY <1>1, <1>4 DEF EntryOK, WriteIsOwed, Spent, Balanced
  <2> QED BY <1>2, <2>1
<1>6. \A w \in Workers : ~Routing(w, o)' /\ ~Executing(w, o)'
  <2>1. placed[o] # 0
    BY <1>2, <1>5
  <2>2. \A w \in Workers : ~Routing(w, o)
    BY <1>4, <2>1 DEF EntryOK, RoutedOnce, Untried
  <2> QED BY <1>4, <2>2 DEF NoNewRouting, Routing, Executing
<1>7. row[o] # NoRow
  BY <1>2, <1>4, <1>5 DEF EntryOK, Unrouted, Untried
<1>8. Pursued(o)' <=> Pursued(o)
  BY <1>1 DEF Pursued
<1>9. ASSUME row' = [row EXCEPT ![o] = [status |-> "SUBMITTED", brokerId |-> TRUE]], lost' = lost
      PROVE  EntryOK(o)'
  <2>1. row'[o].status = "SUBMITTED" /\ row'[o] # NoRow
    BY <1>2, <1>9 DEF NoRow
  <2>2. Spent(o)' /\ Balanced(o)'
    BY <1>1, <1>2, <1>5, <1>9 DEF Spent, Balanced
  <2>3. WriteIsOwed(o)' /\ FlagHeld(o)' /\ AttemptIsDue(o)' /\ SpentIsOver(o)'
    <3>1. Spent(o)
      BY <1>1, <1>4 DEF EntryOK, WriteIsOwed
    <3> QED BY <1>1, <1>4, <1>8, <2>2, <3>1
            DEF EntryOK, WriteIsOwed, FlagHeld, AttemptIsDue, SpentIsOver
  <2>4. SpentIsRecorded(o)'
    BY <2>1 DEF SpentIsRecorded
  <2>5. Unrouted(o)' /\ RoutedOnce(o)' /\ DirectIsNotWatched(o)'
    BY <1>6, <2>1 DEF Unrouted, RoutedOnce, DirectIsNotWatched
  <2> QED BY <2>2, <2>3, <2>4, <2>5 DEF EntryOK
<1>10. ASSUME row' = row, lost' = [lost EXCEPT ![o] = lost[o] + 1]
       PROVE  EntryOK(o)'
  <2>1. placed'[o] = lost'[o] /\ lost'[o] \in Nat
    BY <1>1, <1>2, <1>5, <1>10
  <2>2. ~Spent(o)' /\ Balanced(o)' /\ o \notin writing'
    BY <1>1, <2>1 DEF Spent, Balanced
  <2>3. /\ WriteIsOwed(o)' /\ FlagHeld(o)' /\ AttemptIsDue(o)' /\ SpentIsOver(o)'
        /\ SpentIsRecorded(o)'
    BY <1>1, <1>4, <2>2
       DEF EntryOK, WriteIsOwed, FlagHeld, AttemptIsDue, SpentIsOver, SpentIsRecorded
  <2>4. Unrouted(o)' /\ RoutedOnce(o)' /\ DirectIsNotWatched(o)'
    BY <1>6, <1>7, <1>10 DEF Unrouted, RoutedOnce, DirectIsNotWatched
  <2> QED BY <2>2, <2>3, <2>4 DEF EntryOK
<1> QED BY <1>1, <1>3, <1>9, <1>10, ApartKeeps DEF EntryInv

\* All of the monitor.
LEMMA MonitorKeepsEntries ==
    ASSUME TypeInv, EntryInv, MonitorNext, UNCHANGED <<readerVars, work, closing, restarted>>
    PROVE  EntryInv'
  BY EvaluationKeepsEntries, CheckKeepsEntries, PlacementKeepsEntries, RefusalKeepsEntries,
     DropKeepsEntries, TickKeepsEntries, WriteKeepsEntries
     DEF MonitorNext, TriggerOrder

-----------------------------------------------------------------------------
(***************************************************************************)
(* The reader and the workers keep EntryInv.                               *)
(***************************************************************************)
LEMMA QuietWork ==
    ASSUME TypeInv, EntryInv, UNCHANGED monitorVars, \A o : NoNewRouting(o)
    PROVE  EntryInv'
<1>1. UNCHANGED <<kind, row, watched, entry, jobs, looking, trig, placed, lost, writing>>
  BY DEF monitorVars, evalVars, brokerVars
<1>2. \A o \in Orders : Apart(o)
  <2> TAKE o \in Orders
  <2>1. Pursued(o)' => Pursued(o)
    BY <1>1 DEF Pursued
  <2> QED BY <1>1, <2>1 DEF Apart, NoNewRouting
<1> QED BY <1>2, ApartKeeps DEF EntryInv

\* The reader, the queue and the commits.
LEMMA ReaderKeepsEntries ==
    ASSUME TypeInv, EntryInv, NEW w \in Workers, Fetch \/ Take(w) \/ Commit(w)
    PROVE  EntryInv'
<1>1. UNCHANGED monitorVars /\ topic' = topic
  BY DEF Fetch, Take, Commit
<1>2. \A o : NoNewRouting(o)
  <2>1. CASE Fetch
    BY <1>1, <2>1, SameWork DEF Fetch
  <2>2. CASE Take(w)
    <3> DEFINE rec == [Idle EXCEPT !.pc = "insert", !.off = Head(queue)]
    <3>1. work' = [work EXCEPT ![w] = rec] /\ rec.pc = "insert"
      BY <2>2 DEF Take, Idle
    <3> HIDE DEF rec
    <3> QED BY <1>1, <3>1, LeavesRouting
  <2>3. CASE Commit(w)
    BY <1>1, <2>3, GoToLeaves DEF Commit, GiveUp
  <2> QED BY <2>1, <2>2, <2>3
<1> QED BY <1>1, <1>2, QuietWork

\* A step of one worker that leaves every order but its own alone.
LEMMA OneWorkApart ==
    ASSUME TypeInv, NEW o \in Orders, NEW x \in Orders \ {o}, NoNewRouting(x),
           UNCHANGED <<kind, jobs, looking, trig>>, watched' \subseteq watched \union {o},
           row'[x] = row[x], entry'[x] = entry[x],
           placed'[x] = placed[x], lost'[x] = lost[x], x \in writing' <=> x \in writing
    PROVE  Apart(x)
<1>1. Pursued(x)' => Pursued(x)
  BY DEF Pursued
<1> QED BY <1>1 DEF Apart, NoNewRouting

\* The insert that creates the row is the first that is heard of the order.
LEMMA InsertKeepsEntries ==
    ASSUME TypeInv, EntryInv, NEW w \in Workers, Insert(w)
    PROVE  EntryInv'
<1>1. /\ work[w].pc = "insert" /\ topic' = topic
      /\ UNCHANGED <<scenario, kind, evalVars, trig, brokerVars, exitVars>>
  BY DEF Insert, readerVars
<1>2. CASE row' = row /\ (GiveUp(w) \/ GoTo(w, "commit"))
  <2>1. \A o : NoNewRouting(o)
    BY <1>1, <1>2, GoToLeaves
  <2> QED BY <1>1, <1>2, <2>1, QuietWork DEF monitorVars
<1>3. CASE Message(w) # Malformed /\ Create(Message(w)) /\ GoTo(w, "route")
  <2>1. PICK o \in Orders : o = Message(w)
    BY <1>1, <1>3, MessageIsOrder
  <2>2. row[o] = NoRow /\ row' = [row EXCEPT ![o].status = "RECEIVED"]
    BY <1>3, <2>1 DEF Create
  <2>3. row \in [Orders -> RowRecords]
    BY OrderFunctions
  <2>4. row'[o] # NoRow /\ \A x \in Orders \ {o} : row'[x] = row[x]
    <3>1. row'[o].status = "RECEIVED" /\ \A x \in Orders \ {o} : row'[x] = row[x]
      <4> DEFINE r == [row[o] EXCEPT !.status = "RECEIVED"]
      <4>1. row' = [row EXCEPT ![o] = r] /\ r.status = "RECEIVED"
        BY <2>2, <2>3 DEF RowRecords
      <4> HIDE DEF r
      <4> QED BY <2>3, <4>1
    <3> QED BY <3>1 DEF NoRow
  <2>5. \A x \in Workers : x # w => work'[x] = work[x]
    BY <1>3 DEF GoTo, TypeInv, SignalTypeOK
  <2>6. work'[w].pc = "route" /\ work'[w].off = work[w].off
    <3>1. work \in [Workers -> WorkRecords] /\ work[w] \in WorkRecords
      BY DEF TypeInv, SignalTypeOK
    <3> DEFINE r == [work[w] EXCEPT !.pc = "route"]
    <3>2. work' = [work EXCEPT ![w] = r] /\ r.pc = "route" /\ r.off = work[w].off
      BY <1>3, <3>1 DEF GoTo, WorkRecords
    <3> HIDE DEF r
    <3> QED BY <3>1, <3>2
  <2>7. \A x \in Orders \ {o} : NoNewRouting(x)
    BY <1>1, <2>1, <2>5, <2>6 DEF NoNewRouting, Routing, Executing, Message
  <2>8. \A x \in Orders \ {o} : Apart(x)
    BY <1>1, <2>4, <2>7, OneWorkApart DEF evalVars, brokerVars
  <2>9. EntryOK(o) /\ Untried(o) /\ \A x \in Workers : ~Routing(x, o)
    BY <2>2 DEF EntryInv, EntryOK, Unrouted
  <2>10. \A x \in Workers : ~Executing(x, o)' /\ (x # w => ~Routing(x, o)')
    <3> TAKE x \in Workers
    <3>1. CASE x = w
      BY <2>6, <3>1 DEF Executing
    <3>2. CASE x # w
      BY <1>1, <2>5, <2>9, <3>2 DEF Executing, Routing, Message
    <3> QED BY <3>1, <3>2
  <2>11. Untried(o)' /\ ~Spent(o)'
    <3>1. Untried(o)'
      BY <1>1, <2>9 DEF Untried, Pursued, evalVars, brokerVars
    <3>2. placed'[o] = 0 /\ lost'[o] = 0
      BY <3>1 DEF Untried
    <3> QED BY <3>1, <3>2 DEF Spent
  <2>12. Unrouted(o)' /\ RoutedOnce(o)' /\ DirectIsNotWatched(o)'
    BY <2>4, <2>10, <2>11 DEF Unrouted, RoutedOnce, DirectIsNotWatched
  <2>13. Balanced(o)'
    BY <2>11 DEF Balanced, Untried
  <2>14. WriteIsOwed(o)' /\ FlagHeld(o)'
    <3>1. ~Spent(o) /\ trig'[o] = "idle"
      BY <1>1, <2>9 DEF Spent, Untried, Pursued
    <3> QED BY <1>1, <2>9, <3>1 DEF WriteIsOwed, FlagHeld, EntryOK, brokerVars
  <2>15. AttemptIsDue(o)' /\ SpentIsOver(o)' /\ SpentIsRecorded(o)'
    BY <2>11 DEF AttemptIsDue, SpentIsOver, SpentIsRecorded
  <2>16. EntryOK(o)'
    BY <2>12, <2>13, <2>14, <2>15 DEF EntryOK
  <2> QED BY <2>8, <2>16, ApartKeeps DEF EntryInv
<1> QED BY <1>2, <1>3 DEF Insert

\* An order that a worker leaves behind with nothing placed whose result is awaited.
LEMMA LeftUnspent ==
    ASSUME TypeInv, NEW o \in Orders, EntryOK(o), NEW w \in Workers, Routing(w, o),
           NoNewRouting(o), ~Routing(w, o)', ~Executing(w, o)', kind' = kind, trig' = trig,
           row'[o] = row[o] \/ row'[o] # NoRow,
           placed'[o] = lost'[o], lost'[o] \in Nat, o \in writing' => o \in writing
    PROVE  EntryOK(o)'
<1>1. Untried(o) /\ row[o] # NoRow
  BY DEF EntryOK, RoutedOnce, Unrouted
<1>2. \A x \in Workers : ~Routing(x, o)' /\ ~Executing(x, o)'
  BY DEF EntryOK, RoutedOnce, NoNewRouting, Routing, Executing
<1>3. ~Spent(o)' /\ Balanced(o)'
  BY DEF Spent, Balanced
<1>4. WriteIsOwed(o)' /\ FlagHeld(o)'
  <2>1. ~Spent(o) /\ trig'[o] = "idle"
    BY <1>1 DEF Spent, Untried, Pursued
  <2> QED BY <2>1 DEF WriteIsOwed, FlagHeld, EntryOK
<1>5. Unrouted(o)' /\ RoutedOnce(o)' /\ DirectIsNotWatched(o)'
  BY <1>1, <1>2 DEF Unrouted, RoutedOnce, DirectIsNotWatched
<1>6. AttemptIsDue(o)' /\ SpentIsOver(o)' /\ SpentIsRecorded(o)'
  BY <1>3 DEF AttemptIsDue, SpentIsOver, SpentIsRecorded
<1> QED BY <1>3, <1>4, <1>5, <1>6 DEF EntryOK

\* A routed order is untried, and a direct one is not below its minimum.
LEMMA RouteKeepsEntries ==
    ASSUME TypeInv, EntryInv, NEW w \in Workers, Route(w)
    PROVE  EntryInv'
<1>1. /\ work[w].pc = "route" /\ topic' = topic
      /\ UNCHANGED <<scenario, kind, row, jobs, looking, trig, placed, lost, writing>>
  BY RouteCases DEF readerVars, brokerVars
<1>2. PICK o \in Orders : o = Message(w)
  BY <1>1, MessageIsOrder
<1>3. EntryOK(o) /\ Routing(w, o)
  BY <1>1, <1>2 DEF EntryInv, Routing
<1>4. Untried(o) /\ row[o] # NoRow /\ \A x \in Workers \ {w} : ~Routing(x, o)
  BY <1>3 DEF EntryOK, RoutedOnce, Unrouted
<1>5. ASSUME NEW auth \in BOOLEAN, RoutedToMonitor(w, auth)
      PROVE  EntryInv'
  <2>1. \A x : NoNewRouting(x) /\ ~Routing(w, x)' /\ ~Executing(w, x)'
    BY <1>1, <1>5, GoToLeaves DEF RoutedToMonitor
  <2>2. watched' = watched \union {o} /\ \A x \in Orders \ {o} : entry'[x] = entry[x]
    <3> DEFINE e == NewEntry(kind[o].max, AfterFill(o, auth))
    <3>1. watched' = watched \union {o} /\ (entry' = entry \/ entry' = [entry EXCEPT ![o] = e])
      BY <1>2, <1>5 DEF RoutedToMonitor, Watch
    <3> HIDE DEF e
    <3> QED BY <3>1, OrderFunctions
  <2>3. \A x \in Orders \ {o} : Apart(x)
    BY <1>1, <2>1, <2>2, OneWorkApart
  <2>4. EntryOK(o)'
    <3>1. placed'[o] = lost'[o] /\ lost'[o] \in Nat
      BY <1>1, <1>4 DEF Untried
    <3> QED BY <1>1, <1>3, <2>1, <3>1, LeftUnspent
  <2> QED BY <2>3, <2>4, ApartKeeps DEF EntryInv
<1>6. CASE RoutedNowhere(w)
  <2>1. \A x : NoNewRouting(x)
    BY <1>1, <1>6, GoToLeaves DEF RoutedNowhere
  <2>2. \A x \in Orders : Apart(x)
    <3> TAKE x \in Orders
    <3>1. watched' = watched /\ entry' = entry
      BY <1>6 DEF RoutedNowhere
    <3>2. Pursued(x)' => Pursued(x)
      BY <1>1, <3>1 DEF Pursued
    <3> QED BY <1>1, <2>1, <3>1, <3>2 DEF Apart, NoNewRouting
  <2> QED BY <2>2, ApartKeeps DEF EntryInv
<1>7. ASSUME NEW auth \in BOOLEAN, NEW via \in {"exec", "oco", "ml"},
             RoutedToExecutor(w, auth, via)
      PROVE  EntryInv'
  <2>1. /\ \A x \in Workers \ {w} : work'[x] = work[x]
        /\ work'[w].pc = "execute" /\ work'[w].off = work[w].off
    BY <1>1, <1>7, ToExecutor
  <2>2. watched' = watched /\ entry' = entry /\ ~kind[o].belowMin
    BY <1>2, <1>7 DEF RoutedToExecutor, RouteOf
  <2>3. \A x \in Orders \ {o} : NoNewRouting(x)
    BY <1>1, <1>2, <2>1 DEF NoNewRouting, Routing, Executing, Message
  <2>4. \A x \in Orders \ {o} : Apart(x)
    BY <1>1, <2>2, <2>3, OneWorkApart
  <2>5. \A x \in Workers : Routing(x, o)' => Routing(x, o)
    BY <1>1, <1>2, <1>3, <2>1 DEF Routing, Message
  <2>6. Untried(o)'
    BY <1>1, <1>4, <2>2 DEF Untried, Pursued
  <2>7. Unrouted(o)' /\ RoutedOnce(o)'
    BY <1>1, <1>3, <1>4, <2>5, <2>6 DEF EntryOK, Unrouted, RoutedOnce
  <2>8. DirectIsNotWatched(o)'
    BY <1>1, <2>2 DEF DirectIsNotWatched
  <2>9. Spent(o)' <=> Spent(o)
    BY <1>1 DEF Spent
  <2>10. Pursued(o)' <=> Pursued(o)
    BY <1>1, <2>2 DEF Pursued
  <2>11. /\ Balanced(o)' /\ WriteIsOwed(o)' /\ FlagHeld(o)' /\ AttemptIsDue(o)'
         /\ SpentIsOver(o)' /\ SpentIsRecorded(o)'
    BY <1>1, <1>3, <2>2, <2>9, <2>10
       DEF EntryOK, Balanced, WriteIsOwed, FlagHeld, AttemptIsDue, SpentIsOver, SpentIsRecorded
  <2>12. EntryOK(o)'
    BY <2>7, <2>8, <2>11 DEF EntryOK
  <2> QED BY <2>4, <2>12, ApartKeeps DEF EntryInv
<1> QED BY <1>5, <1>6, <1>7, RouteCases

\* The placement by a worker is the first of its order.
LEMMA ExecuteKeepsEntries ==
    ASSUME TypeInv, EntryInv, NEW w \in Workers, Execute(w)
    PROVE  EntryInv'
<1>1. /\ work[w].pc = "execute" /\ GoTo(w, "placed") /\ topic' = topic
      /\ UNCHANGED <<scenario, kind, watched, entry, jobs, looking, trig>>
  BY DEF Execute, readerVars, evalVars
<1>2. PICK o \in Orders : o = Message(w)
  BY <1>1, MessageIsOrder
<1>3. EntryOK(o) /\ Routing(w, o) /\ Executing(w, o)
  BY <1>1, <1>2 DEF EntryInv, Routing, Executing
<1>4. /\ Untried(o) /\ row[o] # NoRow /\ ~kind[o].belowMin
      /\ \A x \in Workers \ {w} : ~Routing(x, o)
  BY <1>3 DEF EntryOK, RoutedOnce, Unrouted, DirectIsNotWatched
<1>5. \A x : NoNewRouting(x) /\ ~Routing(w, x)' /\ ~Executing(w, x)'
  BY <1>1, GoToLeaves
<1>6. /\ placed' = [placed EXCEPT ![o] = placed[o] + 1] /\ lost' = lost
      /\ \A x \in Orders \ {o} : x \in writing' <=> x \in writing
      /\ row' = row \/ Update(o, "FILLED", TRUE)
  BY <1>2 DEF Execute, Accepted
<1>7. /\ row'[o] = row[o] \/ row'[o] # NoRow
      /\ \A x \in Orders \ {o} : row'[x] = row[x]
  BY <1>6, StatusCloses DEF Statuses, RowClosed
<1>8. \A x \in Orders \ {o} : Apart(x)
  <2> TAKE x \in Orders \ {o}
  <2>1. placed'[x] = placed[x] /\ lost'[x] = lost[x]
    BY <1>6, OrderFunctions
  <2> QED BY <1>1, <1>5, <1>6, <1>7, <2>1, OneWorkApart
<1>9. placed'[o] = 1 /\ lost'[o] = 0
  BY <1>4, <1>6, OrderFunctions DEF Untried
<1>10. Spent(o)' /\ Balanced(o)'
  BY <1>9 DEF Spent, Balanced
<1>11. trig'[o] = "idle" /\ ~Pursued(o)'
  BY <1>1, <1>4 DEF Untried, Pursued
<1>12. \A x \in Workers : ~Routing(x, o)' /\ ~Executing(x, o)'
  BY <1>4, <1>5 DEF NoNewRouting, Routing, Executing
<1>13. Unrouted(o)' /\ RoutedOnce(o)' /\ DirectIsNotWatched(o)'
  BY <1>4, <1>7, <1>12 DEF Unrouted, RoutedOnce, DirectIsNotWatched
<1>14. /\ WriteIsOwed(o)' /\ FlagHeld(o)' /\ AttemptIsDue(o)' /\ SpentIsOver(o)'
       /\ SpentIsRecorded(o)'
  BY <1>1, <1>4, <1>10, <1>11
     DEF WriteIsOwed, FlagHeld, AttemptIsDue, SpentIsOver, SpentIsRecorded
<1>15. EntryOK(o)'
  BY <1>10, <1>13, <1>14 DEF EntryOK
<1> QED BY <1>8, <1>15, ApartKeeps DEF EntryInv

\* The failed placement by a worker leaves nothing unaccounted for.
LEMMA FailureKeepsEntries ==
    ASSUME TypeInv, EntryInv, NEW w \in Workers, ExecuteFails(w)
    PROVE  EntryInv'
<1>1. /\ work[w].pc = "execute" /\ GiveUp(w) /\ topic' = topic
      /\ UNCHANGED <<scenario, kind, watched, entry, jobs, looking, trig, writing>>
  BY DEF ExecuteFails, readerVars, evalVars
<1>2. PICK o \in Orders : o = Message(w)
  BY <1>1, MessageIsOrder
<1>3. EntryOK(o) /\ Routing(w, o)
  BY <1>1, <1>2 DEF EntryInv, Routing
<1>4. \A x : NoNewRouting(x) /\ ~Routing(w, x)' /\ ~Executing(w, x)'
  BY <1>1, GoToLeaves
<1>5. /\ \/ placed' = placed /\ lost' = lost
         \/ /\ placed' = [placed EXCEPT ![o] = placed[o] + 1]
            /\ lost' = [lost EXCEPT ![o] = lost[o] + 1]
      /\ row' = row \/ Update(o, "FAILED", FALSE)
  BY <1>2 DEF ExecuteFails
<1>6. /\ row'[o] = row[o] \/ row'[o] # NoRow
      /\ \A x \in Orders \ {o} : row'[x] = row[x]
  BY <1>5, StatusCloses DEF Statuses, RowClosed
<1>7. \A x \in Orders \ {o} : Apart(x)
  <2> TAKE x \in Orders \ {o}
  <2>1. placed'[x] = placed[x] /\ lost'[x] = lost[x]
    BY <1>5, OrderFunctions
  <2> QED BY <1>1, <1>4, <1>6, <2>1, OneWorkApart
<1>8. placed'[o] = lost'[o] /\ lost'[o] \in Nat
  <2>1. placed[o] = 0 /\ lost[o] = 0
    BY <1>3 DEF EntryOK, RoutedOnce, Untried
  <2> QED BY <1>5, <2>1, OrderFunctions
<1>9. EntryOK(o)'
  BY <1>1, <1>3, <1>4, <1>6, <1>8, LeftUnspent
<1> QED BY <1>7, <1>9, ApartKeeps DEF EntryInv

(***************************************************************************)
(* The adoption, the fills, the closing of the strategy and the restart    *)
(* keep EntryInv.                                                          *)
(***************************************************************************)
LEMMA ClosingKeepsEntries ==
    ASSUME TypeInv, EntryInv,
           \/ \E w \in Workers : Adopt(w)
           \/ \E o \in Orders : FillEvent(o)
           \/ StartClosing \/ FinishClosing
    PROVE  EntryInv'
<1>1. /\ UNCHANGED <<kind, entry, jobs, looking, trig, placed, lost, writing, topic>>
      /\ watched' \subseteq watched
  BY DEF Adopt, FillEvent, Fill, StartClosing, FinishClosing, evalVars, brokerVars, readerVars
<1>2. \A o : NoNewRouting(o)
  <2>1. CASE work' = work
    BY <1>1, <2>1, SameWork
  <2>2. ASSUME NEW w \in Workers, Adopt(w) PROVE \A o : NoNewRouting(o)
    BY <1>1, <2>2, GoToLeaves DEF Adopt
  <2> QED BY <2>1, <2>2 DEF FillEvent, StartClosing, FinishClosing
<1>3. \A o \in Orders : row'[o] = row[o] \/ RowClosed(o)
  <2>1. CASE row' = row
    BY <2>1
  <2>2. CASE FinishClosing
    <3> TAKE o \in Orders
    <3>1. row'[o] = IF row[o] = NoRow THEN NoRow ELSE [row[o] EXCEPT !.status = "CANCELLED"]
      BY <2>2 DEF FinishClosing
    <3>2. row[o] \in RowRecords
      BY OrderFunctions
    <3>3. CASE row[o] = NoRow
      BY <3>1, <3>3
    <3>4. CASE row[o] # NoRow
      <4>1. row'[o].status = "CANCELLED"
        BY <3>1, <3>2, <3>4 DEF RowRecords
      <4> QED BY <4>1 DEF RowClosed, NoRow
    <3> QED BY <3>3, <3>4
  <2> QED BY <2>1, <2>2 DEF Adopt, FillEvent, Fill, StartClosing
<1>4. \A o \in Orders : Apart(o)
  <2> TAKE o \in Orders
  <2>1. Pursued(o)' => Pursued(o)
    BY <1>1, SamePursuit
  <2> QED BY <1>1, <1>2, <1>3, <2>1 DEF Apart, NoNewRouting
<1> QED BY <1>4, ApartKeeps DEF EntryInv

\* A restart reloads no spent order.
LEMMA RestartKeepsEntries ==
    ASSUME TypeInv, EntryInv, Restart
    PROVE  EntryInv'
<1> SUFFICES ASSUME NEW o \in Orders PROVE EntryOK(o)'
  BY DEF EntryInv
<1>1. /\ UNCHANGED <<kind, row, placed>> /\ jobs' = {} /\ looking' = {}
      /\ watched' = PendingMonitorOrders /\ trig' = [x \in Orders |-> "idle"]
      /\ writing' = {} /\ work' = [w \in Workers |-> Idle]
      /\ lost' = [x \in Orders |-> lost[x] + IF x \in writing THEN 1 ELSE 0]
  BY DEF Restart
<1>2. EntryOK(o) /\ placed[o] \in Nat /\ lost[o] \in Nat
  BY OrderFunctions DEF EntryInv
<1>3. \A w \in Workers : ~Routing(w, o)' /\ ~Executing(w, o)'
  BY <1>1 DEF Routing, Executing, Idle
<1>4. Pursued(o)' <=> o \in PendingMonitorOrders
  BY <1>1 DEF Pursued
<1>5. lost'[o] = IF o \in writing THEN lost[o] + 1 ELSE lost[o]
  BY <1>1, <1>2
<1>6. Balanced(o)' /\ (Spent(o)' => Spent(o) /\ o \notin writing)
  <2>1. lost[o] <= placed[o] /\ placed[o] <= 1 + lost[o] /\ placed'[o] = placed[o]
    BY <1>1, <1>2 DEF EntryOK, Balanced
  <2>2. CASE o \in writing
    <3>1. placed[o] > lost[o] /\ lost'[o] = lost[o] + 1
      BY <1>2, <1>5, <2>2 DEF EntryOK, WriteIsOwed, Spent
    <3> QED BY <1>2, <2>1, <3>1 DEF Balanced, Spent
  <2>3. CASE o \notin writing
    <3>1. lost'[o] = lost[o]
      BY <1>5, <2>3
    <3> QED BY <2>1, <2>3, <3>1 DEF Balanced, Spent
  <2> QED BY <2>2, <2>3
<1>7. Spent(o)' => o \notin PendingMonitorOrders
  <2> SUFFICES ASSUME Spent(o)', o \in PendingMonitorOrders PROVE FALSE
    OBVIOUS
  <2>1. /\ row[o] = [status |-> "RECEIVED", brokerId |-> FALSE]
        /\ kind[o].belowMin /\ ~kind[o].paper
    BY DEF PendingMonitorOrders
  <2>2. row[o].status # "RECEIVED" \/ row[o].brokerId
    BY <1>2, <1>6, <2>1 DEF EntryOK, SpentIsRecorded
  <2> QED BY <2>1, <2>2
<1>8. Unrouted(o)'
  <2> SUFFICES ASSUME row'[o] = NoRow PROVE Untried(o)'
    BY <1>3 DEF Unrouted
  <2>1. row[o] = NoRow /\ Untried(o)
    BY <1>1, <1>2 DEF EntryOK, Unrouted
  <2>2. o \notin PendingMonitorOrders
    BY <2>1 DEF PendingMonitorOrders, NoRow
  <2>3. o \notin writing
    BY <1>2, <2>1 DEF EntryOK, WriteIsOwed, Spent, Untried
  <2> QED BY <1>1, <1>4, <1>5, <2>1, <2>2, <2>3 DEF Untried
<1>9. RoutedOnce(o)' /\ DirectIsNotWatched(o)'
  BY <1>3 DEF RoutedOnce, DirectIsNotWatched
<1>10. WriteIsOwed(o)' /\ FlagHeld(o)' /\ AttemptIsDue(o)'
  BY <1>1 DEF WriteIsOwed, FlagHeld, AttemptIsDue
<1>11. SpentIsOver(o)'
  BY <1>4, <1>7 DEF SpentIsOver
<1>12. SpentIsRecorded(o)'
  BY <1>1, <1>2, <1>6 DEF EntryOK, SpentIsRecorded
<1> QED BY <1>6, <1>8, <1>9, <1>10, <1>11, <1>12 DEF EntryOK

-----------------------------------------------------------------------------
(***************************************************************************)
(* Every step keeps EntryInv.                                              *)
(***************************************************************************)
LEMMA EntryInit == Init => EntryInv
<1> SUFFICES ASSUME Init, NEW o \in Orders PROVE EntryOK(o)
  BY DEF EntryInv
<1>1. /\ placed[o] = 0 /\ lost[o] = 0 /\ trig[o] = "idle" /\ writing = {}
      /\ watched = {} /\ jobs = {} /\ looking = {}
      /\ \A w \in Workers : work[w].pc = "idle"
  BY DEF Init, MonitorInit, Idle
<1>2. ~Pursued(o) /\ \A w \in Workers : ~Routing(w, o) /\ ~Executing(w, o)
  BY <1>1 DEF Pursued, Routing, Executing
<1>3. Untried(o) /\ ~Spent(o)
  BY <1>1, <1>2 DEF Untried, Spent
<1> QED
  BY <1>1, <1>2, <1>3 DEF EntryOK, Balanced, WriteIsOwed, Unrouted, RoutedOnce,
     DirectIsNotWatched, FlagHeld, AttemptIsDue, SpentIsOver, SpentIsRecorded

\* The workers, the monitor, the closing and the restart together.
LEMMA EntryStep == TypeInv /\ EntryInv /\ [Next]_vars => EntryInv'
<1> SUFFICES ASSUME TypeInv, EntryInv, [Next]_vars PROVE EntryInv'
  OBVIOUS
<1>1. CASE UNCHANGED vars
  BY <1>1, QuietWork, SameWork DEF vars, readerVars
<1>2. CASE MonitorNext /\ UNCHANGED <<readerVars, work, closing, restarted>>
  BY <1>2, MonitorKeepsEntries
<1>3. CASE Working
  <2>1. CASE Fetch
    <3>1. \A o : NoNewRouting(o)
      BY <2>1, SameWork DEF Fetch
    <3> QED BY <2>1, <3>1, QuietWork DEF Fetch
  <2>2. ASSUME NEW w \in Workers,
               \/ Take(w) \/ Insert(w) \/ Route(w) \/ Execute(w)
               \/ ExecuteFails(w) \/ Adopt(w) \/ Commit(w)
        PROVE  EntryInv'
    BY <2>2, ReaderKeepsEntries, InsertKeepsEntries, RouteKeepsEntries, ExecuteKeepsEntries,
       FailureKeepsEntries, ClosingKeepsEntries
  <2> QED BY <1>3, <2>1, <2>2 DEF Working
<1> QED
  BY <1>1, <1>2, <1>3, ClosingKeepsEntries, RestartKeepsEntries DEF Next

(***************************************************************************)
(* One signal is one entry, for any number of orders, workers and          *)
(* messages, any queue and any retry bound, whatever is redelivered,       *)
(* retried, reloaded, cancelled or raced: an order has at most one entry   *)
(* more than it has results that nobody recorded.                          *)
(***************************************************************************)
THEOREM OneSignalOneEntry == Spec => []SecondEntryOnlyAfterLostResult
<1>1. EntryInv => SecondEntryOnlyAfterLostResult
  BY DEF EntryInv, EntryOK, Balanced, SecondEntryOnlyAfterLostResult
<1> QED BY <1>1, SignalInit, EntryInit, TypeStep, EntryStep, PTL DEF Spec

-----------------------------------------------------------------------------
(***************************************************************************)
(* Cancelled orders                                                        *)
(***************************************************************************)

\* A cancelled order of which no placement is under way: nothing of it is written.
LEMMA BarredIsNotWritten ==
    ASSUME TypeInv, EntryInv, NEW o \in Orders, Barred(o)
    PROVE  /\ row[o] # NoRow /\ o \notin writing
           /\ \A w \in Workers : work[w].pc \in {"route", "execute"} => Message(w) # o
           /\ trig[o] \in {"idle", "check"} /\ IsTerminalStatus(row[o].status)
<1>1. /\ row[o].status = "CANCELLED" /\ placed[o] = 0
      /\ trig[o] \in {"idle", "check"}
      /\ \A w \in Workers : work[w].pc \in {"route", "execute"} => Message(w) # o
  BY DEF Barred, Uncommitted
<1>2. o \notin writing
  <2>1. lost[o] \in Nat /\ placed[o] \in Nat
    BY OrderFunctions
  <2> QED BY <1>1, <2>1 DEF EntryInv, EntryOK, WriteIsOwed, Spent
<1> QED BY <1>1, <1>2 DEF NoRow, IsTerminalStatus

\* What a step must leave alone for a barred order to stay barred.
LEMMA StaysBarred ==
    ASSUME NEW o \in Orders, Barred(o), NoNewRouting(o), placed'[o] = placed[o],
           row'[o] = row[o] \/ row'[o].status = "CANCELLED",
           trig'[o] \in {trig[o], "idle", "check"}
    PROVE  Barred(o)'
<1>1. \A w \in Workers : ~Routing(w, o)'
  BY DEF Barred, Uncommitted, NoNewRouting, Routing
<1> QED BY <1>1 DEF Barred, Uncommitted, Routing

(***************************************************************************)
(* The monitor opens no barred order: triggerOrder finds the row terminal, *)
(* and everything else it does is about an order past that check.          *)
(***************************************************************************)
LEMMA MonitorKeepsBarred ==
    ASSUME TypeInv, EntryInv, NEW o \in Orders, Barred(o), "blind check" \notin scenario,
           MonitorNext, UNCHANGED <<readerVars, work, closing, restarted>>
    PROVE  Barred(o)'
<1>0. /\ NoNewRouting(o) /\ trig[o] \in {"idle", "check"} /\ o \notin writing
      /\ IsTerminalStatus(row[o].status)
  BY MonitorQuiet, BarredIsNotWritten
<1>1. /\ row \in [Orders -> RowRecords] /\ placed \in [Orders -> Nat]
      /\ trig \in [Orders -> {"idle", "check", "execute", "placed", "failed"}]
  BY OrderFunctions
<1>2. ASSUME NEW j \in Jobs, EvaluateEntry(j) PROVE Barred(o)'
  <2>1. /\ UNCHANGED <<row, placed>>
        /\ trig' = trig \/ trig' = [trig EXCEPT ![j.order] = "check"]
    BY <1>2 DEF EvaluateEntry, ActOn, TakeJob, Overshoot, Claim, brokerVars
  <2>2. trig'[o] \in {trig[o], "check"}
    BY <1>1, <2>1 DEF Jobs
  <2> QED BY <1>0, <2>1, <2>2, StaysBarred
<1>3. ASSUME NEW x \in Orders, CheckRow(x) PROVE Barred(o)'
  <2>1. UNCHANGED <<row, placed>>
    BY <1>3 DEF CheckRow, brokerVars
  <2>2. trig'[o] \in {trig[o], "idle"}
    <3>1. CASE x = o
      BY <1>0, <1>1, <1>3, <3>1 DEF CheckRow
    <3>2. CASE x # o
      BY <1>1, <1>3, <3>2 DEF CheckRow
    <3> QED BY <3>1, <3>2
  <2> QED BY <1>0, <2>1, <2>2, StaysBarred
<1>4. ASSUME NEW x \in Orders,
             \/ TriggerPlaces(x) \/ TriggerRefused(x) \/ TriggerDone(x)
             \/ TriggerFails(x) \/ WriteSubmitted(x)
      PROVE  Barred(o)'
  <2>1. x # o
    BY <1>0, <1>4 DEF TriggerPlaces, TriggerRefused, TriggerDone, TriggerFails, WriteSubmitted
  <2>2. \E s \in {"idle", "placed", "failed"} : trig' = trig \/ trig' = [trig EXCEPT ![x] = s]
    BY <1>4 DEF TriggerPlaces, TriggerRefused, TriggerDone, TriggerFails, WriteSubmitted
  <2>3. placed' = placed \/ placed' = [placed EXCEPT ![x] = placed[x] + 1]
    BY <1>4 DEF TriggerPlaces, TriggerRefused, TriggerDone, TriggerFails, WriteSubmitted,
       Accepted, Refused, brokerVars
  <2>4. \/ row' = row
        \/ \E st \in Statuses, id \in BOOLEAN : Update(x, st, id)
    <3>1. CASE WriteSubmitted(x)
      BY <3>1 DEF WriteSubmitted, Update, Statuses
    <3>2. CASE TriggerPlaces(x)
      BY <3>2 DEF TriggerPlaces, Accepted, Statuses
    <3>3. CASE TriggerRefused(x)
      BY <3>3 DEF TriggerRefused, Refused
    <3>4. CASE TriggerDone(x)
      BY <3>4 DEF TriggerDone
    <3>5. CASE TriggerFails(x)
      BY <3>5 DEF TriggerFails, Statuses
    <3> QED BY <1>4, <3>1, <3>2, <3>3, <3>4, <3>5
  <2>5. row'[o] = row[o]
    BY <2>1, <2>4, UpdateTypes DEF TypeInv
  <2>6. trig'[o] = trig[o]
    BY <1>1, <2>1, <2>2
  <2>7. placed'[o] = placed[o]
    BY <1>1, <2>1, <2>3
  <2> QED BY <1>0, <2>5, <2>6, <2>7, StaysBarred
<1>5. ASSUME NEW x \in Orders, DropExceeded(x) \/ CancelWatch(x) PROVE Barred(o)'
  <2>1. UNCHANGED <<trig, placed>> /\ UpdateStatus(x, "CANCELLED")
    BY <1>5 DEF DropExceeded, CancelWatch, brokerVars
  <2>2. row' = row \/ row' = [row EXCEPT ![x].status = "CANCELLED"]
    BY <2>1 DEF UpdateStatus
  <2>3. row'[o] = row[o] \/ row'[o].status = "CANCELLED"
    BY <1>1, <2>2 DEF RowRecords
  <2> QED BY <1>0, <2>1, <2>3, StaysBarred
<1>6. ASSUME NEW x \in Orders, NEW ltp \in Zones, Tick(x, ltp) PROVE Barred(o)'
  BY <1>0, <1>6, StaysBarred DEF Tick, brokerVars
<1> QED BY <1>2, <1>3, <1>4, <1>5, <1>6 DEF MonitorNext, TriggerOrder

(***************************************************************************)
(* Nor do the workers: the row exists, so an insert finds a duplicate, and *)
(* no worker is between the insert and the placement.                      *)
(***************************************************************************)
LEMMA WorkersKeepBarred ==
    ASSUME TypeInv, EntryInv, NEW o \in Orders, Barred(o), Working
    PROVE  Barred(o)'
<1>0. /\ row[o] # NoRow
      /\ \A w \in Workers : work[w].pc \in {"route", "execute"} => Message(w) # o
  BY BarredIsNotWritten
<1>1. row \in [Orders -> RowRecords] /\ placed \in [Orders -> Nat]
  BY OrderFunctions
<1>t. trig' = trig /\ topic' = topic
  BY DEF Working, Fetch, Take, Insert, Route, Execute, ExecuteFails, Adopt, Commit,
     monitorVars, readerVars
<1>2. ASSUME NEW w \in Workers, Insert(w) PROVE Barred(o)'
  <2>1. placed' = placed
    BY <1>2 DEF Insert, brokerVars
  <2>2. CASE row' = row /\ (GiveUp(w) \/ GoTo(w, "commit"))
    BY <1>t, <2>1, <2>2, GoToLeaves, StaysBarred
  <2>3. CASE Message(w) # Malformed /\ Create(Message(w)) /\ GoTo(w, "route")
    <3>1. Message(w) \in Orders /\ Message(w) # o
      BY <1>0, <1>2, <2>3, MessageIsOrder DEF Insert, Create
    <3>2. row'[o] = row[o]
      BY <1>1, <2>3, <3>1 DEF Create
    <3>3. NoNewRouting(o)
      <4>1. work \in [Workers -> WorkRecords] /\ work[w] \in WorkRecords
        BY DEF TypeInv, SignalTypeOK
      <4> DEFINE r == [work[w] EXCEPT !.pc = "route"]
      <4>2. work' = [work EXCEPT ![w] = r] /\ r.off = work[w].off
        BY <2>3, <4>1 DEF GoTo, WorkRecords
      <4> HIDE DEF r
      <4>3. \A x \in Workers : work'[x] = IF x = w THEN r ELSE work[x]
        BY <4>1, <4>2
      <4> QED BY <1>t, <3>1, <4>2, <4>3 DEF NoNewRouting, Routing, Executing, Message
    <3> QED BY <1>t, <2>1, <3>2, <3>3, StaysBarred
  <2> QED BY <1>2, <2>2, <2>3 DEF Insert
<1>3. ASSUME NEW w \in Workers, Route(w) PROVE Barred(o)'
  <2>1. work[w].pc = "route" /\ Message(w) # o /\ UNCHANGED <<row, placed>>
    BY <1>0, <1>3 DEF Route, brokerVars
  <2>2. NoNewRouting(o)
    <3>1. ASSUME NEW auth \in BOOLEAN, RoutedToMonitor(w, auth) PROVE NoNewRouting(o)
      BY <1>t, <3>1, GoToLeaves DEF RoutedToMonitor
    <3>2. CASE RoutedNowhere(w)
      BY <1>t, <3>2, GoToLeaves DEF RoutedNowhere
    <3>3. ASSUME NEW auth \in BOOLEAN, NEW via \in {"exec", "oco", "ml"},
                 RoutedToExecutor(w, auth, via)
          PROVE  NoNewRouting(o)
      <4>1. /\ \A x \in Workers \ {w} : work'[x] = work[x]
            /\ work'[w].off = work[w].off
        BY <1>t, <2>1, <3>3, ToExecutor
      <4> QED BY <1>t, <2>1, <4>1 DEF NoNewRouting, Routing, Executing, Message
    <3> QED BY <1>3, <3>1, <3>2, <3>3, RouteCases
  <2> QED BY <1>t, <2>1, <2>2, StaysBarred
<1>4. ASSUME NEW w \in Workers, Execute(w) \/ ExecuteFails(w) PROVE Barred(o)'
  <2>1. PICK x \in Orders : x = Message(w)
    BY <1>4, MessageIsOrder DEF Execute, ExecuteFails
  <2>2. x # o
    BY <1>0, <1>4, <2>1 DEF Execute, ExecuteFails
  <2>3. NoNewRouting(o)
    BY <1>t, <1>4, GoToLeaves DEF Execute, ExecuteFails
  <2>4. placed' = placed \/ placed' = [placed EXCEPT ![x] = placed[x] + 1]
    BY <1>4, <2>1 DEF Execute, ExecuteFails, Accepted
  <2>5. row' = row \/ Update(x, "FILLED", TRUE) \/ Update(x, "FAILED", FALSE)
    BY <1>4, <2>1 DEF Execute, ExecuteFails, Accepted
  <2>6. row'[o] = row[o]
    BY <2>2, <2>5, UpdateTypes DEF TypeInv, Statuses
  <2>7. placed'[o] = placed[o]
    BY <1>1, <2>2, <2>4
  <2> QED BY <1>t, <2>3, <2>6, <2>7, StaysBarred
<1>5. ASSUME NEW w \in Workers, Adopt(w) PROVE Barred(o)'
  BY <1>t, <1>5, GoToLeaves, StaysBarred DEF Adopt, brokerVars
<1>6. ASSUME NEW w \in Workers, Take(w) PROVE Barred(o)'
  <2> DEFINE rec == [Idle EXCEPT !.pc = "insert", !.off = Head(queue)]
  <2>1. work' = [work EXCEPT ![w] = rec] /\ rec.pc = "insert" /\ UNCHANGED <<row, placed>>
    BY <1>6 DEF Take, Idle, monitorVars, brokerVars
  <2> HIDE DEF rec
  <2>2. NoNewRouting(o)
    BY <1>t, <2>1, LeavesRouting
  <2> QED BY <1>t, <2>1, <2>2, StaysBarred
<1>7. ASSUME NEW w \in Workers, Commit(w) PROVE Barred(o)'
  BY <1>t, <1>7, GoToLeaves, StaysBarred DEF Commit, GiveUp, monitorVars, brokerVars
<1>8. CASE Fetch
  BY <1>t, <1>8, SameWork, StaysBarred DEF Fetch, monitorVars, brokerVars
<1> QED BY <1>2, <1>3, <1>4, <1>5, <1>6, <1>7, <1>8 DEF Working

\* No step opens a barred order.
LEMMA BarredStep ==
    ASSUME TypeInv, EntryInv, [Next]_vars, NEW o \in Orders, Barred(o),
           "blind check" \notin scenario
    PROVE  Barred(o)'
<1>1. CASE UNCHANGED vars
  BY <1>1 DEF Barred, Uncommitted, Message, vars, monitorVars, brokerVars, readerVars
<1>2. CASE StartClosing
  BY <1>2, SameWork, StaysBarred DEF StartClosing, brokerVars, readerVars
<1>3. CASE FinishClosing
  <2>1. row'[o] = IF row[o] = NoRow THEN NoRow ELSE [row[o] EXCEPT !.status = "CANCELLED"]
    BY <1>3 DEF FinishClosing
  <2>2. row[o] # NoRow /\ row[o] \in RowRecords
    BY BarredIsNotWritten, OrderFunctions
  <2>3. row'[o].status = "CANCELLED"
    BY <2>1, <2>2 DEF RowRecords
  <2> QED BY <1>3, <2>3, SameWork, StaysBarred DEF FinishClosing, brokerVars, readerVars
<1>4. CASE Restart
  <2>1. /\ UNCHANGED <<row, placed>> /\ trig'[o] = "idle"
        /\ \A w \in Workers : work'[w].pc = "idle"
    BY <1>4 DEF Restart, Idle
  <2> QED BY <2>1 DEF Barred, Uncommitted
<1>5. ASSUME NEW x \in Orders, FillEvent(x) PROVE Barred(o)'
  BY <1>5, SameWork, StaysBarred DEF FillEvent, Fill, readerVars
<1> QED BY <1>1, <1>2, <1>3, <1>4, <1>5, MonitorKeepsBarred, WorkersKeepBarred DEF Next

(***************************************************************************)
(* An order cancelled before a placement has passed its check of the row   *)
(* is never opened, in no interleaving and across a restart, as long as    *)
(* triggerOrder can read the row.                                          *)
(***************************************************************************)
THEOREM CancelledIsNeverOpened == Spec => CancelledStaysOut
<1>1. TypeInv /\ EntryInv /\ [Next]_vars =>
        [\A o \in Orders : "blind check" \notin scenario /\ Barred(o) => Barred(o)']_vars
  BY BarredStep
<1> QED
  BY <1>1, SignalInit, EntryInit, TypeStep, EntryStep, PTL DEF Spec, CancelledStaysOut

-----------------------------------------------------------------------------
(***************************************************************************)
(* Fills find their manager.  A fill is missed when no manager knows the   *)
(* order yet.  The invariant follows the order to the call that registers  *)
(* it: the monitor carries a callback for it or leaves a broker bracket;   *)
(* a worker has registered it before the placement, registers it with the  *)
(* placement, or has the credentials for the adoption; and whoever has     *)
(* placed it without a manager still holds it in hand, so that a fill that *)
(* comes then is one that came early.                                      *)
(***************************************************************************)
WantsExits(o) == kind[o].exits # "none" /\ ~kind[o].paper
Handling(w, o) == work[w].pc \in {"execute", "placed"} /\ Message(w) = o

OpenIsLive(o) == o \in open => ~kind[o].paper
MonitorKnowsExits(o) ==
    Pursued(o) /\ WantsExits(o) =>
        entry[o].after # "none" \/ kind[o].exits # "multi" \/ excuse[o] # {}
PlacedByMonitor(o) ==
    trig[o] = "placed" /\ WantsExits(o) =>
        entry[o].after # "none" \/ manager[o] # "none" \/ excuse[o] # {}
PlacedByWorker(o) ==
    \A w \in Workers : Handling(w, o) /\ WantsExits(o) =>
        \/ work[w].via = "ml" /\ manager[o] # "none"
        \/ work[w].via = "oco" /\ (work[w].pc = "placed" => manager[o] # "none")
        \/ work[w].via = "exec" /\ (work[w].auth \/ excuse[o] # {})
OcoIsLive(o) ==
    \A w \in Workers : Handling(w, o) /\ work[w].via = "oco" => ~kind[o].paper
OpenFindsManager(o) ==
    o \in open /\ WantsExits(o) => manager[o] # "none" \/ InHand(o) \/ excuse[o] # {}
MissedIsExcused(o) == fill[o] = "missed" /\ kind[o].exits # "none" => excuse[o] # {}

ExitOK(o) ==
    /\ OpenIsLive(o) /\ MonitorKnowsExits(o) /\ PlacedByMonitor(o) /\ PlacedByWorker(o)
    /\ OcoIsLive(o) /\ OpenFindsManager(o) /\ MissedIsExcused(o)

ExitInv == \A o \in Orders : ExitOK(o)

\* No worker comes to handle o, and none that has placed it lets go of it.
SameHandling(o) ==
    /\ \A w \in Workers : Handling(w, o)' => Handling(w, o) /\ work'[w] = work[w]
    /\ \A w \in Workers : work[w].pc = "placed" /\ Message(w) = o =>
                          work'[w].pc = "placed" /\ Message(w)' = o

\* A step that leaves the exits of o as they are, or gives them a manager.
ExitApart(o) ==
    /\ kind'[o] = kind[o] /\ fill'[o] = fill[o] /\ (o \in open' => o \in open)
    /\ excuse[o] # {} => excuse'[o] # {}
    /\ manager[o] # "none" => manager'[o] # "none"
    /\ entry'[o].after = entry[o].after /\ (Pursued(o)' => Pursued(o))
    /\ trig'[o] = "placed" <=> trig[o] = "placed"
    /\ SameHandling(o)

(***************************************************************************)
(* Such a step keeps what is known of the exits of o.                      *)
(***************************************************************************)
LEMMA ExitApartKeeps ==
    ASSUME NEW o \in Orders, ExitOK(o), ExitApart(o)
    PROVE  ExitOK(o)'
<1>1. WantsExits(o)' <=> WantsExits(o)
  BY DEF WantsExits, ExitApart
<1>2. OpenIsLive(o)' /\ MissedIsExcused(o)'
  BY DEF ExitOK, ExitApart, OpenIsLive, MissedIsExcused
<1>3. MonitorKnowsExits(o)' /\ PlacedByMonitor(o)'
  BY <1>1 DEF ExitOK, ExitApart, MonitorKnowsExits, PlacedByMonitor
<1>4. PlacedByWorker(o)' /\ OcoIsLive(o)'
  BY <1>1 DEF ExitOK, ExitApart, SameHandling, PlacedByWorker, OcoIsLive
<1>5. OpenFindsManager(o)'
  <2>1. InHand(o) => InHand(o)'
    BY DEF InHand, ExitApart, SameHandling
  <2> QED BY <1>1, <2>1 DEF ExitOK, ExitApart, OpenFindsManager
<1> QED BY <1>2, <1>3, <1>4, <1>5 DEF ExitOK

\* A step that leaves the workers alone.
LEMMA SameWorkSameHandling ==
    ASSUME topic' = topic, work' = work
    PROVE  \A o : SameHandling(o)
  BY DEF SameHandling, Handling, Message

\* A worker's step to a record outside the placement.
LEMMA LeavesHandling ==
    ASSUME TypeInv, NEW w \in Workers, topic' = topic, NEW rec,
           work' = [work EXCEPT ![w] = rec], rec.pc \notin {"execute", "placed"}
    PROVE  \A o : work[w].pc # "placed" \/ Message(w) # o => SameHandling(o)
<1>1. \A x \in Workers : work'[x] = IF x = w THEN rec ELSE work[x]
  BY DEF TypeInv, SignalTypeOK
<1> QED BY <1>1 DEF SameHandling, Handling, Message

\* A step of a worker to a place outside the placement.
LEMMA GoToHandling ==
    ASSUME TypeInv, NEW w \in Workers, topic' = topic,
           GiveUp(w) \/ GoTo(w, "commit") \/ GoTo(w, "route")
    PROVE  \A o : work[w].pc # "placed" \/ Message(w) # o => SameHandling(o)
<1>1. work \in [Workers -> WorkRecords] /\ work[w] \in WorkRecords
  BY DEF TypeInv, SignalTypeOK
<1>2. CASE GiveUp(w)
  BY <1>2, LeavesHandling DEF GiveUp, Idle
<1>3. ASSUME NEW pc \in {"commit", "route"}, GoTo(w, pc)
      PROVE  \A o : work[w].pc # "placed" \/ Message(w) # o => SameHandling(o)
  <2> DEFINE rec == [work[w] EXCEPT !.pc = pc]
  <2>1. work' = [work EXCEPT ![w] = rec]
    BY <1>1, <1>3 DEF GoTo
  <2>2. rec.pc \notin {"execute", "placed"}
    BY <1>1 DEF WorkRecords
  <2> HIDE DEF rec
  <2> QED BY <2>1, <2>2, LeavesHandling
<1> QED BY <1>2, <1>3

\* Orders other than the one a worker moves on.
LEMMA OthersHandling ==
    ASSUME TypeInv, NEW w \in Workers, topic' = topic,
           \A x \in Workers \ {w} : work'[x] = work[x], work'[w].off = work[w].off
    PROVE  \A o : Message(w) # o => SameHandling(o)
  BY DEF SameHandling, Handling, Message

\* What the worker knows after the placement.
LEMMA GoToPlaced ==
    ASSUME TypeInv, NEW w \in Workers, topic' = topic, GoTo(w, "placed")
    PROVE  /\ \A x \in Workers \ {w} : work'[x] = work[x]
           /\ work'[w].pc = "placed" /\ work'[w].off = work[w].off
           /\ work'[w].via = work[w].via /\ work'[w].auth = work[w].auth
<1>1. work \in [Workers -> WorkRecords] /\ work[w] \in WorkRecords
  BY DEF TypeInv, SignalTypeOK
<1> DEFINE rec == [work[w] EXCEPT !.pc = "placed"]
<1>2. work' = [work EXCEPT ![w] = rec]
  BY <1>1 DEF GoTo
<1>3. /\ rec.pc = "placed" /\ rec.off = work[w].off
      /\ rec.via = work[w].via /\ rec.auth = work[w].auth
  BY <1>1 DEF WorkRecords
<1> HIDE DEF rec
<1> QED BY <1>1, <1>2, <1>3

(***************************************************************************)
(* The steps of the monitor keep ExitInv.                                  *)
(***************************************************************************)
LEMMA QuietExits ==
    ASSUME TypeInv, ExitInv, UNCHANGED <<kind, open, manager, fill, excuse>>,
           \A o \in Orders : /\ entry'[o].after = entry[o].after /\ (Pursued(o)' => Pursued(o))
                             /\ trig'[o] = "placed" <=> trig[o] = "placed"
                             /\ SameHandling(o)
    PROVE  ExitInv'
<1>1. \A o \in Orders : ExitApart(o)
  BY DEF ExitApart
<1> QED BY <1>1, ExitApartKeeps DEF ExitInv

\* The monitor leaves the workers alone.
LEMMA MonitorQuietHands ==
    ASSUME UNCHANGED <<readerVars, work, closing, restarted>>
    PROVE  \A o : SameHandling(o)
  BY SameWorkSameHandling DEF readerVars

\* The evaluation workers of the monitor.
LEMMA EvaluationKeepsExits ==
    ASSUME TypeInv, EntryInv, ExitInv, UNCHANGED <<readerVars, work, closing, restarted>>,
           NEW j \in Jobs, EvaluateEntry(j)
    PROVE  ExitInv'
<1>1. UNCHANGED <<kind, open, manager, fill, excuse, watched>>
  BY DEF EvaluateEntry, ActOn, TakeJob, Overshoot, Claim, brokerVars, exitVars
<1>2. jobs' \union looking' \subseteq jobs \union looking
  BY DEF EvaluateEntry, ActOn, TakeJob, Overshoot, Claim
<1>3. j.order \in Orders
  BY DEF Jobs
<1>4. /\ entry \in [Orders -> EntryRecords]
      /\ trig \in [Orders -> {"idle", "check", "execute", "placed", "failed"}]
  BY OrderFunctions
<1>5. \A o \in Orders : entry'[o].after = entry[o].after
  <2>1. entry' = entry \/ entry' = [entry EXCEPT ![j.order].triggered = TRUE]
    BY DEF EvaluateEntry, ActOn, TakeJob, Overshoot, Claim
  <2>2. CASE entry' = entry
    BY <2>2
  <2>3. CASE entry' = [entry EXCEPT ![j.order].triggered = TRUE]
    BY <1>3, <2>3, FlagTypes DEF TypeInv
  <2> QED BY <2>1, <2>2, <2>3
<1>6. \/ trig' = trig
      \/ j \in looking /\ trig[j.order] = "idle" /\ trig' = [trig EXCEPT ![j.order] = "check"]
  <2>1. CASE Claim(j)
    <3>1. ~entry[j.order].triggered => trig[j.order] = "idle"
      BY <1>3 DEF EntryInv, EntryOK, FlagHeld
    <3> QED BY <2>1, <3>1 DEF Claim
  <2> QED BY <2>1 DEF EvaluateEntry, ActOn, TakeJob, Overshoot
<1>7. \A o \in Orders : trig'[o] = "placed" <=> trig[o] = "placed"
  BY <1>3, <1>4, <1>6
<1>8. \A o \in Orders : Pursued(o)' => Pursued(o)
  <2> TAKE o \in Orders
  <2>1. CASE trig'[o] = trig[o]
    BY <1>1, <1>2, <2>1, SamePursuit
  <2>2. CASE j \in looking /\ j.order = o
    BY <2>2 DEF Pursued
  <2> QED BY <1>3, <1>4, <1>6, <2>1, <2>2
<1> QED BY <1>1, <1>5, <1>7, <1>8, QuietExits, MonitorQuietHands

\* The steps of the monitor that place nothing.
LEMMA AttemptKeepsExits ==
    ASSUME TypeInv, ExitInv, UNCHANGED <<readerVars, work, closing, restarted>>,
           NEW o \in Orders,
           \/ CheckRow(o) \/ TriggerRefused(o) \/ TriggerFails(o)
           \/ DropExceeded(o) \/ CancelWatch(o) \/ WriteSubmitted(o)
    PROVE  ExitInv'
<1>1. /\ UNCHANGED <<kind, open, manager, fill, excuse, jobs, looking>>
      /\ watched' \subseteq watched
  BY DEF CheckRow, TriggerRefused, TriggerFails, DropExceeded, CancelWatch, WriteSubmitted,
     Refused, evalVars, brokerVars, exitVars
<1>2. /\ entry \in [Orders -> EntryRecords]
      /\ trig \in [Orders -> {"idle", "check", "execute", "placed", "failed"}]
  BY OrderFunctions
<1>3. \A x \in Orders : entry'[x].after = entry[x].after
  <2>1. CASE TriggerFails(o)
    <3> DEFINE last == entry[o].attempts + 1 >= MaxTriggerAttempts
    <3>1. entry' = [entry EXCEPT ![o].attempts = entry[o].attempts + 1, ![o].triggered = last]
      BY <2>1 DEF TriggerFails
    <3> HIDE DEF last
    <3> QED BY <1>2, <3>1 DEF EntryRecords
  <2> QED BY <2>1 DEF CheckRow, TriggerRefused, DropExceeded, CancelWatch, WriteSubmitted,
          evalVars
<1>4. \/ trig' = trig
      \/ /\ trig[o] \in {"check", "execute", "failed"}
         /\ \E s \in {"idle", "execute", "failed"} : trig' = [trig EXCEPT ![o] = s]
  BY DEF CheckRow, TriggerRefused, TriggerFails, DropExceeded, CancelWatch, WriteSubmitted
<1>5. \A x \in Orders : trig'[x] = "placed" <=> trig[x] = "placed"
  BY <1>2, <1>4
<1>6. \A x \in Orders : Pursued(x)' => Pursued(x)
  <2> TAKE x \in Orders
  <2>1. CASE trig'[x] = trig[x]
    BY <1>1, <2>1, SamePursuit
  <2>2. CASE trig[x] # "idle"
    BY <2>2 DEF Pursued
  <2> QED BY <1>2, <1>4, <2>1, <2>2
<1> QED BY <1>1, <1>3, <1>5, <1>6, QuietExits, MonitorQuietHands

\* A tick only queues jobs for watched orders.
LEMMA TickKeepsExits ==
    ASSUME TypeInv, ExitInv, UNCHANGED <<readerVars, work, closing, restarted>>,
           NEW o \in Orders, NEW ltp \in Zones, Tick(o, ltp)
    PROVE  ExitInv'
<1>1. /\ UNCHANGED <<kind, open, manager, fill, excuse, entry, trig, watched, looking>>
      /\ o \in watched /\ jobs' = jobs \union {[order |-> o, ltp |-> ltp]}
  BY DEF Tick, brokerVars, exitVars
<1>2. \A x \in Orders : Pursued(x)' => Pursued(x)
  BY <1>1 DEF Pursued
<1> QED BY <1>1, <1>2, QuietExits, MonitorQuietHands

(***************************************************************************)
(* A placement by the monitor stays in the hands of its goroutine until    *)
(* onAfterFill has registered it.                                          *)
(***************************************************************************)
LEMMA PlacementKeepsExits ==
    ASSUME TypeInv, ExitInv, UNCHANGED <<readerVars, work, closing, restarted>>,
           NEW o \in Orders, TriggerPlaces(o) \/ TriggerDone(o)
    PROVE  ExitInv'
<1>1. /\ UNCHANGED <<kind, fill, excuse, entry, jobs, looking>> /\ watched' \subseteq watched
      /\ \/ trig[o] = "execute" /\ trig' = [trig EXCEPT ![o] = "placed"]
         \/ trig[o] = "placed" /\ trig' = [trig EXCEPT ![o] = "idle"]
  BY DEF TriggerPlaces, TriggerDone, evalVars
<1>2. /\ trig \in [Orders -> {"idle", "check", "execute", "placed", "failed"}]
      /\ manager \in [Orders -> {"none", "oco", "ml", "bracket"}]
      /\ entry[o].after \in {"none", "oco", "ml"}
      /\ kind[o].exits \in {"none", "fixed", "trailing", "multi"}
  BY DEF TypeInv, MonitorTypeOK, EntryRecords, Kinds
<1>3. /\ open' \subseteq open \union {o} /\ (kind[o].paper => open' = open)
      /\ TriggerDone(o) => open' = open
  BY DEF TriggerPlaces, TriggerDone, Accepted, brokerVars
<1>4. \E m \in {"oco", "ml", "bracket"} :
         manager' = manager \/ manager' = [manager EXCEPT ![o] = m]
  BY <1>2 DEF TriggerPlaces, TriggerDone
<1>5. \A x \in Orders : manager[x] # "none" => manager'[x] # "none"
  BY <1>2, <1>4
<1>6. \A x \in Orders \ {o} : ExitApart(x)
  <2> TAKE x \in Orders \ {o}
  <2>1. trig'[x] = trig[x] /\ (x \in open' => x \in open)
    BY <1>1, <1>2, <1>3
  <2>2. Pursued(x)' => Pursued(x)
    BY <1>1, <2>1, SamePursuit
  <2>3. SameHandling(x)
    BY MonitorQuietHands
  <2> QED BY <1>1, <1>5, <2>1, <2>2, <2>3 DEF ExitApart
<1>7. ExitOK(o) /\ Pursued(o) /\ SameHandling(o)
  BY <1>1, MonitorQuietHands DEF ExitInv, Pursued
<1>8. WantsExits(o)' <=> WantsExits(o)
  BY <1>1 DEF WantsExits
<1>9. OpenIsLive(o)' /\ MissedIsExcused(o)' /\ MonitorKnowsExits(o)'
  BY <1>1, <1>3, <1>7, <1>8 DEF ExitOK, OpenIsLive, MissedIsExcused, MonitorKnowsExits
<1>10. PlacedByWorker(o)' /\ OcoIsLive(o)'
  BY <1>1, <1>5, <1>7, <1>8 DEF ExitOK, PlacedByWorker, OcoIsLive, SameHandling
<1>11. CASE TriggerPlaces(o)
  <2>1. /\ trig'[o] = "placed" /\ InHand(o)'
    BY <1>2, <1>11 DEF TriggerPlaces, InHand
  <2>2. OpenFindsManager(o)'
    BY <2>1 DEF OpenFindsManager
  <2>3. PlacedByMonitor(o)'
    <3> SUFFICES ASSUME WantsExits(o), entry[o].after = "none", excuse[o] = {}
                 PROVE  manager'[o] # "none"
      BY <1>1, <1>8 DEF PlacedByMonitor
    <3>1. kind[o].exits # "multi" /\ kind[o].exits # "none" /\ ~kind[o].paper
      BY <1>7 DEF ExitOK, MonitorKnowsExits, WantsExits
    <3>2. manager' = [manager EXCEPT ![o] = "bracket"]
      BY <1>2, <1>11, <3>1 DEF TriggerPlaces
    <3> QED BY <1>2, <3>2
  <2>4. ExitOK(o)'
    BY <1>9, <1>10, <2>2, <2>3 DEF ExitOK
  <2> QED BY <1>6, <2>4, ExitApartKeeps DEF ExitInv
<1>12. CASE TriggerDone(o)
  <2>1. trig[o] = "placed" /\ trig'[o] = "idle"
    BY <1>2, <1>12 DEF TriggerDone
  <2>2. PlacedByMonitor(o)'
    BY <2>1 DEF PlacedByMonitor
  <2>3. OpenFindsManager(o)'
    <3> SUFFICES ASSUME WantsExits(o), excuse[o] = {} PROVE manager'[o] # "none"
      BY <1>1, <1>8 DEF OpenFindsManager
    <3>1. entry[o].after # "none" \/ manager[o] # "none"
      BY <1>7, <2>1 DEF ExitOK, PlacedByMonitor
    <3>2. CASE entry[o].after # "none"
      BY <1>2, <1>12, <3>2 DEF TriggerDone
    <3> QED BY <1>5, <3>1, <3>2
  <2>4. ExitOK(o)'
    BY <1>9, <1>10, <2>2, <2>3 DEF ExitOK
  <2> QED BY <1>6, <2>4, ExitApartKeeps DEF ExitInv
<1> QED BY <1>11, <1>12

\* All of the monitor.
LEMMA MonitorKeepsExits ==
    ASSUME TypeInv, EntryInv, ExitInv, MonitorNext,
           UNCHANGED <<readerVars, work, closing, restarted>>
    PROVE  ExitInv'
  BY EvaluationKeepsExits, AttemptKeepsExits, TickKeepsExits, PlacementKeepsExits
     DEF MonitorNext, TriggerOrder

(***************************************************************************)
(* The reader and the workers keep ExitInv.                                *)
(***************************************************************************)
LEMMA SameExits ==
    ASSUME TypeInv, ExitInv,
           UNCHANGED <<kind, open, manager, fill, excuse, entry, trig, jobs, looking>>,
           watched' \subseteq watched, \A o : SameHandling(o)
    PROVE  ExitInv'
<1>1. \A o \in Orders : Pursued(o)' => Pursued(o)
  BY SamePursuit
<1> QED BY <1>1, QuietExits

\* The steps of the workers before the routing and after the adoption.
LEMMA ReaderKeepsExits ==
    ASSUME TypeInv, ExitInv, NEW w \in Workers,
           Fetch \/ Take(w) \/ Insert(w) \/ ExecuteFails(w) \/ Commit(w)
    PROVE  ExitInv'
<1>1. UNCHANGED <<kind, open, manager, fill, excuse, watched, entry, jobs, looking, trig,
                  topic>>
  BY DEF Fetch, Take, Insert, ExecuteFails, Commit, monitorVars, evalVars, brokerVars, exitVars,
     readerVars
<1>2. \A o : SameHandling(o)
  <2>1. CASE Fetch
    BY <1>1, <2>1, SameWorkSameHandling DEF Fetch
  <2>2. CASE Take(w)
    <3> DEFINE rec == [Idle EXCEPT !.pc = "insert", !.off = Head(queue)]
    <3>1. work' = [work EXCEPT ![w] = rec] /\ rec.pc = "insert" /\ work[w].pc = "idle"
      BY <2>2 DEF Take, Idle
    <3> HIDE DEF rec
    <3> QED BY <1>1, <3>1, LeavesHandling
  <2>3. CASE Insert(w)
    <3>1. work[w].pc = "insert" /\ (GiveUp(w) \/ GoTo(w, "commit") \/ GoTo(w, "route"))
      BY <2>3 DEF Insert
    <3> QED BY <1>1, <3>1, GoToHandling
  <2>4. CASE ExecuteFails(w)
    <3>1. work[w].pc = "execute" /\ GiveUp(w)
      BY <2>4 DEF ExecuteFails
    <3> QED BY <1>1, <3>1, GoToHandling
  <2>5. CASE Commit(w)
    <3>1. work[w].pc = "commit" /\ GiveUp(w)
      BY <2>5 DEF Commit, GiveUp
    <3> QED BY <1>1, <3>1, GoToHandling
  <2> QED BY <2>1, <2>2, <2>3, <2>4, <2>5
<1> QED BY <1>1, <1>2, SameExits

\* The routing decides who will register the order.
LEMMA RouteKeepsExits ==
    ASSUME TypeInv, EntryInv, ExitInv, NEW w \in Workers, Route(w)
    PROVE  ExitInv'
<1>1. /\ work[w].pc = "route" /\ topic' = topic
      /\ UNCHANGED <<kind, jobs, looking, trig, open, fill>>
  BY RouteCases DEF readerVars, brokerVars
<1>2. PICK o \in Orders : o = Message(w)
  BY <1>1, MessageIsOrder
<1>3. ExitOK(o) /\ ~Pursued(o)
  BY <1>1, <1>2 DEF ExitInv, EntryInv, EntryOK, RoutedOnce, Routing, Untried
<1>4. /\ entry \in [Orders -> EntryRecords]
      /\ manager \in [Orders -> {"none", "oco", "ml", "bracket"}]
      /\ excuse \in [Orders -> SUBSET {"reloaded", "no credentials", "early fill"}]
  BY DEF TypeInv, MonitorTypeOK
<1>5. ASSUME NEW auth \in BOOLEAN, RoutedToMonitor(w, auth)
      PROVE  ExitInv'
  <2>1. \A x : SameHandling(x)
    BY <1>1, <1>5, GoToHandling DEF RoutedToMonitor
  <2>2. UNCHANGED <<manager, excuse>>
    BY <1>5 DEF RoutedToMonitor
  <2>3. watched' = watched \union {o} /\ \A x \in Orders \ {o} : entry'[x] = entry[x]
    <3> DEFINE e == NewEntry(kind[o].max, AfterFill(o, auth))
    <3>1. watched' = watched \union {o} /\ (entry' = entry \/ entry' = [entry EXCEPT ![o] = e])
      BY <1>2, <1>5 DEF RoutedToMonitor, Watch
    <3> HIDE DEF e
    <3> QED BY <1>4, <3>1
  <2>4. entry'[o].after = AfterFill(o, auth)
    <3> DEFINE e == NewEntry(kind[o].max, AfterFill(o, auth))
    <3>1. entry' = [entry EXCEPT ![o] = e]
      BY <1>2, <1>3, <1>5 DEF RoutedToMonitor, Watch, Pursued
    <3>2. e.after = AfterFill(o, auth)
      BY DEF NewEntry
    <3> HIDE DEF e
    <3> QED BY <1>4, <3>1, <3>2
  <2>5. \A x \in Orders \ {o} : ExitApart(x)
    <3> TAKE x \in Orders \ {o}
    <3>1. Pursued(x)' => Pursued(x)
      BY <1>1, <2>3 DEF Pursued
    <3> QED BY <1>1, <2>1, <2>2, <2>3, <3>1 DEF ExitApart
  <2>6. WantsExits(o)' <=> WantsExits(o)
    BY <1>1 DEF WantsExits
  <2>7. MonitorKnowsExits(o)'
    BY <1>1, <2>4 DEF MonitorKnowsExits, AfterFill
  <2>8. PlacedByMonitor(o)'
    BY <1>1, <1>3 DEF PlacedByMonitor, Pursued
  <2>9. OpenIsLive(o)' /\ MissedIsExcused(o)'
    BY <1>1, <1>3, <2>2 DEF ExitOK, OpenIsLive, MissedIsExcused
  <2>10. PlacedByWorker(o)' /\ OcoIsLive(o)'
    BY <1>1, <1>3, <2>1, <2>2, <2>6 DEF ExitOK, PlacedByWorker, OcoIsLive, SameHandling
  <2>11. OpenFindsManager(o)'
    <3>1. InHand(o) => InHand(o)'
      BY <1>1, <2>1 DEF InHand, SameHandling
    <3> QED BY <1>1, <1>3, <2>2, <2>6, <3>1 DEF ExitOK, OpenFindsManager
  <2>12. ExitOK(o)'
    BY <2>7, <2>8, <2>9, <2>10, <2>11 DEF ExitOK
  <2> QED BY <2>5, <2>12, ExitApartKeeps DEF ExitInv
<1>6. CASE RoutedNowhere(w)
  <2>1. \A x : SameHandling(x)
    BY <1>1, <1>6, GoToHandling DEF RoutedNowhere
  <2> QED BY <1>1, <1>6, <2>1, SameExits DEF RoutedNowhere
<1>7. ASSUME NEW auth \in BOOLEAN, NEW via \in {"exec", "oco", "ml"},
             RoutedToExecutor(w, auth, via)
      PROVE  ExitInv'
  <2>1. /\ \A x \in Workers \ {w} : work'[x] = work[x]
        /\ work'[w].pc = "execute" /\ work'[w].off = work[w].off
        /\ work'[w].via = via /\ work'[w].auth = auth
    BY <1>1, <1>7, ToExecutor
  <2>2. /\ watched' = watched /\ entry' = entry
        /\ manager' = manager \/ manager' = [manager EXCEPT ![o] = "ml"]
        /\ via = "ml" => manager' = [manager EXCEPT ![o] = "ml"]
    BY <1>2, <1>7 DEF RoutedToExecutor
  <2>3. \/ excuse' = [excuse EXCEPT ![o] = excuse[o]] /\ (auth \/ kind[o].paper)
        \/ excuse' = [excuse EXCEPT ![o] = excuse[o] \union {"no credentials"}]
    BY <1>2, <1>7 DEF RoutedToExecutor
  <2>4. /\ \A x \in Orders : manager[x] # "none" => manager'[x] # "none"
        /\ via = "ml" => manager'[o] # "none"
    BY <1>4, <2>2
  <2>5. /\ \A x \in Orders : excuse[x] # {} => excuse'[x] # {}
        /\ auth \/ kind[o].paper \/ excuse'[o] # {}
    BY <1>4, <2>3
  <2>6. \A x \in Orders : Pursued(x)' => Pursued(x)
    BY <1>1, <2>2 DEF Pursued
  <2>7. \A x \in Orders \ {o} : ExitApart(x)
    <3> TAKE x \in Orders \ {o}
    <3>1. SameHandling(x)
      BY <1>1, <1>2, <2>1, OthersHandling
    <3> QED BY <1>1, <2>2, <2>4, <2>5, <2>6, <3>1 DEF ExitApart
  <2>8. WantsExits(o)' <=> WantsExits(o)
    BY <1>1 DEF WantsExits
  <2>9. /\ OpenIsLive(o)' /\ MissedIsExcused(o)' /\ MonitorKnowsExits(o)' /\ PlacedByMonitor(o)'
    BY <1>1, <1>3, <2>2, <2>4, <2>5, <2>6, <2>8
       DEF ExitOK, OpenIsLive, MissedIsExcused, MonitorKnowsExits, PlacedByMonitor
  <2>10. PlacedByWorker(o)'
    <3> SUFFICES ASSUME NEW x \in Workers, Handling(x, o)', WantsExits(o)'
                 PROVE  \/ work'[x].via = "ml" /\ manager'[o] # "none"
                        \/ work'[x].via = "oco" /\ (work'[x].pc = "placed" => manager'[o] # "none")
                        \/ work'[x].via = "exec" /\ (work'[x].auth \/ excuse'[o] # {})
      BY DEF PlacedByWorker
    <3>1. CASE x = w
      <4>1. ~kind[o].paper
        BY <1>1 DEF WantsExits
      <4> QED BY <2>1, <2>4, <2>5, <3>1, <4>1
    <3>2. CASE x # w
      <4>1. work'[x] = work[x] /\ Handling(x, o)
        BY <1>1, <2>1, <3>2 DEF Handling, Message
      <4> QED BY <1>3, <2>4, <2>5, <2>8, <4>1 DEF ExitOK, PlacedByWorker
    <3> QED BY <3>1, <3>2
  <2>11. OpenFindsManager(o)'
    <3>1. InHand(o) => InHand(o)'
      <4>1. \A x \in Workers : work[x].pc = "placed" => work'[x] = work[x]
        BY <1>1, <2>1
      <4> QED BY <1>1, <4>1 DEF InHand, Message
    <3> QED BY <1>1, <1>3, <2>4, <2>5, <2>8, <3>1 DEF ExitOK, OpenFindsManager
  <2>o. OcoIsLive(o)'
    <3>1. via = "oco" => ~kind[o].paper
      BY <1>2, <1>7 DEF RoutedToExecutor, RouteOf
    <3> QED BY <1>1, <1>3, <2>1, <3>1 DEF ExitOK, OcoIsLive, Handling, Message
  <2>12. ExitOK(o)'
    BY <2>9, <2>10, <2>o, <2>11 DEF ExitOK
  <2> QED BY <2>7, <2>12, ExitApartKeeps DEF ExitInv
<1> QED BY <1>5, <1>6, <1>7, RouteCases

\* The placement by a worker, which keeps the order in hand.
LEMMA ExecuteKeepsExits ==
    ASSUME TypeInv, ExitInv, NEW w \in Workers, Execute(w)
    PROVE  ExitInv'
<1>1. /\ work[w].pc = "execute" /\ GoTo(w, "placed") /\ topic' = topic
      /\ UNCHANGED <<kind, watched, entry, jobs, looking, trig, fill, excuse>>
  BY DEF Execute, readerVars, evalVars
<1>2. PICK o \in Orders : o = Message(w)
  BY <1>1, MessageIsOrder
<1>3. ExitOK(o) /\ Handling(w, o)
  BY <1>1, <1>2 DEF ExitInv, Handling
<1>4. /\ \A x \in Workers \ {w} : work'[x] = work[x]
      /\ work'[w].pc = "placed" /\ work'[w].off = work[w].off
      /\ work'[w].via = work[w].via /\ work'[w].auth = work[w].auth
  BY <1>1, GoToPlaced
<1>5. manager \in [Orders -> {"none", "oco", "ml", "bracket"}]
  BY DEF TypeInv, MonitorTypeOK
<1>6. /\ manager' = manager \/ manager' = [manager EXCEPT ![o] = "oco"]
      /\ work[w].via = "oco" => manager' = [manager EXCEPT ![o] = "oco"]
      /\ open' \subseteq open \union {o}
      /\ work[w].via # "oco" /\ kind[o].paper => open' = open
  BY <1>2 DEF Execute, Accepted
<1>7. /\ \A x \in Orders : manager[x] # "none" => manager'[x] # "none"
      /\ work[w].via = "oco" => manager'[o] # "none"
  BY <1>5, <1>6
<1>8. \A x \in Orders : Pursued(x)' => Pursued(x)
  BY <1>1 DEF Pursued
<1>9. \A x \in Orders \ {o} : ExitApart(x)
  <2> TAKE x \in Orders \ {o}
  <2>1. SameHandling(x)
    BY <1>1, <1>2, <1>4, OthersHandling
  <2> QED BY <1>1, <1>6, <1>7, <1>8, <2>1 DEF ExitApart
<1>10. WantsExits(o)' <=> WantsExits(o)
  BY <1>1 DEF WantsExits
<1>11. MissedIsExcused(o)' /\ MonitorKnowsExits(o)' /\ PlacedByMonitor(o)'
  BY <1>1, <1>3, <1>7, <1>8, <1>10
     DEF ExitOK, MissedIsExcused, MonitorKnowsExits, PlacedByMonitor
<1>12. PlacedByWorker(o)'
  <2> SUFFICES ASSUME NEW x \in Workers, Handling(x, o)', WantsExits(o)'
               PROVE  \/ work'[x].via = "ml" /\ manager'[o] # "none"
                      \/ work'[x].via = "oco" /\ (work'[x].pc = "placed" => manager'[o] # "none")
                      \/ work'[x].via = "exec" /\ (work'[x].auth \/ excuse'[o] # {})
    BY DEF PlacedByWorker
  <2>1. Handling(x, o) /\ (x # w => work'[x] = work[x])
    BY <1>1, <1>2, <1>3, <1>4 DEF Handling, Message
  <2>2. \/ work[x].via = "ml" /\ manager[o] # "none"
        \/ work[x].via = "oco" /\ (work[x].pc = "placed" => manager[o] # "none")
        \/ work[x].via = "exec" /\ (work[x].auth \/ excuse[o] # {})
    BY <1>3, <1>10, <2>1 DEF ExitOK, PlacedByWorker
  <2>3. CASE x = w
    BY <1>1, <1>4, <1>7, <2>2, <2>3
  <2>4. CASE x # w
    BY <1>1, <1>7, <2>1, <2>2, <2>4
  <2> QED BY <2>3, <2>4
<1>13. OpenFindsManager(o)'
  <2>1. InHand(o)'
    BY <1>1, <1>2, <1>4 DEF InHand, Message
  <2> QED BY <2>1 DEF OpenFindsManager
<1>14. OpenIsLive(o)' /\ OcoIsLive(o)'
  <2>1. \A x \in Workers : Handling(x, o)' => Handling(x, o) /\ work'[x].via = work[x].via
    BY <1>1, <1>2, <1>3, <1>4 DEF Handling, Message
  <2> QED BY <1>1, <1>3, <1>6, <2>1 DEF ExitOK, OpenIsLive, OcoIsLive
<1>15. ExitOK(o)'
  BY <1>11, <1>12, <1>13, <1>14 DEF ExitOK
<1> QED BY <1>9, <1>15, ExitApartKeeps DEF ExitInv

\* The adoption, after which the order is out of hand.
LEMMA AdoptKeepsExits ==
    ASSUME TypeInv, ExitInv, NEW w \in Workers, Adopt(w)
    PROVE  ExitInv'
<1>1. /\ work[w].pc = "placed" /\ GoTo(w, "commit") /\ topic' = topic
      /\ UNCHANGED <<kind, open, watched, entry, jobs, looking, trig, fill, excuse>>
  BY DEF Adopt, readerVars, evalVars, brokerVars
<1>2. PICK o \in Orders : o = Message(w)
  BY <1>1, MessageIsOrder
<1>3. ExitOK(o) /\ Handling(w, o)
  BY <1>1, <1>2 DEF ExitInv, Handling
<1>4. manager \in [Orders -> {"none", "oco", "ml", "bracket"}]
  BY DEF TypeInv, MonitorTypeOK
<1>5. /\ manager' = manager \/ manager' = [manager EXCEPT ![o] = "oco"]
      /\ work[w].via = "exec" /\ WantsExits(o) /\ work[w].auth =>
            manager' = [manager EXCEPT ![o] = "oco"]
  BY <1>2 DEF Adopt, AdoptOrder, WantsExits
<1>6. /\ \A x \in Orders : manager[x] # "none" => manager'[x] # "none"
      /\ work[w].via = "exec" /\ WantsExits(o) /\ work[w].auth => manager'[o] # "none"
  BY <1>4, <1>5
<1>7. \A x \in Orders : Pursued(x)' => Pursued(x)
  BY <1>1 DEF Pursued
<1>8. \A x \in Orders \ {o} : ExitApart(x)
  <2> TAKE x \in Orders \ {o}
  <2>1. SameHandling(x)
    BY <1>1, <1>2, GoToHandling
  <2>2. manager'[x] = manager[x]
    BY <1>4, <1>5
  <2> QED BY <1>1, <1>7, <2>1, <2>2 DEF ExitApart
<1>9. WantsExits(o)' <=> WantsExits(o)
  BY <1>1 DEF WantsExits
<1>10. OpenIsLive(o)' /\ MissedIsExcused(o)' /\ MonitorKnowsExits(o)' /\ PlacedByMonitor(o)'
  BY <1>1, <1>3, <1>6, <1>7, <1>9
     DEF ExitOK, OpenIsLive, MissedIsExcused, MonitorKnowsExits, PlacedByMonitor
<1>11. \A x \in Workers : Handling(x, o)' => Handling(x, o) /\ work'[x] = work[x]
  <2>1. \A x \in Workers \ {w} : work'[x] = work[x]
    BY <1>1 DEF GoTo, TypeInv, SignalTypeOK
  <2>2. work'[w].pc = "commit"
    <3>1. work \in [Workers -> WorkRecords]
      BY DEF TypeInv, SignalTypeOK
    <3> QED BY <1>1, <3>1 DEF GoTo, WorkRecords
  <2> QED BY <1>1, <2>1, <2>2 DEF Handling, Message
<1>12. PlacedByWorker(o)' /\ OcoIsLive(o)'
  BY <1>1, <1>3, <1>6, <1>9, <1>11 DEF ExitOK, PlacedByWorker, OcoIsLive
<1>13. OpenFindsManager(o)'
  <2> SUFFICES ASSUME WantsExits(o), excuse[o] = {} PROVE manager'[o] # "none"
    BY <1>1, <1>9 DEF OpenFindsManager
  <2>1. \/ work[w].via \in {"ml", "oco"} /\ manager[o] # "none"
        \/ work[w].via = "exec" /\ work[w].auth
    BY <1>1, <1>3 DEF ExitOK, PlacedByWorker
  <2> QED BY <1>6, <2>1
<1>14. ExitOK(o)'
  BY <1>10, <1>12, <1>13 DEF ExitOK
<1> QED BY <1>8, <1>14, ExitApartKeeps DEF ExitInv

(***************************************************************************)
(* A fill that finds no manager is excused.                                *)
(***************************************************************************)
LEMMA FillKeepsExits ==
    ASSUME TypeInv, ExitInv, NEW o \in Orders, FillEvent(o)
    PROVE  ExitInv'
<1>1. /\ o \in open /\ open' = open \ {o} /\ topic' = topic /\ work' = work
      /\ UNCHANGED <<kind, watched, entry, jobs, looking, trig, manager>>
      /\ fill' = [fill EXCEPT ![o] = IF manager[o] = "none" THEN "missed" ELSE "handled"]
  BY DEF FillEvent, Fill, evalVars, readerVars
<1>2. \/ ~InHand(o) /\ excuse' = [excuse EXCEPT ![o] = excuse[o]]
      \/ excuse' = [excuse EXCEPT ![o] = excuse[o] \union {"early fill"}]
  BY DEF FillEvent, Fill
<1>3. /\ fill \in [Orders -> {"none", "handled", "missed"}]
      /\ excuse \in [Orders -> SUBSET {"reloaded", "no credentials", "early fill"}]
  BY DEF TypeInv, MonitorTypeOK
<1>4. /\ \A x \in Orders : excuse[x] # {} => excuse'[x] # {}
      /\ InHand(o) => excuse'[o] # {}
  BY <1>2, <1>3
<1>5. /\ \A x \in Orders : Pursued(x)' => Pursued(x)
      /\ \A x \in Orders : SameHandling(x)
  BY <1>1, SameWorkSameHandling DEF Pursued
<1>6. \A x \in Orders \ {o} : ExitApart(x)
  BY <1>1, <1>3, <1>4, <1>5 DEF ExitApart
<1>7. ExitOK(o)
  BY DEF ExitInv
<1>8. WantsExits(o)' <=> WantsExits(o)
  BY <1>1 DEF WantsExits
<1>9. /\ OpenIsLive(o)' /\ OpenFindsManager(o)' /\ MonitorKnowsExits(o)' /\ PlacedByMonitor(o)'
  BY <1>1, <1>4, <1>5, <1>7, <1>8
     DEF ExitOK, OpenIsLive, OpenFindsManager, MonitorKnowsExits, PlacedByMonitor
<1>10. PlacedByWorker(o)' /\ OcoIsLive(o)'
  BY <1>1, <1>4, <1>5, <1>7, <1>8
     DEF ExitOK, PlacedByWorker, OcoIsLive, SameHandling
<1>11. MissedIsExcused(o)'
  <2> SUFFICES ASSUME fill'[o] = "missed", kind[o].exits # "none" PROVE excuse'[o] # {}
    BY <1>1 DEF MissedIsExcused
  <2>1. manager[o] = "none"
    BY <1>1, <1>3
  <2>2. WantsExits(o)
    BY <1>1, <1>7 DEF ExitOK, OpenIsLive, WantsExits
  <2>3. InHand(o) \/ excuse[o] # {}
    BY <1>1, <1>7, <2>1, <2>2 DEF ExitOK, OpenFindsManager
  <2> QED BY <1>4, <2>3
<1>12. ExitOK(o)'
  BY <1>9, <1>10, <1>11 DEF ExitOK
<1> QED BY <1>6, <1>12, ExitApartKeeps DEF ExitInv

\* After a restart only reloaded orders are pursued, and they are excused.
LEMMA RestartKeepsExits ==
    ASSUME TypeInv, ExitInv, Restart
    PROVE  ExitInv'
<1> SUFFICES ASSUME NEW o \in Orders PROVE ExitOK(o)'
  BY DEF ExitInv
<1>1. /\ UNCHANGED <<kind, fill>> /\ jobs' = {} /\ looking' = {} /\ open' = {}
      /\ trig'[o] = "idle" /\ \A w \in Workers : work'[w].pc = "idle"
      /\ excuse'[o] = IF o \in watched' THEN excuse[o] \union {"reloaded"} ELSE excuse[o]
  BY DEF Restart, Idle
<1>2. ExitOK(o) /\ (excuse[o] # {} => excuse'[o] # {})
  BY <1>1 DEF ExitInv
<1>3. OpenIsLive(o)' /\ OpenFindsManager(o)' /\ PlacedByMonitor(o)' /\ MissedIsExcused(o)'
  BY <1>1, <1>2 DEF ExitOK, OpenIsLive, OpenFindsManager, PlacedByMonitor, MissedIsExcused
<1>4. PlacedByWorker(o)' /\ OcoIsLive(o)'
  BY <1>1 DEF PlacedByWorker, OcoIsLive, Handling
<1>5. MonitorKnowsExits(o)'
  BY <1>1 DEF MonitorKnowsExits, Pursued
<1> QED BY <1>3, <1>4, <1>5 DEF ExitOK

-----------------------------------------------------------------------------
(***************************************************************************)
(* Every step keeps ExitInv.                                               *)
(***************************************************************************)
LEMMA ExitInit == Init => ExitInv
<1> SUFFICES ASSUME Init, NEW o \in Orders PROVE ExitOK(o)
  BY DEF ExitInv
<1>1. /\ trig[o] = "idle" /\ open = {} /\ watched = {} /\ jobs = {} /\ looking = {}
      /\ fill[o] = "none" /\ \A w \in Workers : work[w].pc = "idle"
  BY DEF Init, MonitorInit, Idle
<1> QED
  BY <1>1 DEF ExitOK, OpenIsLive, MonitorKnowsExits, PlacedByMonitor, PlacedByWorker,
     OcoIsLive, OpenFindsManager, MissedIsExcused, Pursued, Handling

\* The workers, the monitor, the fills and the restart together.
LEMMA ExitStep == TypeInv /\ EntryInv /\ ExitInv /\ [Next]_vars => ExitInv'
<1> SUFFICES ASSUME TypeInv, EntryInv, ExitInv, [Next]_vars PROVE ExitInv'
  OBVIOUS
<1>1. CASE \/ UNCHANGED vars \/ StartClosing \/ FinishClosing \/ Fetch
  <2>1. /\ UNCHANGED <<kind, open, manager, fill, excuse, entry, trig, jobs, looking,
                       topic, work>>
        /\ watched' \subseteq watched
    BY <1>1 DEF vars, StartClosing, FinishClosing, Fetch, monitorVars, evalVars, brokerVars,
       exitVars, readerVars
  <2> QED BY <2>1, SameExits, SameWorkSameHandling
<1>2. ASSUME NEW w \in Workers,
             \/ Take(w) \/ Insert(w) \/ Route(w) \/ Execute(w)
             \/ ExecuteFails(w) \/ Adopt(w) \/ Commit(w)
      PROVE  ExitInv'
  BY <1>2, ReaderKeepsExits, RouteKeepsExits, ExecuteKeepsExits, AdoptKeepsExits
<1>3. CASE Working
  BY <1>1, <1>2, <1>3 DEF Working
<1> QED
  BY <1>1, <1>3, MonitorKeepsExits, FillKeepsExits, RestartKeepsExits DEF Next

(***************************************************************************)
(* The fill of an entry that is to have exits is handled by a manager,     *)
(* unless one of the three recorded causes applies to that very order.     *)
(***************************************************************************)
THEOREM FillIsManaged == Spec => []FillFindsManager
<1>1. ExitInv => FillFindsManager
  BY DEF ExitInv, ExitOK, MissedIsExcused, FillFindsManager
<1> QED
  BY <1>1, SignalInit, EntryInit, ExitInit, TypeStep, EntryStep, ExitStep, PTL DEF Spec
=============================================================================
