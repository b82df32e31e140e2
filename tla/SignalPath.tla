----------------------------- MODULE SignalPath -----------------------------
(***************************************************************************)
(* The way of a trade signal through trade-execution: the Kafka reader     *)
(* hands messages to a bounded pool of workers; a worker inserts the       *)
(* order's row, routes the order (price monitor, paper exits, OCO entry,   *)
(* multi-level exits, or the executor alone) and commits the offset; the   *)
(* strategy events consumer closes a deactivated strategy; a restart loses *)
(* memory, rereads the topic and reloads the watch list from the rows.     *)
(*                                                                         *)
(* haltedStrategies is empty throughout: main.go never calls               *)
(* SetStrategyHalter and starts LoadHaltedFromSource with no loader, so    *)
(* the check of ProcessTradeSignal lets every signal pass.                 *)
(***************************************************************************)
EXTENDS PriceMonitor, Sequences

CONSTANTS
    Malformed,  \* a message that does not parse, or whose order ID does not
    Workers,    \* the goroutines of the pool
    QueueCap    \* capacity of the pool's channel

ASSUME SignalAssumption ==
    /\ Malformed \notin Orders /\ QueueCap \in Nat \ {0}
    /\ \A c \in Cases : c.topic \in Seq(Orders \union {Malformed})

VARIABLES
    topic,      \* the messages: order IDs, or Malformed
    position,   \* the next offset the reader fetches
    committed,  \* the group's offset, 0 = none yet
    queue,      \* offsets in the pool's channel
    work,       \* per worker: its step, offset, route and whether the order has credentials
    closing,    \* closeStrategyPositions
    restarted   \* this process is not the first

readerVars == <<topic, position, committed, queue>>
vars == <<monitorVars, readerVars, work, closing, restarted>>

Idle == [pc |-> "idle", off |-> 0, via |-> "", auth |-> FALSE]

WorkRecords == [pc : {"idle", "insert", "route", "execute", "placed", "commit"}, off : 0..Len(topic),
                via : {"", "exec", "oco", "ml"}, auth : BOOLEAN]

TypeOK ==
    /\ MonitorTypeOK
    /\ topic \in Seq(Orders \union {Malformed})
    /\ position \in 1..Len(topic) + 1 /\ committed \in 0..Len(topic) + 1
    /\ queue \in Seq(1..Len(topic)) /\ Len(queue) <= QueueCap
    /\ work \in [Workers -> WorkRecords]
    /\ closing \in {"no", "started", "done"} /\ restarted \in BOOLEAN

Init ==
    /\ MonitorInit
    /\ \E c \in Cases : scenario = c.hazards /\ kind = c.kinds /\ topic = c.topic
    /\ position = 1 /\ committed = 0 /\ queue = << >>
    /\ work = [w \in Workers |-> Idle]
    /\ closing = "no" /\ restarted = FALSE

-----------------------------------------------------------------------------
(***************************************************************************)
(* The topic, the reader and the pool                                      *)
(***************************************************************************)

\* FetchMessage and Submit, which blocks while the channel is full.
Fetch ==
    /\ position <= Len(topic) /\ Len(queue) < QueueCap
    /\ position' = position + 1
    /\ queue' = Append(queue, position)
    /\ UNCHANGED <<monitorVars, topic, committed, work, closing, restarted>>

Take(w) ==
    /\ work[w].pc = "idle" /\ queue # << >>
    /\ queue' = Tail(queue)
    /\ work' = [work EXCEPT ![w] = [Idle EXCEPT !.pc = "insert", !.off = Head(queue)]]
    /\ UNCHANGED <<monitorVars, topic, position, committed, closing, restarted>>

\* CommitMessages: the reader sends the greatest offset of an interval, and a
\* later interval may hold a smaller one.
Commit(w) ==
    /\ work[w].pc = "commit"
    /\ work' = [work EXCEPT ![w] = Idle]
    /\ \/ committed' = work[w].off + 1
       \/ committed > work[w].off + 1 /\ UNCHANGED committed
       \/ "commit fails" \in scenario /\ UNCHANGED committed
    /\ UNCHANGED <<monitorVars, topic, position, queue, closing, restarted>>

-----------------------------------------------------------------------------
(***************************************************************************)
(* ProcessTradeSignal                                                      *)
(***************************************************************************)

Message(w) == topic[work[w].off]
GoTo(w, pc) == work' = [work EXCEPT ![w].pc = pc]
GiveUp(w) == work' = [work EXCEPT ![w] = Idle]

\* Create: ON CONFLICT DO NOTHING.
Create(o) == row[o] = NoRow /\ row' = [row EXCEPT ![o].status = "RECEIVED"]

\* The signal is converted and its row inserted unless it exists.  A message that
\* does not parse and a failed insert are not committed; a duplicate is.
Insert(w) ==
    /\ work[w].pc = "insert"
    /\ \/ Message(w) = Malformed /\ GiveUp(w) /\ UNCHANGED row
       \/ Message(w) # Malformed /\ "insert fails" \in scenario /\ GiveUp(w) /\ UNCHANGED row
       \/ Message(w) # Malformed /\ row[Message(w)] # NoRow /\ GoTo(w, "commit") /\ UNCHANGED row
       \/ Message(w) # Malformed /\ Create(Message(w)) /\ GoTo(w, "route")
    /\ UNCHANGED <<scenario, kind, evalVars, trig, brokerVars, exitVars, readerVars, closing, restarted>>

\* Credentials of the signal, or of the cache when the signal has none.
Credentials(o) ==
    IF kind[o].auth THEN {TRUE}
    ELSE IF kind[o].paper THEN {FALSE}
    ELSE {TRUE} \union (IF "no credentials" \in scenario THEN {FALSE} ELSE {})

\* The callback the price monitor gets for after the placement.
AfterFill(o, auth) ==
    IF kind[o].exits = "multi" THEN "ml"
    ELSE IF kind[o].exits # "none" /\ ~kind[o].paper /\ auth THEN "oco" ELSE "none"

\* Below-minimum entries first, whatever their exits; then paper exits, the OCO
\* entry of a trailing stop, multi-level exits, and the plain order.
RouteOf(o, auth) ==
    IF kind[o].belowMin THEN "monitor"
    ELSE IF kind[o].paper /\ kind[o].exits # "none" THEN "ml"
    ELSE IF kind[o].exits = "trailing" /\ auth THEN "oco"
    ELSE IF kind[o].exits = "multi" THEN "ml"
    ELSE "exec"

\* Faulty variant: an order is registered with the multi-level manager after its placement.
RouteRegistersLate(w) ==
    LET o == Message(w) IN
    /\ work[w].pc = "route"
    /\ \E auth \in Credentials(o) :
        LET via == RouteOf(o, auth) IN
        \/ /\ via = "monitor" /\ kind[o].priced
           /\ Watch(o, kind[o].max, AfterFill(o, auth))
           /\ GoTo(w, "commit") /\ UNCHANGED <<manager, excuse>>
        \/ /\ via \in {"monitor", "oco"} /\ ~kind[o].priced
           /\ GiveUp(w) /\ UNCHANGED <<watched, entry, manager, excuse>>
        \/ /\ via # "monitor" /\ (via = "oco" => kind[o].priced)
           /\ work' = [work EXCEPT ![w].pc = "execute", ![w].via = via, ![w].auth = auth]
           /\ UNCHANGED <<watched, entry, manager>>
           /\ excuse' = [excuse EXCEPT ![o] = IF auth \/ kind[o].paper THEN @ ELSE @ \union {"no credentials"}]
    /\ UNCHANGED <<scenario, kind, row, jobs, looking, dropping, trig, brokerVars, fill, readerVars, closing, restarted>>

\* A below-minimum or OCO entry without a price is given up after its insert.
Route(w) ==
    LET o == Message(w) IN
    /\ work[w].pc = "route"
    /\ \E auth \in Credentials(o) :
        LET via == RouteOf(o, auth) IN
        \/ /\ via = "monitor" /\ kind[o].priced
           /\ Watch(o, kind[o].max, AfterFill(o, auth))
           /\ GoTo(w, "commit") /\ UNCHANGED <<manager, excuse>>
        \/ /\ via \in {"monitor", "oco"} /\ ~kind[o].priced
           /\ GiveUp(w) /\ UNCHANGED <<watched, entry, manager, excuse>>
        \/ /\ via # "monitor" /\ (via = "oco" => kind[o].priced)
           /\ work' = [work EXCEPT ![w].pc = "execute", ![w].via = via, ![w].auth = auth]
           /\ manager' = IF via = "ml" THEN [manager EXCEPT ![o] = "ml"] ELSE manager
           /\ excuse' = [excuse EXCEPT ![o] = IF auth \/ kind[o].paper THEN @ ELSE @ \union {"no credentials"}]
           /\ UNCHANGED <<watched, entry>>
    /\ UNCHANGED <<scenario, kind, row, jobs, looking, dropping, trig, brokerVars, fill, readerVars, closing, restarted>>

\* ExecuteOrder, or CreateOCOEntry, which registers its group as soon as the
\* broker has the entry and keeps a row of its own: the signal's stays RECEIVED.
Execute(w) ==
    LET o == Message(w) IN
    /\ work[w].pc = "execute"
    /\ GoTo(w, "placed")
    /\ IF work[w].via = "oco"
       THEN /\ placed' = [placed EXCEPT ![o] = @ + 1] /\ open' = open \union {o}
            /\ manager' = [manager EXCEPT ![o] = "oco"]
            /\ UNCHANGED <<row, lost, writing>>
       ELSE Accepted(o) /\ UNCHANGED manager
    /\ UNCHANGED <<scenario, kind, evalVars, trig, fill, excuse, readerVars, closing, restarted>>

\* The placement fails: failOrder writes the signal's row, CreateOCOEntry its own.
ExecuteFails(w) ==
    LET o == Message(w) IN
    /\ work[w].pc = "execute" /\ ~kind[o].paper
    /\ \/ "order fails" \in scenario /\ UNCHANGED <<placed, lost>>
       \/ /\ "answer lost" \in scenario
          /\ placed' = [placed EXCEPT ![o] = @ + 1] /\ lost' = [lost EXCEPT ![o] = @ + 1]
    /\ IF work[w].via = "oco" THEN UNCHANGED row ELSE Update(o, "FAILED", FALSE)
    /\ GiveUp(w)
    /\ UNCHANGED <<scenario, kind, evalVars, trig, writing, open, exitVars, readerVars, closing, restarted>>

AdoptOrder(o) == manager' = [manager EXCEPT ![o] = "oco"]

\* The plain live order is adopted by the OCO manager, if its credentials are known.
Adopt(w) ==
    LET o == Message(w) IN
    /\ work[w].pc = "placed"
    /\ GoTo(w, "commit")
    /\ IF work[w].via = "exec" /\ kind[o].exits # "none" /\ ~kind[o].paper /\ work[w].auth
       THEN AdoptOrder(o) ELSE UNCHANGED manager
    /\ UNCHANGED <<scenario, kind, row, evalVars, trig, brokerVars, fill, excuse, readerVars, closing, restarted>>

-----------------------------------------------------------------------------
(***************************************************************************)
(* The strategy events consumer, and a restart                             *)
(***************************************************************************)

\* CONFIG_PAUSED or CONFIG_DELETED: the watches of the strategy are removed first.
StartClosing ==
    /\ "deactivate" \in scenario /\ closing = "no"
    /\ closing' = "started"
    /\ watched' = {}
    /\ UNCHANGED <<scenario, kind, row, entry, jobs, looking, dropping, trig, brokerVars, exitVars,
                   readerVars, work, restarted>>

\* Orders at the broker are cancelled there and in their rows, positions squared
\* off (SquareOff has that part), and then every row of the strategy is cancelled.
FinishClosing ==
    /\ closing = "started"
    /\ closing' = "done"
    /\ row' = [o \in Orders |-> IF row[o] = NoRow THEN NoRow ELSE [row[o] EXCEPT !.status = "CANCELLED"]]
    /\ UNCHANGED <<scenario, kind, evalVars, trig, brokerVars, exitVars, readerVars, work, restarted>>

\* GetPendingMonitorOrders.  The row keeps neither the callback nor the maximum.
PendingMonitorOrders ==
    {o \in Orders : row[o] = [status |-> "RECEIVED", brokerId |-> FALSE] /\ kind[o].belowMin /\ ~kind[o].paper}

\* A crash.  Goroutines are gone; the reader starts at the committed offset or, if
\* there is none, at what was the end of the topic; the watch list is reloaded.
Restart ==
    /\ "restart" \in scenario /\ ~restarted
    /\ restarted' = TRUE
    /\ position' \in IF committed = 0 THEN position..Len(topic) + 1 ELSE {committed}
    /\ queue' = << >> /\ work' = [w \in Workers |-> Idle]
    /\ watched' = PendingMonitorOrders
    /\ entry' = [o \in Orders |-> NewEntry(FALSE, "none")]
    /\ jobs' = {} /\ looking' = {} /\ dropping' = {}
    /\ trig' = [o \in Orders |-> "idle"]
    /\ lost' = [o \in Orders |-> lost[o] + IF o \in writing THEN 1 ELSE 0]
    /\ writing' = {} /\ open' = {}
    /\ manager' = [o \in Orders |-> "none"]
    /\ excuse' = [o \in Orders |-> IF o \in watched' THEN excuse[o] \union {"reloaded"} ELSE excuse[o]]
    /\ closing' = IF closing = "started" THEN "no" ELSE closing
    /\ UNCHANGED <<scenario, kind, row, placed, fill, topic, committed>>

\* The placement of o is still in the hands of the goroutine that made it.
InHand(o) == trig[o] = "placed" \/ \E w \in Workers : work[w].pc = "placed" /\ Message(w) = o

FillEvent(o) == Fill(o, InHand(o)) /\ UNCHANGED <<readerVars, work, closing, restarted>>

Working ==
    \/ Fetch
    \/ \E w \in Workers : Take(w) \/ Insert(w) \/ Route(w) \/ Execute(w) \/ ExecuteFails(w) \/ Adopt(w) \/ Commit(w)

Next ==
    \/ MonitorNext /\ UNCHANGED <<readerVars, work, closing, restarted>>
    \/ Working \/ StartClosing \/ FinishClosing \/ Restart
    \/ \E o \in Orders : FillEvent(o)

Spec == Init /\ [][Next]_vars

Rest == UNCHANGED <<readerVars, work, closing, restarted>>

\* The goroutines of the monitor run, and while the market is at the target the
\* 100 ms poll offers the price again and again.
FairSpec ==
    /\ Spec
    /\ \A j \in Jobs : WF_vars(TakeJob(j) /\ Rest) /\ WF_vars(ActOn(j) /\ Rest)
    /\ \A o \in Orders : /\ WF_vars(TriggerOrder(o) /\ Rest) /\ WF_vars(DropExceeded(o) /\ Rest)
                         /\ SF_vars(Tick(o, "hit") /\ Rest)

-----------------------------------------------------------------------------
(***************************************************************************)
(* Properties                                                              *)
(***************************************************************************)

\* One signal is one entry: whatever is redelivered, retried, reloaded or raced, a
\* second entry is opened only after one of which the process never recorded the
\* result (a lost answer, a background write that failed, or a crash before it).
SecondEntryOnlyAfterLostResult == \A o \in Orders : placed[o] <= 1 + lost[o]

\* No placement of o is past its last look at the row.
Uncommitted(o) ==
    /\ trig[o] \in {"idle", "check"}
    /\ \A w \in Workers : work[w].pc \in {"route", "execute"} => Message(w) # o

Barred(o) == row[o].status = "CANCELLED" /\ placed[o] = 0 /\ Uncommitted(o)

\* An order that is cancelled before a placement has passed its check of the row
\* stays cancelled and is never opened, whatever is still queued, redelivered or
\* reloaded (as long as triggerOrder can read the row).
CancelledStaysOut ==
    [][\A o \in Orders : "blind check" \notin scenario /\ Barred(o) => Barred(o)']_vars

\* The fill of a live entry that is to have exits reaches a manager, unless its
\* credentials were missing, it was reloaded after a restart, or it was filled
\* before the call that registers it.
FillFindsManager ==
    \A o \in Orders : fill[o] = "missed" /\ kind[o].exits # "none" => excuse[o] # {}

\* While the market stays at the target a watched order is placed or given up.
WatchEnds == \A o \in Orders : o \in watched ~> o \notin watched

\* What the comment above the halt check promises: a signal that is processed after
\* its strategy has been closed is rejected, before its row is inserted.
ClosedTakesNoSignal ==
    [][closing = "done" => \A o \in Orders : row[o] = NoRow => row'[o] = NoRow]_vars
=============================================================================
