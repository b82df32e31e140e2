---------------------------- MODULE PriceMonitor ----------------------------
(***************************************************************************)
(* The price monitor of trade-execution: entries whose target price is not *)
(* reached yet wait in a watch list; ticks are fanned out to evaluation    *)
(* workers; the worker that sees the target reached claims the entry with  *)
(* a compare-and-swap and starts a goroutine that places the order.        *)
(*                                                                         *)
(* A last traded price is seen as its zone relative to one order: short of *)
(* the target, in the band, or over the maximum.  What the executor does   *)
(* inside ExecuteOrder is OrderExecution's; here a call has one of three   *)
(* results, and "unknown" is the accepted order whose answer was lost.     *)
(* The entry of an order outlives its removal from the watch list: queued  *)
(* jobs and goroutines hold a pointer to it.                               *)
(***************************************************************************)
EXTENDS Naturals, FiniteSets

CONSTANTS
    Orders,               \* order IDs of one strategy
    Cases,                \* what the orders are, what is published, what may go wrong
    MaxTriggerAttempts,   \* maxTriggerAttempts
    EvalCap               \* capacity of evalCh

\* What the model keeps of an order: below_min entry or not, paper or live, the
\* exits it is to get, the broker credentials on the signal, a target price, and
\* an upper bound for the price monitor.
Kinds == [belowMin : BOOLEAN, paper : BOOLEAN, exits : {"none", "fixed", "trailing", "multi"},
          auth : BOOLEAN, priced : BOOLEAN, max : BOOLEAN]

Hazards == {"order fails", "answer lost", "write fails", "insert fails", "blind check",
            "no credentials", "commit fails", "cancel", "deactivate", "restart"}

ASSUME MonitorAssumption ==
    /\ \A c \in Cases : c.kinds \in [Orders -> Kinds] /\ c.hazards \subseteq Hazards
    /\ MaxTriggerAttempts \in Nat \ {0} /\ EvalCap \in Nat \ {0}

VARIABLES
    scenario,   \* what may go wrong in this behaviour
    kind,       \* per order: what it is
    row,        \* per order: its row in the database
    watched,    \* the orders in the watch list (byOrder, byStock)
    entry,      \* per order: its watchEntry
    jobs,       \* evalCh
    looking,    \* jobs whose worker has found the flag clear and the target reached
    dropping,   \* orders whose overshoot goroutine is yet to run
    trig,       \* per order: triggerOrder
    placed,     \* per order: entries opened for it, in all
    lost,       \* per order: those of which no result was ever recorded
    writing,    \* orders whose background Update is yet to run
    open,       \* orders placed by this process whose fill is yet to come
    manager,    \* per order: who has been given its exits
    fill,       \* per order: what became of the fill event
    excuse      \* per order: what left it without a manager

evalVars == <<watched, entry, jobs, looking, dropping>>
brokerVars == <<placed, lost, writing, open>>
exitVars == <<manager, fill, excuse>>
monitorVars == <<scenario, kind, row, evalVars, trig, brokerVars, exitVars>>

Zones == {"short", "hit", "over"}
Jobs == [order : Orders, ltp : Zones]

NoRow == [status |-> "NONE", brokerId |-> FALSE]
NewEntry(max, after) == [triggered |-> FALSE, attempts |-> 0, max |-> max, after |-> after]

\* models.IsTerminalStatus
IsTerminalStatus(st) == st \in {"FILLED", "CANCELLED", "FAILED"}

Statuses == {"NONE", "RECEIVED", "SUBMITTED", "FILLED", "FAILED", "CANCELLED"}
RowRecords == [status : Statuses, brokerId : BOOLEAN]
EntryRecords == [triggered : BOOLEAN, attempts : Nat, max : BOOLEAN, after : {"none", "oco", "ml"}]

MonitorTypeOK ==
    /\ scenario \subseteq Hazards /\ kind \in [Orders -> Kinds]
    /\ row \in [Orders -> RowRecords]
    /\ watched \subseteq Orders /\ entry \in [Orders -> EntryRecords]
    /\ jobs \subseteq Jobs /\ looking \subseteq Jobs /\ dropping \subseteq Orders
    /\ trig \in [Orders -> {"idle", "check", "execute", "placed", "failed"}]
    /\ placed \in [Orders -> Nat] /\ lost \in [Orders -> Nat]
    /\ writing \subseteq Orders /\ open \subseteq Orders
    /\ manager \in [Orders -> {"none", "oco", "ml", "bracket"}]
    /\ fill \in [Orders -> {"none", "handled", "missed"}]
    /\ excuse \in [Orders -> SUBSET {"reloaded", "no credentials", "early fill"}]

MonitorInit ==
    /\ row = [o \in Orders |-> NoRow]
    /\ watched = {} /\ entry = [o \in Orders |-> NewEntry(FALSE, "none")]
    /\ jobs = {} /\ looking = {} /\ dropping = {}
    /\ trig = [o \in Orders |-> "idle"]
    /\ placed = [o \in Orders |-> 0] /\ lost = [o \in Orders |-> 0]
    /\ writing = {} /\ open = {}
    /\ manager = [o \in Orders |-> "none"] /\ fill = [o \in Orders |-> "none"]
    /\ excuse = [o \in Orders |-> {}]

-----------------------------------------------------------------------------
(***************************************************************************)
(* The executor and the broker, as the monitor and the signal workers see  *)
(* them                                                                    *)
(***************************************************************************)

\* Update of the whole row; callers only log its error.
Update(o, st, id) ==
    \/ row' = [row EXCEPT ![o] = [status |-> st, brokerId |-> id]]
    \/ "write fails" \in scenario /\ UNCHANGED row

\* ExecuteOrder puts the entry into the market: a live order gets a background
\* goroutine that writes its broker ID, a paper order is filled and written here.
Accepted(o) ==
    /\ placed' = [placed EXCEPT ![o] = @ + 1]
    /\ UNCHANGED lost
    /\ IF kind[o].paper
       THEN Update(o, "FILLED", TRUE) /\ UNCHANGED <<writing, open>>
       ELSE writing' = writing \union {o} /\ open' = open \union {o} /\ UNCHANGED row

\* ExecuteOrder gives up.  The broker may have the order although every answer
\* timed out.
Refused(o) ==
    /\ ~kind[o].paper
    /\ \/ "order fails" \in scenario /\ UNCHANGED <<placed, lost>>
       \/ /\ "answer lost" \in scenario
          /\ placed' = [placed EXCEPT ![o] = @ + 1] /\ lost' = [lost EXCEPT ![o] = @ + 1]
    /\ UNCHANGED <<row, writing, open>>

\* The goroutine of handleSuccessfulPlacement.  If its write fails, the result is
\* in nobody's hands.
WriteSubmitted(o) ==
    /\ o \in writing
    /\ writing' = writing \ {o}
    /\ \/ /\ row' = [row EXCEPT ![o] = [status |-> "SUBMITTED", brokerId |-> TRUE]]
          /\ UNCHANGED lost
       \/ /\ "write fails" \in scenario
          /\ lost' = [lost EXCEPT ![o] = @ + 1]
          /\ UNCHANGED row
    /\ UNCHANGED <<scenario, kind, evalVars, trig, placed, open, exitVars>>

\* The status service has the fill of a live order, found by its broker ID, and
\* passes it to the OCO and multi-level managers.  They drop what they do not know.
Fill(o, early) ==
    /\ o \in open /\ (row[o].brokerId \/ manager[o] = "oco")
    /\ open' = open \ {o}
    /\ fill' = [fill EXCEPT ![o] = IF manager[o] = "none" THEN "missed" ELSE "handled"]
    /\ excuse' = [excuse EXCEPT ![o] = IF early THEN @ \union {"early fill"} ELSE @]
    /\ UNCHANGED <<scenario, kind, row, evalVars, trig, placed, lost, writing, manager>>

-----------------------------------------------------------------------------
(***************************************************************************)
(* The watch list and its workers                                          *)
(***************************************************************************)

Watch(o, max, after) ==
    /\ watched' = watched \union {o}
    /\ entry' = IF o \in watched THEN entry ELSE [entry EXCEPT ![o] = NewEntry(max, after)]

\* OnPriceUpdate, and checkPricesFallback through evaluateStock: a job for every
\* watched order of the stock whose flag is clear, unless the channel is full.
Tick(o, ltp) ==
    /\ o \in watched /\ ~entry[o].triggered
    /\ Cardinality(jobs) < EvalCap
    /\ jobs' = jobs \union {[order |-> o, ltp |-> ltp]}
    /\ UNCHANGED <<scenario, kind, row, watched, entry, looking, dropping, trig, brokerVars, exitVars>>

\* A BUY waits for the price to rise to its target; a target of 0 is always reached.
ConditionMet(j) == j.ltp # "short" \/ ~kind[j.order].priced
Exceeded(j) == entry[j.order].max /\ j.ltp = "over"

\* A worker takes a job and loads the flag.
TakeJob(j) ==
    /\ j \in jobs
    /\ jobs' = jobs \ {j}
    /\ looking' = IF ~entry[j.order].triggered /\ ConditionMet(j)
                  THEN looking \union {j} ELSE looking
    /\ UNCHANGED <<scenario, kind, row, watched, entry, dropping, trig, brokerVars, exitVars>>

\* The price is beyond the maximum: the flag is stored, not swapped.
Overshoot(j) ==
    /\ j \in looking /\ Exceeded(j)
    /\ looking' = looking \ {j}
    /\ entry' = [entry EXCEPT ![j.order].triggered = TRUE]
    /\ dropping' = dropping \union {j.order}
    /\ UNCHANGED <<scenario, kind, row, watched, jobs, trig, brokerVars, exitVars>>

\* Faulty variant: the claim loads and stores instead of swapping.
ClaimUnswapped(j) ==
    /\ j \in looking /\ ~Exceeded(j)
    /\ looking' = looking \ {j}
    /\ entry' = [entry EXCEPT ![j.order].triggered = TRUE]
    /\ trig' = [trig EXCEPT ![j.order] = "check"]
    /\ UNCHANGED <<scenario, kind, row, watched, jobs, dropping, brokerVars, exitVars>>

\* The worker that swaps the flag starts triggerOrder.
Claim(j) ==
    /\ j \in looking /\ ~Exceeded(j)
    /\ looking' = looking \ {j}
    /\ IF entry[j.order].triggered THEN UNCHANGED <<entry, trig>>
       ELSE /\ entry' = [entry EXCEPT ![j.order].triggered = TRUE]
            /\ trig' = [trig EXCEPT ![j.order] = "check"]
    /\ UNCHANGED <<scenario, kind, row, watched, jobs, dropping, brokerVars, exitVars>>

\* UpdateStatus leaves the other columns alone.
UpdateStatus(o, st) ==
    \/ row' = [row EXCEPT ![o].status = st]
    \/ "write fails" \in scenario /\ UNCHANGED row

\* The goroutine of an overshoot.
DropExceeded(o) ==
    /\ o \in dropping
    /\ dropping' = dropping \ {o} /\ watched' = watched \ {o}
    /\ UpdateStatus(o, "CANCELLED")
    /\ UNCHANGED <<scenario, kind, entry, jobs, looking, trig, brokerVars, exitVars>>

\* A user cancels the watch, from the panel of the WebSocket server.
CancelWatch(o) ==
    /\ "cancel" \in scenario /\ o \in watched
    /\ watched' = watched \ {o}
    /\ UpdateStatus(o, "CANCELLED")
    /\ UNCHANGED <<scenario, kind, entry, jobs, looking, dropping, trig, brokerVars, exitVars>>

-----------------------------------------------------------------------------
(***************************************************************************)
(* triggerOrder                                                            *)
(***************************************************************************)

\* Faulty variant: the row is not looked at before the order is placed.
CheckRowNever(o) ==
    /\ trig[o] = "check"
    /\ trig' = [trig EXCEPT ![o] = "execute"]
    /\ UNCHANGED <<scenario, kind, row, evalVars, brokerVars, exitVars>>

\* A terminal row ends the watch; a failed read lets the order through.
CheckRow(o) ==
    /\ trig[o] = "check"
    /\ \/ IsTerminalStatus(row[o].status) /\ watched' = watched \ {o} /\ trig' = [trig EXCEPT ![o] = "idle"]
       \/ /\ ~IsTerminalStatus(row[o].status) \/ "blind check" \in scenario
          /\ trig' = [trig EXCEPT ![o] = "execute"] /\ UNCHANGED watched
    /\ UNCHANGED <<scenario, kind, row, entry, jobs, looking, dropping, brokerVars, exitVars>>

\* Without a callback an order with stop-loss and target prices stays a broker
\* bracket; a multi-level order has neither price and becomes a plain one.
TriggerPlaces(o) ==
    /\ trig[o] = "execute"
    /\ trig' = [trig EXCEPT ![o] = "placed"]
    /\ Accepted(o)
    /\ manager' = IF entry[o].after = "none" /\ kind[o].exits \in {"fixed", "trailing"} /\ ~kind[o].paper
                  THEN [manager EXCEPT ![o] = "bracket"] ELSE manager
    /\ UNCHANGED <<scenario, kind, evalVars, fill, excuse>>

TriggerRefused(o) ==
    /\ trig[o] = "execute"
    /\ trig' = [trig EXCEPT ![o] = "failed"]
    /\ Refused(o)
    /\ UNCHANGED <<scenario, kind, evalVars, exitVars>>

\* The entry is removed, and onAfterFill gives it to its manager.
TriggerDone(o) ==
    /\ trig[o] = "placed"
    /\ trig' = [trig EXCEPT ![o] = "idle"]
    /\ watched' = watched \ {o}
    /\ manager' = IF entry[o].after = "none" THEN manager ELSE [manager EXCEPT ![o] = entry[o].after]
    /\ UNCHANGED <<scenario, kind, row, entry, jobs, looking, dropping, brokerVars, fill, excuse>>

\* Faulty variant: the flag is not cleared after a failed attempt.
TriggerFailsKeepingFlag(o) ==
    /\ trig[o] = "failed"
    /\ trig' = [trig EXCEPT ![o] = "idle"]
    /\ Update(o, "FAILED", FALSE)
    /\ entry' = [entry EXCEPT ![o].attempts = @ + 1]
    /\ watched' = IF entry[o].attempts + 1 >= MaxTriggerAttempts THEN watched \ {o} ELSE watched
    /\ UNCHANGED <<scenario, kind, jobs, looking, dropping, brokerVars, exitVars>>

\* failOrder writes FAILED; then the entry is given up or made available again.
TriggerFails(o) ==
    LET last == entry[o].attempts + 1 >= MaxTriggerAttempts IN
    /\ trig[o] = "failed"
    /\ trig' = [trig EXCEPT ![o] = "idle"]
    /\ Update(o, "FAILED", FALSE)
    /\ entry' = [entry EXCEPT ![o].attempts = @ + 1, ![o].triggered = last]
    /\ watched' = IF last THEN watched \ {o} ELSE watched
    /\ UNCHANGED <<scenario, kind, jobs, looking, dropping, brokerVars, exitVars>>

ActOn(j) == Overshoot(j) \/ Claim(j)
EvaluateEntry(j) == TakeJob(j) \/ ActOn(j)
TriggerOrder(o) == CheckRow(o) \/ TriggerPlaces(o) \/ TriggerRefused(o) \/ TriggerDone(o) \/ TriggerFails(o)

MonitorNext ==
    \/ \E j \in Jobs : EvaluateEntry(j)
    \/ \E o \in Orders :
        \/ TriggerOrder(o) \/ DropExceeded(o) \/ WriteSubmitted(o) \/ CancelWatch(o)
        \/ \E ltp \in Zones : Tick(o, ltp)
=============================================================================
