--------------------------- MODULE OrderExecution ---------------------------
(***************************************************************************)
(* One live order of trade-execution, from ExecuteOrder to its fills:      *)
(*                                                                         *)
(*   - the executor places the order, with retries, and writes the broker  *)
(*     ID to the order's row, in the background;                           *)
(*   - the status service handles the broker's WebSocket events, each in a *)
(*     goroutine of its own, one at a time per broker ID, in any order;    *)
(*   - CancelOrder writes back the whole row it read before;               *)
(*   - a restart loses what is in memory, and reconciles the row with the  *)
(*     broker's order book once.                                           *)
(*                                                                         *)
(* Attempt n of the executor creates broker order n at most, so attempts   *)
(* and broker IDs share numbers; 0 stands for NULL.  The client's book may *)
(* also hold an order of another strategy or of the client himself that    *)
(* FindRecentOrder takes for this one.  Prices are in paise.               *)
(***************************************************************************)
EXTENDS Integers

CONSTANTS
    Quantity,     \* quantity of the order
    Prices,       \* the prices it may trade at
    OrderPrice,   \* its limit price, 0 for a market order
    MaxRetries,   \* OrderExecutor.maxRetries
    Scenarios     \* sets of what may go wrong

Hazards == {"timeout", "reset", "book misses", "slow write", "write fails", "lost event",
            "no price", "cancel", "restart", "other order"}

ASSUME OrderAssumption ==
    /\ Quantity \in Nat \ {0} /\ Prices \subseteq Nat \ {0} /\ OrderPrice \in Nat
    /\ MaxRetries \in Nat /\ Scenarios \subseteq SUBSET Hazards

Attempts == 1..MaxRetries + 1
Other == MaxRetries + 2
Ids == Attempts \union {Other}

VARIABLES
    scenario,     \* what may go wrong in this behaviour
    exec,         \* ExecuteOrder: "placing", "retrying", "placed", or how it ended
    attempt,      \* the attempt it is at
    timedOut,     \* the last attempt failed with a timeout
    placedId,     \* the broker ID it has, 0 = none
    order,        \* per broker ID: state at the broker and quantity traded
    traded,       \* per broker ID: the prices it traded at
    events,       \* WebSocket events that no goroutine handles yet
    waiting,      \* per broker ID: the event whose goroutine waits 500 ms
    row,          \* the order's row in the database
    copy,         \* the row as CancelOrder read it
    cancel,       \* CancelOrder: "idle", "read", "sent"
    started       \* restarts: "first", "reconciling", "again"

execVars == <<exec, attempt, timedOut, placedId>>
brokerVars == <<order, traded>>
cancelVars == <<copy, cancel>>
vars == <<scenario, execVars, brokerVars, events, waiting, row, cancelVars, started>>

Event(id, st, filled, price) == [id |-> id, st |-> st, filled |-> filled, price |-> price]
NoEvent == Event(0, "", 0, 0)

Row(st, id, filled, price) == [st |-> st, id |-> id, filled |-> filled, price |-> price]

Statuses == {"RECEIVED", "SUBMITTED", "FAILED", "PENDING", "PARTIAL", "EXECUTED", "CANCELLED"}
Rows == [st : Statuses, id : Nat, filled : Nat, price : Nat]
EventRecords == [id : Ids, st : {"PENDING", "PARTIAL", "EXECUTED", "CANCELLED"},
                 filled : Nat, price : Nat]

TypeOK ==
    /\ scenario \in Scenarios
    /\ exec \in {"placing", "retrying", "placed", "done", "failed", "gone"}
    /\ attempt \in Attempts /\ timedOut \in BOOLEAN /\ placedId \in Ids \union {0}
    /\ order \in [Ids -> [st : {"none", "open", "executed", "cancelled"}, filled : Nat]]
    /\ traded \in [Ids -> SUBSET Prices]
    /\ events \subseteq EventRecords
    /\ waiting \in [Ids -> EventRecords \union {NoEvent}]
    /\ row \in Rows /\ copy \in Rows
    /\ cancel \in {"idle", "read", "sent"}
    /\ started \in {"first", "reconciling", "again"}

\* ProcessTradeSignal has created the row of a live order that the risk checks
\* approved, and calls ExecuteOrder.
Init ==
    /\ scenario \in Scenarios
    /\ exec = "placing" /\ attempt = 1 /\ timedOut = FALSE /\ placedId = 0
    /\ order = [id \in Ids |-> [st |-> IF id = Other /\ "other order" \in scenario THEN "open" ELSE "none",
                               filled |-> 0]]
    /\ traded = [id \in Ids |-> {}]
    /\ events = {} /\ waiting = [id \in Ids |-> NoEvent]
    /\ row = Row("RECEIVED", 0, 0, 0) /\ copy = row /\ cancel = "idle"
    /\ started = "first"

-----------------------------------------------------------------------------
(***************************************************************************)
(* The broker                                                              *)
(***************************************************************************)

Accept(id) ==
    /\ order' = [order EXCEPT ![id].st = "open"]
    /\ events' = events \union {Event(id, "PENDING", 0, 0)}

\* A trade at price p: TradedQTY is cumulative, TradedPrice is this trade's.
Trade(id, filled, p) ==
    LET full == filled = Quantity IN
    /\ order[id].st = "open" /\ order[id].filled < filled
    /\ order' = [order EXCEPT ![id] = [st |-> IF full THEN "executed" ELSE "open",
                                       filled |-> filled]]
    /\ traded' = [traded EXCEPT ![id] = @ \union {p}]
    /\ \E price \in {p} \union (IF "no price" \in scenario THEN {0} ELSE {}) :
          events' = events \union {Event(id, IF full THEN "EXECUTED" ELSE "PARTIAL", filled, price)}
    /\ UNCHANGED <<scenario, execVars, waiting, row, cancelVars, started>>

\* The rest of the order is cancelled or rejected.
EndOrder(id) ==
    /\ order[id].st = "open"
    /\ order' = [order EXCEPT ![id].st = "cancelled"]
    /\ \E price \in traded[id] \union {0} :
          events' = events \union {Event(id, "CANCELLED", order[id].filled, price)}

ExchangeEnds(id) ==
    /\ EndOrder(id)
    /\ UNCHANGED <<scenario, execVars, traded, waiting, row, cancelVars, started>>

\* Updates is full, or the WebSocket is down.
LoseEvent(e) ==
    /\ "lost event" \in scenario
    /\ events' = events \ {e}
    /\ UNCHANGED <<scenario, execVars, brokerVars, waiting, row, cancelVars, started>>

-----------------------------------------------------------------------------
(***************************************************************************)
(* ExecuteOrder                                                            *)
(***************************************************************************)

\* repo.Update writes the whole row; the error is only logged.
WriteRow(r) ==
    \/ row' = r
    \/ "write fails" \in scenario /\ UNCHANGED row

FailOrder ==
    /\ exec' = "failed"
    /\ WriteRow(Row("FAILED", 0, 0, 0))

PlaceOrder ==
    /\ exec = "placing"
    /\ exec' = "placed" /\ placedId' = attempt
    /\ Accept(attempt)
    /\ UNCHANGED <<scenario, attempt, timedOut, traded, waiting, row, cancelVars, started>>

\* Missing credentials, or a BrokerBusinessError, which is not retried.
PlaceRejected ==
    /\ exec = "placing"
    /\ FailOrder
    /\ UNCHANGED <<scenario, attempt, timedOut, placedId, brokerVars, events, waiting,
                   cancelVars, started>>

\* The call fails and the broker may have the order: the answer timed out, or
\* (reset) the connection broke or the answer had no order ID.
PlaceFails(timeout) ==
    /\ exec = "placing"
    /\ timeout => "timeout" \in scenario
    /\ \/ UNCHANGED <<order, events>>
       \/ /\ timeout \/ "reset" \in scenario
          /\ Accept(attempt)
    /\ timedOut' = timeout
    /\ \/ attempt <= MaxRetries /\ exec' = "retrying" /\ UNCHANGED row
       \/ attempt = MaxRetries + 1 /\ FailOrder
    /\ UNCHANGED <<scenario, attempt, placedId, traded, waiting, cancelVars, started>>

\* Faulty variant: the order book is not asked.
RetryBlindly ==
    /\ exec = "retrying"
    /\ exec' = "placing" /\ attempt' = attempt + 1
    /\ UNCHANGED <<scenario, timedOut, placedId, brokerVars, events, waiting, row,
                   cancelVars, started>>

InBook == {id \in Ids : order[id].st # "none"}

\* After the delay.  After a timeout FindRecentOrder looks for the order first, and takes
\* any of the stock, the side and the quantity for it.
Retry ==
    /\ exec = "retrying"
    /\ \/ /\ timedOut
          /\ placedId' \in InBook /\ exec' = "placed"
          /\ UNCHANGED attempt
       \/ /\ timedOut => InBook = {} \/ "book misses" \in scenario
          /\ exec' = "placing" /\ attempt' = attempt + 1
          /\ UNCHANGED placedId
    /\ UNCHANGED <<scenario, timedOut, brokerVars, events, waiting, row, cancelVars, started>>

\* The context ends during the delay: ExecuteOrder returns.
ContextEnds ==
    /\ exec = "retrying"
    /\ exec' = "gone"
    /\ UNCHANGED <<scenario, attempt, timedOut, placedId, brokerVars, events, waiting, row,
                   cancelVars, started>>

\* handleSuccessfulPlacement writes the row, in a goroutine.
WriteSubmitted ==
    /\ exec = "placed"
    /\ exec' = "done"
    /\ WriteRow(Row("SUBMITTED", placedId, 0, 0))
    /\ UNCHANGED <<scenario, attempt, timedOut, placedId, brokerVars, events, waiting,
                   cancelVars, started>>

-----------------------------------------------------------------------------
(***************************************************************************)
(* The status service                                                      *)
(***************************************************************************)

\* filled_price is DECIMAL(15,2): an average is rounded to the paisa.
Rounded(n, d) == (2 * n + d) \div (2 * d)

\* Faulty variant: the new quantity, not its increase, weighs the new price.
AverageOfTotals(e) == Rounded(row.price * row.filled + e.price * e.filled, e.filled)

\* (prev_avg * prev_qty + this_price * delta_qty) / new_cum_qty
Average(e) == Rounded(row.price * row.filled + e.price * (e.filled - row.filled), e.filled)

\* FilledPrice after event e, before the fallback to the order's price.
TradePrice(e) ==
    IF e.filled > row.filled
    THEN IF e.price = 0 THEN row.price
         ELSE IF row.filled = 0 THEN e.price
         ELSE Average(e)
    ELSE IF e.filled = row.filled /\ row.price = 0 THEN e.price
    ELSE row.price

NewPrice(e) ==
    IF TradePrice(e) = 0 /\ e.st = "EXECUTED" THEN OrderPrice ELSE TradePrice(e)

\* Faulty variant: the quantity of an old event is taken.
UpdatedByLast(e) == Row(e.st, e.id, e.filled, NewPrice(e))

\* Faulty variant: TradedQTY is taken for the quantity of one trade.
UpdatedAdds(e) == Row(e.st, e.id, row.filled + e.filled, NewPrice(e))

\* The status is always the event's; the quantity of a stale event is not used.
Updated(e) ==
    Row(e.st, e.id, IF e.filled > row.filled THEN e.filled ELSE row.filled, NewPrice(e))

Free(id) == waiting[id] = NoEvent

\* Faulty variant: the event of an unknown order is dropped at once.
HandleOrDrop(e) ==
    /\ Free(e.id)
    /\ events' = events \ {e}
    /\ \/ row.id = e.id /\ WriteRow(Updated(e))
       \/ row.id # e.id /\ UNCHANGED row
    /\ UNCHANGED <<scenario, execVars, brokerVars, waiting, cancelVars, started>>

\* handleStatusUpdate, under the mutex of the broker ID.  An order that is not
\* found is looked up again after 500 ms, with the mutex held.
HandleStatusUpdate(e) ==
    /\ Free(e.id)
    /\ events' = events \ {e}
    /\ \/ /\ row.id = e.id
          /\ WriteRow(Updated(e))
          /\ UNCHANGED waiting
       \/ /\ row.id # e.id
          /\ waiting' = [waiting EXCEPT ![e.id] = e]
          /\ UNCHANGED row
    /\ UNCHANGED <<scenario, execVars, brokerVars, cancelVars, started>>

\* An event that is not found again is dropped, or taken for a manual exit.
\* The executor's write does not take longer than 500 ms, unless it is slow.
LookUpAgain(id) ==
    /\ ~Free(id)
    /\ waiting' = [waiting EXCEPT ![id] = NoEvent]
    /\ \/ row.id = id /\ WriteRow(Updated(waiting[id]))
       \/ /\ row.id # id
          /\ exec = "placed" => "slow write" \in scenario
          /\ UNCHANGED row
    /\ UNCHANGED <<scenario, execVars, brokerVars, events, cancelVars, started>>

-----------------------------------------------------------------------------
(***************************************************************************)
(* CancelOrder, on behalf of the user or of a deactivated strategy         *)
(***************************************************************************)

Terminal(st) == st \in {"EXECUTED", "CANCELLED", "FAILED"}

ReadForCancel ==
    /\ "cancel" \in scenario /\ cancel = "idle"
    /\ ~Terminal(row.st)
    /\ copy' = row /\ cancel' = "read"
    /\ UNCHANGED <<scenario, execVars, brokerVars, events, waiting, row, started>>

\* An error of the broker is only logged; without a broker ID nothing is sent.
CancelAtBroker ==
    /\ cancel = "read"
    /\ cancel' = "sent"
    /\ \/ copy.id # 0 /\ EndOrder(copy.id)
       \/ UNCHANGED <<order, events>>
    /\ UNCHANGED <<scenario, execVars, traded, waiting, row, copy, started>>

WriteCancelled ==
    /\ cancel = "sent"
    /\ cancel' = "idle"
    /\ WriteRow([copy EXCEPT !.st = "CANCELLED"])
    /\ UNCHANGED <<scenario, execVars, brokerVars, events, waiting, copy, started>>

-----------------------------------------------------------------------------
(***************************************************************************)
(* Restart                                                                 *)
(***************************************************************************)

Restart ==
    /\ "restart" \in scenario /\ started = "first"
    /\ started' = "reconciling"
    /\ exec' = IF exec \in {"done", "failed"} THEN exec ELSE "gone"
    /\ events' = {} /\ waiting' = [id \in Ids |-> NoEvent]
    /\ cancel' = "idle"
    /\ UNCHANGED <<scenario, attempt, timedOut, placedId, brokerVars, row, copy>>

BookStatus(id) ==
    IF order[id].st = "open"
    THEN IF order[id].filled > 0 THEN "PARTIAL" ELSE "PENDING"
    ELSE IF order[id].st = "executed" THEN "EXECUTED" ELSE "CANCELLED"

\* A snapshot of the book, which has no traded price, is handled like an event
\* if its status is not the row's.  The pass may be disabled, the book not
\* readable, or the row too fresh.
Reconcile ==
    /\ started = "reconciling"
    /\ started' = "again"
    /\ \/ /\ row.id # 0 /\ ~Terminal(row.st) /\ BookStatus(row.id) # row.st
          /\ events' = events \union
                {Event(row.id, BookStatus(row.id), order[row.id].filled, 0)}
       \/ UNCHANGED events
    /\ UNCHANGED <<scenario, execVars, brokerVars, waiting, row, cancelVars>>

-----------------------------------------------------------------------------
Executor ==
    \/ PlaceOrder
    \/ PlaceRejected
    \/ \E timeout \in BOOLEAN : PlaceFails(timeout)
    \/ Retry
    \/ ContextEnds
    \/ WriteSubmitted

StatusService ==
    \/ \E e \in events : HandleStatusUpdate(e)
    \/ \E id \in Ids : LookUpAgain(id)

Next ==
    \/ \E id \in Ids, filled \in 1..Quantity, p \in Prices : Trade(id, filled, p)
    \/ \E id \in Ids : ExchangeEnds(id)
    \/ \E e \in events : LoseEvent(e)
    \/ Executor
    \/ StatusService
    \/ ReadForCancel
    \/ CancelAtBroker
    \/ WriteCancelled
    \/ Restart
    \/ Reconcile

(***************************************************************************)
(* ExecuteOrder runs to its end, and so does every goroutine of the status *)
(* service.  Nothing is assumed of the market, of users or of faults.      *)
(***************************************************************************)
Fairness == WF_vars(Executor) /\ WF_vars(StatusService)

Spec == Init /\ [][Next]_vars
FairSpec == Spec /\ Fairness

-----------------------------------------------------------------------------
(***************************************************************************)
(* Properties                                                              *)
(***************************************************************************)

(***************************************************************************)
(* The row never claims more than was traded: its quantity is at most what *)
(* the broker order it names has traded, through stale events, cancels,    *)
(* failed writes, duplicates and restarts.                                 *)
(***************************************************************************)
FilledWasTraded == row.filled > 0 => row.id # 0 /\ row.filled <= order[row.id].filled

\* The prices that may show in the row of broker order id.
Seen(id) == traded[id] \union (IF OrderPrice > 0 THEN {OrderPrice} ELSE {})

Between(p, S) == (\E a \in S : a <= p) /\ (\E b \in S : p <= b)

(***************************************************************************)
(* The row's price is a credible average: not below all, nor above all, of *)
(* the prices of the order's trades (and its own limit price, the fallback *)
(* of handleStatusUpdate), in whatever order the events were handled.      *)
(***************************************************************************)
PriceIsAverage == row.price # 0 => row.id # 0 /\ Between(row.price, Seen(row.id))

(***************************************************************************)
(* PriceIsAverage, when every trade is reported with its price.            *)
(***************************************************************************)
PricedEvents == scenario \intersect {"no price", "restart"} = {} => PriceIsAverage

(***************************************************************************)
(* A retry never creates a second order: after a timeout the order book is *)
(* asked first ("idempotency guard"), whether or not the broker had        *)
(* received the request.                                                   *)
(***************************************************************************)
OneOrder ==
    scenario \intersect {"reset", "book misses"} = {} =>
        \A a, b \in Attempts : order[a].st # "none" /\ order[b].st # "none" => a = b

(***************************************************************************)
(* No fill is erased: the executor's background write of the row and the   *)
(* status service's never undo each other, and an old event undoes no      *)
(* newer one.  (CancelOrder is another matter: it writes an old copy.)     *)
(***************************************************************************)
NoFillErased == [][ "cancel" \notin scenario => row'.filled >= row.filled ]_vars

Reliable == scenario \subseteq {"no price", "book misses"}

(***************************************************************************)
(* Every fill reaches the row, although its event may be handled before    *)
(* the executor has stored the broker ID, or after later ones.             *)
(***************************************************************************)
FillsReachRow ==
    \A q \in 1..Quantity :
        (Reliable /\ \E id \in Attempts : order[id].filled >= q) ~> (row.filled >= q)
=============================================================================
