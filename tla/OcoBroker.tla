---------------------------- MODULE OcoBroker ----------------------------
(***************************************************************************)
(* The broker as the trade-execution service sees it: the three orders of  *)
(* an OCO group and the WebSocket status events about them.  The broker is *)
(* external; it is modelled from how services/trade-execution uses it.     *)
(*                                                                         *)
(* StatusService handles every event in goroutines of its own, so events   *)
(* reach the OCO manager in any order: they are kept in a set.             *)
(*                                                                         *)
(* An order may be accepted and the answer to PlaceOrder lost (a timeout,  *)
(* an answer without an order ID).  Such an order is live, its broker ID   *)
(* is stored nowhere, and its events are those of an unknown order.        *)
(***************************************************************************)
EXTENDS Naturals

CONSTANTS
    Quantity,    \* quantity of the entry order
    Attempts     \* maxLegPlacementRetries

ASSUME QuantityAssumption == Quantity \in Nat \ {0}
ASSUME AttemptsAssumption == Attempts \in Nat \ {0}

Legs == {"SL", "TP"}
Orders == {"ENTRY", "SL", "TP"}

\* The orders of a leg that were accepted without an answer, by attempt.
LostOrders == Legs \X (1..Attempts)

VARIABLES
    order,     \* per order: its state at the broker, its quantity, what traded
    lost,      \* the same for the orders whose answer was lost
    events     \* status events that were sent and not yet handled

brokerVars == <<order, lost, events>>

OrderStates == {"none", "open", "executed", "cancelled", "rejected"}
Kinds == {"PENDING", "PARTIAL", "EXECUTED", "CANCELLED", "REJECTED"}

Event(o, kind, filled) == [o |-> o, kind |-> kind, filled |-> filled]

BrokerTypeOK ==
    /\ order \in [Orders -> [st : OrderStates, qty : Nat, filled : Nat]]
    /\ lost \in [LostOrders -> [st : OrderStates, qty : Nat, filled : Nat]]
    /\ events \subseteq [o : Orders \union {"UNKNOWN"}, kind : Kinds, filled : Nat]

\* The entry order was accepted; no leg exists.
BrokerInit ==
    /\ order = [o \in Orders |-> IF o = "ENTRY"
                                 THEN [st |-> "open", qty |-> Quantity, filled |-> 0]
                                 ELSE [st |-> "none", qty |-> 0, filled |-> 0]]
    /\ lost = [x \in LostOrders |-> [st |-> "none", qty |-> 0, filled |-> 0]]
    /\ events = {}

Open(o) == order[o].st = "open"
Traded(o) == order[o].filled > 0

-----------------------------------------------------------------------------
(***************************************************************************)
(* The market                                                              *)
(***************************************************************************)

\* The order trades until `filled` units are done.
Fill(o, filled) ==
    LET full == filled = order[o].qty IN
    /\ Open(o)
    /\ order[o].filled < filled /\ filled <= order[o].qty
    /\ order' = [order EXCEPT ![o].filled = filled,
                              ![o].st = IF full THEN "executed" ELSE "open"]
    /\ events' = events \union {Event(o, IF full THEN "EXECUTED" ELSE "PARTIAL", filled)}
    /\ UNCHANGED lost

\* The exchange ends the order (reject, expiry, cancel at the terminal).
End(o, st) ==
    /\ Open(o)
    /\ order' = [order EXCEPT ![o].st = st]
    /\ events' = events \union
         {Event(o, IF st = "rejected" THEN "REJECTED" ELSE "CANCELLED", order[o].filled)}
    /\ UNCHANGED lost

\* An order nobody knows trades.  Of an unknown order the status service
\* looks at complete fills only.
FillLost(x, filled) ==
    LET full == filled = lost[x].qty IN
    /\ lost[x].st = "open"
    /\ lost[x].filled < filled /\ filled <= lost[x].qty
    /\ lost' = [lost EXCEPT ![x].filled = filled,
                            ![x].st = IF full THEN "executed" ELSE "open"]
    /\ events' = IF full THEN events \union {Event("UNKNOWN", "EXECUTED", filled)} ELSE events
    /\ UNCHANGED order

EndLost(x, st) ==
    /\ lost[x].st = "open"
    /\ lost' = [lost EXCEPT ![x].st = st]
    /\ UNCHANGED <<order, events>>

-----------------------------------------------------------------------------
(***************************************************************************)
(* The order API                                                           *)
(***************************************************************************)

PlaceOrder(o, qty) ==
    /\ order' = [order EXCEPT ![o] = [st |-> "open", qty |-> qty, filled |-> 0]]
    /\ events' = events \union {Event(o, "PENDING", 0)}
    /\ UNCHANGED lost

\* The order is accepted and the answer does not arrive.
LoseOrder(x, qty) ==
    /\ lost' = [lost EXCEPT ![x] = [st |-> "open", qty |-> qty, filled |-> 0]]
    /\ UNCHANGED <<order, events>>

\* An order that is no longer open answers "already traded / cancelled".
CancelOrder(o) ==
    \/ End(o, "cancelled")
    \/ ~Open(o) /\ UNCHANGED brokerVars

\* A quantity below what traded, or a closed order, is refused.
ModifyOrder(o, qty) ==
    \/ /\ Open(o) /\ order[o].filled < qty
       /\ order' = [order EXCEPT ![o].qty = qty]
       /\ UNCHANGED <<lost, events>>
    \/ /\ ~Open(o) \/ order[o].filled >= qty
       /\ UNCHANGED brokerVars
=============================================================================
