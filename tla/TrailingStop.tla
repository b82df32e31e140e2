---------------------------- MODULE TrailingStop ----------------------------
(***************************************************************************)
(* The trailing stop-loss of one OCO group: oco/trailing.go and the parts  *)
(* of oco/types.go and oco/manager.go it calls.  Prices are in fractions   *)
(* of a paisa: the price of a fill is an average that nobody rounds.  The  *)
(* code's float64 arithmetic is modelled exactly.                          *)
(*                                                                         *)
(* Two goroutines evaluate prices: the WebSocket client calls              *)
(* OnPriceUpdate, and the monitor's ticker polls Redis.  Each computes a   *)
(* new trigger under the group's mutex, releases it, and calls             *)
(* ModifySLLeg, which takes the mutex again: two steps.                    *)
(***************************************************************************)
EXTENDS Integers

CONSTANTS
    Unit,           \* how many of the units of price make a paisa
    OrderSide,      \* "BUY" or "SELL", the side of the entry
    EntryFillPrice, \* the price the legs were computed from
    OrderPrice,     \* limit price of the entry order, as stored in its row
    SLPercent,      \* distance of the stop-loss, in basis points
    TrailingSLPct,  \* smallest move worth a broker call, in basis points
    Prices,         \* the last traded prices the market may show
    Scenarios,      \* sets of what may happen besides ticks and polls
    MaxRestarts

TickSize == 5 * Unit

\* p is on the loss side of q: a stop at p does not trigger at price q.
Behind(p, q) == IF OrderSide = "BUY" THEN p < q ELSE p > q

\* p is so far on the loss side of q that rounding does not take it across when both move.
\* A price that falls may halve the distance.
Apart(p, q) == IF OrderSide = "BUY" THEN 2 * (q - p) >= TickSize ELSE p - q >= TickSize

\* roundNSE(n / d): to the nearest paisa, then to the tick of 5 paise.
roundNSE(n, d) == TickSize * ((((2 * n + d * Unit) \div (2 * (d * Unit))) + 2) \div 5)

CalculateSLFromFill(fillPrice) ==
    roundNSE(fillPrice * (IF OrderSide = "BUY" THEN 10000 - SLPercent ELSE 10000 + SLPercent),
             10000)

InitialTrigger == CalculateSLFromFill(EntryFillPrice)

AllPrices == Prices \union {EntryFillPrice, OrderPrice}

ASSUME SideAssumption == OrderSide \in {"BUY", "SELL"}

ASSUME ConfigAssumption == Unit \in Nat \ {0} /\ SLPercent \in 1..9999 /\ TrailingSLPct \in Nat

ASSUME ScenarioAssumption ==
    /\ Scenarios \subseteq SUBSET {"redis", "resize", "restart", "lost subscription", "lost resubscription"}
    /\ MaxRestarts \in Nat

\* The market's prices are multiples of the exchange's tick, the average of the fills is
\* any price; by the exchange's price bands they are within a factor of two of each other
\* during the life of a group.
ASSUME TickAssumption ==
    /\ EntryFillPrice \in Nat \ {0} /\ OrderPrice \in Nat \ {0}
    /\ Prices \subseteq Nat /\ \A p \in Prices : p > 0 /\ p % TickSize = 0
ASSUME BandAssumption == \A p, q \in AllPrices : p < 2 * q

\* A limit order does not fill at a worse price than its limit.
ASSUME LimitAssumption == ~Behind(OrderPrice, EntryFillPrice)

\* placeOCOLegs refuses a stop-loss that is not behind the fill; here it is also so far
\* behind that rounding cannot make up the distance.
ASSUME StopAssumption == InitialTrigger > 0 /\ Apart(InitialTrigger, EntryFillPrice)

VARIABLES
    scenario,     \* what happens in this behaviour
    state,        \* OCOGroup.State: ACTIVE, RELOADED (LEGS_SUBMITTED or
                  \* PLACING_LEGS after a reload), or ENDED (any other)
    trigger,      \* OCOGroup.SLTriggerPrice
    highest,      \* OCOGroup.HighestPrice
    calls,        \* per price source, the ModifySLLeg call about to be made
    resize,       \* the trigger a modifyLegsQty has read, or 0
    stop,         \* trigger price of the stop-loss order at the broker
    best,         \* history: the best price any tick or the fill has shown
    connected,    \* OCOMarketClient.conn # nil, and healthy
    subscribed,   \* the token is in OCOMarketClient.subscribed
    served,       \* this connection delivers ticks of the token
    cached,       \* the symbol is in ltpCache
    watched,      \* the group is in symbolGroups
    confirmed,    \* the status in the stop-loss order's row says it is live
    restarts

groupVars == <<state, trigger, highest>>
callVars == <<calls, resize>>
feedVars == <<connected, subscribed, served, cached, watched>>
stopVars == <<scenario, groupVars, callVars, stop, best, feedVars, confirmed, restarts>>

Sources == {"wss", "redis"}
NoCall == [trigger |-> 0, ltp |-> 0]
Call == [trigger : Nat, ltp : Nat]
NoCalls == [s \in Sources |-> NoCall]

StopTypeOK ==
    /\ scenario \in Scenarios
    /\ trigger \in Nat /\ highest \in Nat /\ stop \in Nat /\ best \in Nat /\ resize \in Nat
    /\ calls \in [Sources -> Call]
    /\ state \in {"ACTIVE", "RELOADED", "ENDED"}
    /\ {confirmed, connected, subscribed, served, cached, watched} \subseteq BOOLEAN
    /\ restarts \in Nat

active == state = "ACTIVE"

\* placeOCOLegs has ended; the rows of the legs say SUBMITTED.
StopInit ==
    /\ scenario \in Scenarios
    /\ state = "ACTIVE" /\ confirmed = FALSE
    /\ trigger = InitialTrigger /\ stop = InitialTrigger
    /\ highest = EntryFillPrice /\ best = EntryFillPrice
    /\ calls = NoCalls /\ resize = 0
    /\ connected = FALSE /\ subscribed = FALSE /\ served = FALSE
    /\ cached = FALSE /\ watched = FALSE
    /\ restarts = 0

-----------------------------------------------------------------------------
(***************************************************************************)
(* The price feed                                                          *)
(***************************************************************************)

\* sendSubscribe, whose message or answer may be lost: that of a token which has shown no
\* price yet, or that of one which has.
Subscribes(wanted) ==
    \/ served' = wanted
    \/ "lost subscription" \in scenario /\ ~cached /\ served' = FALSE
    \/ "lost resubscription" \in scenario /\ cached /\ served' = FALSE

\* Faulty variant: the tokens are not subscribed again.
ConnectOnly ==
    /\ ~connected
    /\ connected' = TRUE
    /\ UNCHANGED <<scenario, groupVars, callVars, stop, best, served, subscribed, cached, watched,
                   confirmed, restarts>>

Connect ==
    /\ ~connected
    /\ connected' = TRUE
    /\ Subscribes(subscribed)
    /\ UNCHANGED <<scenario, groupVars, callVars, stop, best, subscribed, cached, watched,
                   confirmed, restarts>>

Disconnect ==
    /\ connected
    /\ connected' = FALSE /\ served' = FALSE
    /\ UNCHANGED <<scenario, groupVars, callVars, stop, best, subscribed, cached, watched,
                   confirmed, restarts>>

\* Every 5 s; tokens that are new to the client are subscribed.
RefreshGroups ==
    /\ watched' = active
    /\ subscribed' = (subscribed \/ active)
    /\ IF active /\ ~subscribed /\ connected THEN Subscribes(TRUE) ELSE UNCHANGED served
    /\ UNCHANGED <<scenario, groupVars, callVars, stop, best, connected, cached, confirmed,
                   restarts>>

-----------------------------------------------------------------------------
(***************************************************************************)
(* The stop follows the market                                             *)
(***************************************************************************)

\* Faulty variant: a price that is no new high counts.
ShouldUpdateAnyMove(ltp) ==
    LET move == IF ltp > highest THEN ltp - highest ELSE highest - ltp IN
    move * 10000 >= highest * (IF TrailingSLPct \in 1..50 THEN TrailingSLPct ELSE 10)

\* The move, relative to the trigger, is that of the price.
ShouldUpdate(ltp) ==
    LET move == IF OrderSide = "BUY" THEN ltp - highest ELSE highest - ltp IN
    /\ move > 0
    /\ move * 10000 >= highest * (IF TrailingSLPct \in 1..50 THEN TrailingSLPct ELSE 10)

CalculateTrailingSL(ltp) == roundNSE(trigger * ltp, highest)

EvaluateTrailing(source, ltp) ==
    calls' = IF ShouldUpdate(ltp)
             THEN [calls EXCEPT ![source] = [trigger |-> CalculateTrailingSL(ltp), ltp |-> ltp]]
             ELSE calls

Better(p, q) == IF Behind(p, q) THEN q ELSE p

\* processMessage caches the price, then calls back.
OnPriceUpdate(ltp) ==
    /\ connected /\ served /\ calls["wss"] = NoCall
    /\ cached' = TRUE
    /\ best' = Better(ltp, best)
    /\ IF watched /\ active THEN EvaluateTrailing("wss", ltp) ELSE UNCHANGED calls
    /\ UNCHANGED <<scenario, groupVars, resize, stop, connected, subscribed, served, watched,
                   confirmed, restarts>>

PollRedis(ltp) ==
    /\ "redis" \in scenario
    /\ watched /\ active /\ calls["redis"] = NoCall
    /\ ~connected \/ ~cached
    /\ best' = Better(ltp, best)
    /\ EvaluateTrailing("redis", ltp)
    /\ UNCHANGED <<scenario, groupVars, resize, stop, feedVars, confirmed, restarts>>

\* Faulty variant: the highest price stays.
ModifySLLegKeepsHighest(source) ==
    /\ calls[source] # NoCall
    /\ calls' = [calls EXCEPT ![source] = NoCall]
    /\ \/ /\ active
          /\ stop' = calls[source].trigger /\ trigger' = calls[source].trigger
          /\ confirmed' \in {FALSE, confirmed}
          /\ UNCHANGED highest
       \/ UNCHANGED <<stop, trigger, highest, confirmed>>
    /\ UNCHANGED <<scenario, state, resize, best, feedVars, restarts>>

\* The broker refuses, or the group is no longer active; or both prices move,
\* and repo.Update of an order without a status blanks the row's, or fails.
ModifySLLeg(source) ==
    /\ calls[source] # NoCall
    /\ calls' = [calls EXCEPT ![source] = NoCall]
    /\ \/ /\ active
          /\ stop' = calls[source].trigger /\ trigger' = calls[source].trigger
          /\ highest' = calls[source].ltp
          /\ confirmed' \in {FALSE, confirmed}
       \/ UNCHANGED <<stop, trigger, highest, confirmed>>
    /\ UNCHANGED <<scenario, state, resize, best, feedVars, restarts>>

\* modifyLegsQty reads the trigger under the mutex ...
ReadTrigger ==
    /\ "resize" \in scenario /\ resize = 0
    /\ resize' = trigger
    /\ UNCHANGED <<scenario, groupVars, calls, stop, best, feedVars, confirmed, restarts>>

\* ... and sends it with the new quantity, without the mutex; the row's
\* status is blanked as above.
ModifyLegsQty ==
    /\ resize # 0
    /\ resize' = 0
    /\ \/ stop' = resize /\ confirmed' \in {FALSE, confirmed}
       \/ UNCHANGED <<stop, confirmed>>
    /\ UNCHANGED <<scenario, groupVars, calls, best, feedVars, restarts>>

\* A PENDING event of the stop-loss order, which the broker sends for a new
\* or modified order: StatusService writes the row's status, and the manager
\* makes a reloaded group ACTIVE if its other leg is confirmed too.
HandlePending ==
    /\ state # "ENDED" /\ (~confirmed \/ state = "RELOADED")
    /\ confirmed' = TRUE
    /\ state' \in {state, "ACTIVE"}
    /\ UNCHANGED <<scenario, trigger, highest, callVars, stop, best, feedVars, restarts>>

\* An event of a leg, or a cancel, ends the group's life.
LeaveActive ==
    /\ state # "ENDED"
    /\ state' = "ENDED"
    /\ UNCHANGED <<scenario, trigger, highest, callVars, stop, best, feedVars, confirmed, restarts>>

(***************************************************************************)
(* Reload builds the group from its rows.  repo.Update writes neither the  *)
(* trigger nor the highest price, so both are what they were at placement; *)
(* the price of the entry's row is its limit price.  inferState finds the  *)
(* group ACTIVE when the rows of both legs say that they are live.         *)
(***************************************************************************)
Restart ==
    /\ "restart" \in scenario /\ state # "ENDED" /\ restarts < MaxRestarts
    /\ restarts' = restarts + 1
    /\ trigger' = InitialTrigger /\ highest' = OrderPrice
    /\ \/ state' = "RELOADED"
       \/ confirmed /\ state' = "ACTIVE"
    /\ calls' = NoCalls /\ resize' = 0
    /\ connected' = FALSE /\ subscribed' = FALSE /\ served' = FALSE
    /\ cached' = FALSE /\ watched' = FALSE
    /\ UNCHANGED <<scenario, stop, best, confirmed>>

Feed == Connect \/ Disconnect \/ RefreshGroups

StopNext ==
    \/ Feed
    \/ \E ltp \in Prices : OnPriceUpdate(ltp) \/ PollRedis(ltp)
    \/ \E source \in Sources : ModifySLLeg(source)
    \/ ReadTrigger
    \/ ModifyLegsQty
    \/ HandlePending
    \/ LeaveActive
    \/ Restart

StopSpec == StopInit /\ [][StopNext]_stopVars

-----------------------------------------------------------------------------
(***************************************************************************)
(* Properties                                                              *)
(***************************************************************************)

(***************************************************************************)
(* The stop stays behind the market: whatever the rounding to ticks, stale *)
(* calls of two price sources and restarts do, the trigger is never at or  *)
(* beyond the price it was computed from, and the order at the broker is   *)
(* behind the best price seen.  A stop beyond the market would close the   *)
(* position at once.                                                       *)
(***************************************************************************)
StopBehindMarket ==
    /\ Behind(trigger, highest)
    /\ Behind(stop, best)

Loosens == stop' # stop /\ Behind(stop', stop)

(***************************************************************************)
(* With one price source, and no partial fills or restarts, the order at   *)
(* the broker only moves in the direction of profit, in every sequence of  *)
(* prices, failed broker calls and reconnects.                             *)
(***************************************************************************)
StopNeverLoosens == [][scenario \subseteq {"lost subscription", "lost resubscription"} => ~Loosens]_stopVars

(***************************************************************************)
(* A watched group has a price source: the connection delivers its ticks,  *)
(* or Redis is polled for it, across reconnects and restarts, and also if  *)
(* the subscription of its token is lost, as long as it has had no tick.   *)
(* Once it has had one, a subscription that is lost when the client        *)
(* reconnects leaves it without: the cached price stops the poll.          *)
(***************************************************************************)
WatchedGroupHasPrices ==
    watched /\ "lost resubscription" \notin scenario => served \/ ~connected \/ ~cached

(***************************************************************************)
(* The product requirements (9.4) say of a BUY: "SL only moves UP", "never *)
(* moves down, only up".                                                   *)
(***************************************************************************)
SLOnlyMovesUp == [][~Loosens]_stopVars
=============================================================================
