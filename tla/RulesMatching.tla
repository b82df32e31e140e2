--------------------------- MODULE RulesMatching ---------------------------
(***************************************************************************)
(* What the rules engine computes without state: whether an event matches  *)
(* the conditions of a strategy, and the order it builds from a match.     *)
(*                                                                         *)
(* Prices are integers (paise), percentages are integers.  Words that the  *)
(* code compares without regard to case are model values.  The score of a  *)
(* match gates nothing and is left out.                                    *)
(***************************************************************************)
EXTENDS Integers

\* An absent filter accepts everything: sentiments, categories, market caps, exchanges.
Accepts(list, value) == list = {} \/ value \in list

Magnitude(x) == IF x < 0 THEN -x ELSE x

\* An unset maximum is 10.
evaluateImpactScore(e, c) ==
    e.impact >= c.impactMin /\ e.impact <= IF c.impactMax = 0 THEN 10 ELSE c.impactMax

evaluatePriceRange(e, c) ==
    (c.minPrice = 0 /\ c.maxPrice = 0) \/ (c.minPrice <= e.price /\ e.price <= c.maxPrice)

\* "" when there is no filter; an unset maximum is infinite.
PctChangeStatus(e, c) ==
    IF c.matchAll \/ (c.minPct = 0 /\ c.maxPct = 0) THEN ""
    ELSE IF c.maxPct # 0 /\ Magnitude(e.pct) >= c.maxPct THEN "above_max"
    ELSE IF Magnitude(e.pct) >= c.minPct THEN "within_range"
    ELSE "below_min"

\* The conditions that fail.  A match-all strategy checks the impact only.
FailedConditions(e, c) ==
    {x \in {"impact_score"} : ~evaluateImpactScore(e, c)} \union
    IF c.matchAll THEN {}
    ELSE {x \in {"filters"} : ~(Accepts(c.sentiments, e.sentiment) /\ Accepts(c.categories, e.category)
                                /\ Accepts(c.caps, e.cap) /\ Accepts(c.exchanges, e.exchange))}
         \union {x \in {"price_range"} : ~evaluatePriceRange(e, c)}
         \union {x \in {"pct_change"} : PctChangeStatus(e, c) = "above_max"}

IsFullMatch(e, c) == FailedConditions(e, c) = {}

-----------------------------------------------------------------------------

\* num / den to the nearest tick, halves up.
RoundToTick(num, den, tick) == ((2 * num + den * tick) \div (2 * den * tick)) * tick

\* The price the order names and the price it is sized with, in the three cases.
\* A below-minimum order names the price the price monitor waits for, unrounded.
Reference(e, md) == IF e.prevClose > 0 THEN e.prevClose ELSE IF md.prevClose > 0 THEN md.prevClose ELSE md.ltp
Target(e, c, md) == (Reference(e, md) * (100 + c.minPct)) \div 100
SizingPrice(e, c, md) ==
    CASE PctChangeStatus(e, c) = "within_range" -> RoundToTick(md.ltp * 1005, 1000, md.tick)
      [] PctChangeStatus(e, c) = "below_min" -> RoundToTick(Target(e, c, md) * 1005, 1000, md.tick)
      [] OTHER -> md.ltp

\* Stop-loss and target are computed from the last traded or the monitored price.
ExitBase(e, c, md) == IF PctChangeStatus(e, c) = "below_min" THEN Target(e, c, md) ELSE md.ltp

\* Faulty variant: a below-minimum order is sized with the price it waits for.
QuantityAtTarget(e, c, md) ==
    IF c.budget = 0 THEN c.quantity ELSE (c.budget * 98) \div (100 * ExitBase(e, c, md))

\* 98% of the budget, if the strategy has one.
Quantity(e, c, md) ==
    IF c.budget = 0 THEN c.quantity ELSE (c.budget * 98) \div (100 * SizingPrice(e, c, md))

\* A percentage of 0 means none, and multi-level exits compute their own.
StopLoss(e, c, md) ==
    IF c.slType = "MULTI_LEVEL" \/ c.slPct = 0 THEN 0
    ELSE RoundToTick(ExitBase(e, c, md) * (100 - c.slPct), 100, md.tick)
TakeProfit(e, c, md) ==
    IF c.tpType = "MULTI_LEVEL" \/ c.tpPct = 0 THEN 0
    ELSE RoundToTick(ExitBase(e, c, md) * (100 + c.tpPct), 100, md.tick)

\* Product types: BRACKET with STOP_LOSS is how trade-execution knows an order for
\* the price monitor.
OrderRequest(e, c, md) ==
    LET status == PctChangeStatus(e, c)
        own == IF c.orderType = "BRACKET" /\ c.slType # "TRAILING" THEN "BRACKET" ELSE "INTRADAY"
        managed == c.slType \in {"TRAILING", "MULTI_LEVEL"} \/ c.tpType = "MULTI_LEVEL"
    IN [status |-> status,
        orderType |-> CASE status = "within_range" -> "LIMIT"
                        [] status = "below_min" -> "STOP_LOSS"
                        [] OTHER -> c.orderType,
        product |-> CASE status = "within_range" -> IF managed THEN "INTRADAY" ELSE "BRACKET"
                      [] status = "below_min" -> "BRACKET"
                      [] OTHER -> own,
        price |-> IF status = "below_min" THEN Target(e, c, md) ELSE SizingPrice(e, c, md),
        stopLoss |-> StopLoss(e, c, md),
        takeProfit |-> TakeProfit(e, c, md),
        quantity |-> Quantity(e, c, md),
        maxPrice |-> IF status = "below_min" /\ c.maxPct > 0
                     THEN (Reference(e, md) * (100 + c.maxPct)) \div 100 ELSE 0]

\* The price has moved out of the range since the event was written.
MovedOut(c, md) == c.maxPct > 0 /\ Magnitude(md.pct) >= c.maxPct

\* Validate, and the budget that does not buy one share.
Valid(o) == o.quantity > 0 /\ o.price > 0
=============================================================================
