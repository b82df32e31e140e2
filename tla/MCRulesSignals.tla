--------------------------- MODULE MCRulesSignals ---------------------------
(***************************************************************************)
(* Two strategies: one with a range of price change, a daily limit of one  *)
(* trade and fixed exits, one that matches everything within a budget and  *)
(* exits at several levels.  The news has a message that cannot be parsed, *)
(* an event, and one of another stock, without a price.  Process and       *)
(* database run in UTC, as in the repository's containers; things happen   *)
(* at 9:30 and 11:30 of one day and 11:30 of the next.                     *)
(***************************************************************************)
EXTENDS RulesSignals

CONSTANTS ranged, anything

StrategyOrderValue == <<ranged, anything>>

ConfigValue ==
    LET base == [impactMin |-> 5, impactMax |-> 0, matchAll |-> FALSE, sentiments |-> {"positive"},
                 categories |-> {}, caps |-> {}, exchanges |-> {}, minPrice |-> 0, maxPrice |-> 0,
                 minPct |-> 2, maxPct |-> 6, budget |-> 100000, quantity |-> 0, slType |-> "FIXED", slPct |-> 1,
                 tpType |-> "FIXED", tpPct |-> 1, orderType |-> "BRACKET", limit |-> 1, window |-> TRUE]
    IN [s \in Strategies |->
          IF s = ranged THEN base
          ELSE [base EXCEPT !.matchAll = TRUE, !.minPct = 0, !.budget = 0, !.quantity = 7,
                            !.slType = "MULTI_LEVEL", !.window = FALSE]]

Item(id, stock, impact, price, pct) ==
    [id |-> id, stock |-> stock, impact |-> impact, sentiment |-> "positive", category |-> "results",
     cap |-> "large", exchange |-> "NSE", price |-> price, pct |-> pct, prevClose |-> 0]

NewsValue == <<Garbled, Item(1, "x", 7, 1000, 3), Item(2, "y", 9, 0, 1)>>

MarketDataValue == {[ltp |-> 505, prevClose |-> 500, tick |-> 5, pct |-> pct] : pct \in {1, 7}}

MomentsValue == {<<0, 19>>, <<0, 23>>, <<1, 23>>}
=============================================================================
