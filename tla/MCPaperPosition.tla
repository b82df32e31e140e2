-------------------------- MODULE MCPaperPosition --------------------------
(* Small instances of PaperPosition. *)
EXTENDS PaperPosition

Level(price, pct) == [price |-> price, pct |-> pct]

Config(route, slMode, sl, tp, slLevels, tpLevels) ==
    [route |-> route, slMode |-> slMode, stopLoss |-> sl, takeProfit |-> tp,
     storedSL |-> sl, storedTP |-> tp, ownTime |-> FALSE,
     levels |-> [s \in Sides |-> IF s = "SL" THEN slLevels ELSE tpLevels]]

\* routeToPaperSLTP: one level of each side, and the order's own stop and target
Single == Config("direct", "FIXED", 2, 8, <<Level(2, 100)>>, <<Level(8, 100)>>)

\* levels on both sides, and nothing for the monitor until a target fires
Levels == Config("direct", "MULTI_LEVEL", 0, 0, <<Level(4, 50), Level(2, 50)>>,
                 <<Level(6, 35), Level(8, 65)>>)

Trailing == Config("direct", "TRAILING", 3, 0, <<>>, <<Level(6, 50), Level(8, 50)>>)

\* an entry of the price monitor, whose stored stop was not rescaled
Late == [Config("late", "FIXED", 2, 0, <<>>, <<Level(6, 40), Level(7, 30), Level(8, 30)>>)
        EXCEPT !.storedSL = 3]

Plain == [Config("plain", "TRAILING", 2, 8, <<>>, <<>>) EXCEPT !.ownTime = TRUE]

With(cfg, scenarios) == {[config |-> cfg, scenario |-> s] : s \in scenarios}

MCCases == UNION {
    With(Single, {{"user", "deactivation"}, {"scheduler", "redis"}, {"failure", "deactivation"}, {"failure", "scheduler"}}),
    With(Levels, {{"restart"}, {"scheduler"}}),
    With(Trailing, {{"restart"}}),
    With(Late, {{"deactivation"}, {"restart", "user"}}),
    With(Plain, {{"redis", "restart"}, {"user", "scheduler"}}) }

MCPrices == {2, 4, 6, 8}
=============================================================================
