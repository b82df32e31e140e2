--------------------------- MODULE PaperPosition ---------------------------
(***************************************************************************)
(* One paper position from its entry to its exit: the paper executor, the  *)
(* monitor of stop-loss and take-profit (paper/monitor.go), the paper side *)
(* of the multi-level manager (multilevel/manager.go), and the closing of  *)
(* a strategy's positions (consumer/strategy_events_consumer.go).          *)
(*                                                                         *)
(* Prices are positions on a logarithmic scale that points in the          *)
(* direction of the trade: a percentage is a distance, and for both sides  *)
(* a larger price is a better one.  P&L is modelled by the number of units *)
(* whose exit a row stands for.                                            *)
(***************************************************************************)
EXTENDS Integers, Sequences, FiniteSetsExt

CONSTANTS
    Quantity,     \* units of the entry order
    FillPrice,    \* price of its fill
    Prices,       \* the last traded prices the market may show
    Cases,        \* exit configurations, each with a set of what may happen
                  \* besides the entry and ticks
    EvalBuf,      \* jobs of this group that evalCh may hold
    MaxFailures,  \* failed database calls
    MaxRequests,  \* requests of each actor: user, scheduler, deactivation
    MaxRestarts

Sides == {"SL", "TP"}
Admins == {"user", "scheduler"}
Actors == Admins \union {"deactivation"}
Sources == {"WSS", "REDIS"} \union Admins
Happenings == {"redis", "user", "scheduler", "deactivation", "failure", "restart"}

ASSUME QuantityAssumption == Quantity \in Nat \ {0}
ASSUME PriceAssumption == Prices \subseteq Nat \ {0} /\ FillPrice \in Nat \ {0}
ASSUME ScenarioAssumption == \A c \in Cases : c.scenario \subseteq Happenings
ASSUME BoundAssumption == {EvalBuf, MaxFailures, MaxRequests, MaxRestarts} \subseteq Nat

\* The levels of a validated strategy have a positive share of the quantity;
\* targets are not below the fill, and the next one is not below the last
\* (validateLevels; the rounding to ticks may make them equal).
ASSUME ConfigAssumption ==
    \A c \in {x.config : x \in Cases} :
        /\ c.route \in {"direct", "late", "plain"} /\ c.slMode \in {"FIXED", "TRAILING", "MULTI_LEVEL"}
        /\ {c.stopLoss, c.takeProfit, c.storedSL, c.storedTP} \subseteq Nat
        /\ c.stopLoss <= FillPrice /\ c.ownTime \in BOOLEAN
        /\ c.levels \in [Sides -> Seq([price : Nat, pct : 1..100])]
        /\ \A i \in 1..Len(c.levels["TP"]) :
               /\ FillPrice <= c.levels["TP"][i].price
               /\ \A j \in 1..i : c.levels["TP"][j].price <= c.levels["TP"][i].price

VARIABLES
    scenario, config,
    entry,      \* steps of the entry's route that are done, plus one
    row,        \* the entry's row of orders
    partial,    \* units in the rows of partial exits
    cached,     \* the entry is in orderCache
    order,      \* the Order object of orderCache, shared by pointer
    trail,      \* trailStates[orderID]
    exiting,    \* the entry is in exiting
    group,      \* the entry's multi-level Group
    jobs,       \* its jobs in evalCh
    worker,     \* the worker that holds the group
    tick,       \* a price whose OnPriceUpdate has decided to exit, or 0
    poll,       \* checkRedisSLTP holds a snapshot of the cache
    exits,      \* per source, a goroutine in exitPosition
    admins,     \* forced exits: ForceExitAll, ForceExitByStrategy, SquareOffAll
    closing,    \* closeStrategyPositions
    writes,     \* UpdateTrailingSL goroutines
    failures, requests, restarts

monitorVars == <<cached, order, trail, exiting>>
groupVars == <<group, jobs, worker>>
feedVars == <<tick, poll>>
dbVars == <<row, partial, failures>>
vars == <<scenario, config, entry, dbVars, monitorVars, groupVars, feedVars,
          exits, admins, closing, writes, requests, restarts>>

Route == [direct |-> <<"register", "fill", "add", "onfill">>,
          late |-> <<"fill", "add", "register", "onfill">>,
          plain |-> <<"fill", "add">>]

NoTrail == [on |-> FALSE, best |-> 0, sl |-> 0, dist |-> 0]
NoGroup == [state |-> "NONE", filled |-> FALSE, remaining |-> 0, levels |-> [s \in Sides |-> <<>>]]
Idle == [pc |-> "idle", side |-> "SL", level |-> 0, qty |-> 0, remaining |-> 0]
NoExit == [pc |-> "idle", own |-> FALSE, qty |-> 0]
NoAdmin == [pc |-> "idle", own |-> FALSE, qty |-> 0, remaining |-> 0]
NoClosing == [pc |-> "idle", qty |-> 0, remaining |-> 0]

Units == 0..Quantity
EntryDone == entry > Len(Route[config.route])

\* The types of the variables; no copy of the open quantity leaves the range
\* from nothing to the whole position.
TypeOK ==
    /\ \E c \in Cases : scenario = c.scenario /\ config = c.config
    /\ entry \in 1..5
    /\ row \in [status : {"RECEIVED", "FILLED", "CANCELLED"}, priced : BOOLEAN, closed : BOOLEAN,
                filled : Units, booked : Units, stopLoss : Nat]
    /\ partial \in Nat /\ failures \in Nat /\ restarts \in Nat /\ requests \in [Actors -> Nat]
    /\ cached \in BOOLEAN /\ exiting \in BOOLEAN /\ poll \in BOOLEAN
    /\ order \in [qty : Units, stopLoss : Nat, takeProfit : Nat]
    /\ trail \in [on : BOOLEAN, best : Nat, sl : Nat, dist : Nat]
    /\ group \in [state : {"NONE", "ACTIVE", "COMPLETED", "CANCELLED"}, filled : BOOLEAN, remaining : Units,
                  levels : [Sides -> Seq([qty : Units, active : BOOLEAN])]]
    /\ jobs \subseteq Prices /\ tick \in Prices \union {0} /\ writes \subseteq Nat
    /\ worker \in [pc : {"idle", "decrement", "partial", "row", "cache", "finish"},
                   side : Sides, level : Nat, qty : Units, remaining : Units]
    /\ exits \in [Sources -> [pc : {"idle", "cancel", "write", "clean", "abandon"}, own : BOOLEAN, qty : Units]]
    /\ admins \in [Admins -> [pc : {"idle", "sweep", "claim", "cancel", "partial", "zero"},
                              own : BOOLEAN, qty : Units, remaining : Units]]
    /\ closing \in [pc : {"idle", "fetch", "groups", "partial", "zero", "price", "cancel"},
                    qty : Units, remaining : Units]

Init ==
    /\ \E c \in Cases : scenario = c.scenario /\ config = c.config
    /\ entry = 1
    /\ row = [status |-> "RECEIVED", priced |-> FALSE, closed |-> FALSE,
              filled |-> 0, booked |-> 0, stopLoss |-> config.storedSL]
    /\ partial = 0 /\ failures = 0 /\ restarts = 0 /\ requests = [a \in Actors |-> 0]
    /\ cached = FALSE /\ exiting = FALSE
    /\ order = [qty |-> 0, stopLoss |-> 0, takeProfit |-> 0]
    /\ trail = NoTrail /\ group = NoGroup /\ worker = Idle
    /\ jobs = {} /\ writes = {} /\ tick = 0 /\ poll = FALSE
    /\ exits = [s \in Sources |-> NoExit] /\ admins = [a \in Admins |-> NoAdmin]
    /\ closing = NoClosing

\* A database call that fails although it is retried.
Fail == "failure" \in scenario /\ failures < MaxFailures /\ failures' = failures + 1

\* A database call that writes r to the entry's row, or fails.
Write(r) == \/ row' = r /\ UNCHANGED failures
            \/ Fail /\ UNCHANGED row

-----------------------------------------------------------------------------
(***************************************************************************)
(* Quantities of the levels                                                *)
(***************************************************************************)

\* Units of the first i levels, clamped to the filled quantity.
Assigned(levels, filledQty) ==
    LET assigned[i \in 0..Len(levels)] ==
            IF i = 0 THEN 0
            ELSE IF i = Len(levels) THEN filledQty
            ELSE Min({filledQty, assigned[i - 1] + (filledQty * levels[i].pct) \div 100})
    IN  assigned

computeInitialExitQtys(levels, filledQty) ==
    [i \in 1..Len(levels) |-> Assigned(levels, filledQty)[i] - Assigned(levels, filledQty)[i - 1]]

\* Faulty variant: the shares are rounded and not corrected.
roundedQtys(active, pct, remainingQty) ==
    LET total == SumFunctionOnSet(pct, active)
    IN  [i \in active |-> (2 * remainingQty * pct[i] + total) \div (2 * total)]

\* The share of each active level, rounded half up; what rounding adds or
\* loses is taken from or given to the levels with the fraction nearest to
\* one half, the lower level first.
computeRebalancedQtys(active, pct, remainingQty) ==
    LET total == SumFunctionOnSet(pct, active)
        frac == [i \in active |-> (remainingQty * pct[i]) % total]
        up == {i \in active : 2 * frac[i] >= total}
        rounded == [i \in active |-> (remainingQty * pct[i]) \div total + (IF i \in up THEN 1 ELSE 0)]
        diff == remainingQty - SumFunctionOnSet(rounded, active)
        nearer(i) == {j \in active \ up : frac[j] > frac[i] \/ (frac[j] = frac[i] /\ j < i)}
        farther(i) == {j \in up : frac[j] < frac[i] \/ (frac[j] = frac[i] /\ j < i)}
    IN  [i \in active |->
            IF i \notin up /\ Cardinality(nearer(i)) < diff THEN rounded[i] + 1
            ELSE IF i \in up /\ Cardinality(farther(i)) < -diff THEN rounded[i] - 1
            ELSE rounded[i]]

ActiveLevels(side) == {i \in DOMAIN group.levels[side] : group.levels[side][i].active}

rebalanceAndModifyLevels(side, remainingQty) ==
    LET active == ActiveLevels(side)
        pct == [i \in DOMAIN config.levels[side] |-> config.levels[side][i].pct]
        qtys == computeRebalancedQtys(active, pct, remainingQty)
    IN  [group EXCEPT !.levels[side] =
            [i \in DOMAIN @ |-> IF i \in active THEN [@[i] EXCEPT !.qty = qtys[i]] ELSE @[i]]]

-----------------------------------------------------------------------------
(***************************************************************************)
(* The entry: a signal, or an order that the price monitor triggers        *)
(* ("late"), whose group is registered after its fill.                     *)
(***************************************************************************)

Step(name) ==
    /\ ~EntryDone
    /\ Route[config.route][entry] = name
    /\ entry' = entry + 1
    /\ UNCHANGED <<scenario, config, feedVars, exits, admins, closing, writes, requests, restarts>>

RegisterEntry ==
    /\ Step("register")
    /\ group' = [NoGroup EXCEPT !.state = "ACTIVE"]
    /\ UNCHANGED <<dbVars, monitorVars, jobs, worker>>

\* The stop and the target are rescaled to the fill in memory; Update does
\* not write them.
ExecutePaperOrder ==
    /\ Step("fill")
    /\ order' = [qty |-> Quantity, stopLoss |-> config.stopLoss, takeProfit |-> config.takeProfit]
    /\ Write([row EXCEPT !.status = "FILLED", !.filled = Quantity, !.priced = TRUE])
    /\ UNCHANGED <<partial, cached, trail, exiting, groupVars>>

\* The trailing state for a stop at sl, with the fill as the best price.
TrailFrom(sl) ==
    IF config.slMode = "TRAILING" /\ sl > 0 /\ sl < FillPrice
    THEN [on |-> TRUE, best |-> FillPrice, sl |-> sl, dist |-> FillPrice - sl]
    ELSE NoTrail

AddOrder ==
    /\ Step("add")
    /\ cached' = TRUE
    /\ trail' = TrailFrom(order.stopLoss)
    /\ UNCHANGED <<dbVars, order, exiting, groupVars>>

\* A group that was cancelled since it was registered is not in
\* groupsByEntry any more.
OnEntryFill ==
    /\ Step("onfill")
    /\ group' =
         IF group.state # "ACTIVE" THEN group
         ELSE [group EXCEPT !.filled = TRUE, !.remaining = order.qty,
                            !.levels = [s \in Sides |->
                                LET qtys == computeInitialExitQtys(config.levels[s], order.qty)
                                IN  [i \in DOMAIN qtys |-> [qty |-> qtys[i], active |-> TRUE]]]]
    /\ UNCHANGED <<dbVars, monitorVars, jobs, worker>>

-----------------------------------------------------------------------------
(***************************************************************************)
(* Prices: a tick of the WebSocket goes to the monitor and then to the     *)
(* multi-level manager; the poll of Redis steps in when ticks are missing. *)
(***************************************************************************)

effectiveSL == IF trail.on THEN trail.sl ELSE order.stopLoss
Hit(sl, p) == (sl > 0 /\ p <= sl) \/ (order.takeProfit > 0 /\ p >= order.takeProfit)
Watched == ~exiting /\ order.qty # 0

\* Faulty variant: the stop follows every price.
followTrailingSL(p) ==
    IF trail.on THEN [trail EXCEPT !.best = p, !.sl = Max({0, p - trail.dist})] ELSE trail

advanceTrailingSL(p) ==
    IF trail.on /\ p > trail.best
    THEN [trail EXCEPT !.best = p, !.sl = Max({trail.sl, p - trail.dist})]
    ELSE trail

\* evalCh is shared by all groups: a job is dropped when it is full.
Enqueue(p) ==
    \/ jobs' = jobs
    \/ /\ group.state = "ACTIVE" /\ group.filled
       /\ p \notin jobs /\ Cardinality(jobs) < EvalBuf
       /\ jobs' = jobs \union {p}

OnPriceUpdate(p) ==
    /\ tick = 0
    /\ IF cached /\ Watched
       THEN LET t == advanceTrailingSL(p)
                moved == t.sl # trail.sl
            IN  /\ trail' = t
                /\ order' = IF moved THEN [order EXCEPT !.stopLoss = t.sl] ELSE order
                /\ writes' = IF moved THEN writes \union {t.sl} ELSE writes
                /\ IF Hit(IF t.on THEN t.sl ELSE order.stopLoss, p)
                   THEN tick' = p /\ UNCHANGED jobs
                   ELSE tick' = 0 /\ Enqueue(p)
       ELSE Enqueue(p) /\ UNCHANGED <<trail, order, writes, tick>>
    /\ UNCHANGED <<scenario, config, entry, dbVars, cached, exiting, group, worker, poll,
                   exits, admins, closing, requests, restarts>>

StartExit(s, own, qty) == exits' = [exits EXCEPT ![s] = [pc |-> "cancel", own |-> own, qty |-> qty]]

\* The decision and the store into exiting are not one step.
MonitorExit ==
    /\ tick # 0 /\ exits["WSS"].pc = "idle"
    /\ exiting' = TRUE
    /\ StartExit("WSS", FALSE, 0)
    /\ Enqueue(tick)
    /\ tick' = 0
    /\ UNCHANGED <<scenario, config, entry, dbVars, cached, order, trail, group, worker, poll,
                   admins, closing, writes, requests, restarts>>

RedisSnapshot ==
    /\ "redis" \in scenario /\ ~poll /\ cached
    /\ poll' = TRUE
    /\ UNCHANGED <<scenario, config, entry, dbVars, monitorVars, groupVars, tick, exits, admins,
                   closing, writes, requests, restarts>>

checkRedisSLTP(p) ==
    /\ poll /\ exits["REDIS"].pc = "idle"
    /\ poll' = FALSE
    /\ IF Watched /\ Hit(effectiveSL, p)
       THEN exiting' = TRUE /\ StartExit("REDIS", FALSE, 0)
       ELSE UNCHANGED <<exiting, exits>>
    /\ UNCHANGED <<scenario, config, entry, dbVars, cached, order, trail, groupVars, tick, admins,
                   closing, writes, requests, restarts>>

\* The goroutines of advanceTrailingSL write in any order.
UpdateTrailingSL(sl) ==
    /\ sl \in writes
    /\ writes' = writes \ {sl}
    /\ Write([row EXCEPT !.stopLoss = sl])
    /\ UNCHANGED <<scenario, config, entry, partial, monitorVars, groupVars, feedVars, exits, admins,
                   closing, requests, restarts>>

-----------------------------------------------------------------------------
(***************************************************************************)
(* A worker of the multi-level manager.  The evaluating flag keeps a       *)
(* second one away from the group.                                         *)
(***************************************************************************)

workerFrame == <<scenario, config, entry, feedVars, exits, admins, closing, writes, requests, restarts>>

\* The levels of a side that the price has reached.
Breached(side, p) ==
    IF side = "SL"
    THEN {i \in ActiveLevels("SL") : config.slMode = "MULTI_LEVEL" /\ p <= config.levels["SL"][i].price}
    ELSE {i \in ActiveLevels("TP") : p >= config.levels["TP"][i].price}

\* The first level reached, stop-losses before targets, one per job.
evaluateLevels(p) ==
    LET side == IF Breached("SL", p) # {} THEN "SL" ELSE "TP"
        level == Min(Breached(side, p))
    IN  IF Breached(side, p) = {}
        THEN UNCHANGED <<group, worker>>
        ELSE /\ group' = [group EXCEPT !.levels[side][level].active = FALSE]
             /\ worker' = [pc |-> "decrement", side |-> side, level |-> level,
                           qty |-> group.levels[side][level].qty, remaining |-> 0]

\* A job is dropped when another worker has the group or it has ended.
runEvalJob(p) ==
    /\ p \in jobs
    /\ jobs' = jobs \ {p}
    /\ IF worker.pc = "idle" /\ group.state = "ACTIVE"
       THEN evaluateLevels(p) ELSE UNCHANGED <<group, worker>>
    /\ UNCHANGED <<workerFrame, dbVars, monitorVars>>

Remaining == group.remaining - worker.qty

\* Faulty variant: the row has the new quantity before the partial exit is
\* recorded.
recordPaperExitAndRow ==
    /\ worker.pc = "decrement"
    /\ group' = [group EXCEPT !.remaining = Remaining,
                              !.state = IF Remaining <= 0 THEN "COMPLETED" ELSE @]
    /\ worker' = [worker EXCEPT !.pc = "partial", !.remaining = Remaining]
    /\ row' = [row EXCEPT !.filled = Remaining]
    /\ UNCHANGED <<workerFrame, partial, failures, monitorVars, jobs>>

\* The state is not looked at again: a group cancelled meanwhile exits too.
recordPaperExit ==
    /\ worker.pc = "decrement"
    /\ group' = [group EXCEPT !.remaining = Remaining,
                              !.state = IF Remaining <= 0 THEN "COMPLETED" ELSE @]
    /\ worker' = [worker EXCEPT !.pc = "partial", !.remaining = Remaining]
    /\ UNCHANGED <<workerFrame, dbVars, monitorVars, jobs>>

\* CreatePaperPartialExit, unless there is nothing to exit.
recordPaperPartialExit(qty) ==
    \/ qty > 0 /\ partial' = partial + qty /\ UNCHANGED failures
    \/ qty > 0 /\ Fail /\ UNCHANGED partial
    \/ qty <= 0 /\ UNCHANGED <<partial, failures>>

WorkerPartialExit ==
    /\ worker.pc = "partial"
    /\ recordPaperPartialExit(worker.qty)
    /\ worker' = [worker EXCEPT !.pc = "row"]
    /\ UNCHANGED <<workerFrame, row, monitorVars, group, jobs>>

WorkerUpdateFilledQty ==
    /\ worker.pc = "row"
    /\ Write([row EXCEPT !.filled = worker.remaining])
    /\ worker' = [worker EXCEPT !.pc = "cache"]
    /\ UNCHANGED <<workerFrame, partial, monitorVars, group, jobs>>

\* UpdateCachedOrderQty, and the rebalancing of the other side.
WorkerUpdateCache ==
    /\ worker.pc = "cache"
    /\ order' = IF cached THEN [order EXCEPT !.qty = worker.remaining] ELSE order
    /\ group' = IF worker.remaining > 0
                THEN rebalanceAndModifyLevels(CHOOSE s \in Sides : s # worker.side, worker.remaining)
                ELSE group
    /\ worker' = [worker EXCEPT !.pc = "finish"]
    /\ UNCHANGED <<workerFrame, dbVars, cached, trail, exiting, jobs>>

computeNewSLAfterTP(level) == IF level = 1 THEN FillPrice ELSE config.levels["TP"][level - 1].price

\* RemoveOrder: nothing happens to an order that is not in the cache.
RemoveOrder ==
    /\ cached' = FALSE
    /\ trail' = IF cached THEN NoTrail ELSE trail
    /\ exiting' = (exiting /\ ~cached)

\* OnPaperSLMoved, then finishGroupPaper.
WorkerFinish ==
    /\ worker.pc = "finish"
    /\ order' = IF cached /\ worker.side = "TP"
                THEN [order EXCEPT !.stopLoss = computeNewSLAfterTP(worker.level)] ELSE order
    /\ IF worker.remaining <= 0 THEN RemoveOrder ELSE UNCHANGED <<cached, trail, exiting>>
    /\ worker' = Idle
    /\ UNCHANGED <<workerFrame, dbVars, group, jobs>>

WorkerStep ==
    \/ recordPaperExit \/ WorkerPartialExit
    \/ WorkerUpdateFilledQty \/ WorkerUpdateCache \/ WorkerFinish

-----------------------------------------------------------------------------
(***************************************************************************)
(* exitPosition, and ExitPaperPosition within it                           *)
(***************************************************************************)

exitFrame == <<scenario, config, entry, partial, jobs, worker, feedVars, admins, closing, writes, requests, restarts>>

At(s, from, to) == exits[s].pc = from /\ exits' = [exits EXCEPT ![s].pc = to]

\* CancelGroup; the P&L is then computed from the order's quantity at this
\* moment.
ExitBegin(s) ==
    /\ exits[s].pc = "cancel"
    /\ group' = IF group.state = "ACTIVE" THEN [group EXCEPT !.state = "CANCELLED"] ELSE group
    /\ exits' = [exits EXCEPT ![s].pc = "write", ![s].qty = IF exits[s].own THEN @ ELSE order.qty]
    /\ UNCHANGED <<exitFrame, row, failures, monitorVars>>

Closed(qty) == [row EXCEPT !.closed = TRUE, !.booked = qty]

\* Faulty variant: an exit price is overwritten.
ExitOverwrites(s) ==
    /\ \/ At(s, "write", "clean") /\ row' = [Closed(exits[s].qty) EXCEPT !.status = "CANCELLED"] /\ UNCHANGED failures
       \/ At(s, "write", "abandon") /\ Fail /\ UNCHANGED row
    /\ UNCHANGED <<exitFrame, group, monitorVars>>

\* UpdatePaperTradeExit, guarded by paper_exit_price IS NULL.
ExitWrite(s) ==
    /\ \/ /\ At(s, "write", "clean")
          /\ row' = IF row.closed THEN row ELSE [Closed(exits[s].qty) EXCEPT !.status = "CANCELLED"]
          /\ UNCHANGED failures
       \/ At(s, "write", "abandon") /\ Fail /\ UNCHANGED row
    /\ UNCHANGED <<exitFrame, group, monitorVars>>

ExitClean(s) ==
    /\ exits[s].pc \in {"clean", "abandon"}
    /\ cached' = FALSE
    /\ trail' = IF exits[s].pc = "clean" THEN NoTrail ELSE trail
    /\ exiting' = FALSE
    /\ exits' = [exits EXCEPT ![s] = NoExit]
    /\ UNCHANGED <<exitFrame, group, row, failures, order>>

exitPosition(s) == ExitBegin(s) \/ ExitWrite(s) \/ ExitClean(s)

-----------------------------------------------------------------------------
(***************************************************************************)
(* Forced exits: ForceExitAll and ForceExitByStrategy read the rows,       *)
(* SquareOffAll the cache and then the rows.                               *)
(***************************************************************************)

adminFrame == <<scenario, config, entry, cached, order, trail, jobs, worker, feedVars, closing, writes, restarts>>
Request(actor) ==
    /\ actor \in scenario /\ requests[actor] < MaxRequests
    /\ requests' = [requests EXCEPT ![actor] = @ + 1]

Free(a) == Request(a) /\ admins[a].pc = "idle" /\ exits[a].pc = "idle"
Goto(a, pc) == admins' = [admins EXCEPT ![a].pc = pc]
Claiming(own, qty) == [pc |-> "claim", own |-> own, qty |-> qty, remaining |-> 0]

\* GetAllActivePaperOrders and GetFilledPaperOrdersByUser
OpenRow == row.status = "FILLED" /\ row.priced /\ row.filled > 0 /\ ~row.closed

\* GetExitablePaperOrdersByStrategy: cancelled rows and empty ones too
ExitableRow == row.priced /\ ~row.closed

ForceExit ==
    /\ Free("user")
    /\ OpenRow \/ ExitableRow
    /\ admins' = [admins EXCEPT !["user"] = Claiming(TRUE, row.filled)]
    /\ UNCHANGED <<adminFrame, dbVars, exiting, group, exits>>

\* Pass 1; an order with a later time of its own is left to its user's run.
SquareOffAll ==
    /\ Free("scheduler")
    /\ admins' = [admins EXCEPT !["scheduler"] =
           IF cached /\ ~config.ownTime THEN Claiming(FALSE, 0) ELSE [NoAdmin EXCEPT !.pc = "sweep"]]
    /\ UNCHANGED <<adminFrame, dbVars, exiting, group, exits>>

\* Faulty variant: no second pass.
NoSweep ==
    /\ admins["scheduler"].pc = "sweep"
    /\ Goto("scheduler", "idle")
    /\ UNCHANGED <<adminFrame, requests, dbVars, exiting, group, exits>>

\* Pass 2: rows that are not in the cache.
SquareOffSweep ==
    /\ admins["scheduler"].pc = "sweep"
    /\ \/ /\ admins' = [admins EXCEPT !["scheduler"] =
                 IF OpenRow /\ ~config.ownTime THEN Claiming(TRUE, row.filled) ELSE NoAdmin]
          /\ UNCHANGED failures
       \/ Fail /\ Goto("scheduler", "idle")
    /\ UNCHANGED <<adminFrame, requests, row, partial, exiting, group, exits>>

\* LoadOrStore
ClaimExit(a) ==
    /\ admins[a].pc = "claim"
    /\ exiting' = TRUE
    /\ IF exiting THEN Goto(a, "idle") ELSE Goto(a, "cancel")
    /\ UNCHANGED <<adminFrame, requests, dbVars, group, exits>>

Release(a) == admins' = [admins EXCEPT ![a] = NoAdmin] /\ StartExit(a, admins[a].own, admins[a].qty)

\* The state of the group and its remaining quantity, under its mutex.
CancelGroupForExit(a) ==
    /\ admins[a].pc = "cancel"
    /\ IF group.state = "ACTIVE"
       THEN /\ group' = [group EXCEPT !.state = "CANCELLED"]
            /\ IF group.remaining > 0
               THEN /\ admins' = [admins EXCEPT ![a].pc = "partial", ![a].remaining = group.remaining]
                    /\ UNCHANGED exits
               ELSE Release(a)
       ELSE Release(a) /\ UNCHANGED group
    /\ UNCHANGED <<adminFrame, requests, dbVars, exiting>>

AdminPartialExit(a) ==
    /\ admins[a].pc = "partial"
    /\ recordPaperPartialExit(admins[a].remaining)
    /\ Goto(a, "zero")
    /\ UNCHANGED <<adminFrame, requests, row, exiting, group, exits>>

AdminUpdateFilledQty(a) ==
    /\ admins[a].pc = "zero"
    /\ Write([row EXCEPT !.filled = 0])
    /\ Release(a)
    /\ UNCHANGED <<adminFrame, requests, partial, exiting, group>>

AdminStep(a) ==
    \/ a = "scheduler" /\ SquareOffSweep
    \/ ClaimExit(a) \/ CancelGroupForExit(a) \/ AdminPartialExit(a) \/ AdminUpdateFilledQty(a)

-----------------------------------------------------------------------------
(***************************************************************************)
(* closeStrategyPositions, when the strategy is paused or deleted          *)
(***************************************************************************)

closingFrame == <<scenario, config, entry, order, jobs, worker, feedVars, exits, admins, writes, restarts>>
monitorRest == <<cached, trail, exiting>>

\* RemoveOrdersByStrategy
StartClosing ==
    /\ Request("deactivation") /\ closing.pc = "idle"
    /\ closing' = [NoClosing EXCEPT !.pc = "fetch"]
    /\ RemoveOrder
    /\ UNCHANGED <<closingFrame, dbVars, group>>

\* GetActiveOrdersByStrategy; orders without a fill are not exited below.
ClosingFetch ==
    /\ closing.pc = "fetch"
    /\ \/ /\ closing' = [closing EXCEPT !.pc = "groups",
                                        !.qty = IF row.status # "CANCELLED" /\ row.priced THEN row.filled ELSE 0]
          /\ UNCHANGED failures
       \/ Fail /\ closing' = NoClosing
    /\ UNCHANGED <<closingFrame, requests, row, partial, monitorRest, group>>

\* Without a price no partial exit is recorded.
CancelGroupsByStrategy ==
    /\ closing.pc = "groups"
    /\ \E ltp \in BOOLEAN :
           closing' = [closing EXCEPT
               !.pc = IF group.state = "ACTIVE" /\ group.remaining > 0 /\ ltp THEN "partial" ELSE "price",
               !.remaining = group.remaining]
    /\ group' = IF group.state = "ACTIVE" THEN [group EXCEPT !.state = "CANCELLED"] ELSE group
    /\ UNCHANGED <<closingFrame, requests, dbVars, monitorRest>>

ClosingPartialExit ==
    /\ closing.pc = "partial"
    /\ recordPaperPartialExit(closing.remaining)
    /\ closing' = [closing EXCEPT !.pc = "zero"]
    /\ UNCHANGED <<closingFrame, requests, row, monitorRest, group>>

ClosingUpdateFilledQty ==
    /\ closing.pc = "zero"
    /\ Write([row EXCEPT !.filled = 0])
    /\ closing' = [closing EXCEPT !.pc = "price"]
    /\ UNCHANGED <<closingFrame, requests, partial, monitorRest, group>>

\* UpdatePaperExitPrice with the quantity that was read at the start, if
\* there is a price.
UpdatePaperExitPrice ==
    /\ closing.pc = "price"
    /\ \/ closing.qty # 0 /\ Write(IF row.closed THEN row ELSE Closed(closing.qty))
       \/ UNCHANGED <<row, failures>>
    /\ closing' = [closing EXCEPT !.pc = "cancel"]
    /\ UNCHANGED <<closingFrame, requests, partial, monitorRest, group>>

\* A position without an exit price is closed at its entry price.
CancelAllOrdersByStrategy ==
    /\ closing.pc = "cancel"
    /\ Write(IF row.status = "CANCELLED" THEN row
             ELSE [(IF row.priced /\ ~row.closed THEN Closed(row.filled) ELSE row)
                      EXCEPT !.status = "CANCELLED"])
    /\ closing' = NoClosing
    /\ UNCHANGED <<closingFrame, requests, partial, monitorRest, group>>

closeStrategyPositions ==
    \/ ClosingFetch \/ CancelGroupsByStrategy \/ ClosingPartialExit
    \/ ClosingUpdateFilledQty \/ UpdatePaperExitPrice \/ CancelAllOrdersByStrategy

-----------------------------------------------------------------------------
\* A restart: Initialize reads the open rows; Reload skips the groups of
\* paper positions; the signal of an unfinished entry is a duplicate.
Restart ==
    /\ "restart" \in scenario /\ restarts < MaxRestarts
    /\ restarts' = restarts + 1
    /\ entry' = 5
    /\ cached' = OpenRow
    /\ order' = [qty |-> row.filled, stopLoss |-> row.stopLoss, takeProfit |-> config.storedTP]
    /\ trail' = IF OpenRow THEN TrailFrom(row.stopLoss) ELSE NoTrail
    /\ exiting' = FALSE
    /\ group' = NoGroup /\ jobs' = {} /\ worker' = Idle
    /\ tick' = 0 /\ poll' = FALSE /\ writes' = {}
    /\ exits' = [s \in Sources |-> NoExit] /\ admins' = [a \in Admins |-> NoAdmin]
    /\ closing' = NoClosing
    /\ UNCHANGED <<scenario, config, dbVars, requests>>

Entry == RegisterEntry \/ ExecutePaperOrder \/ AddOrder \/ OnEntryFill

Next ==
    \/ Entry
    \/ \E p \in Prices : OnPriceUpdate(p) \/ checkRedisSLTP(p) \/ runEvalJob(p)
    \/ MonitorExit \/ RedisSnapshot
    \/ \E sl \in writes : UpdateTrailingSL(sl)
    \/ WorkerStep
    \/ \E s \in Sources : exitPosition(s)
    \/ ForceExit \/ SquareOffAll
    \/ \E a \in Admins : AdminStep(a)
    \/ StartClosing \/ closeStrategyPositions
    \/ Restart

\* A goroutine that has begun runs on.
Fairness ==
    /\ WF_vars(Entry) /\ WF_vars(MonitorExit) /\ WF_vars(WorkerStep)
    /\ \A s \in Sources : WF_vars(exitPosition(s))
    /\ \A a \in Admins : WF_vars(AdminStep(a))
    /\ WF_vars(closeStrategyPositions)

Spec == Init /\ [][Next]_vars /\ Fairness

-----------------------------------------------------------------------------
(***************************************************************************)
(* Properties                                                              *)
(***************************************************************************)

\* The units of the active levels of a side.
LevelUnits(side) ==
    SumFunctionOnSet([i \in DOMAIN group.levels[side] |-> group.levels[side][i].qty], ActiveLevels(side))

\* While a group is active and no worker holds it, the active levels of each
\* side sum up to the remaining quantity (rebalanceAndModifyLevels leaves no
\* unit without a stop and none with two), and the manager, the row and the
\* monitor's order, which recordPaperExit updates one after the other, agree
\* on it.
QuantitiesAgree ==
    (group.state = "ACTIVE" /\ group.filled /\ worker.pc = "idle") =>
        /\ \A s \in Sides :
              config.levels[s] # <<>> =>
                  LevelUnits(s) = group.remaining
        /\ failures = 0 => /\ row.filled = group.remaining
                           /\ cached => order.qty = group.remaining

Quiet ==
    /\ EntryDone /\ tick = 0 /\ ~poll /\ worker.pc = "idle" /\ closing.pc = "idle"
    /\ \A s \in Sources : exits[s].pc = "idle"
    /\ \A a \in Admins : admins[a].pc = "idle"

Booked == partial + (IF row.closed THEN row.booked ELSE 0)

\* A restart in the middle of a forced exit or a closing, which cannot see
\* the units that a worker has taken off and not yet recorded.
MayLoseUnits == restarts > 0 /\ scenario \intersect {"user", "scheduler", "deactivation"} # {}

\* When the monitor has dropped a filled position and nothing is in progress,
\* every unit of it stands in some exit row, whatever exits, targets, forced
\* exits and closing of the strategy met, and over a restart among exits that
\* prices trigger: no unit disappears from the books.
EveryUnitBooked ==
    (Quiet /\ row.priced /\ ~cached /\ failures = 0 /\ ~MayLoseUnits) => Booked >= Quantity

\* No unit of the position is booked by two exits: exitPosition cancels the
\* group so that it "cannot place further partial exits on a position that
\* is already being closed", and exiting is there "to avoid duplicates".
BookedOnce == Booked <= Quantity

\* The first exit of the entry's row wins: what it booked is never changed
\* by a later exit of another source (UpdatePaperTradeExit and the closing).
FirstExitWins ==
    [][row.closed => row'.closed /\ row'.booked = row.booked]_vars

\* Within a process the stop of a tracked position never moves away from
\* the market, by trailing or after a target (UpdateCachedOrderSL).
StopNeverLoosens ==
    [][(cached /\ cached' /\ restarts' = restarts) => effectiveSL' >= effectiveSL]_vars

\* A square-off closes the position: it ends with an exit price or without
\* units, unless the database failed, the process was restarted, or the
\* order has a later time of its own.
SquareOffCloses ==
    (admins["scheduler"].pc # "idle" /\ ~config.ownTime) ~>
        (row.closed \/ row.filled = 0 \/ failures > 0 \/ restarts > 0)

=============================================================================
