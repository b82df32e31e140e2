---------------------------- MODULE RulesSignals ----------------------------
(***************************************************************************)
(* The rules engine from a news event to a trade signal: one consumer      *)
(* takes the events in order, the engine drops duplicates and evaluates    *)
(* the snapshot of the configuration store, and the handler checks the     *)
(* daily slots and caps in the database, builds the order, and saves and   *)
(* publishes it in parallel.  The configuration consumer changes the store *)
(* meanwhile; a restart loses the memory of duplicates, redelivers what    *)
(* was not committed and loads the strategies from user-config.            *)
(*                                                                         *)
(* The consumer is a single goroutine, so the lock per strategy is never   *)
(* contended and is left out.  RulesMatching has the conditions and the    *)
(* order; ConfigStore has how the store is kept.                           *)
(***************************************************************************)
EXTENDS RulesMatching, Sequences, FiniteSets

CONSTANTS
    StrategyOrder,      \* the strategies, in the order of AllActive
    Config,             \* per strategy: its configuration in user-config
    News,               \* the topic: events [id, stock, ...] or Garbled
    Garbled,
    MarketData,         \* what Redis may hold for a stock when it is asked
    MaxEntries,         \* DedupMaxEntries
    MaxHandlerRetries,  \* maxHandlerRetries
    ProcessLag,         \* half hours that the clock of the process is behind IST,
    SessionLag,         \* and that of the database session: 11 for UTC
    Moments,            \* when things happen: <<day, half hours since midnight IST>>
    MaxChanges, MaxRestarts,  \* bounds on the environment
    Faults              \* what may go wrong

Strategies == {StrategyOrder[i] : i \in DOMAIN StrategyOrder}
Ids == {News[i].id : i \in {j \in DOMAIN News : News[j] # Garbled}}
NoData == [ltp |-> 0, prevClose |-> 0, tick |-> 0, pct |-> 0]

ASSUME RulesAssumption ==
    /\ StrategyOrder \in Seq(Strategies)
    /\ DOMAIN Config = Strategies
    /\ \A s \in Strategies :
          /\ {"minPct", "budget", "slPct", "tpPct"} \subseteq DOMAIN Config[s]
          /\ {Config[s].minPct, Config[s].budget, Config[s].slPct, Config[s].tpPct} \subseteq Int
    /\ Len(News) \in Nat /\ \A i \in 1..Len(News) : News[i] # Garbled => News[i].prevClose \in Int
    /\ \A md \in MarketData : {md.ltp, md.tick, md.prevClose} \subseteq Int /\ md.ltp > 0 /\ md.tick > 0
    /\ MaxEntries \in Nat /\ MaxHandlerRetries \in Nat \ {0}
    /\ ProcessLag \in Nat /\ SessionLag \in Nat /\ Moments # {} /\ Moments \subseteq Nat \X (0..47)
    /\ MaxChanges \in Nat /\ MaxRestarts \in Nat
    /\ Faults \subseteq {"save", "query", "no data", "holiday", "closed", "window", "crash", "pause"}

VARIABLES
    store,      \* per strategy: active, UpdatedAt, and whether it came from the bootstrap
    changes,    \* configuration events so far: the clock that UpdatedAt and created_at read
    day, clock, \* the date and the time in India
    cons,       \* the consumer: its step, attempt, matches still to process, market data
    position,   \* the offset after the last one it has asked to commit
    flushed,    \* the offset that was committed when the process started
    seen,       \* Deduper.items, within the window
    aged,       \* Deduper.items, older than the window
    signals,    \* trade signals made, with whether their row was saved
    restarts

now == <<day, clock>>
vars == <<store, changes, now, cons, position, flushed, seen, aged, signals, restarts>>

Idle == [pc |-> "idle", attempt |-> 0, todo |-> {}, md |-> NoData, pending |-> {}]

TypeOK ==
    /\ store \in [Strategies -> [active : BOOLEAN, since : 0..MaxChanges, boot : BOOLEAN]]
    /\ changes \in 0..MaxChanges /\ now \in Moments /\ restarts \in 0..MaxRestarts
    /\ cons.pc \in {"idle", "handle", "match", "publish"}
    /\ cons.attempt \in 0..MaxHandlerRetries /\ cons.pending \subseteq {"save", "publish"}
    /\ position \in 1..Len(News) + 1 /\ flushed \in 1..position
    /\ seen \subseteq Ids /\ aged \subseteq Ids \ seen

Init ==
    /\ store = [s \in Strategies |-> [active |-> TRUE, since |-> 0, boot |-> TRUE]]
    /\ changes = 0 /\ \E m \in Moments : day = m[1] /\ clock = m[2]
    /\ cons = Idle /\ position = 1 /\ flushed = 1
    /\ seen = {} /\ aged = {}
    /\ signals = {} /\ restarts = 0

-----------------------------------------------------------------------------
(***************************************************************************)
(* The configuration, as the store holds it                                *)
(***************************************************************************)

\* ToModelStrategy drops the price range.
ToModelStrategy(c) == [c EXCEPT !.minPrice = 0, !.maxPrice = 0]

\* protoToModel also drops the caps, the budget, the trade window and the exit
\* levels, and takes order and exit types it does not know for the default.
protoToModel(c) ==
    [ToModelStrategy(c) EXCEPT !.limit = 0, !.budget = 0, !.window = FALSE, !.tpType = "FIXED",
        !.slType = IF @ = "MULTI_LEVEL" THEN "FIXED" ELSE @,
        !.orderType = IF @ = "BRACKET" THEN "MARKET" ELSE @]

Held(boot, s) == IF boot THEN protoToModel(Config[s]) ELSE ToModelStrategy(Config[s])

\* A created, updated or resumed strategy gets a new UpdatedAt.
ConfigEvent(s) ==
    /\ changes < MaxChanges
    /\ changes' = changes + 1
    /\ store' = [store EXCEPT ![s] = [active |-> TRUE, since |-> changes + 1, boot |-> FALSE]]
    /\ UNCHANGED <<now, cons, position, flushed, seen, aged, signals, restarts>>

PauseEvent(s) ==
    /\ "pause" \in Faults /\ store[s].active /\ changes < MaxChanges
    /\ changes' = changes + 1
    /\ store' = [store EXCEPT ![s].active = FALSE]
    /\ UNCHANGED <<now, cons, position, flushed, seen, aged, signals, restarts>>

\* Time passes: the window of the duplicates, the hours, and midnight.  The handler looks
\* at the first only before it evaluates.  It runs at no midnight, and of the hour it uses
\* only when each strategy's order is made, once per event: the hour may as well have come
\* before the event.
WindowPasses ==
    /\ seen # {} /\ cons.pc \in {"idle", "handle"}
    /\ aged' = aged \union seen /\ seen' = {}
    /\ UNCHANGED <<store, changes, now, cons, position, flushed, signals, restarts>>

TimePasses ==
    /\ cons.pc = "idle"
    /\ \E m \in Moments :
        /\ m[1] > day \/ (m[1] = day /\ m[2] > clock)
        /\ day' = m[1] /\ clock' = m[2]
    /\ IF day' = day THEN UNCHANGED <<seen, aged>> ELSE aged' = aged \union seen /\ seen' = {}
    /\ UNCHANGED <<store, changes, cons, position, flushed, signals, restarts>>

-----------------------------------------------------------------------------
(***************************************************************************)
(* NewsConsumer                                                            *)
(***************************************************************************)

Event == News[position]

\* The message is committed, whatever became of it.
Commit == cons' = Idle /\ position' = position + 1

\* It has an ID, a stock, an exchange and an impact score in range.
Validate(event) == event # Garbled

\* A message that cannot be parsed, or an invalid event, is committed unseen.
Fetch ==
    /\ cons.pc = "idle" /\ position <= Len(News)
    /\ IF Validate(Event) THEN cons' = [Idle EXCEPT !.pc = "handle", !.attempt = 1] /\ UNCHANGED position ELSE Commit
    /\ UNCHANGED <<store, changes, now, flushed, seen, aged, signals, restarts>>

\* Faulty variant: the consumer retries as long as the handler fails.
FailedForever == cons' = [Idle EXCEPT !.pc = "handle"] /\ UNCHANGED position

\* HandleEvent fails: it is called again after a pause, and given up in the end.
Failed ==
    IF cons.attempt < MaxHandlerRetries
    THEN cons' = [Idle EXCEPT !.pc = "handle", !.attempt = cons.attempt + 1] /\ UNCHANGED position
    ELSE Commit

-----------------------------------------------------------------------------
(***************************************************************************)
(* HandleEvent and EvaluateEvent                                           *)
(***************************************************************************)

\* The calendar of holidays and the clock may say what they like, per call.
IsTodayHoliday == "holiday" \in Faults
IsMarketClosed == "closed" \in Faults

SkipClosed ==
    /\ cons.pc = "handle" /\ (IsTodayHoliday \/ IsMarketClosed)
    /\ Commit
    /\ UNCHANGED <<store, changes, now, flushed, seen, aged, signals, restarts>>

\* Above its limit the map is purged of aged entries, and of at least one more.
Purged ==
    IF Cardinality(seen \union aged) <= MaxEntries THEN {<<seen, aged>>}
    ELSE {<<seen \ x, {}>> : x \in {y \in SUBSET seen :
              Cardinality(y) = IF seen = {} THEN 0
                               ELSE IF Cardinality(seen) > MaxEntries THEN Cardinality(seen) - MaxEntries ELSE 1}}

\* What evaluateOne finds in the snapshot: the strategies, with their place in its order
\* and what the store held.
Quantified(c) == c.budget # 0 \/ c.quantity > 0
Snapshot(i) ==
    LET s == StrategyOrder[i] IN [place |-> i, strategy |-> s, since |-> store[s].since, boot |-> store[s].boot]
Matches ==
    LET Hit(s) == /\ store[s].active /\ Quantified(Held(store[s].boot, s))
                  /\ IsFullMatch(Event, Held(store[s].boot, s))
    IN {Snapshot(i) : i \in {j \in DOMAIN StrategyOrder : Hit(StrategyOrder[j])}}

\* Evaluation and the fetch of market data run in parallel.  A duplicate has no
\* matches.  Without market data the call fails if the event has no price either.
Evaluate ==
    /\ cons.pc = "handle"
    /\ \E p \in Purged, md \in MarketData \union (IF "no data" \in Faults THEN {NoData} ELSE {}) :
        LET duplicate == Event.id \in p[1]
            matches == IF duplicate THEN {} ELSE Matches
        IN /\ seen' = p[1] \union {Event.id} /\ aged' = p[2] \ {Event.id}
           /\ CASE matches = {} -> Commit
                [] matches # {} /\ md = NoData /\ Event.price = 0 -> Failed
                [] OTHER -> /\ cons' = [cons EXCEPT !.pc = "match", !.todo = matches, !.md = md]
                            /\ UNCHANGED position
    /\ UNCHANGED <<store, changes, now, flushed, signals, restarts>>

-----------------------------------------------------------------------------
(***************************************************************************)
(* processMatch                                                            *)
(***************************************************************************)

\* Faulty variant: the process stores the time of its clock converted once more.
CreatedDateTwice(x) == (48 * x.day + x.time - 2 * ProcessLag - SessionLag) \div 48

\* (created_at AT TIME ZONE 'Asia/Kolkata')::date.  The column has no time zone, so it holds
\* what the clock of the process showed; the query takes that for a time in India, and the
\* date is the one the clock of the session shows then.
Lag == ProcessLag + SessionLag
CreatedDate(x) == (48 * x.day + x.time - Lag) \div 48

\* Rows of trade_signals for the strategy, dated today in India, created since its UpdatedAt.
\* Nothing ever changes the status of a row, so none is FAILED or CANCELLED.
Today(m) == {x \in signals : x.saved /\ x.strategy = m.strategy /\ CreatedDate(x) = day /\ x.at >= m.since}

HasSignalToday(m) == \E x \in Today(m) : x.stock = Event.stock

\* Faulty variant: the limit counts from the trade after it.
CapReachedLate(m, c) == c.limit > 0 /\ Cardinality(Today(m)) > c.limit

CapReached(m, c) == c.limit > 0 /\ Cardinality(Today(m)) >= c.limit

\* The matches are processed in the order of the snapshot.
First(todo) == CHOOSE m \in todo : \A n \in todo : m.place <= n.place

\* On to the next match, or done with the event.
NextMatch ==
    IF cons.todo = {First(cons.todo)} THEN Commit
    ELSE cons' = [cons EXCEPT !.pc = "match", !.todo = @ \ {First(@)}, !.pending = {}] /\ UNCHANGED position

\* Every check lets the match through, in the order of the code.
Passes(m, c) ==
    /\ ~HasSignalToday(m) /\ ~CapReached(m, c)
    /\ cons.md # NoData /\ ~MovedOut(c, cons.md)
    /\ SizingPrice(Event, c, cons.md) > 0
    /\ Valid(OrderRequest(Event, c, cons.md))

Skip ==
    /\ cons.pc = "match"
    /\ LET m == First(cons.todo) c == Held(m.boot, m.strategy) IN
        ("window" \in Faults /\ c.window) \/ "query" \in Faults \/ ~Passes(m, c)
    /\ NextMatch
    /\ UNCHANGED <<store, changes, now, flushed, seen, aged, signals, restarts>>

\* The order gets an ID of its own; its save and its publication are started.
Build ==
    /\ cons.pc = "match"
    /\ LET m == First(cons.todo) c == Held(m.boot, m.strategy) IN
        /\ Passes(m, c)
        /\ signals' = signals \union
             {[id |-> Cardinality(signals), strategy |-> m.strategy, stock |-> Event.stock, news |-> Event,
               day |-> day, time |-> clock, at |-> changes, since |-> m.since, limit |-> c.limit,
               order |-> OrderRequest(Event, c, cons.md),
               config |-> c, md |-> cons.md, saved |-> FALSE]}
    /\ cons' = [cons EXCEPT !.pc = "publish", !.pending = {"save", "publish"}]
    /\ UNCHANGED <<store, changes, now, position, flushed, seen, aged, restarts>>

Current == CHOOSE x \in signals : x.id = Cardinality(signals) - 1
Mark(x) == signals' = (signals \ {Current}) \union {x}

\* One of the two goroutines ends; an error is logged.  Whether the signal reaches
\* the topic changes nothing here: the row alone holds the daily slot.
SaveTradeSignal ==
    /\ cons.pc = "publish" /\ "save" \in cons.pending
    /\ Mark([Current EXCEPT !.saved = TRUE]) \/ ("save" \in Faults /\ UNCHANGED signals)
    /\ cons' = [cons EXCEPT !.pending = @ \ {"save"}]
    /\ UNCHANGED <<store, changes, now, position, flushed, seen, aged, restarts>>

PublishTradeSignal ==
    /\ cons.pc = "publish" /\ "publish" \in cons.pending
    /\ cons' = [cons EXCEPT !.pending = @ \ {"publish"}]
    /\ UNCHANGED <<store, changes, now, position, flushed, seen, aged, signals, restarts>>

\* pubWg.Wait
Published ==
    /\ cons.pc = "publish" /\ cons.pending = {}
    /\ NextMatch
    /\ UNCHANGED <<store, changes, now, flushed, seen, aged, signals, restarts>>

-----------------------------------------------------------------------------

\* Commits are flushed at intervals, so a new process starts at any offset since
\* the last start; the strategies are loaded from user-config.
Restart ==
    /\ "crash" \in Faults /\ restarts < MaxRestarts
    /\ restarts' = restarts + 1
    /\ cons' = Idle /\ seen' = {} /\ aged' = {}
    /\ position' \in flushed..position /\ flushed' = position'
    /\ store' = [s \in Strategies |-> [store[s] EXCEPT !.boot = store[s].active]]
    /\ UNCHANGED <<changes, now, signals>>

Consumer ==
    \/ Fetch \/ SkipClosed \/ Evaluate \/ Skip \/ Build
    \/ SaveTradeSignal \/ PublishTradeSignal \/ Published

Next ==
    \/ Consumer \/ Restart \/ WindowPasses \/ TimePasses
    \/ \E s \in Strategies : ConfigEvent(s) \/ PauseEvent(s)

Spec == Init /\ [][Next]_vars

\* The consumer's goroutine keeps running.
FairSpec == Spec /\ WF_vars(Consumer)

-----------------------------------------------------------------------------
(***************************************************************************)
(* Properties                                                              *)
(***************************************************************************)

\* A strategy enters a stock once a day and activation, in India's days: of two signals
\* for them the earlier was never saved (the insert failed, or the process died before it)
\* or was made so early that its row is dated the day before (before 11:00 where process
\* and session run in UTC, before 05:30 where one of them does, never where both run in
\* IST), however events repeat, windows pass, strategies change and processes restart.
OneEntryPerStock ==
    \A x, y \in signals :
        (x.id < y.id /\ x.strategy = y.strategy /\ x.stock = y.stock /\ x.day = y.day /\ x.at >= y.since)
            => ~x.saved \/ x.time < Lag

\* The saved signals of the same strategy, day and activation that came before y, without
\* those made so early that their rows are dated the day before.
Earlier(y) ==
    {x \in signals : x.id < y.id /\ x.saved /\ x.strategy = y.strategy
                     /\ x.day = y.day /\ x.time >= Lag /\ x.at >= y.since}

\* No signal was made when the saved ones of its strategy since its activation, from the
\* hour on when rows get the date of the day, had reached the daily limit that the store
\* held at the time.
CapHonoured == \A y \in signals : ~(y.limit > 0 /\ Cardinality(Earlier(y)) >= y.limit)

\* An order that fills at the limit it is sized for costs at most 98% of the budget,
\* and unless a tick is more than twice the distance, its stop-loss is below and its
\* target above the price they were computed from: rounding never triggers them.
OrderSound ==
    \A x \in signals :
        LET o == x.order base == ExitBase(x.news, x.config, x.md)
            Clear(pct) == base * pct > 50 * x.md.tick
        IN /\ x.config.budget > 0 => 100 * o.quantity * SizingPrice(x.news, x.config, x.md) <= 98 * x.config.budget
           /\ (o.stopLoss > 0 /\ Clear(x.config.slPct)) => o.stopLoss < base
           /\ (o.takeProfit > 0 /\ Clear(x.config.tpPct)) => o.takeProfit > base

\* No event holds up the consumer: every retry and every match comes to an end.
NewsHandled == <>(position > Len(News))
=============================================================================
