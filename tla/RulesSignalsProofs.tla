------------------------- MODULE RulesSignalsProofs -------------------------
(***************************************************************************)
(* For every set of strategies and events and every sequence of repeated   *)
(* news, failures, edits, days and restarts: a strategy enters a stock     *)
(* once a day and activation, and its daily limit holds, unless the row of *)
(* an earlier signal was never saved or, with clocks behind IST, is dated  *)
(* the day before; and every order stays within its budget, with both      *)
(* exits on their side of the base.                                        *)
(*                                                                         *)
(* None is inductive.  A signal is saved after it was counted, and then    *)
(* counts against later ones: Inv numbers the signals, so that the one     *)
(* still to be saved has no later one; and Clocked dates them, so that the *)
(* rows the queries find are those from the hour on that the lag of the    *)
(* two clocks leaves (DateOfRow).  An order is built from what the         *)
(* consumer has in hand: SoundInv says where its event, its configuration  *)
(* and its market data came from, and the rest is arithmetic.              *)
(***************************************************************************)
EXTENDS RulesSignals, FiniteSetTheorems, WellFoundedInduction, TLAPS

Signal(x) ==
    x = [id |-> x.id, strategy |-> x.strategy, stock |-> x.stock, news |-> x.news,
         day |-> x.day, time |-> x.time, at |-> x.at, since |-> x.since, limit |-> x.limit, order |-> x.order,
         config |-> x.config, md |-> x.md, saved |-> x.saved]

\* The consumer and the signals have their records.
Shape ==
    /\ cons = [pc |-> cons.pc, attempt |-> cons.attempt, todo |-> cons.todo, md |-> cons.md, pending |-> cons.pending]
    /\ \A x \in signals : Signal(x)

\* The signals have the numbers below their count, each its own.
Numbered ==
    /\ IsFiniteSet(signals)
    /\ \A x \in signals : x.id \in Nat /\ x.id < Cardinality(signals)
    /\ \A x, y \in signals : x.id = y.id => x = y

\* While a signal is saved and published it is the newest.
NewestPending == cons.pc = "publish" => \E x \in signals : x.id = Cardinality(signals) - 1

\* The signals were made up to today, at some time of their day.
Clocked ==
    /\ day \in Nat /\ clock \in 0..47
    /\ \A x \in signals : x.day \in Nat /\ x.day <= day /\ x.time \in 0..47

Inv == Shape /\ Numbered /\ NewestPending /\ Clocked /\ OneEntryPerStock /\ CapHonoured

\* The date of a row is the day of its signal from the hour on that the lag leaves, and
\* an earlier one before.
LEMMA DateOfRow ==
    ASSUME NEW d \in Nat, NEW e \in Nat, d <= e, NEW t \in 0..47, NEW lag \in Nat
    PROVE  (48 * d + t - lag) \div 48 = e <=> d = e /\ t >= lag
OBVIOUS

LEMMA LagType == Lag \in Nat
<1>1. ProcessLag \in Nat /\ SessionLag \in Nat
  BY RulesAssumption
<1>. QED
  BY ONLY <1>1 DEF Lag

LEMMA MomentType == ASSUME NEW m \in Moments PROVE m[1] \in Nat /\ m[2] \in 0..47
<1>1. Moments \subseteq Nat \X (0..47)
  BY RulesAssumption
<1>. QED
  BY ONLY <1>1, m \in Moments

\* Steps that leave the date and the time, and steps of the clock.
LEMMA ClockKeeps ==
    ASSUME Clocked, signals' = signals, UNCHANGED now \/ TimePasses
    PROVE  Clocked'
<1>1. CASE UNCHANGED now
  BY <1>1 DEF Clocked, now
<1>2. CASE TimePasses
  <2>1. PICK m \in Moments : /\ m[1] > day \/ (m[1] = day /\ m[2] > clock)
                            /\ day' = m[1] /\ clock' = m[2]
    BY <1>2 DEF TimePasses
  <2>2. m[1] \in Nat /\ m[2] \in 0..47
    BY MomentType
  <2>3. ASSUME NEW k \in Nat, NEW n \in Nat, NEW i \in Nat, k <= n, i > n \/ i = n PROVE k <= i
    BY <2>3
  <2>. QED
    BY <2>1, <2>2, <2>3 DEF Clocked
<1>. QED
  BY <1>1, <1>2

\* Steps of the consumer that make and save no signal, and do not begin to publish.
LEMMA KeepsSignals ==
    ASSUME Inv, signals' = signals, UNCHANGED now \/ TimePasses,
           cons' = cons \/ (Shape' /\ (cons'.pc = "publish" => cons.pc = "publish"))
    PROVE  Inv'
<1>0. Clocked'
  BY ClockKeeps DEF Inv
<1>1. Shape' /\ NewestPending'
  BY DEF Inv, Shape, NewestPending, Signal
<1>2. Numbered' /\ OneEntryPerStock' /\ CapHonoured'
  BY DEF Inv, Numbered, OneEntryPerStock, CapHonoured, Earlier
<1>. QED
  BY <1>0, <1>1, <1>2 DEF Inv

\* The consumer's record when it is idle or changed in some of its fields.
LEMMA IdleRecord ==
    /\ Idle = [pc |-> Idle.pc, attempt |-> Idle.attempt, todo |-> Idle.todo, md |-> Idle.md, pending |-> Idle.pending]
    /\ Idle.pc = "idle"
BY DEF Idle

\* A step that ends with the consumer idle, or called again.
LEMMA Reset ==
    ASSUME Inv, signals' = signals, UNCHANGED now, NEW n,
           cons' = Idle \/ cons' = [Idle EXCEPT !.pc = "handle", !.attempt = n]
    PROVE  Inv'
<1>1. Shape' /\ cons'.pc # "publish"
  BY IdleRecord DEF Inv, Shape, Signal, Idle
<1>. QED
  BY <1>1, KeepsSignals

\* NextMatch: the next match of the event, or the next event.
LEMMA NextMatchKeeps ==
    ASSUME Inv, signals' = signals, UNCHANGED now, NextMatch
    PROVE  Inv'
<1>1. CASE Commit
  BY <1>1, Reset DEF Commit
<1>2. CASE cons' = [cons EXCEPT !.pc = "match", !.todo = @ \ {First(@)}, !.pending = {}]
  <2>1. Shape' /\ cons'.pc # "publish"
    BY <1>2 DEF Inv, Shape, Signal
  <2>. QED
    BY <2>1, KeepsSignals
<1>. QED
  BY <1>1, <1>2 DEF NextMatch

\* EvaluateEvent: a duplicate, a failure, or the matches.
LEMMA EvaluateKeeps ==
    ASSUME Inv, Evaluate
    PROVE  Inv'
<1>1. signals' = signals /\ UNCHANGED now
  BY DEF Evaluate
<1>2. \/ Commit \/ Failed
      \/ \E t, md : cons' = [cons EXCEPT !.pc = "match", !.todo = t, !.md = md]
  BY DEF Evaluate
<1>3. CASE Commit
  BY <1>1, <1>3, Reset DEF Commit
<1>4. CASE Failed
  <2>1. cons' = Idle \/ cons' = [Idle EXCEPT !.pc = "handle", !.attempt = cons.attempt + 1]
    BY <1>4 DEF Failed, Commit
  <2>. QED
    BY <1>1, <2>1, Reset
<1>5. CASE \E t, md : cons' = [cons EXCEPT !.pc = "match", !.todo = t, !.md = md]
  <2>1. Shape' /\ cons'.pc # "publish"
    BY <1>1, <1>5 DEF Inv, Shape, Signal
  <2>. QED
    BY <1>1, <2>1, KeepsSignals
<1>. QED
  BY <1>2, <1>3, <1>4, <1>5

-----------------------------------------------------------------------------
(***************************************************************************)
(* The two steps that change the signals                                   *)
(***************************************************************************)

\* processMatch builds an order: it is the newest, and the queries saw all the others.
LEMMA BuildKeeps ==
    ASSUME Inv, Build
    PROVE  Inv'
<1>. DEFINE m == First(cons.todo)
            c == Held(m.boot, m.strategy)
            new == [id |-> Cardinality(signals), strategy |-> m.strategy, stock |-> Event.stock, news |-> Event,
                    day |-> day, time |-> clock, at |-> changes, since |-> m.since, limit |-> c.limit,
                    order |-> OrderRequest(Event, c, cons.md),
                    config |-> c, md |-> cons.md, saved |-> FALSE]
<1>1. /\ signals' = signals \union {new} /\ ~HasSignalToday(m) /\ ~CapReached(m, c)
      /\ cons' = [cons EXCEPT !.pc = "publish", !.pending = {"save", "publish"}] /\ UNCHANGED now
  BY DEF Build, Passes
<1>2. /\ new.id = Cardinality(signals) /\ new.strategy = m.strategy /\ new.stock = Event.stock /\ new.day = day /\ new.time = clock
      /\ new.since = m.since /\ new.limit = c.limit /\ new.saved = FALSE /\ Signal(new)
  BY DEF Signal
<1>. HIDE DEF new, m, c
<1>3. IsFiniteSet(signals) /\ Cardinality(signals) \in Nat
  BY FS_CardinalityType DEF Inv, Numbered
<1>4. \A x \in signals : x.id \in Nat /\ x.id < new.id
  BY <1>2 DEF Inv, Numbered
<1>5. new \notin signals
  BY <1>2, <1>3, <1>4
<1>6. IsFiniteSet(signals') /\ Cardinality(signals') = Cardinality(signals) + 1
  BY <1>1, <1>3, <1>5, FS_AddElement
<1>7. Shape'
  BY <1>1, <1>2 DEF Inv, Shape
<1>8. Numbered'
  <2>1. \A x \in signals' : x.id \in Nat /\ x.id < Cardinality(signals')
    BY <1>1, <1>2, <1>3, <1>4, <1>6
  <2>2. \A x, y \in signals' : x.id = y.id => x = y
    BY <1>1, <1>2, <1>3, <1>4 DEF Inv, Numbered
  <2>. QED
    BY <1>6, <2>1, <2>2 DEF Numbered
<1>9. NewestPending'
  BY <1>1, <1>2, <1>3, <1>6 DEF NewestPending
<1>10. Clocked'
  BY <1>1, <1>2 DEF Inv, Clocked, now
<1>11. \A x \in signals : CreatedDate(x) = day <=> x.day = new.day /\ x.time >= Lag
  <2>1. ASSUME NEW x \in signals
        PROVE  (48 * x.day + x.time - Lag) \div 48 = day <=> x.day = day /\ x.time >= Lag
    <3>1. x.day \in Nat /\ day \in Nat /\ x.day <= day /\ x.time \in 0..47
      BY DEF Inv, Clocked
    <3>. QED
      BY ONLY <3>1, LagType, DateOfRow
  <2>. QED
    BY <1>2, <2>1 DEF CreatedDate
<1>12. \A x \in signals : x.time \in Nat
  BY DEF Inv, Clocked
<1>13. OneEntryPerStock'
  <2>1. SUFFICES ASSUME NEW x \in signals', NEW y \in signals', x.id < y.id, x.strategy = y.strategy,
                        x.stock = y.stock, x.day = y.day, x.at >= y.since
                 PROVE  ~x.saved \/ x.time < Lag
    BY DEF OneEntryPerStock
  <2>2. CASE x = new
    BY <1>2, <2>2
  <2>3. CASE x \in signals /\ y \in signals
    BY <2>1, <2>3 DEF Inv, OneEntryPerStock
  <2>4. CASE x \in signals /\ y = new
    <3>1. x.day = new.day /\ x.stock = Event.stock /\ x.strategy = m.strategy /\ x.at >= m.since
      BY <1>2, <2>1, <2>4
    <3>2. x.saved => ~(x.time >= Lag)
      BY <1>1, <1>11, <2>4, <3>1 DEF HasSignalToday, Today
    <3>. QED
      BY <1>12, <2>4, <3>2, LagType
  <2>. QED
    BY <1>1, <2>2, <2>3, <2>4
<1>14. CapHonoured'
  <2>. DEFINE S(set, y) == {x \in set : x.id < y.id /\ x.saved /\ x.strategy = y.strategy
                                        /\ x.day = y.day /\ x.time >= Lag /\ x.at >= y.since}
  <2>1. \A y : S(signals, y) = S(signals', y)
    BY <1>1, <1>2
  <2>2. \A y \in signals : ~(y.limit > 0 /\ Cardinality(S(signals, y)) >= y.limit)
    BY DEF Inv, CapHonoured, Earlier
  <2>3. S(signals, new) = Today(m)
    BY <1>2, <1>4, <1>11 DEF Today
  <2>4. ~(new.limit > 0 /\ Cardinality(S(signals, new)) >= new.limit)
    BY <1>1, <1>2, <2>3 DEF CapReached
  <2>5. \A y \in signals' : ~(y.limit > 0 /\ Cardinality(S(signals', y)) >= y.limit)
    BY <1>1, <2>1, <2>2, <2>4
  <2>. QED
    BY <2>5 DEF CapHonoured, Earlier
<1>. QED
  BY <1>7, <1>8, <1>9, <1>10, <1>13, <1>14 DEF Inv

\* Saving a row changes nothing else of its signal.
LEMMA SavedSignal ==
    ASSUME NEW x, Signal(x), NEW y, y = [x EXCEPT !.saved = TRUE]
    PROVE  /\ y.id = x.id /\ y.strategy = x.strategy /\ y.stock = x.stock /\ y.day = x.day /\ y.time = x.time
           /\ y.since = x.since /\ y.limit = x.limit /\ Signal(y)
BY DEF Signal

\* SaveTradeSignal succeeds: the row of the newest signal counts from now on.
LEMMA SaveKeeps ==
    ASSUME Inv, SaveTradeSignal
    PROVE  Inv'
<1>. DEFINE old == Current
            new == [old EXCEPT !.saved = TRUE]
<1>1. cons.pc = "publish" /\ cons' = [cons EXCEPT !.pending = @ \ {"save"}] /\ UNCHANGED now
  BY DEF SaveTradeSignal
<1>2. CASE signals' = signals
  BY <1>1, <1>2, KeepsSignals DEF Inv, Shape
<1>3. CASE signals' = (signals \ {old}) \union {new}
  <2>1. old \in signals /\ old.id = Cardinality(signals) - 1
    BY <1>1 DEF Inv, NewestPending, Current
  <2>2. Signal(old)
    BY <2>1 DEF Inv, Shape
  <2>3. /\ new.id = old.id /\ new.strategy = old.strategy /\ new.stock = old.stock /\ new.day = old.day /\ new.time = old.time
        /\ new.since = old.since /\ new.limit = old.limit /\ Signal(new)
    <3>. HIDE DEF old
    <3>. QED
      BY <2>2, SavedSignal
  <2>. HIDE DEF old, new
  <2>4. IsFiniteSet(signals) /\ Cardinality(signals) \in Nat
    BY FS_CardinalityType DEF Inv, Numbered
  <2>5. new \notin signals \ {old}
    BY <2>1, <2>3 DEF Inv, Numbered
  <2>6. IsFiniteSet(signals') /\ Cardinality(signals') = Cardinality(signals)
    <3>1. IsFiniteSet(signals \ {old}) /\ Cardinality(signals \ {old}) = Cardinality(signals) - 1
      BY <2>1, <2>4, FS_RemoveElement
    <3>. QED
      BY <1>3, <2>4, <2>5, <3>1, FS_AddElement
  <2>7. \A x \in signals \ {old} : x \in signals /\ x.id \in Nat /\ x.id < old.id
    BY <2>1, <2>4 DEF Inv, Numbered
  <2>8. Shape'
    BY <1>1, <1>3, <2>3 DEF Inv, Shape
  <2>9. Numbered'
    <3>1. \A x \in signals' : x.id \in Nat /\ x.id < Cardinality(signals')
      BY <1>3, <2>1, <2>3, <2>6 DEF Inv, Numbered
    <3>2. \A x, y \in signals' : x.id = y.id => x = y
      BY <1>3, <2>1, <2>3 DEF Inv, Numbered
    <3>. QED
      BY <2>6, <3>1, <3>2 DEF Numbered
  <2>10. NewestPending'
    BY <1>3, <2>1, <2>3, <2>6 DEF NewestPending
  <2>11. \A y \in signals' : ~(new.id < y.id)
    BY <1>3, <2>1, <2>3, <2>4, <2>7
  <2>12. OneEntryPerStock'
    <3>1. SUFFICES ASSUME NEW x \in signals', NEW y \in signals', x.id < y.id, x.strategy = y.strategy,
                          x.stock = y.stock, x.day = y.day, x.at >= y.since
                   PROVE  ~x.saved \/ x.time < Lag
      BY DEF OneEntryPerStock
    <3>2. x \in signals \ {old}
      BY <1>3, <2>11, <3>1
    <3>3. CASE y \in signals
      BY <3>1, <3>2, <3>3 DEF Inv, OneEntryPerStock
    <3>4. CASE y = new
      BY <2>1, <2>3, <3>1, <3>2, <3>4 DEF Inv, OneEntryPerStock
    <3>. QED
      BY <1>3, <3>3, <3>4
  <2>13. CapHonoured'
    <3>. DEFINE S(set, y) == {x \in set : x.id < y.id /\ x.saved /\ x.strategy = y.strategy
                                          /\ x.day = y.day /\ x.time >= Lag /\ x.at >= y.since}
    <3>1. \A y \in signals : S(signals', y) = S(signals, y)
      <4>1. \A y \in signals : ~(old.id < y.id) /\ ~(new.id < y.id)
        BY <2>1, <2>3, <2>4, <2>7
      <4>. QED
        BY <1>3, <4>1
    <3>2. S(signals', new) = S(signals', old)
      BY <2>3
    <3>3. \A y \in signals : ~(y.limit > 0 /\ Cardinality(S(signals, y)) >= y.limit)
      BY DEF Inv, CapHonoured, Earlier
    <3>4. ~(new.limit > 0 /\ Cardinality(S(signals', new)) >= new.limit)
      BY <2>1, <2>3, <3>1, <3>2, <3>3
    <3>5. \A y \in signals' : ~(y.limit > 0 /\ Cardinality(S(signals', y)) >= y.limit)
      BY <1>3, <3>1, <3>3, <3>4
    <3>. QED
      BY <3>5 DEF CapHonoured, Earlier
  <2>14. Clocked'
    BY <1>1, <1>3, <2>1, <2>3 DEF Inv, Clocked, now
  <2>. QED
    BY <2>8, <2>9, <2>10, <2>12, <2>13, <2>14 DEF Inv
<1>. QED
  BY <1>2, <1>3 DEF SaveTradeSignal, Mark

-----------------------------------------------------------------------------

\* The invariant holds in every state.
LEMMA Invariance == Spec => []Inv
<1>1. Init => Inv
  <2>1. ASSUME Init PROVE Shape /\ NewestPending /\ OneEntryPerStock /\ CapHonoured
    BY <2>1, IdleRecord DEF Init, Shape, NewestPending, OneEntryPerStock, CapHonoured
  <2>2. ASSUME Init PROVE Numbered
    BY <2>2, FS_EmptySet DEF Init, Numbered
  <2>3. ASSUME Init PROVE Clocked
    BY <2>3, MomentType DEF Init, Clocked
  <2>. QED
    BY <2>1, <2>2, <2>3 DEF Inv
<1>2. Inv /\ [Next]_vars => Inv'
  <2>. SUFFICES ASSUME Inv, [Next]_vars PROVE Inv'
    OBVIOUS
  <2>1. CASE Fetch
    <3>1. signals' = signals /\ UNCHANGED now /\ (cons' = Idle \/ cons' = [Idle EXCEPT !.pc = "handle", !.attempt = 1])
      BY <2>1 DEF Fetch, Commit
    <3>. QED
      BY <3>1, Reset
  <2>2. CASE SkipClosed
    BY <2>2, Reset DEF SkipClosed, Commit
  <2>3. CASE Evaluate
    BY <2>3, EvaluateKeeps
  <2>4. CASE Skip
    BY <2>4, NextMatchKeeps DEF Skip
  <2>5. CASE Build
    BY <2>5, BuildKeeps
  <2>6. CASE SaveTradeSignal
    BY <2>6, SaveKeeps
  <2>7. CASE PublishTradeSignal
    BY <2>7, KeepsSignals DEF PublishTradeSignal, Inv, Shape
  <2>8. CASE Published
    BY <2>8, NextMatchKeeps DEF Published
  <2>9. CASE Restart
    BY <2>9, Reset DEF Restart
  <2>10. CASE WindowPasses \/ TimePasses \/ UNCHANGED vars
    BY <2>10, KeepsSignals DEF WindowPasses, TimePasses, vars
  <2>11. CASE \E s \in Strategies : ConfigEvent(s) \/ PauseEvent(s)
    BY <2>11, KeepsSignals DEF ConfigEvent, PauseEvent
  <2>. QED
    BY <2>1, <2>2, <2>3, <2>4, <2>5, <2>6, <2>7, <2>8, <2>9, <2>10, <2>11 DEF Next, Consumer
<1>. QED
  BY <1>1, <1>2, PTL DEF Spec

\* HasSignalToday keeps a strategy from entering a stock twice a day and activation,
\* unless the row of the first signal was never saved, or was made before the hour from
\* which rows have India's date: the lag of the process plus that of the session.
THEOREM EnteredOnce == Spec => []OneEntryPerStock
<1>1. Inv => OneEntryPerStock
  BY DEF Inv
<1>. QED
  BY <1>1, Invariance, PTL

\* The count of today's rows keeps a strategy within its daily limit, of the signals made
\* from that hour on.
THEOREM LimitKept == Spec => []CapHonoured
<1>1. Inv => CapHonoured
  BY DEF Inv
<1>. QED
  BY <1>1, Invariance, PTL

-----------------------------------------------------------------------------
(***************************************************************************)
(* The order: arithmetic                                                   *)
(***************************************************************************)

\* Integer division rounds down, also of a negative number.
LEMMA Division ==
    ASSUME NEW a \in Int, NEW d \in Nat, d > 0
    PROVE  a \div d \in Int /\ d * (a \div d) <= a /\ a < d * (a \div d) + d
  BY SMTT(30)

\* 98% of the budget pays for the quantity.
LEMMA BudgetPays ==
    ASSUME NEW b \in Int, NEW p \in Int, p > 0
    PROVE  100 * ((b * 98) \div (100 * p)) * p <= 98 * b
<1>. DEFINE q == (b * 98) \div (100 * p)
<1>1. 100 * p \in Nat /\ 100 * p > 0 /\ b * 98 \in Int
  BY SMTT(30)
<1>2. q \in Int /\ (100 * p) * q <= b * 98
  BY <1>1, Division
<1>. HIDE DEF q
<1>3. 100 * q * p <= 98 * b
  BY <1>2, SMTT(30)
<1>. QED
  BY <1>3 DEF q

\* A rounded price below or above another that is more than half a tick away stays there.
LEMMA RoundedStays ==
    ASSUME NEW base \in Int, NEW num \in Int, NEW tick \in Int, tick > 0
    PROVE  /\ 200 * base > 2 * num + 100 * tick => RoundToTick(num, 100, tick) < base
           /\ 2 * num > 200 * base + 100 * tick => RoundToTick(num, 100, tick) > base
           /\ RoundToTick(num, 100, tick) \in Int
<1>. DEFINE a == 2 * num + 100 * tick
            d == 2 * 100 * tick
            q == a \div d
<1>1. a \in Int /\ d \in Nat /\ d > 0 /\ d = 200 * tick
  BY SMTT(30)
<1>2. q \in Int /\ d * q <= a /\ a < d * q + d
  BY <1>1, Division
<1>3. RoundToTick(num, 100, tick) = q * tick
  BY DEF RoundToTick
<1>. HIDE DEF q, d
<1>4. q * tick \in Int /\ d * q = 200 * (q * tick)
  BY <1>1, <1>2, SMTT(30)
<1>5. PICK r \in Int : r = q * tick
  BY <1>4
<1>6. 200 * r <= 2 * num + 100 * tick /\ 2 * num + 100 * tick < 200 * r + 200 * tick
  BY <1>1, <1>2, <1>4, <1>5
<1>. QED
  BY <1>3, <1>5, <1>6

\* The rounded price is a whole number of paise.
LEMMA RoundedType ==
    ASSUME NEW num \in Int, NEW den \in Nat, den > 0, NEW tick \in Int, tick > 0
    PROVE  RoundToTick(num, den, tick) \in Int
<1>1. 2 * num + den * tick \in Int /\ 2 * den * tick \in Nat /\ 2 * den * tick > 0
  BY SMTT(30)
<1>2. (2 * num + den * tick) \div (2 * den * tick) \in Int
  BY <1>1, Division
<1>. QED
  BY <1>2, SMTT(30) DEF RoundToTick

Clear(base, pct, tick) == base * pct > 50 * tick

\* What OrderSound says of a signal.
Sound(x) ==
    LET base == ExitBase(x.news, x.config, x.md)
    IN /\ x.config.budget > 0 =>
              100 * x.order.quantity * SizingPrice(x.news, x.config, x.md) <= 98 * x.config.budget
       /\ (x.order.stopLoss > 0 /\ Clear(base, x.config.slPct, x.md.tick)) => x.order.stopLoss < base
       /\ (x.order.takeProfit > 0 /\ Clear(base, x.config.tpPct, x.md.tick)) => x.order.takeProfit > base

\* The order of an event, a configuration and market data with integers in them is sound.
LEMMA RequestSound ==
    ASSUME NEW e, NEW c, NEW md, e.prevClose \in Int,
           c.minPct \in Int, c.budget \in Int, c.slPct \in Int, c.tpPct \in Int,
           md.ltp \in Int, md.tick \in Int, md.prevClose \in Int, md.tick > 0,
           SizingPrice(e, c, md) > 0
    PROVE  LET o == OrderRequest(e, c, md)
               base == ExitBase(e, c, md)
           IN /\ c.budget > 0 => 100 * o.quantity * SizingPrice(e, c, md) <= 98 * c.budget
              /\ (o.stopLoss > 0 /\ Clear(base, c.slPct, md.tick)) => o.stopLoss < base
              /\ (o.takeProfit > 0 /\ Clear(base, c.tpPct, md.tick)) => o.takeProfit > base
<1>1. /\ OrderRequest(e, c, md).quantity = Quantity(e, c, md)
      /\ OrderRequest(e, c, md).stopLoss = StopLoss(e, c, md)
      /\ OrderRequest(e, c, md).takeProfit = TakeProfit(e, c, md)
  BY DEF OrderRequest
<1>0. PICK tick \in Int : tick = md.tick /\ tick > 0
  OBVIOUS
<1>2. Target(e, c, md) \in Int
  <2>1. PICK ref \in Int : ref = Reference(e, md)
    BY DEF Reference
  <2>2. ref * (100 + c.minPct) \in Int
    BY SMTT(30)
  <2>. QED
    BY <2>1, <2>2, Division DEF Target
<1>3. PICK base \in Int : base = ExitBase(e, c, md)
  BY <1>2 DEF ExitBase
<1>4. PICK p \in Int : p = SizingPrice(e, c, md)
  <2>1. ASSUME NEW n \in Int PROVE RoundToTick(n, 1000, tick) \in Int
    <3>1. PICK k \in Nat : k = 1000 /\ k > 0
      OBVIOUS
    <3>. QED
      BY ONLY <1>0, <3>1, RoundedType
  <2>2. md.ltp * 1005 \in Int /\ Target(e, c, md) * 1005 \in Int
    BY <1>2
  <2>. QED
    BY <1>0, <2>1, <2>2 DEF SizingPrice
<1>5. c.budget > 0 => 100 * Quantity(e, c, md) * p <= 98 * c.budget
  <2>1. ASSUME c.budget > 0 PROVE Quantity(e, c, md) = (c.budget * 98) \div (100 * p)
    BY <1>4, <2>1 DEF Quantity
  <2>2. 100 * ((c.budget * 98) \div (100 * p)) * p <= 98 * c.budget
    BY <1>4, BudgetPays
  <2>. QED
    BY <2>1, <2>2
<1>6. (StopLoss(e, c, md) > 0 /\ Clear(base, c.slPct, md.tick)) => StopLoss(e, c, md) < base
  <2>. SUFFICES ASSUME StopLoss(e, c, md) > 0, base * c.slPct > 50 * md.tick
                PROVE  StopLoss(e, c, md) < base
    BY DEF Clear
  <2>1. PICK num \in Int : num = base * (100 - c.slPct)
    BY SMTT(30)
  <2>2. StopLoss(e, c, md) = RoundToTick(num, 100, tick)
    BY <1>0, <1>3, <2>1 DEF StopLoss
  <2>3. 200 * base > 2 * num + 100 * tick
    BY <1>0, <2>1, SMTT(30)
  <2>. QED
    BY ONLY <1>0, <2>2, <2>3, RoundedStays
<1>7. (TakeProfit(e, c, md) > 0 /\ Clear(base, c.tpPct, md.tick)) => TakeProfit(e, c, md) > base
  <2>. SUFFICES ASSUME TakeProfit(e, c, md) > 0, base * c.tpPct > 50 * md.tick
                PROVE  TakeProfit(e, c, md) > base
    BY DEF Clear
  <2>1. PICK num \in Int : num = base * (100 + c.tpPct)
    BY SMTT(30)
  <2>2. TakeProfit(e, c, md) = RoundToTick(num, 100, tick)
    BY <1>0, <1>3, <2>1 DEF TakeProfit
  <2>3. 2 * num > 200 * base + 100 * tick
    BY <1>0, <2>1, SMTT(30)
  <2>. QED
    BY ONLY <1>0, <2>2, <2>3, RoundedStays
<1>. QED
  BY <1>1, <1>3, <1>4, <1>5, <1>6, <1>7

-----------------------------------------------------------------------------
(***************************************************************************)
(* The order: what the consumer has in hand                                *)
(***************************************************************************)

\* An event in work is one of the topic, its matches name strategies, and the market data
\* came from Redis; and the signals are sound.
InHand ==
    /\ position \in Nat \ {0} /\ flushed \in Nat \ {0}
    /\ cons.pc # "idle" => position <= Len(News) /\ Event # Garbled
    /\ cons.pc \in {"match", "publish"} => cons.todo # {}
    /\ \A m \in cons.todo : m.place \in Nat /\ m.strategy \in Strategies
    /\ cons.md \in MarketData \union {NoData}

SoundInv == InHand /\ \A x \in signals : Sound(x)

\* A set of matches has a first one.
LEMMA FirstIn ==
    ASSUME NEW todo, todo # {}, \A m \in todo : m.place \in Nat
    PROVE  First(todo) \in todo
<1>. DEFINE S == {m.place : m \in todo}
<1>1. S \subseteq Nat /\ S # {}
  OBVIOUS
<1>2. PICK i \in S : \A j \in S : <<j, i>> \notin OpToRel(<, Nat)
  BY <1>1, NatLessThanWellFounded, WFMin
<1>3. PICK m \in todo : m.place = i
  OBVIOUS
<1>4. ASSUME NEW n \in todo PROVE m.place <= n.place
  <2>1. n.place \in S /\ n.place \in Nat /\ i \in Nat
    BY <1>1
  <2>2. ~(n.place < i)
    BY <1>2, <2>1 DEF OpToRel
  <2>. QED
    BY <1>3, <2>1, <2>2
<1>. QED
  BY <1>4 DEF First

\* The configuration of a strategy keeps integers through the conversions that drop parts.
LEMMA HeldNumbers ==
    ASSUME NEW boot, NEW s \in Strategies
    PROVE  LET c == Held(boot, s) IN
           c.minPct \in Int /\ c.budget \in Int /\ c.slPct \in Int /\ c.tpPct \in Int
<1>. DEFINE c == Config[s]
            d == [c EXCEPT !.minPrice = 0]
            t == [d EXCEPT !.maxPrice = 0]
            F == {"minPct", "budget", "slPct", "tpPct"}
            Good(r) == F \subseteq DOMAIN r /\ \A f \in F : r[f] \in Int
<1>1. Good(c)
  BY RulesAssumption
<1>2. ASSUME NEW r, Good(r), NEW f, NEW v, f \in F => v \in Int PROVE Good([r EXCEPT ![f] = v])
  BY <1>2
<1>3. Good(d)
  BY <1>1, <1>2
<1>4. Good(t)
  BY <1>2, <1>3
<1>5. ToModelStrategy(c) = t
  BY DEF ToModelStrategy
<1>. DEFINE p1 == [t EXCEPT !.limit = 0]
            p2 == [p1 EXCEPT !.budget = 0]
            p3 == [p2 EXCEPT !.window = FALSE]
            p4 == [p3 EXCEPT !.tpType = "FIXED"]
            p5 == [p4 EXCEPT !.slType = IF @ = "MULTI_LEVEL" THEN "FIXED" ELSE @]
            p6 == [p5 EXCEPT !.orderType = IF @ = "BRACKET" THEN "MARKET" ELSE @]
<1>6. protoToModel(c) = p6
  BY <1>5 DEF protoToModel
<1>. HIDE DEF t
<1>7. Good(p1)
  BY <1>2, <1>4
<1>. HIDE DEF p1
<1>8. Good(p2)
  BY <1>2, <1>7
<1>. HIDE DEF p2
<1>9. Good(p3)
  BY <1>2, <1>8
<1>. HIDE DEF p3
<1>10. Good(p4)
  BY <1>2, <1>9
<1>. HIDE DEF p4
<1>11. Good(p5)
  BY <1>2, <1>10
<1>. HIDE DEF p5
<1>12. Good(p6)
  BY <1>2, <1>11
<1>. HIDE DEF p6
<1>13. Good(Held(boot, s))
  BY <1>4, <1>5, <1>6, <1>12 DEF Held
<1>. QED
  BY <1>13

\* At first the consumer has nothing in hand.
LEMMA SoundInit == Init => SoundInv
  BY DEF Init, SoundInv, InHand, Idle

\* The consumer is idle, or called again with the same event.
LEMMA HandsEmpty ==
    ASSUME InHand, NEW n, position' \in Nat \ {0}, flushed' \in Nat \ {0},
           cons' = Idle \/ (/\ cons' = [Idle EXCEPT !.pc = "handle", !.attempt = n] /\ position' = position
                            /\ position <= Len(News) /\ Event # Garbled)
    PROVE  InHand'
<1>1. cons'.pc \in {"idle", "handle"} /\ cons'.todo = {} /\ cons'.md = NoData
  <2>1. CASE cons' = Idle
    BY <2>1 DEF Idle
  <2>2. CASE cons' = [Idle EXCEPT !.pc = "handle", !.attempt = n]
    BY <2>2 DEF Idle
  <2>. QED
    BY <2>1, <2>2
<1>2. cons'.pc # "idle" => position' <= Len(News) /\ News[position'] # Garbled
  BY DEF Idle, Event
<1>. QED
  BY <1>1, <1>2 DEF InHand, Event

\* The message is committed.
LEMMA CommitHands ==
    ASSUME InHand, Commit, UNCHANGED flushed
    PROVE  InHand'
<1>1. cons' = Idle /\ position' \in Nat \ {0} /\ flushed' \in Nat \ {0}
  BY DEF InHand, Commit
<1>. QED
  BY <1>1, HandsEmpty

\* The next match of the event.
LEMMA NextHands ==
    ASSUME Shape, InHand, NextMatch, cons.pc \in {"match", "publish"}, UNCHANGED flushed
    PROVE  InHand'
<1>1. CASE Commit
  BY <1>1, CommitHands
<1>2. CASE /\ cons.todo # {First(cons.todo)} /\ UNCHANGED position
           /\ cons' = [cons EXCEPT !.pc = "match", !.todo = @ \ {First(@)}, !.pending = {}]
  <2>1. /\ cons'.pc = "match" /\ cons'.todo = cons.todo \ {First(cons.todo)} /\ cons'.md = cons.md
    BY <1>2 DEF Shape
  <2>2. cons'.todo # {}
    BY <1>2, <2>1 DEF InHand
  <2>. QED
    BY <1>2, <2>1, <2>2 DEF InHand, Event
<1>. QED
  BY <1>1, <1>2 DEF NextMatch

\* EvaluateEvent: the matches are strategies of the snapshot.
LEMMA EvaluateHands == ASSUME Shape, InHand, Evaluate PROVE InHand'
<1>1. cons.pc = "handle" /\ UNCHANGED flushed
  BY DEF Evaluate
<1>2. position <= Len(News) /\ Event # Garbled
  BY <1>1 DEF InHand
<1>3. \/ Commit
      \/ Failed
      \/ \E md \in MarketData \union {NoData} :
            /\ Matches # {} /\ UNCHANGED position
            /\ cons' = [cons EXCEPT !.pc = "match", !.todo = Matches, !.md = md]
  BY DEF Evaluate
<1>4. CASE Commit
  BY <1>1, <1>4, CommitHands
<1>5. CASE Failed
  <2>1. CASE Commit
    BY <1>1, <2>1, CommitHands
  <2>2. CASE cons' = [Idle EXCEPT !.pc = "handle", !.attempt = cons.attempt + 1] /\ UNCHANGED position
    <3>1. position' \in Nat \ {0} /\ flushed' \in Nat \ {0}
      BY <1>1, <2>2 DEF InHand
    <3>. QED
      BY <1>2, <2>2, <3>1, HandsEmpty
  <2>. QED
    BY <1>5, <2>1, <2>2 DEF Failed
<1>6. ASSUME NEW md \in MarketData \union {NoData}, Matches # {}, UNCHANGED position,
             cons' = [cons EXCEPT !.pc = "match", !.todo = Matches, !.md = md]
      PROVE  InHand'
  <2>1. cons'.pc = "match" /\ cons'.todo = Matches /\ cons'.md = md
    BY <1>6 DEF Shape
  <2>2. \A m \in Matches : m.place \in Nat /\ m.strategy \in Strategies
    <3>0. StrategyOrder \in Seq(Strategies)
      BY RulesAssumption
    <3>1. \A i \in DOMAIN StrategyOrder : i \in Nat /\ StrategyOrder[i] \in Strategies
      BY <3>0
    <3>2. \A i \in DOMAIN StrategyOrder : Snapshot(i).place = i /\ Snapshot(i).strategy = StrategyOrder[i]
      BY DEF Snapshot
    <3>. HIDE DEF Snapshot
    <3>3. \A m \in Matches : \E i \in DOMAIN StrategyOrder : m = Snapshot(i)
      BY DEF Matches
    <3>. QED
      BY <3>1, <3>2, <3>3
  <2>. QED
    BY <1>1, <1>2, <1>6, <2>1, <2>2 DEF InHand, Event
<1>. QED
  BY <1>3, <1>4, <1>5, <1>6

\* processMatch builds a sound order.
LEMMA BuildSound == ASSUME Shape, SoundInv, Build PROVE SoundInv'
<1>1. PICK m : m = First(cons.todo)
  OBVIOUS
<1>2. PICK c : c = Held(m.boot, m.strategy)
  OBVIOUS
<1>3. PICK e : e = Event
  OBVIOUS
<1>4. PICK md : md = cons.md
  OBVIOUS
<1>. DEFINE new == [id |-> Cardinality(signals), strategy |-> m.strategy, stock |-> e.stock, news |-> e,
                    day |-> day, time |-> clock, at |-> changes, since |-> m.since, limit |-> c.limit,
                    order |-> OrderRequest(e, c, md),
                    config |-> c, md |-> md, saved |-> FALSE]
<1>5. /\ cons.pc = "match" /\ signals' = signals \union {new} /\ UNCHANGED <<position, flushed>>
      /\ cons' = [cons EXCEPT !.pc = "publish", !.pending = {"save", "publish"}]
      /\ md # NoData /\ SizingPrice(e, c, md) > 0
  BY <1>1, <1>2, <1>3, <1>4 DEF Build, Passes
<1>6. cons'.pc = "publish" /\ cons'.todo = cons.todo /\ cons'.md = cons.md
  BY <1>5 DEF Shape
<1>7. InHand'
  BY <1>5, <1>6 DEF SoundInv, InHand, Event
<1>8. m.strategy \in Strategies
  <2>1. cons.todo # {} /\ \A n \in cons.todo : n.place \in Nat /\ n.strategy \in Strategies
    BY <1>5 DEF SoundInv, InHand
  <2>. QED
    BY <1>1, <2>1, FirstIn
<1>9. c.minPct \in Int /\ c.budget \in Int /\ c.slPct \in Int /\ c.tpPct \in Int
  BY <1>2, <1>8, HeldNumbers
<1>10. e.prevClose \in Int
  <2>0. position \in Nat \ {0} /\ position <= Len(News) /\ News[position] # Garbled
    BY <1>5 DEF SoundInv, InHand, Event
  <2>1. position \in 1..Len(News) /\ News[position] # Garbled
    <3>1. Len(News) \in Nat
      BY RulesAssumption
    <3>. QED
      BY ONLY <2>0, <3>1
  <2>2. News[position].prevClose \in Int
    BY <2>1, RulesAssumption
  <2>. QED
    BY <1>3, <2>2 DEF Event
<1>11. md.ltp \in Int /\ md.tick \in Int /\ md.prevClose \in Int /\ md.tick > 0
  BY <1>4, <1>5, RulesAssumption DEF SoundInv, InHand
<1>12. Sound(new)
  <2>1. /\ new.news = e /\ new.config = c /\ new.md = md /\ new.order = OrderRequest(e, c, md)
    OBVIOUS
  <2>. HIDE DEF new
  <2>2. LET o == OrderRequest(e, c, md)
            base == ExitBase(e, c, md)
        IN /\ c.budget > 0 => 100 * o.quantity * SizingPrice(e, c, md) <= 98 * c.budget
           /\ (o.stopLoss > 0 /\ Clear(base, c.slPct, md.tick)) => o.stopLoss < base
           /\ (o.takeProfit > 0 /\ Clear(base, c.tpPct, md.tick)) => o.takeProfit > base
    BY ONLY <1>5, <1>9, <1>10, <1>11, RequestSound
  <2>. QED
    BY ONLY <2>1, <2>2 DEF Sound
<1>. QED
  BY <1>5, <1>7, <1>12 DEF SoundInv, Sound

\* A row that is saved leaves its order as it is.
LEMMA SaveSound == ASSUME Inv, SoundInv, SaveTradeSignal PROVE SoundInv'
<1>1. /\ cons.pc = "publish" /\ cons' = [cons EXCEPT !.pending = @ \ {"save"}]
      /\ UNCHANGED <<position, flushed>>
      /\ UNCHANGED signals \/ signals' = (signals \ {Current}) \union {[Current EXCEPT !.saved = TRUE]}
  BY DEF SaveTradeSignal, Mark
<1>2. cons'.pc = "publish" /\ cons'.todo = cons.todo /\ cons'.md = cons.md
  BY <1>1 DEF Inv, Shape
<1>3. InHand'
  BY <1>1, <1>2 DEF SoundInv, InHand, Event
<1>4. PICK old : old = Current
  OBVIOUS
<1>5. old \in signals
  BY <1>1, <1>4 DEF Inv, NewestPending, Current
<1>6. Signal(old) /\ Sound(old)
  BY <1>5 DEF Inv, Shape, SoundInv
<1>7. PICK new : new = [old EXCEPT !.saved = TRUE]
  OBVIOUS
<1>8. new.news = old.news /\ new.config = old.config /\ new.md = old.md /\ new.order = old.order
  BY <1>6, <1>7 DEF Signal
<1>9. Sound(new)
  BY ONLY <1>6, <1>8 DEF Sound
<1>10. \A x \in signals' : x \in signals \/ x = new
  BY <1>1, <1>4, <1>7
<1>11. \A x \in signals' : Sound(x)
  BY <1>9, <1>10 DEF SoundInv
<1>. QED
  BY <1>3, <1>11 DEF SoundInv, Sound

\* Every step keeps what the consumer has in hand, and the signals sound.
LEMMA SoundStep == Inv /\ SoundInv /\ [Next]_vars => SoundInv'
<1>. SUFFICES ASSUME Inv, SoundInv, [Next]_vars PROVE SoundInv'
  OBVIOUS
<1>0. Shape /\ InHand
  BY DEF Inv, SoundInv
<1>1. ASSUME InHand', signals' = signals PROVE SoundInv'
  BY <1>1 DEF SoundInv, Sound
<1>2. CASE Build
  BY <1>0, <1>2, BuildSound
<1>3. CASE SaveTradeSignal
  BY <1>3, SaveSound
<1>4. CASE Fetch
  <2>1. signals' = signals /\ cons.pc = "idle" /\ position <= Len(News) /\ UNCHANGED flushed
    BY <1>4 DEF Fetch
  <2>2. CASE Commit
    BY <1>0, <1>1, <2>1, <2>2, CommitHands
  <2>3. CASE Event # Garbled /\ cons' = [Idle EXCEPT !.pc = "handle", !.attempt = 1] /\ UNCHANGED position
    <3>1. position' \in Nat \ {0} /\ flushed' \in Nat \ {0}
      BY <1>0, <2>1, <2>3 DEF InHand
    <3>. QED
      BY <1>0, <1>1, <2>1, <2>3, <3>1, HandsEmpty
  <2>. QED
    BY <1>4, <2>2, <2>3 DEF Fetch, Validate
<1>5. CASE SkipClosed
  BY <1>0, <1>1, <1>5, CommitHands DEF SkipClosed
<1>6. CASE Evaluate
  BY <1>0, <1>1, <1>6, EvaluateHands DEF Evaluate
<1>7. CASE Skip \/ Published
  BY <1>0, <1>1, <1>7, NextHands DEF Skip, Published
<1>8. CASE PublishTradeSignal
  <2>1. /\ cons.pc = "publish" /\ cons' = [cons EXCEPT !.pending = @ \ {"publish"}]
        /\ UNCHANGED <<position, flushed, signals>>
    BY <1>8 DEF PublishTradeSignal
  <2>2. cons'.pc = "publish" /\ cons'.todo = cons.todo /\ cons'.md = cons.md
    BY <1>0, <2>1 DEF Shape
  <2>3. InHand'
    BY <1>0, <2>1, <2>2 DEF InHand, Event
  <2>. QED
    BY <1>1, <2>1, <2>3
<1>9. CASE Restart
  <2>1. position' \in Nat \ {0} /\ flushed' \in Nat \ {0} /\ cons' = Idle /\ signals' = signals
    BY <1>0, <1>9 DEF Restart, InHand
  <2>. QED
    BY <1>0, <1>1, <2>1, HandsEmpty
<1>10. CASE UNCHANGED <<cons, position, flushed, signals>>
  <2>1. InHand'
    BY <1>0, <1>10 DEF InHand, Event
  <2>. QED
    BY <1>1, <1>10, <2>1
<1>11. CASE WindowPasses \/ TimePasses \/ UNCHANGED vars
  BY <1>10, <1>11 DEF WindowPasses, TimePasses, vars
<1>12. CASE \E s \in Strategies : ConfigEvent(s) \/ PauseEvent(s)
  BY <1>10, <1>12 DEF ConfigEvent, PauseEvent
<1>. QED
  BY <1>2, <1>3, <1>4, <1>5, <1>6, <1>7, <1>8, <1>9, <1>11, <1>12 DEF Next, Consumer

(***************************************************************************)
(* For all prices, ticks, percentages and budgets, and whichever snapshot, *)
(* market data and event a signal was made from: its quantity at the price *)
(* it is sized with costs at most 98% of the budget, and rounding to ticks *)
(* puts neither exit on the wrong side of its base.                        *)
(***************************************************************************)
THEOREM OrdersAreSound == Spec => []OrderSound
<1>1. SoundInv => OrderSound
  BY DEF SoundInv, Sound, OrderSound, Clear
<1>2. Init /\ [][Next]_vars => []Inv
  BY Invariance DEF Spec
<1>. QED
  BY <1>1, <1>2, SoundInit, SoundStep, PTL DEF Spec
=============================================================================
