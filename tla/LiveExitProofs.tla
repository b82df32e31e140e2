--------------------------- MODULE LiveExitProofs ---------------------------
(***************************************************************************)
(* Two ways in which a live position is closed.                            *)
(*                                                                         *)
(* The trailing stop stays behind the market, for every price of the fill  *)
(* and of the market, percentage, side and scenario; it never loosens when *)
(* one source feeds it and no restart or resize interferes; and a watched  *)
(* group has a price source unless the client resubscribes in vain.        *)
(*                                                                         *)
(* The square-off: for every number of entries of any size, every number   *)
(* of requests and every sequence of restarts and failures, no run of the  *)
(* scheduler sells a row that a run of the scheduler has sold; what was    *)
(* open at 15:05 is taken up by the close; and a position turns short only *)
(* for the causes that ShortNeedsCause names.                              *)
(***************************************************************************)
EXTENDS TrailingStop, SquareOff, TLAPS


-----------------------------------------------------------------------------
(***************************************************************************)
(* Arithmetic of roundNSE                                                  *)
(***************************************************************************)

\* Division to the nearest integer, as int64(price*100 + 0.5) does it.
LEMMA DivBounds ==
    ASSUME NEW a \in Nat, NEW b \in Nat, b > 0
    PROVE  /\ a \div b \in Nat
           /\ b * (a \div b) <= a
           /\ a < b * (a \div b) + b
BY SMT

\* p is a price that can be traded.
Multiple(p) == \E k \in Nat \ {0} : p = TickSize * k

\* A tick is five paise.
LEMMA TickType == Unit \in Nat /\ Unit > 0 /\ TickSize \in Nat /\ TickSize > 0 /\ TickSize = 5 * Unit
<1>1. Unit \in Nat \ {0}
  BY ConfigAssumption
<1>. QED
  BY ONLY <1>1 DEF TickSize

\* A price that can be traded is positive.
LEMMA MultipleType == ASSUME NEW p, Multiple(p) PROVE p \in Nat /\ p > 0
<1>1. PICK k \in Nat : k > 0 /\ p = TickSize * k
  BY DEF Multiple
<1>. QED
  BY ONLY <1>1, TickType

\* What a division leaves no remainder of.
LEMMA MultipleOf ==
    ASSUME NEW p \in Nat, p > 0, NEW u \in Nat, u > 0, p % u = 0
    PROVE  \E k \in Nat \ {0} : p = u * k
<1>1. p = u * (p \div u) + (p % u) /\ p \div u \in Nat
  BY SMT
<1>2. p \div u # 0
  BY <1>1
<1>. QED
  BY <1>1, <1>2

\* A common factor can be left out.
LEMMA Cancel ==
    ASSUME NEW u \in Nat, u > 0, NEW x \in Int, NEW y \in Int
    PROVE  /\ u * x <= u * y => x <= y
           /\ u * x < u * y => x < y
BY SMT

\* To the nearest paisa: the trigger T and the price L in paise, the highest price h in
\* units of which u make a paisa.
LEMMA NearestPaisa ==
    ASSUME NEW u \in Nat, u > 0, NEW h \in Nat, h > 0, NEW T \in Nat, NEW L \in Nat,
           NEW q, q = (2 * ((u * T) * (u * L)) + h * u) \div (2 * (h * u))
    PROVE  /\ q \in Nat
           /\ 2 * (h * q) <= 2 * (u * (T * L)) + h
           /\ 2 * (u * (T * L)) + h < 2 * (h * q) + 2 * h
<1>1. PICK X \in Nat : X = u * (T * L)
  OBVIOUS
<1>2. (u * T) * (u * L) = u * X
  BY <1>1
<1>3. PICK a \in Nat : a = 2 * (u * X) + h * u /\ a = u * (2 * X + h)
  OBVIOUS
<1>4. PICK b \in Nat : b = 2 * (h * u) /\ b = u * (2 * h) /\ b > 0
  OBVIOUS
<1>5. q = a \div b
  BY <1>2, <1>3, <1>4
<1>6. q \in Nat /\ b * q <= a /\ a < b * q + b
  BY ONLY <1>3, <1>4, <1>5, DivBounds
<1>7. PICK y \in Nat : y = h * q
  BY <1>6
<1>8. b * q = u * (2 * y) /\ b * q + b = u * (2 * y + 2 * h)
  BY <1>4, <1>6, <1>7
<1>9. u * (2 * y) <= u * (2 * X + h) /\ u * (2 * X + h) < u * (2 * y + 2 * h)
  BY <1>3, <1>6, <1>8
<1>10. 2 * y <= 2 * X + h /\ 2 * X + h < 2 * y + 2 * h
  BY ONLY <1>1, <1>7, <1>9, Cancel
<1>. QED
  BY <1>1, <1>6, <1>7, <1>10

\* For a BUY: a stop half a tick or more behind the old price is more than half a tick
\* behind the new one after the first rounding, and has not moved down.
LEMMA NearUp ==
    ASSUME NEW u \in Nat, u > 0, NEW h \in Nat, h > 0, NEW T \in Nat, NEW L \in Nat, NEW q \in Nat,
           2 * (h * q) <= 2 * (u * (T * L)) + h, 2 * (u * (T * L)) + h < 2 * (h * q) + 2 * h,
           h < u * L, 2 * (h - u * T) >= 5 * u
    PROVE  q >= T /\ q <= L - 3
<1>1. PICK X \in Nat : X = u * (T * L)
  OBVIOUS
<1>2. PICK a \in Nat : a = u * L
  OBVIOUS
<1>3. PICK b \in Nat : b = u * T
  OBVIOUS
<1>4. X = T * a /\ X = L * b
  BY <1>1, <1>2, <1>3
<1>5. q >= T
  <2>. SUFFICES ASSUME q + 1 <= T PROVE FALSE
    OBVIOUS
  <2>1. h * (q + 1) <= h * T
    OBVIOUS
  <2>2. T * h <= T * a
    BY <1>2
  <2>. QED
    BY <1>1, <1>4, <2>1, <2>2
<1>6. q <= L - 3
  <2>. SUFFICES ASSUME L <= q + 2 PROVE FALSE
    OBVIOUS
  <2>1. h * L <= h * (q + 2)
    OBVIOUS
  <2>2. L * (2 * b) <= L * (2 * h - 5 * u)
    BY <1>3
  <2>3. L * (2 * h - 5 * u) = 2 * (h * L) - 5 * a
    BY <1>2
  <2>4. 2 * X <= 2 * (h * L) - 5 * a
    BY <1>4, <2>2, <2>3
  <2>5. h * (q + 2) = h * q + 2 * h
    OBVIOUS
  <2>. QED
    BY <1>1, <1>2, <2>1, <2>4, <2>5
<1>. QED
  BY <1>5, <1>6

\* For a SELL: the mirror image, for a tick or more, while the price has not halved.
LEMMA NearDown ==
    ASSUME NEW u \in Nat, u > 0, NEW h \in Nat, h > 0, NEW T \in Nat, NEW L \in Nat, NEW q \in Nat,
           2 * (h * q) <= 2 * (u * (T * L)) + h, 2 * (u * (T * L)) + h < 2 * (h * q) + 2 * h,
           u * L < h, h < 2 * (u * L), u * T - h >= 5 * u
    PROVE  q <= T /\ q >= L + 3
<1>1. PICK X \in Nat : X = u * (T * L)
  OBVIOUS
<1>2. PICK a \in Nat : a = u * L
  OBVIOUS
<1>3. PICK b \in Nat : b = u * T
  OBVIOUS
<1>4. X = T * a /\ X = L * b
  BY <1>1, <1>2, <1>3
<1>5. q <= T
  <2>. SUFFICES ASSUME T + 1 <= q PROVE FALSE
    OBVIOUS
  <2>1. h * (T + 1) <= h * q
    OBVIOUS
  <2>2. T * a <= T * h
    BY <1>2
  <2>. QED
    BY <1>1, <1>4, <2>1, <2>2
<1>6. q >= L + 3
  <2>. SUFFICES ASSUME q <= L + 2 PROVE FALSE
    OBVIOUS
  <2>1. h * q <= h * (L + 2)
    OBVIOUS
  <2>2. L * (h + 5 * u) <= L * b
    BY <1>3
  <2>3. L * (h + 5 * u) = h * L + 5 * a
    BY <1>2
  <2>4. h * L + 5 * a <= X
    BY <1>4, <2>2, <2>3
  <2>5. h * (L + 2) = h * L + 2 * h
    OBVIOUS
  <2>. QED
    BY <1>1, <1>2, <2>1, <2>4, <2>5
<1>. QED
  BY <1>5, <1>6

\* One evaluation of a price: the new trigger is a tick or more behind that price, and
\* not behind the old trigger.
LEMMA TrailStep ==
    ASSUME NEW t, NEW h \in AllPrices, NEW l \in Prices, Multiple(t), Apart(t, h), Behind(h, l)
    PROVE  /\ Multiple(roundNSE(t * l, h))
           /\ Apart(roundNSE(t * l, h), l)
           /\ ~Behind(roundNSE(t * l, h), t)
<1>1. PICK u \in Nat : u = Unit /\ u > 0 /\ TickSize = 5 * u
  BY TickType
<1>2. PICK i \in Nat : i > 0 /\ t = (5 * u) * i
  BY <1>1 DEF Multiple
<1>3. PICK j \in Nat : j > 0 /\ l = (5 * u) * j
  <2>1. l \in Nat /\ l > 0 /\ l % TickSize = 0
    BY TickAssumption
  <2>2. \E k \in Nat \ {0} : l = TickSize * k
    BY ONLY <2>1, TickType, MultipleOf
  <2>. QED
    BY <1>1, <2>2
<1>4. h \in Nat /\ h > 0 /\ h < 2 * l
  BY TickAssumption, BandAssumption DEF AllPrices
<1>5. PICK T \in Nat : T = 5 * i
  OBVIOUS
<1>6. PICK L \in Nat : L = 5 * j
  OBVIOUS
<1>7. t = u * T /\ l = u * L
  BY <1>2, <1>3, <1>5, <1>6
<1>8. PICK q : q = (2 * ((u * T) * (u * L)) + h * u) \div (2 * (h * u))
  OBVIOUS
<1>9. /\ q \in Nat
      /\ 2 * (h * q) <= 2 * (u * (T * L)) + h
      /\ 2 * (u * (T * L)) + h < 2 * (h * q) + 2 * h
  BY ONLY <1>1, <1>4, <1>8, NearestPaisa
<1>10. PICK k \in Nat : k = (q + 2) \div 5 /\ 5 * k <= q + 2 /\ q + 2 < 5 * k + 5
  BY ONLY <1>9, DivBounds
<1>11. roundNSE(t * l, h) = (5 * u) * k
  BY <1>1, <1>7, <1>8, <1>10 DEF roundNSE
<1>12. ASSUME NEW m \in Nat, NEW n \in Nat PROVE (5 * u) * m <= (5 * u) * n <=> m <= n
  BY <1>1
<1>13. ASSUME NEW m \in Nat, NEW n \in Nat, m < n PROVE (5 * u) * n - (5 * u) * m >= 5 * u
  <2>1. (5 * u) * (m + 1) <= (5 * u) * n
    BY <1>12, <1>13
  <2>. QED
    BY <2>1
<1>14. (5 * u) * i \in Nat /\ (5 * u) * j \in Nat /\ (5 * u) * k \in Nat
  OBVIOUS
<1>15. CASE OrderSide = "BUY"
  <2>1. h < u * L /\ 2 * (h - u * T) >= 5 * u
    BY <1>1, <1>7, <1>15 DEF Behind, Apart
  <2>2. q >= T /\ q <= L - 3
    BY ONLY <1>1, <1>4, <1>9, <2>1, NearUp
  <2>3. k >= i /\ k < j
    BY <1>5, <1>6, <1>10, <2>2, <1>9
  <2>4. (5 * u) * j - (5 * u) * k >= 5 * u /\ (5 * u) * i <= (5 * u) * k /\ k > 0
    BY <1>2, <1>12, <1>13, <2>3
  <2>. QED
    <3>1. Multiple(roundNSE(t * l, h))
      BY <1>1, <1>11, <2>4 DEF Multiple
    <3>2. Apart(roundNSE(t * l, h), l) /\ ~Behind(roundNSE(t * l, h), t)
      BY <1>1, <1>2, <1>3, <1>11, <1>14, <1>15, <2>4 DEF Behind, Apart
    <3>. QED
      BY <3>1, <3>2
<1>16. CASE OrderSide = "SELL"
  <2>1. u * L < h /\ h < 2 * (u * L) /\ u * T - h >= 5 * u
    BY <1>1, <1>4, <1>7, <1>16 DEF Behind, Apart
  <2>2. q <= T /\ q >= L + 3
    BY ONLY <1>1, <1>4, <1>9, <2>1, NearDown
  <2>3. k <= i /\ j < k
    BY <1>5, <1>6, <1>10, <2>2, <1>9
  <2>4. (5 * u) * k - (5 * u) * j >= 5 * u /\ (5 * u) * k <= (5 * u) * i /\ k > 0
    BY <1>3, <1>12, <1>13, <2>3
  <2>. QED
    <3>1. Multiple(roundNSE(t * l, h))
      BY <1>1, <1>11, <2>4 DEF Multiple
    <3>2. Apart(roundNSE(t * l, h), l) /\ ~Behind(roundNSE(t * l, h), t)
      BY <1>1, <1>2, <1>3, <1>11, <1>14, <1>16, <2>4 DEF Behind, Apart
    <3>. QED
      BY <3>1, <3>2
<1>. QED
  BY <1>15, <1>16, SideAssumption

\* Apart is stronger than Behind, and holds for better prices too.
LEMMA ApartBehind ==
    ASSUME NEW a \in Int, NEW b \in Int, Apart(a, b)
    PROVE  Behind(a, b) /\ \A c \in Int : ~Behind(c, b) => Apart(a, c)
BY TickType, SideAssumption DEF Apart, Behind

\* The trigger of the placement is a price that can be traded.
LEMMA InitialMultiple == Multiple(InitialTrigger) /\ InitialTrigger \in Nat
<1>1. PICK n \in Nat : InitialTrigger = roundNSE(n, 10000)
  <2>1. EntryFillPrice \in Nat /\ SLPercent \in 1..9999
    <3>1. EntryFillPrice \in Nat
      BY TickAssumption
    <3>2. SLPercent \in 1..9999
      BY ConfigAssumption
    <3>. QED
      BY <3>1, <3>2
  <2>2. EntryFillPrice * (10000 - SLPercent) \in Nat /\ EntryFillPrice * (10000 + SLPercent) \in Nat
    BY ONLY <2>1
  <2>. QED
    BY <2>2 DEF InitialTrigger, CalculateSLFromFill
<1>2. PICK u \in Nat : u = Unit /\ u > 0 /\ TickSize = 5 * u
  BY TickType
<1>3. PICK a \in Nat : a = 2 * n + 10000 * u
  OBVIOUS
<1>4. PICK b \in Nat : b = 2 * (10000 * u) /\ b > 0
  BY <1>2
<1>5. a \div b \in Nat
  BY ONLY <1>3, <1>4, DivBounds
<1>6. PICK k \in Nat : k = ((a \div b) + 2) \div 5
  <2>1. PICK c \in Nat : c = (a \div b) + 2
    BY <1>5
  <2>2. c \div 5 \in Nat
    BY ONLY <2>1
  <2>. QED
    BY <2>1, <2>2
<1>7. InitialTrigger = TickSize * k
  BY <1>1, <1>2, <1>3, <1>4, <1>6 DEF roundNSE
<1>8. k # 0
  BY <1>2, <1>7, StopAssumption
<1>. QED
  BY <1>2, <1>7, <1>8 DEF Multiple

\* Behind is a strict order on prices.
LEMMA BehindOrder ==
    ASSUME NEW a \in Int, NEW b \in Int, NEW c \in Int, ~Behind(c, b)
    PROVE  /\ Behind(a, b) => Behind(a, c)
           /\ ~Behind(b, a) => ~Behind(c, a)
BY SideAssumption DEF Behind

\* Better picks the better of two prices.
LEMMA BetterOfTwo ==
    ASSUME NEW p \in Int, NEW q \in Int
    PROVE  /\ Better(p, q) \in {p, q}
           /\ ~Behind(Better(p, q), p)
           /\ ~Behind(Better(p, q), q)
BY SideAssumption DEF Better, Behind

-----------------------------------------------------------------------------
(***************************************************************************)
(* The inductive invariant: every trigger on its way to the broker is so   *)
(* far behind the price it was computed from that the next rounding cannot *)
(* make up the distance, and every price behind the best.                  *)
(***************************************************************************)
CallOK(c, b) ==
    \/ c = NoCall
    \/ /\ c \in Call
       /\ c.ltp \in Prices /\ Multiple(c.trigger)
       /\ Apart(c.trigger, c.ltp) /\ ~Behind(b, c.ltp)

IInv ==
    /\ best \in AllPrices /\ ~Behind(best, EntryFillPrice) /\ highest \in AllPrices
    /\ Multiple(trigger) /\ Apart(trigger, highest) /\ Behind(trigger, best)
    /\ Multiple(stop) /\ Behind(stop, best)
    /\ resize # 0 => Multiple(resize) /\ Behind(resize, best)
    /\ calls \in [Sources -> Call]
    /\ \A s \in Sources : CallOK(calls[s], best)

LEMMA PriceIsInt == \A p \in AllPrices : p \in Int /\ p > 0
BY TickAssumption DEF AllPrices

LEMMA InitIInv == StopInit => IInv
<1> SUFFICES ASSUME StopInit PROVE IInv
  OBVIOUS
<1>1. EntryFillPrice \in AllPrices
  BY DEF AllPrices
<1>2. calls \in [Sources -> Call] /\ \A s \in Sources : CallOK(calls[s], best)
  BY DEF StopInit, NoCalls, NoCall, Call, CallOK
<1>3. best \in AllPrices /\ highest \in AllPrices /\ resize = 0 /\ ~Behind(best, EntryFillPrice)
  BY <1>1, PriceIsInt DEF StopInit, Behind
<1>4. Behind(InitialTrigger, EntryFillPrice) /\ Apart(InitialTrigger, EntryFillPrice)
  BY <1>1, StopAssumption, InitialMultiple, PriceIsInt, ApartBehind
<1>5. /\ Multiple(trigger) /\ Apart(trigger, highest) /\ Behind(trigger, best)
      /\ Multiple(stop) /\ Behind(stop, best)
  BY <1>4, InitialMultiple, Zenon DEF StopInit
<1> QED
  BY <1>2, <1>3, <1>5 DEF IInv

\* A better best price keeps what was behind it behind it.
LEMMA BestMoves ==
    ASSUME IInv, NEW ltp \in Prices, best' = Better(ltp, best)
    PROVE  /\ best' \in AllPrices
           /\ ~Behind(best', best) /\ ~Behind(best', ltp)
           /\ \A p \in Int : Behind(p, best) => Behind(p, best')
           /\ \A p \in Int : ~Behind(best, p) => ~Behind(best', p)
<1>1. ltp \in AllPrices /\ best \in AllPrices
  BY DEF IInv, AllPrices
<1>2. ltp \in Int /\ best \in Int
  BY <1>1, PriceIsInt
<1>3. best' \in {ltp, best} /\ ~Behind(best', best) /\ ~Behind(best', ltp)
  BY <1>2, BetterOfTwo
<1>4. best' \in AllPrices /\ best' \in Int
  BY <1>1, <1>2, <1>3
<1>5. ASSUME NEW p \in Int PROVE (Behind(p, best) => Behind(p, best'))
                              /\ (~Behind(best, p) => ~Behind(best', p))
  BY <1>2, <1>3, <1>4, BehindOrder
<1> QED
  BY <1>3, <1>4, <1>5

\* An evaluation of a price puts a proper call in flight, or none.
LEMMA EvaluateOK ==
    ASSUME IInv, NEW ltp \in Prices, NEW source \in Sources,
           best' = Better(ltp, best), EvaluateTrailing(source, ltp)
    PROVE  /\ calls' \in [Sources -> Call]
           /\ \A s \in Sources : CallOK(calls'[s], best')
<1>1. /\ best' \in AllPrices /\ ~Behind(best', ltp)
      /\ \A p \in Int : ~Behind(best, p) => ~Behind(best', p)
  BY BestMoves
<1>2. ASSUME NEW c, CallOK(c, best) PROVE CallOK(c, best')
  <2>1. c.ltp \in Prices => c.ltp \in Int
    BY PriceIsInt DEF AllPrices
  <2> QED
    BY <1>1, <1>2, <2>1 DEF CallOK
<1>3. CASE ShouldUpdate(ltp)
  <2> DEFINE c == [trigger |-> CalculateTrailingSL(ltp), ltp |-> ltp]
  <2>1. calls' = [calls EXCEPT ![source] = c]
    BY <1>3 DEF EvaluateTrailing
  <2>2. highest \in AllPrices /\ Multiple(trigger) /\ Apart(trigger, highest)
    BY DEF IInv
  <2>3. ltp \in AllPrices /\ ltp \in Int /\ highest \in Int
    BY <2>2, PriceIsInt DEF AllPrices
  <2>4. Behind(highest, ltp)
    BY <1>3, <2>3, SideAssumption DEF ShouldUpdate, Behind
  <2>5. Multiple(c.trigger) /\ Apart(c.trigger, c.ltp)
    BY <2>2, <2>4, TrailStep DEF CalculateTrailingSL
  <2>6. ltp \in Nat
    BY TickAssumption
  <2>7. c \in Call
    BY <2>5, <2>6, MultipleType DEF Call
  <2>8. CallOK(c, best')
    BY <1>1, <2>5, <2>7 DEF CallOK
  <2> HIDE DEF c
  <2> QED
    BY <1>2, <2>1, <2>7, <2>8 DEF IInv
<1>4. CASE ~ShouldUpdate(ltp)
  BY <1>2, <1>4 DEF EvaluateTrailing, IInv
<1> QED
  BY <1>3, <1>4

LEMMA NextIInv == IInv /\ [StopNext]_stopVars => IInv'
<1> SUFFICES ASSUME IInv, [StopNext]_stopVars PROVE IInv'
  OBVIOUS
<1>0. NoCall \in Call /\ CallOK(NoCall, best)
  BY DEF NoCall, Call, CallOK
<1>1. CASE UNCHANGED <<groupVars, callVars, stop, best>>
  BY <1>1 DEF IInv, groupVars, callVars
<1>2. CASE Feed
  BY <1>1, <1>2 DEF Feed, Connect, Disconnect, RefreshGroups, groupVars, callVars
<1>3. ASSUME NEW ltp \in Prices, OnPriceUpdate(ltp) \/ PollRedis(ltp) PROVE IInv'
  <2>1. best' = Better(ltp, best) /\ UNCHANGED <<groupVars, resize, stop>>
    BY <1>3 DEF OnPriceUpdate, PollRedis
  <2>2. /\ best' \in AllPrices /\ ~Behind(best', EntryFillPrice)
        /\ \A p \in Int : Behind(p, best) => Behind(p, best')
        /\ \A p \in Int : ~Behind(best, p) => ~Behind(best', p)
    BY <2>1, BestMoves, PriceIsInt DEF IInv, AllPrices
  <2>3. ASSUME NEW c, CallOK(c, best) PROVE CallOK(c, best')
    <3>1. c.ltp \in Prices => c.ltp \in Int
      BY PriceIsInt DEF AllPrices
    <3> QED
      BY <2>2, <2>3, <3>1 DEF CallOK
  <2>4. /\ calls' \in [Sources -> Call]
        /\ \A s \in Sources : CallOK(calls'[s], best')
    <3>1. CASE EvaluateTrailing("wss", ltp) \/ EvaluateTrailing("redis", ltp)
      BY <2>1, <3>1, EvaluateOK DEF Sources
    <3>2. CASE UNCHANGED calls
      BY <2>3, <3>2 DEF IInv
    <3> QED
      BY <1>3, <3>1, <3>2 DEF OnPriceUpdate, PollRedis
  <2> QED
    BY <2>1, <2>2, <2>4, MultipleType DEF IInv, groupVars
<1>4. ASSUME NEW source \in Sources, ModifySLLeg(source) PROVE IInv'
  <2>1. /\ calls' = [calls EXCEPT ![source] = NoCall]
        /\ UNCHANGED <<resize, best>> /\ calls[source] # NoCall
    BY <1>4 DEF ModifySLLeg
  <2>2. /\ calls' \in [Sources -> Call]
        /\ \A s \in Sources : CallOK(calls'[s], best')
    BY <1>0, <2>1 DEF IInv
  <2>3. CASE UNCHANGED <<stop, trigger, highest>>
    BY <2>1, <2>2, <2>3 DEF IInv
  <2>4. CASE /\ stop' = calls[source].trigger /\ trigger' = calls[source].trigger
             /\ highest' = calls[source].ltp
    <3> DEFINE c == calls[source]
    <3>1. /\ c.ltp \in Prices /\ Multiple(c.trigger)
          /\ Apart(c.trigger, c.ltp) /\ ~Behind(best, c.ltp)
      BY <2>1 DEF IInv, CallOK
    <3>2. c.ltp \in AllPrices /\ best \in AllPrices
      BY <3>1 DEF IInv, AllPrices
    <3>3. c.ltp \in Int /\ best \in Int /\ c.trigger \in Int
      BY <3>1, <3>2, PriceIsInt, MultipleType
    <3>4. Behind(c.trigger, best)
      BY <3>1, <3>3, ApartBehind, BehindOrder
    <3> QED
      BY <2>1, <2>2, <2>4, <3>1, <3>2, <3>4 DEF IInv
  <2> QED
    BY <1>4, <2>3, <2>4 DEF ModifySLLeg
<1>5. CASE ReadTrigger
  BY <1>5 DEF ReadTrigger, IInv, groupVars
<1>6. CASE ModifyLegsQty
  BY <1>6 DEF ModifyLegsQty, IInv, groupVars
<1>7. CASE HandlePending \/ LeaveActive
  <2>1. UNCHANGED <<trigger, highest, calls, resize, stop, best>>
    BY <1>7 DEF HandlePending, LeaveActive, callVars
  <2> QED
    BY <2>1 DEF IInv
<1>8. CASE Restart
  <2>1. OrderPrice \in AllPrices /\ EntryFillPrice \in AllPrices
    BY DEF AllPrices
  <2>2. InitialTrigger \in Int /\ OrderPrice \in Int /\ EntryFillPrice \in Int
    BY <2>1, PriceIsInt, InitialMultiple
  <2>3. Apart(InitialTrigger, OrderPrice) /\ Behind(InitialTrigger, EntryFillPrice)
    BY <2>2, LimitAssumption, StopAssumption, ApartBehind
  <2>4. Behind(InitialTrigger, best)
    BY <2>2, <2>3, BehindOrder, PriceIsInt DEF IInv
  <2>5. /\ trigger' = InitialTrigger /\ highest' = OrderPrice /\ UNCHANGED <<stop, best>>
        /\ calls' = NoCalls /\ resize' = 0
    BY <1>8 DEF Restart
  <2> QED
    BY <1>0, <2>1, <2>3, <2>4, <2>5, InitialMultiple DEF IInv, NoCalls
<1> QED
  BY <1>1, <1>2, <1>3, <1>4, <1>5, <1>6, <1>7, <1>8 DEF StopNext, stopVars

(***************************************************************************)
(* For all market prices, all average prices of the fills, rounded or not, *)
(* all sides, percentages and scenarios the stop is behind the market:     *)
(* roundNSE, two price sources and Reload never put it beyond, if the stop *)
(* of the placement was half a tick (BUY) or a tick (SELL) from the fill.  *)
(***************************************************************************)
THEOREM StopStaysBehind == StopSpec => []StopBehindMarket
<1>1. IInv => StopBehindMarket
  BY ApartBehind, MultipleType, PriceIsInt DEF IInv, StopBehindMarket
<1> QED
  BY <1>1, InitIInv, NextIInv, PTL DEF StopSpec

-----------------------------------------------------------------------------
(***************************************************************************)
(* Without a second source, a resize or a restart, the order at the broker *)
(* has the group's trigger, and the call in flight does not loosen it.     *)
(***************************************************************************)
Calm == scenario \subseteq {"lost subscription", "lost resubscription"}

CalmInv ==
    Calm => /\ calls["redis"] = NoCall /\ resize = 0 /\ stop = trigger
            /\ calls["wss"] # NoCall => ~Behind(calls["wss"].trigger, trigger)

LEMMA InitCalm == StopInit => CalmInv
BY DEF StopInit, CalmInv, NoCalls, Sources

LEMMA NextCalm == IInv /\ CalmInv /\ [StopNext]_stopVars => CalmInv' /\ (Calm => ~Loosens)
<1>0. [StopNext]_stopVars => scenario' = scenario
  BY DEF StopNext, Feed, Connect, Disconnect, RefreshGroups, OnPriceUpdate, PollRedis, ModifySLLeg,
         ReadTrigger, ModifyLegsQty, HandlePending, LeaveActive, Restart, stopVars
<1> SUFFICES ASSUME IInv, CalmInv, [StopNext]_stopVars, Calm
             PROVE  CalmInv' /\ ~Loosens
  BY <1>0 DEF Calm, CalmInv
<1>1. /\ calls["redis"] = NoCall /\ resize = 0 /\ stop = trigger
      /\ calls["wss"] # NoCall => ~Behind(calls["wss"].trigger, trigger)
  BY DEF CalmInv
<1>2. "redis" \notin scenario /\ "resize" \notin scenario /\ "restart" \notin scenario
  BY DEF Calm
<1>3. CASE UNCHANGED <<trigger, calls, resize, stop>>
  BY <1>1, <1>3 DEF CalmInv, Loosens
<1>4. CASE Feed \/ HandlePending \/ LeaveActive
  BY <1>3, <1>4 DEF Feed, Connect, Disconnect, RefreshGroups, HandlePending, LeaveActive,
                   groupVars, callVars
<1>5. ASSUME NEW ltp \in Prices, OnPriceUpdate(ltp) PROVE CalmInv' /\ ~Loosens
  <2>1. UNCHANGED <<trigger, highest, resize, stop>>
    BY <1>5 DEF OnPriceUpdate, groupVars
  <2>2. CASE UNCHANGED calls
    BY <1>3, <2>1, <2>2
  <2>3. CASE ShouldUpdate(ltp) /\ EvaluateTrailing("wss", ltp)
    <3> DEFINE t == CalculateTrailingSL(ltp)
    <3>1. calls' = [calls EXCEPT !["wss"] = [trigger |-> t, ltp |-> ltp]]
      BY <2>3 DEF EvaluateTrailing
    <3>2. highest \in AllPrices /\ Multiple(trigger) /\ Apart(trigger, highest)
      BY DEF IInv
    <3>3. ltp \in Int /\ highest \in Int
      BY <3>2, PriceIsInt DEF AllPrices
    <3>4. Behind(highest, ltp)
      BY <2>3, <3>3, SideAssumption DEF ShouldUpdate, Behind
    <3>5. ~Behind(t, trigger)
      BY <3>2, <3>4, TrailStep DEF CalculateTrailingSL
    <3> HIDE DEF t
    <3>6. calls'["redis"] = NoCall /\ calls'["wss"].trigger = t
      BY <1>1, <3>1 DEF IInv, Sources
    <3> QED
      BY <1>1, <2>1, <3>5, <3>6 DEF CalmInv, Loosens
  <2> QED
    BY <1>5, <2>2, <2>3 DEF OnPriceUpdate, EvaluateTrailing
<1>6. ASSUME NEW source \in Sources, ModifySLLeg(source) PROVE CalmInv' /\ ~Loosens
  <2>1. source = "wss" /\ calls["wss"] # NoCall
    BY <1>1, <1>6 DEF ModifySLLeg, Sources
  <2>2. /\ calls' = [calls EXCEPT !["wss"] = NoCall]
        /\ resize' = resize
        /\ \/ stop' = calls["wss"].trigger /\ trigger' = calls["wss"].trigger
           \/ UNCHANGED <<stop, trigger>>
    BY <1>6, <2>1 DEF ModifySLLeg
  <2>3. calls'["redis"] = NoCall /\ calls'["wss"] = NoCall
    BY <1>1, <2>2 DEF IInv, Sources
  <2>4. resize' = 0 /\ stop' = trigger' /\ (stop' = stop \/ ~Behind(stop', stop))
    BY <1>1, <2>1, <2>2
  <2> QED
    BY <2>3, <2>4 DEF CalmInv, Loosens
<1>7. /\ ~ReadTrigger /\ ~ModifyLegsQty /\ ~Restart
      /\ \A ltp \in Prices : ~PollRedis(ltp)
  BY <1>1, <1>2 DEF ReadTrigger, ModifyLegsQty, Restart, PollRedis
<1> QED
  BY <1>3, <1>4, <1>5, <1>6, <1>7 DEF StopNext, stopVars, groupVars, callVars

(***************************************************************************)
(* For all prices and both sides, with one source and no resize or restart *)
(* the stop only moves in the direction of profit.                         *)
(***************************************************************************)
THEOREM StopOnlyTightens == StopSpec => StopNeverLoosens
<1>1. IInv /\ CalmInv /\ [StopNext]_stopVars => [Calm => ~Loosens]_stopVars
  BY NextCalm
<1> QED
  BY <1>1, InitIInv, NextIInv, InitCalm, NextCalm, PTL DEF StopSpec, StopNeverLoosens, Calm

-----------------------------------------------------------------------------
(***************************************************************************)
(* The feed.  WatchedGroupHasPrices is not inductive: a group comes to be  *)
(* watched when its token may have been subscribed long before, and a      *)
(* connection is opened while nobody may be watching.  FeedInv says what   *)
(* lies between: a token that is watched or has shown a price is           *)
(* subscribed, and a healthy connection serves one that has shown a price. *)
(***************************************************************************)
FeedInv ==
    /\ watched \/ served \/ cached => subscribed
    /\ "lost resubscription" \notin scenario /\ connected /\ cached => served

\* Steps that touch neither the subscriptions nor the connection.
LEMMA SameFeed ==
    ASSUME FeedInv, UNCHANGED <<scenario, connected, subscribed, served, cached, watched>>
    PROVE  FeedInv'
  BY DEF FeedInv

\* Every step keeps FeedInv.
LEMMA FeedStep == FeedInv /\ [StopNext]_stopVars => FeedInv'
<1> SUFFICES ASSUME FeedInv, [StopNext]_stopVars PROVE FeedInv'
  OBVIOUS
<1>1. CASE Connect
  <2>1. UNCHANGED <<scenario, subscribed, cached, watched>> /\ Subscribes(subscribed)
    BY <1>1 DEF Connect
  <2>2. (served' => subscribed) /\ (cached /\ "lost resubscription" \notin scenario => served' = subscribed)
    <3>1. \/ served' = subscribed
          \/ ~cached /\ served' = FALSE
          \/ "lost resubscription" \in scenario /\ served' = FALSE
      BY <2>1 DEF Subscribes
    <3>2. CASE served' = subscribed
      BY <3>2, Zenon
    <3>3. CASE served' = FALSE /\ (~cached \/ "lost resubscription" \in scenario)
      BY <3>3, Zenon
    <3> QED BY <3>1, <3>2, <3>3
  <2> QED BY <2>1, <2>2, Zenon DEF FeedInv
<1>2. CASE Disconnect
  BY <1>2 DEF FeedInv, Disconnect
<1>3. CASE RefreshGroups
  <2>1. /\ watched' = active /\ subscribed' = (subscribed \/ active) /\ UNCHANGED <<scenario, connected, cached>>
    BY <1>3 DEF RefreshGroups
  <2>2. CASE subscribed
    <3>1. served' = served
      BY <1>3, <2>2 DEF RefreshGroups
    <3> QED BY <2>1, <2>2, <3>1, Zenon DEF FeedInv
  <2>3. CASE ~subscribed
    <3>1. ~cached /\ ~served
      BY <2>3, Zenon DEF FeedInv
    <3>2. served' => subscribed'
      BY <1>3, <2>1, <2>3, <3>1, Zenon DEF RefreshGroups
    <3> QED BY <2>1, <3>1, <3>2, Zenon DEF FeedInv
  <2> QED BY <2>2, <2>3
<1>4. CASE Restart
  BY <1>4 DEF FeedInv, Restart
<1>5. CASE \E ltp \in Prices : OnPriceUpdate(ltp)
  <2>1. served /\ cached' = TRUE /\ UNCHANGED <<scenario, connected, subscribed, served, watched>>
    BY <1>5 DEF OnPriceUpdate
  <2> QED BY <2>1, Zenon DEF FeedInv
<1>6. CASE \/ \E ltp \in Prices : PollRedis(ltp)
           \/ \E source \in Sources : ModifySLLeg(source)
           \/ ReadTrigger \/ ModifyLegsQty \/ HandlePending \/ LeaveActive
           \/ UNCHANGED stopVars
  <2>1. UNCHANGED <<scenario, connected, subscribed, served, cached, watched>>
    BY <1>6 DEF PollRedis, ModifySLLeg, ReadTrigger, ModifyLegsQty,
       HandlePending, LeaveActive, stopVars, feedVars
  <2> QED BY <2>1, SameFeed
<1> QED
  BY <1>1, <1>2, <1>3, <1>4, <1>5, <1>6 DEF StopNext, Feed

(***************************************************************************)
(* A watched group has a price source at all times, across any number of   *)
(* reconnects, refreshes, restarts and lost subscriptions of a token that  *)
(* has shown no price yet: the connection delivers its ticks, or the poll  *)
(* of Redis is open to it.  A token that has shown a price must be         *)
(* subscribed again when the client reconnects: Redis does not cover it.   *)
(***************************************************************************)
THEOREM WatchedGroupIsFed == StopSpec => []WatchedGroupHasPrices
<1>1. StopInit => FeedInv
  BY DEF StopInit, FeedInv
<1>2. FeedInv => WatchedGroupHasPrices
  BY Zenon DEF FeedInv, WatchedGroupHasPrices
<1> QED BY <1>1, <1>2, FeedStep, PTL DEF StopSpec

-----------------------------------------------------------------------------
(***************************************************************************)
(* The square-off                                                          *)
(*                                                                         *)
(* Selling creates the square-off row first, and no action removes one, so *)
(* a query that is made later cannot find the row; what remains to be      *)
(* shown is that a run takes a row only once from its own list.  A row     *)
(* that was due still qualifies when a later run reads the rows (DueInv).  *)
(* What a closer saw in the book is so until something trades behind its   *)
(* back, and in the window the consumer has nothing to sell (ShortInv).    *)
(***************************************************************************)


todo == job["scheduler"].todo

Record(j) ==
    j = [pc |-> j.pc, kind |-> j.kind, todo |-> j.todo, book |-> j.book, since |-> j.since, now |-> j.now]

\* The closers have their records.
Shape == job = [c \in Closers |-> job[c]] /\ \A c \in Closers : Record(job[c])

\* What the scheduler has sold has a square-off row.
SoldReversed == \A r \in sold : r[1] \in reversed

\* Nothing on the scheduler's list was sold, and no row is on it twice.
ListUnsold ==
    /\ \A x \in todo : x.row \notin sold
    /\ \A x, y \in todo : x.row = y.row => x = y

Inv == Shape /\ SoldReversed /\ ListUnsold

\* The scheduler is a closer, and no request is mistaken for it.
LEMMA SchedulerCloser ==
    /\ "scheduler" \in Closers /\ "consumer" \in Closers /\ Requests \subseteq Closers
    /\ \A q \in Requests : q # "scheduler"
BY SquareOffAssumption DEF Closers

\* The closing begins and ends with an empty list.
LEMMA IdleRecord == Record(Idle) /\ Idle.todo = {} /\ Record(Over)
BY DEF Record, Idle, Over, Task

\* A query lists a row once.
LEMMA ListedOnce ==
    ASSUME NEW set
    PROVE  /\ \A x \in Listed(set) : x.row \in set
           /\ \A x, y \in Listed(set) : x.row = y.row => x = y
BY DEF Listed

\* Changing one field of a closer's record leaves a record; only Place changes its list.
LEMMA TodoOf ==
    ASSUME NEW j, Record(j), NEW v
    PROVE  /\ Record([j EXCEPT !.todo = v]) /\ [j EXCEPT !.todo = v].todo = v
           /\ Record([j EXCEPT !.since = v]) /\ [j EXCEPT !.since = v].todo = j.todo
           /\ Record([j EXCEPT !.pc = v]) /\ [j EXCEPT !.pc = v].todo = j.todo
BY DEF Record

\* The record of a run that begins.
LEMMA TaskRecord ==
    ASSUME NEW pc, NEW kind, NEW list, NEW now
    PROVE  Record(Task(pc, kind, list, now)) /\ Task(pc, kind, list, now).todo = list
BY DEF Record, Task

\* The history of other exits changes no list.
LEMMA ToldKeeps ==
    ASSUME NEW jobs, \A c \in Closers : Record(jobs[c]), NEW e, NEW by
    PROVE  /\ Told(jobs, e, by) = [c \in Closers |-> Told(jobs, e, by)[c]]
           /\ \A c \in Closers : Record(Told(jobs, e, by)[c]) /\ Told(jobs, e, by)[c].todo = jobs[c].todo
<1>. DEFINE t(c) == IF jobs[c].pc = "place" /\ \E x \in jobs[c].todo : x.row[1] = e
                    THEN [jobs[c] EXCEPT !.since = @ \union {<<e, by>>}] ELSE jobs[c]
<1>1. Told(jobs, e, by) = [c \in Closers |-> t(c)]
  BY DEF Told
<1>2. ASSUME NEW c \in Closers PROVE Record(t(c)) /\ t(c).todo = jobs[c].todo
  <2>. DEFINE v == jobs[c].since \union {<<e, by>>}
  <2>1. Record([jobs[c] EXCEPT !.since = v]) /\ [jobs[c] EXCEPT !.since = v].todo = jobs[c].todo
    BY TodoOf
  <2>2. t(c) = [jobs[c] EXCEPT !.since = v] \/ t(c) = jobs[c]
    OBVIOUS
  <2>. QED
    BY <2>1, <2>2
<1>. QED
  BY <1>1, <1>2

-----------------------------------------------------------------------------
(***************************************************************************)
(* The invariant                                                           *)
(***************************************************************************)

\* The records of all closers are kept when one closer gets another record.
LEMMA OneRecord ==
    ASSUME Shape, NEW c \in Closers, NEW j, Record(j), job' = [job EXCEPT ![c] = j]
    PROVE  Shape' /\ job'[c] = j /\ (c # "scheduler" => todo' = todo)
BY SchedulerCloser DEF Shape, todo

\* A step that sells nothing for the scheduler and leaves its list, or empties it.
LEMMA KeepsList ==
    ASSUME Inv, Shape', todo' \subseteq todo, sold' = sold, reversed \subseteq reversed'
    PROVE  Inv'
BY DEF Inv, SoldReversed, ListUnsold

\* Sell, of whichever closer: a row is added, and only the history of others changes.
LEMMA SellKeeps ==
    ASSUME NEW x, NEW jobs, NEW by, Sell(x, jobs, by),
           jobs = [c \in Closers |-> jobs[c]], \A c \in Closers : Record(jobs[c])
    PROVE  /\ Shape' /\ todo' = jobs["scheduler"].todo
           /\ reversed' = reversed \union {x.row[1]}
<1>1. reversed' = reversed \union {x.row[1]}
  BY DEF Sell
<1>2. job' = jobs \/ job' = Told(jobs, x.row[1], by)
  BY DEF Sell
<1>3. CASE job' = jobs
  BY <1>1, <1>3 DEF Shape, todo
<1>4. CASE job' = Told(jobs, x.row[1], by)
  BY <1>1, <1>4, ToldKeeps, SchedulerCloser DEF Shape, todo
<1>. QED
  BY <1>2, <1>3, <1>4

\* A list with one row less.
LEMMA LeftJobs ==
    ASSUME Shape, NEW c \in Closers, NEW x
    PROVE  LET left == [job EXCEPT ![c].todo = @ \ {x}] IN
           /\ left = [b \in Closers |-> left[b]] /\ \A b \in Closers : Record(left[b])
           /\ left["scheduler"].todo = IF c = "scheduler" THEN todo \ {x} ELSE todo
<1>. DEFINE left == [job EXCEPT ![c].todo = @ \ {x}]
<1>1. left = [job EXCEPT ![c] = [job[c] EXCEPT !.todo = job[c].todo \ {x}]]
  BY DEF Shape
<1>2. Record(job[c])
  BY DEF Shape
<1>3. /\ Record([job[c] EXCEPT !.todo = job[c].todo \ {x}])
      /\ [job[c] EXCEPT !.todo = job[c].todo \ {x}].todo = job[c].todo \ {x}
  BY <1>2, TodoOf
<1>4. left = [b \in Closers |-> left[b]] /\ \A b \in Closers : Record(left[b])
  BY <1>1, <1>3 DEF Shape
<1>5. left["scheduler"].todo = IF c = "scheduler" THEN todo \ {x} ELSE todo
  BY <1>1, <1>3, SchedulerCloser DEF Shape, todo
<1>. QED
  BY <1>4, <1>5

\* A run of the scheduler lists only entries without a square-off row.
LEMMA RunStep ==
    ASSUME Inv, NEW kind, Run(kind), UNCHANGED <<sold, reversed>>
    PROVE  Inv'
<1>1. PICK set \in {OpenOrders, {}} : Begin("scheduler", kind, set)
  BY DEF Run
<1>2. \A r \in set : r[1] \notin reversed
  BY DEF OpenOrders
<1>3. Shape' /\ todo' = Listed(set)
  <2>. DEFINE j == Task(IF set = {} THEN "place" ELSE "book", kind, Listed(set), clock)
  <2>1. job' = [job EXCEPT !["scheduler"] = j]
    BY <1>1 DEF Begin
  <2>2. Record(j) /\ j.todo = Listed(set)
    BY TaskRecord
  <2>. HIDE DEF j
  <2>. QED
    BY <2>1, <2>2, OneRecord, SchedulerCloser DEF Inv, todo
<1>4. \A r \in set : r \notin sold
  BY <1>2 DEF Inv, SoldReversed
<1>. QED
  BY <1>3, <1>4, ListedOnce DEF Inv, SoldReversed, ListUnsold


\* The list of the scheduler is empty after its run.
LEMMA ResetStep ==
    ASSUME Inv, job' = [job EXCEPT !["scheduler"] = Idle], UNCHANGED <<sold, reversed>>
    PROVE  Inv'
<1>1. Shape' /\ todo' = {}
  BY OneRecord, IdleRecord, SchedulerCloser DEF Inv, todo
<1>. QED
  BY <1>1, KeepsList

\* A row is taken from the list, and sold with a square-off row or skipped.
LEMMA PlaceStep ==
    ASSUME Inv, NEW c \in {"scheduler", "consumer"}, NEW x \in job[c].todo, Place(c, x)
    PROVE  Inv'
<1>. DEFINE left == [job EXCEPT ![c].todo = @ \ {x}]
<1>1. c \in Closers
  BY SchedulerCloser
<1>2. /\ left = [b \in Closers |-> left[b]] /\ \A b \in Closers : Record(left[b])
      /\ left["scheduler"].todo = IF c = "scheduler" THEN todo \ {x} ELSE todo
  BY <1>1, LeftJobs DEF Inv
<1>3. \/ job' = left /\ UNCHANGED <<net, reversed>>
      \/ Sell(x, left, job[c].kind)
  BY DEF Place
<1>4. sold' = IF c = "scheduler" /\ net' # net THEN sold \union {x.row} ELSE sold
  BY DEF Place
<1>. HIDE DEF left
<1>5. /\ Shape' /\ todo' = left["scheduler"].todo
      /\ reversed \subseteq reversed'
      /\ net' # net => x.row[1] \in reversed'
  <2>1. CASE job' = left /\ UNCHANGED <<net, reversed>>
    BY <1>2, <2>1 DEF Shape, todo
  <2>2. CASE Sell(x, left, job[c].kind)
    BY <1>2, <2>2, SellKeeps
  <2>. QED
    BY <1>3, <2>1, <2>2
<1>6. CASE sold' = sold
  BY <1>2, <1>5, <1>6, KeepsList
<1>7. CASE c = "scheduler" /\ net' # net /\ sold' = sold \union {x.row}
  <2>1. x \in todo /\ todo' = todo \ {x}
    BY <1>2, <1>5, <1>7 DEF todo
  <2>2. SoldReversed'
    BY <1>5, <1>7 DEF Inv, SoldReversed
  <2>3. ListUnsold'
    BY <1>7, <2>1 DEF Inv, ListUnsold
  <2>. QED
    BY <1>5, <2>2, <2>3 DEF Inv
<1>. QED
  BY <1>4, <1>6, <1>7

\* shouldSquareOff starts a run or ends the tick.
LEMMA CheckStep ==
    ASSUME Inv, NEW s, Check(s), UNCHANGED <<sold, reversed>>
    PROVE  Inv'
BY RunStep, ResetStep DEF Check

\* The steps of the scheduler between its runs.
LEMMA SchedulerStep ==
    ASSUME Inv, Tick \/ FinishUser \/ Finish \/ CatchUp \/ CatchUpUsers
    PROVE  Inv'
<1>0. UNCHANGED <<sold, reversed>>
  BY DEF Tick, FinishUser, Finish, CatchUp, CatchUpUsers, rows
<1>1. CASE Tick
  BY <1>0, <1>1, RunStep, CheckStep DEF Tick
<1>2. CASE FinishUser
  BY <1>0, <1>2, CheckStep DEF FinishUser
<1>3. CASE Finish
  BY <1>0, <1>3, ResetStep DEF Finish
<1>4. CASE UNCHANGED job
  BY <1>0, <1>4, KeepsList DEF Inv, Shape, todo
<1>5. CASE CatchUp
  BY <1>0, <1>4, <1>5, RunStep DEF CatchUp
<1>6. CASE CatchUpUsers
  BY <1>0, <1>4, <1>6, RunStep DEF CatchUpUsers
<1>. QED
  BY <1>1, <1>2, <1>3, <1>5, <1>6

\* Reading the book changes no list.
LEMMA BookStep ==
    ASSUME Inv, NEW c \in {"scheduler", "consumer"}, FetchOpenPositions(c)
    PROVE  Inv'
<1>1. UNCHANGED <<sold, reversed>> /\ c \in Closers
  BY SchedulerCloser DEF FetchOpenPositions, rows
<1>2. PICK pc, book : job' = [job EXCEPT ![c].pc = pc, ![c].book = book]
  BY DEF FetchOpenPositions
<1>. DEFINE j == [pc |-> pc, kind |-> job[c].kind, todo |-> job[c].todo, book |-> book,
                  since |-> job[c].since, now |-> job[c].now]
<1>3. Record(job[c]) /\ DOMAIN job = Closers
  BY <1>1 DEF Inv, Shape
<1>4. job'[c] = j
  BY <1>1, <1>2, <1>3 DEF Record
<1>5. job' = [job EXCEPT ![c] = j]
  BY <1>2, <1>4
<1>6. Record(j) /\ j.todo = job[c].todo
  BY DEF Record
<1>. HIDE DEF j
<1>7. Shape' /\ todo' = todo
  BY <1>1, <1>5, <1>6, OneRecord DEF Inv, todo
<1>. QED
  BY <1>1, <1>7, KeepsList

\* The consumer of strategy events and the requests have lists of their own.
LEMMA OtherCloser ==
    ASSUME Inv, NEW c \in Closers \ {"scheduler"}, NEW j, Record(j),
           job' = [job EXCEPT ![c] = j], UNCHANGED <<sold, reversed>>
    PROVE  Inv'
<1>1. Shape' /\ todo' = todo
  BY OneRecord DEF Inv
<1>. QED
  BY <1>1, KeepsList

\* closeStrategyPositions, and a force exit from its request to its end.
LEMMA OthersStep ==
    ASSUME Inv,
           \/ CloseStrategy \/ BulkCancel
           \/ \E q \in Requests : ForceExitCancel(q)
           \/ \E q \in Requests : \E scope, token : ForceExit(q, scope, token)
    PROVE  Inv'
<1>0. UNCHANGED <<sold, reversed>>
  BY DEF CloseStrategy, BulkCancel, ForceExitCancel, ForceExit, rows
<1>1. "consumer" \in Closers \ {"scheduler"} /\ \A q \in Requests : q \in Closers \ {"scheduler"}
  BY SchedulerCloser
<1>2. CASE CloseStrategy
  <2>1. PICK set : Begin("consumer", "consumer", set)
    BY <1>2 DEF CloseStrategy
  <2>. QED
    BY <1>0, <1>1, <2>1, TaskRecord, OtherCloser DEF Begin
<1>3. CASE BulkCancel
  BY <1>0, <1>1, <1>3, IdleRecord, OtherCloser DEF BulkCancel
<1>4. ASSUME NEW q \in Requests, ForceExitCancel(q) PROVE Inv'
  BY <1>0, <1>1, <1>4, IdleRecord, OtherCloser DEF ForceExitCancel
<1>5. ASSUME NEW q \in Requests, NEW scope, NEW token, ForceExit(q, scope, token) PROVE Inv'
  BY <1>0, <1>1, <1>5, TaskRecord, OtherCloser DEF ForceExit
<1>. QED
  BY <1>2, <1>3, <1>4, <1>5

\* A force exit sells rows, but none of the scheduler's list.
LEMMA ForceStep ==
    ASSUME Inv, NEW q \in Requests, NEW x, ForceExitOrder(q, x)
    PROVE  Inv'
<1>. DEFINE left == [job EXCEPT ![q].todo = @ \ {x}]
<1>1. q \in Closers /\ q # "scheduler" /\ sold' = sold
  BY SchedulerCloser DEF ForceExitOrder
<1>2. /\ left = [b \in Closers |-> left[b]] /\ \A b \in Closers : Record(left[b])
      /\ left["scheduler"].todo = todo
  BY <1>1, LeftJobs DEF Inv
<1>3. \/ job' = left /\ UNCHANGED reversed
      \/ Sell(x, left, "force")
  BY DEF ForceExitOrder
<1>. HIDE DEF left
<1>4. Shape' /\ todo' = todo /\ reversed \subseteq reversed'
  <2>1. CASE job' = left /\ UNCHANGED reversed
    BY <1>2, <2>1 DEF Shape, todo
  <2>2. CASE Sell(x, left, "force")
    BY <1>2, <2>2, SellKeeps
  <2>. QED
    BY <1>3, <2>1, <2>2
<1>. QED
  BY <1>1, <1>4, KeepsList

\* A crash empties all lists; fills, the clock and a start change none.
LEMMA OutsideStep ==
    ASSUME Inv,
           \/ \E e \in Entries : Fill(e) \/ LegFills(e)
           \/ \E t \in Times : SetConfig(t)
           \/ Advance \/ Crash \/ Start
    PROVE  Inv'
<1>0. UNCHANGED <<sold, reversed>>
  BY DEF Fill, LegFills, SetConfig, Advance, Crash, Start, rows
<1>1. CASE UNCHANGED job
  BY <1>0, <1>1, KeepsList DEF Inv, Shape, todo
<1>2. ASSUME NEW e \in Entries, NEW by, job' = Told(job, e, by) PROVE Inv'
  <2>1. Shape' /\ todo' = todo
    BY <1>2, ToldKeeps, SchedulerCloser DEF Inv, Shape, todo
  <2>. QED
    BY <1>0, <2>1, KeepsList
<1>3. CASE Crash
  <2>1. job' = [c \in Closers |-> IF c \in Requests /\ job[c].pc # "idle" THEN Over ELSE Idle]
    BY <1>3 DEF Crash
  <2>2. Shape' /\ todo' = {}
    BY <2>1, IdleRecord, SchedulerCloser DEF Shape, todo
  <2>. QED
    BY <1>0, <2>2, KeepsList
<1>. QED
  BY <1>1, <1>2, <1>3 DEF Fill, LegFills, SetConfig, Advance, Start

\* At first nothing is sold and no list has a row.
LEMMA InitInv == Init => Inv
BY IdleRecord, SchedulerCloser DEF Init, Inv, Shape, SoldReversed, ListUnsold, todo

\* Every step keeps the invariant.
LEMMA NextInv == Inv /\ [Next]_vars => Inv'
<1>. SUFFICES ASSUME Inv, [Next]_vars PROVE Inv'
  OBVIOUS
<1>1. CASE UNCHANGED vars
  BY <1>1, KeepsList DEF vars, rows, Inv, Shape, todo
<1>2. ASSUME NEW c \in {"scheduler", "consumer"},
             FetchOpenPositions(c) \/ \E x \in job[c].todo : Place(c, x)
      PROVE  Inv'
  BY <1>2, BookStep, PlaceStep
<1>3. ASSUME NEW q \in Requests, \E x \in job[q].todo : ForceExitOrder(q, x) PROVE Inv'
  BY <1>3, ForceStep
<1>. QED
  BY <1>1, <1>2, <1>3, SchedulerStep, OthersStep, OutsideStep DEF Next

(***************************************************************************)
(* However many entries and restarts there are, and whichever rows, books  *)
(* and orders fail, the runs of the scheduler for a user, at 15:05 and     *)
(* after a start sell a row once.                                          *)
(***************************************************************************)
THEOREM SchedulerSellsOnce == Spec => SchedulerClosesOnce
<1>1. Inv => \A x \in job["scheduler"].todo \ job'["scheduler"].todo : net' # net => x.row \notin sold
  BY DEF Inv, ListUnsold, todo
<1>. QED
  BY <1>1, InitInv, NextInv, PTL DEF Spec, SchedulerClosesOnce

-----------------------------------------------------------------------------
(***************************************************************************)
(* What was open at 15:05                                                  *)
(***************************************************************************)

Me == job["scheduler"]

\* An exit order that has not traded has quantity 0, so what has traded stays traded.
MarketInv ==
    /\ filled \in [Entries -> Nat]
    /\ leg \in [Entries -> [state : {"none", "working", "filled", "cancelled"}, qty : Nat]]
    /\ \A e \in Entries : leg[e].state = "filled" \/ leg[e].qty = 0

ClockInv ==
    /\ clock \in Trading..Closed
    /\ sched = [pc |-> sched.pc, tick |-> sched.tick, ran |-> sched.ran, userRan |-> sched.userRan]

\* A run is accounted for once 15:05 is over, except between a start and its catch-up;
\* and there is none before.
OutcomeInv ==
    /\ clock = Closed \/ (clock > SquareOffTime /\ up /\ sched.pc # "start") => outcome # "none"
    /\ clock < SquareOffTime => outcome # "served"

\* Between its runs, and while the process is down, the scheduler has no list.
ListInv == ~up \/ sched.pc \in {"wait", "users", "start"} \/ Me.pc = "idle" => Me.todo = {}

\* The rows that were due still qualify, but for what other closers did with them.
DueOpen == \A r \in due : r \in Rows /\ Traded(r) > 0 /\ r[1] \in Intraday

Covered(r) == r \in cancelled \union exited \/ r[1] \in reversed
OnList(r) == Me.kind = "global" /\ \E x \in Me.todo : x.row = r

\* After a run at 15:05 has read the rows, those due are on its list or covered.
ServedInv == outcome = "served" => \A r \in due : Covered(r) \/ OnList(r)

DueInv == ClockInv /\ OutcomeInv /\ ListInv /\ DueOpen /\ ServedInv

USE DEF Trading, Window, SquareOffTime, WindowEnd, Late, Closed

\* All but the history of a closer's record.
Same(j, k) == j.pc = k.pc /\ j.kind = k.kind /\ j.todo = k.todo /\ j.book = k.book

\* Told changes the history of those that have e to close, and nothing else.
LEMMA ToldSame ==
    ASSUME NEW jobs, \A c \in Closers : Record(jobs[c]), NEW e, NEW by, NEW c \in Closers
    PROVE  LET t == Told(jobs, e, by)[c] IN
           /\ Same(t, jobs[c]) /\ jobs[c].since \subseteq t.since /\ t.since \subseteq jobs[c].since \union {<<e, by>>}
           /\ jobs[c].pc = "place" /\ (\E x \in jobs[c].todo : x.row[1] = e) => <<e, by>> \in t.since
           /\ ~(\E x \in jobs[c].todo : x.row[1] = e) => t.since = jobs[c].since
<1>. DEFINE t == Told(jobs, e, by)[c]
            v == jobs[c].since \union {<<e, by>>}
            new == [jobs[c] EXCEPT !.since = v]
            on == \E x \in jobs[c].todo : x.row[1] = e
<1>1. t = IF jobs[c].pc = "place" /\ on THEN new ELSE jobs[c]
  BY DEF Told
<1>2. Same(new, jobs[c]) /\ new.since = v
  BY DEF Record, Same
<1>3. Same(jobs[c], jobs[c])
  BY DEF Same
<1>. HIDE DEF new, t, on
<1>4. CASE jobs[c].pc = "place" /\ on
  BY <1>1, <1>2, <1>4 DEF t, on
<1>5. CASE ~(jobs[c].pc = "place" /\ on)
  BY <1>1, <1>3, <1>5 DEF t, on
<1>. QED
  BY <1>4, <1>5

\* A row is taken from one list.
LEMMA LeftSame ==
    ASSUME Shape, NEW c \in Closers, NEW x
    PROVE  LET left == [job EXCEPT ![c].todo = @ \ {x}] IN
           /\ \A b \in Closers : /\ left[b].pc = job[b].pc /\ left[b].kind = job[b].kind
                                 /\ left[b].book = job[b].book /\ left[b].since = job[b].since
           /\ left[c].todo = job[c].todo \ {x}
           /\ \A b \in Closers \ {c} : left[b] = job[b]
<1>. DEFINE left == [job EXCEPT ![c].todo = @ \ {x}]
            new == [job[c] EXCEPT !.todo = @ \ {x}]
<1>1. left[c] = new /\ \A b \in Closers \ {c} : left[b] = job[b]
  BY DEF Shape
<1>2. Record(job[c])
  BY DEF Shape
<1>3. /\ new.pc = job[c].pc /\ new.kind = job[c].kind /\ new.book = job[c].book /\ new.since = job[c].since
      /\ new.todo = job[c].todo \ {x}
  BY <1>2 DEF Record
<1>. HIDE DEF left, new
<1>. QED
  BY <1>1, <1>3 DEF left

\* A sale changes the books of the broker and the history of those that have e to close.
LEMMA SellSame ==
    ASSUME NEW x, NEW jobs, NEW by, Sell(x, jobs, by), \A c \in Closers : Record(jobs[c])
    PROVE  /\ reversed \subseteq reversed'
           /\ \A c \in Closers :
                 /\ Same(job'[c], jobs[c]) /\ jobs[c].since \subseteq job'[c].since
                 /\ job'[c].since \subseteq jobs[c].since \union {<<x.row[1], by>>}
                 /\ ~(\E y \in jobs[c].todo : y.row[1] = x.row[1]) => job'[c].since = jobs[c].since
           /\ \/ net' = net
              \/ /\ net' = Reverse(x.row, x.qty)
                 /\ \A c \in Closers : jobs[c].pc = "place" /\ (\E y \in jobs[c].todo : y.row[1] = x.row[1])
                                           => <<x.row[1], by>> \in job'[c].since
<1>1. reversed \subseteq reversed'
  BY DEF Sell
<1>2. CASE net' = Reverse(x.row, x.qty) /\ job' = Told(jobs, x.row[1], by)
  BY <1>1, <1>2, ToldSame
<1>3. CASE job' = jobs /\ net' = net
  BY <1>1, <1>3 DEF Same
<1>. QED
  BY <1>2, <1>3 DEF Sell

\* What has traded stays traded.
Grows == \A r \in Rows : Traded(r) > 0 => (Traded(r))' > 0

LEMMA MarketInit == Init => MarketInv
BY DEF Init, MarketInv

LEMMA FillMarket ==
    ASSUME MarketInv, NEW e \in Entries, Fill(e)
    PROVE  MarketInv' /\ Grows /\ \A f \in Entries : filled[f] <= filled'[f]
<1>1. filled' = [filled EXCEPT ![e] = @ + 1]
  BY DEF Fill
<1>2. leg' = leg \/ (leg[e].state = "none" /\ leg' = [leg EXCEPT ![e].state = "working"])
  BY DEF Fill
<1>3. filled' \in [Entries -> Nat] /\ \A f \in Entries : filled[f] <= filled'[f]
  BY <1>1 DEF MarketInv
<1>4. /\ leg' \in [Entries -> [state : {"none", "working", "filled", "cancelled"}, qty : Nat]]
      /\ \A f \in Entries : leg'[f].qty = leg[f].qty /\ (leg'[f].state = "filled" \/ leg'[f].qty = 0)
  <2>1. CASE leg' = leg
    BY <2>1 DEF MarketInv
  <2>2. CASE leg[e].state = "none" /\ leg' = [leg EXCEPT ![e].state = "working"]
    BY <2>2 DEF MarketInv
  <2>. QED
    BY <1>2, <2>1, <2>2
<1>5. Grows
  <2>. SUFFICES ASSUME NEW r \in Rows, Traded(r) > 0 PROVE (Traded(r))' > 0
    BY DEF Grows
  <2>1. r[1] \in Entries
    BY DEF Rows
  <2>2. filled[r[1]] <= filled'[r[1]] /\ leg'[r[1]].qty = leg[r[1]].qty /\ filled[r[1]] \in Nat /\ filled'[r[1]] \in Nat
    BY <1>3, <1>4, <2>1 DEF MarketInv
  <2>. QED
    BY <2>2 DEF Traded
<1>. QED
  BY <1>3, <1>4, <1>5 DEF MarketInv

LEMMA LegMarket ==
    ASSUME MarketInv, NEW e \in Entries, LegFills(e)
    PROVE  MarketInv' /\ Grows
<1>1. /\ filled' = filled /\ leg[e].state = "working"
      /\ leg' = [leg EXCEPT ![e] = [state |-> "filled", qty |-> filled[e]]]
  BY DEF LegFills
<1>2. leg[e].qty = 0
  BY <1>1 DEF MarketInv
<1>3. MarketInv'
  BY <1>1 DEF MarketInv
<1>4. Grows
  <2>. SUFFICES ASSUME NEW r \in Rows, Traded(r) > 0 PROVE (Traded(r))' > 0
    BY DEF Grows
  <2>1. r[1] \in Entries
    BY DEF Rows
  <2>2. r[1] # e => leg'[r[1]] = leg[r[1]]
    BY <1>1, <2>1 DEF MarketInv
  <2>. QED
    BY <1>1, <1>2, <2>2 DEF Traded
<1>. QED
  BY <1>3, <1>4

LEMMA CancelMarket ==
    ASSUME MarketInv, NEW set, NEW entries, CancelAtBroker(set, entries), filled' = filled
    PROVE  MarketInv' /\ Grows
<1>. DEFINE l(e) == IF e \in set /\ Managed[e] = "OCO" /\ leg[e].state = "working"
                    THEN [leg[e] EXCEPT !.state = "cancelled"] ELSE leg[e]
<1>1. leg' = [e \in Entries |-> l(e)]
  BY DEF CancelAtBroker
<1>2. ASSUME NEW e \in Entries
      PROVE  /\ l(e) \in [state : {"none", "working", "filled", "cancelled"}, qty : Nat] /\ l(e).qty = leg[e].qty
             /\ l(e).state = "filled" \/ l(e).qty = 0
  BY DEF MarketInv
<1>. HIDE DEF l
<1>3. MarketInv'
  BY <1>1, <1>2 DEF MarketInv
<1>4. \A r \in Rows : (Traded(r))' = Traded(r)
  BY <1>1, <1>2 DEF Traded, Rows
<1>. QED
  BY <1>3, <1>4 DEF Grows

LEMMA MarketStep ==
    ASSUME MarketInv, [Next]_vars
    PROVE  MarketInv' /\ Grows
<1>1. CASE UNCHANGED <<filled, leg>>
  BY <1>1 DEF MarketInv, Grows, Traded
<1>2. ASSUME NEW e \in Entries, Fill(e) \/ LegFills(e) PROVE MarketInv' /\ Grows
  BY <1>2, FillMarket, LegMarket
<1>3. CASE CloseStrategy
  BY <1>3, CancelMarket DEF CloseStrategy
<1>4. ASSUME NEW q \in Requests, ForceExitCancel(q) PROVE MarketInv' /\ Grows
  BY <1>4, CancelMarket DEF ForceExitCancel
<1>5. ASSUME NEW c \in {"scheduler", "consumer"}, FetchOpenPositions(c) \/ \E x \in job[c].todo : Place(c, x)
      PROVE  UNCHANGED <<filled, leg>>
  BY <1>5 DEF FetchOpenPositions, Place, market
<1>6. CASE \/ Tick \/ FinishUser \/ Finish \/ CatchUp \/ CatchUpUsers
           \/ \E t \in Times : SetConfig(t)
           \/ BulkCancel \/ Advance \/ Crash \/ Start \/ UNCHANGED vars
  BY <1>1, <1>6 DEF Tick, FinishUser, Finish, CatchUp, CatchUpUsers, SetConfig, BulkCancel, Advance, Crash, Start,
                    vars, market
<1>7. ASSUME NEW q \in Requests,
             (\E x \in job[q].todo : ForceExitOrder(q, x)) \/ \E scope, token : ForceExit(q, scope, token)
      PROVE  UNCHANGED <<filled, leg>>
  BY <1>7 DEF ForceExitOrder, ForceExit, market
<1>. QED
  BY <1>1, <1>2, <1>3, <1>4, <1>5, <1>6, <1>7 DEF Next

\* Rows that are covered stay so.
RowsGrow == cancelled \subseteq cancelled' /\ exited \subseteq exited' /\ reversed \subseteq reversed'

LEMMA DueInit == Init => DueInv
BY SchedulerCloser, IdleRecord DEF Init, DueInv, ClockInv, OutcomeInv, ListInv, DueOpen, ServedInv, Me

\* A row may leave the list of the scheduler if it is not due any more.
LEMMA DueQuiet ==
    ASSUME DueInv, Grows, RowsGrow, UNCHANGED <<clock, up, sched, outcome>>, due' \subseteq due,
           Me'.kind = Me.kind, Me'.pc = "idle" => Me.pc = "idle", Me'.todo \subseteq Me.todo,
           \A x \in Me.todo : x \in Me'.todo \/ x.row \notin due'
    PROVE  DueInv'
<1>1. ClockInv' /\ OutcomeInv' /\ ListInv'
  BY DEF DueInv, ClockInv, OutcomeInv, ListInv
<1>2. DueOpen'
  BY DEF DueInv, DueOpen, Grows
<1>3. ServedInv'
  <2>. SUFFICES ASSUME outcome = "served", NEW r \in due' PROVE (Covered(r))' \/ (OnList(r))'
    BY DEF ServedInv
  <2>1. Covered(r) \/ OnList(r)
    BY DEF DueInv, ServedInv
  <2>2. CASE Covered(r)
    BY <2>2 DEF Covered, RowsGrow
  <2>3. CASE OnList(r)
    BY <2>3 DEF OnList
  <2>. QED
    BY <2>1, <2>2, <2>3
<1>. QED
  BY <1>1, <1>2, <1>3 DEF DueInv

\* The steps of other closers and of the broker leave the scheduler's list as it is.
LEMMA DueOthers ==
    ASSUME Inv, DueInv, Grows, NEW c \in Closers \ {"scheduler"}, NEW j, job' = [job EXCEPT ![c] = j],
           RowsGrow, UNCHANGED <<clock, up, sched, outcome, due>>
    PROVE  DueInv'
<1>1. Me' = Me
  BY SchedulerCloser DEF Inv, Shape, Me
<1>. QED
  BY <1>1, DueQuiet

LEMMA DueTold ==
    ASSUME Inv, DueInv, Grows, NEW e, NEW by, job' = Told(job, e, by),
           RowsGrow, UNCHANGED <<clock, up, sched, outcome, due>>
    PROVE  DueInv'
<1>1. Same(Me', Me)
  BY SchedulerCloser, ToldSame DEF Inv, Shape, Me
<1>. QED
  BY <1>1, DueQuiet DEF Same

\* Reading the book.
LEMMA DueBook ==
    ASSUME Inv, DueInv, Grows, NEW c \in {"scheduler", "consumer"}, FetchOpenPositions(c)
    PROVE  DueInv'
<1>1. RowsGrow /\ UNCHANGED <<clock, up, sched, outcome, due>>
  BY DEF FetchOpenPositions, rows, history, RowsGrow
<1>2. PICK pc \in {"place", "place unbooked"}, book \in SUBSET Entries :
         job' = [job EXCEPT ![c].pc = pc, ![c].book = book]
  BY DEF FetchOpenPositions
<1>3. Me'.kind = Me.kind /\ Me'.todo = Me.todo /\ (Me'.pc = Me.pc \/ Me'.pc = pc)
  <2>1. CASE c = "scheduler"
    <3>1. Record(Me) /\ Me' = [Me EXCEPT !.pc = pc, !.book = book]
      BY <1>2, <2>1, SchedulerCloser DEF Inv, Shape, Me
    <3>. QED
      BY <3>1 DEF Record
  <2>2. CASE c # "scheduler"
    BY <1>2, <2>2, SchedulerCloser DEF Inv, Shape, Me
  <2>. QED
    BY <2>1, <2>2
<1>. QED
  BY <1>1, <1>3, DueQuiet

\* A row is sold or skipped: the scheduler's is then no longer due.
LEMMA DuePlace ==
    ASSUME Inv, DueInv, Grows, NEW c \in {"scheduler", "consumer"}, NEW x \in job[c].todo, Place(c, x)
    PROVE  DueInv'
<1>. DEFINE left == [job EXCEPT ![c].todo = @ \ {x}]
<1>0. c \in Closers /\ "scheduler" \in Closers
  BY SchedulerCloser
<1>1. \A b \in Closers : Record(left[b])
  BY <1>0, LeftJobs DEF Inv
<1>2. /\ left["scheduler"].pc = Me.pc /\ left["scheduler"].kind = Me.kind
      /\ left["scheduler"].todo = IF c = "scheduler" THEN Me.todo \ {x} ELSE Me.todo
  BY <1>0, LeftSame DEF Inv, Me
<1>3. \/ job' = left /\ UNCHANGED <<net, reversed>>
      \/ Sell(x, left, job[c].kind)
  BY DEF Place
<1>. HIDE DEF left
<1>4. Same(Me', left["scheduler"]) /\ reversed \subseteq reversed'
  <2>1. CASE job' = left /\ UNCHANGED <<net, reversed>>
    BY <2>1 DEF Me, Same
  <2>2. CASE Sell(x, left, job[c].kind)
    BY <1>0, <1>1, <2>2, SellSame DEF Me
  <2>. QED
    BY <1>3, <2>1, <2>2
<1>5. /\ UNCHANGED <<clock, up, sched, outcome, cancelled, exited>>
      /\ due' = IF c = "scheduler" THEN due \ {x.row} ELSE due
  BY DEF Place
<1>6. RowsGrow
  BY <1>4, <1>5 DEF RowsGrow
<1>7. /\ Me'.kind = Me.kind /\ Me'.pc = Me.pc /\ Me'.todo = IF c = "scheduler" THEN Me.todo \ {x} ELSE Me.todo
  BY <1>2, <1>4 DEF Same
<1>. QED
  BY <1>5, <1>6, <1>7, DueQuiet

\* A force exit marks and sells rows.
LEMMA DueForce ==
    ASSUME Inv, DueInv, Grows, NEW q \in Requests, NEW x, ForceExitOrder(q, x)
    PROVE  DueInv'
<1>. DEFINE left == [job EXCEPT ![q].todo = @ \ {x}]
<1>0. q \in Closers /\ q # "scheduler" /\ "scheduler" \in Closers
  BY SchedulerCloser
<1>1. \A b \in Closers : Record(left[b])
  BY <1>0, LeftJobs DEF Inv
<1>2. left["scheduler"] = Me
  BY <1>0, LeftSame DEF Inv, Me
<1>3. \/ job' = left /\ UNCHANGED <<net, reversed>>
      \/ Sell(x, left, "force")
  BY DEF ForceExitOrder
<1>. HIDE DEF left
<1>4. Same(Me', Me) /\ reversed \subseteq reversed'
  <2>1. CASE job' = left /\ UNCHANGED <<net, reversed>>
    BY <1>2, <2>1 DEF Me, Same
  <2>2. CASE Sell(x, left, "force")
    BY <1>0, <1>1, <1>2, <2>2, SellSame DEF Me
  <2>. QED
    BY <1>3, <2>1, <2>2
<1>5. UNCHANGED <<clock, up, sched, outcome, due>> /\ cancelled \subseteq cancelled' /\ exited \subseteq exited'
  BY DEF ForceExitOrder, history
<1>6. RowsGrow
  BY <1>4, <1>5 DEF RowsGrow
<1>. QED
  BY <1>4, <1>5, <1>6, DueQuiet DEF Same

\* Everything but the scheduler, the clock, a crash and a start.
LEMMA DueEnvironment ==
    ASSUME Inv, DueInv, Grows,
           \/ \E e \in Entries : Fill(e) \/ LegFills(e)
           \/ \E t \in Times : SetConfig(t)
           \/ CloseStrategy \/ BulkCancel
           \/ \E q \in Requests : ForceExitCancel(q)
           \/ \E q \in Requests : \E scope, token : ForceExit(q, scope, token)
           \/ UNCHANGED vars
    PROVE  DueInv'
<1>0. RowsGrow /\ UNCHANGED <<clock, up, sched, outcome, due>>
  BY DEF Fill, LegFills, SetConfig, CloseStrategy, BulkCancel, ForceExitCancel, ForceExit, vars, rows, history, RowsGrow
<1>1. "consumer" \in Closers \ {"scheduler"} /\ \A q \in Requests : q \in Closers \ {"scheduler"}
  BY SchedulerCloser
<1>2. ASSUME NEW e \in Entries, Fill(e) \/ LegFills(e) PROVE DueInv'
  BY <1>0, <1>2, DueTold DEF Fill, LegFills
<1>3. CASE CloseStrategy
  BY <1>0, <1>1, <1>3, DueOthers DEF CloseStrategy, Begin
<1>4. CASE BulkCancel
  BY <1>0, <1>1, <1>4, DueOthers DEF BulkCancel
<1>5. ASSUME NEW q \in Requests, ForceExitCancel(q) PROVE DueInv'
  BY <1>0, <1>1, <1>5, DueOthers DEF ForceExitCancel
<1>6. ASSUME NEW q \in Requests, NEW scope, NEW token, ForceExit(q, scope, token) PROVE DueInv'
  BY <1>0, <1>1, <1>6, DueOthers DEF ForceExit
<1>7. CASE job' = job
  BY <1>0, <1>7, DueQuiet DEF Me
<1>. QED
  BY <1>2, <1>3, <1>4, <1>5, <1>6, <1>7 DEF SetConfig, vars

SchedRecord(s) == s = [pc |-> s.pc, tick |-> s.tick, ran |-> s.ran, userRan |-> s.userRan]

\* A run begins after the list is empty; the run at 15:05 lists what is due and not covered.
LEMMA DueRun ==
    ASSUME Inv, DueInv, Me.todo = {}, up, NEW kind \in {"user", "global"}, Run(kind),
           UNCHANGED <<clock, up, market, rows, due>>,
           SchedRecord(sched'), sched'.pc \notin {"wait", "users", "start"},
           kind = "global" => clock >= SquareOffTime, kind = "user" => sched.pc # "start"
    PROVE  DueInv'
<1>1. PICK set \in {OpenOrders, {}} :
         /\ Begin("scheduler", kind, set)
         /\ kind = "user" => outcome' = outcome
         /\ kind = "global" => (outcome' = "served" /\ set = OpenOrders) \/ outcome' = "unread"
  BY DEF Run
<1>2. Me'.kind = kind /\ Me'.todo = Listed(set) /\ Me'.pc # "idle"
  BY <1>1, SchedulerCloser DEF Begin, Task, Inv, Shape, Me
<1>3. UNCHANGED <<filled, leg, cancelled, exited, reversed>>
  BY DEF market, rows
<1>4. ClockInv' /\ ListInv'
  BY <1>2 DEF DueInv, ClockInv, ListInv, SchedRecord
<1>5. OutcomeInv'
  BY <1>1 DEF DueInv, ClockInv, OutcomeInv
<1>6. DueOpen'
  BY <1>3 DEF DueInv, DueOpen, Traded
<1>7. ServedInv'
  <2>. SUFFICES ASSUME outcome' = "served", NEW r \in due PROVE (Covered(r))' \/ (OnList(r))'
    BY DEF ServedInv
  <2>1. CASE kind = "global"
    <3>1. r \in Rows /\ Traded(r) > 0 /\ r[1] \in Intraday
      BY DEF DueInv, DueOpen
    <3>2. Covered(r) \/ r \in OpenOrders
      BY <3>1 DEF OpenOrders, Covered
    <3>3. CASE r \in OpenOrders
      <4>1. [row |-> r, qty |-> Traded(r)] \in Me'.todo
        BY <1>1, <1>2, <2>1, <3>3 DEF Listed
      <4>. QED
        BY <1>2, <2>1, <4>1 DEF OnList
    <3>. QED
      BY <1>3, <3>2, <3>3 DEF Covered
  <2>2. CASE kind = "user"
    <3>1. outcome = "served"
      BY <1>1, <2>2
    <3>2. Covered(r)
      BY <3>1 DEF DueInv, ServedInv, OnList
    <3>. QED
      BY <1>3, <3>2 DEF Covered
  <2>. QED
    BY <2>1, <2>2
<1>. QED
  BY <1>4, <1>5, <1>6, <1>7 DEF DueInv

\* The scheduler goes on without a run, or has ended one.
LEMMA DueIdle ==
    ASSUME Inv, DueInv, Me.todo = {}, Me'.todo = {},
           UNCHANGED <<clock, up, outcome, market, rows, due>>, SchedRecord(sched'),
           sched.pc # "start" \/ clock \in {Trading, Window, SquareOffTime, Closed}
    PROVE  DueInv'
<1>1. UNCHANGED <<filled, leg, cancelled, exited, reversed>>
  BY DEF market, rows
<1>2. ClockInv' /\ ListInv'
  BY DEF DueInv, ClockInv, ListInv, SchedRecord
<1>3. OutcomeInv'
  BY DEF DueInv, ClockInv, OutcomeInv
<1>4. DueOpen'
  BY <1>1 DEF DueInv, DueOpen, Traded
<1>5. ServedInv'
  BY <1>1 DEF DueInv, ServedInv, OnList, Covered
<1>. QED
  BY <1>2, <1>3, <1>4, <1>5 DEF DueInv

\* The scheduler's record is Idle.
LEMMA MeIdle == ASSUME Inv, job' = [job EXCEPT !["scheduler"] = Idle] PROVE Me'.todo = {}
BY SchedulerCloser, IdleRecord DEF Inv, Shape, Me

\* shouldSquareOff, after the users.
LEMMA DueCheck ==
    ASSUME Inv, DueInv, Me.todo = {}, up, NEW s, SchedRecord(s), Check(s), sched.pc # "start",
           UNCHANGED <<clock, up, market, rows, due>>
    PROVE  DueInv'
<1>1. CASE clock = SquareOffTime /\ ~s.ran
  <2>1. Run("global") /\ sched' = [s EXCEPT !.pc = "global", !.ran = TRUE]
    BY <1>1 DEF Check
  <2>2. SchedRecord(sched') /\ sched'.pc = "global"
    BY <2>1 DEF SchedRecord
  <2>. QED
    BY <1>1, <2>1, <2>2, DueRun
<1>2. CASE ~(clock = SquareOffTime /\ ~s.ran)
  <2>1. sched' = [s EXCEPT !.pc = "wait"] /\ job' = [job EXCEPT !["scheduler"] = Idle] /\ UNCHANGED outcome
    BY <1>2 DEF Check
  <2>2. SchedRecord(sched')
    BY <2>1 DEF SchedRecord
  <2>. QED
    BY <2>1, <2>2, DueIdle, MeIdle
<1>. QED
  BY <1>1, <1>2

\* The steps of the scheduler.
LEMMA DueScheduler ==
    ASSUME Inv, DueInv, Tick \/ FinishUser \/ Finish \/ CatchUp \/ CatchUpUsers
    PROVE  DueInv'
<1>0. SchedRecord(sched)
  BY DEF DueInv, ClockInv, SchedRecord
<1>1. CASE Tick
  <2>0. sched.pc = "wait" /\ up /\ Me.todo = {} /\ UNCHANGED <<clock, up, market, rows, due>>
    BY <1>1 DEF Tick, DueInv, ListInv
  <2>1. PICK s : s = [sched EXCEPT !.tick = FALSE]
    OBVIOUS
  <2>2. SchedRecord(s)
    BY <1>0, <2>1 DEF SchedRecord
  <2>3. CASE Check(s)
    BY <2>0, <2>2, <2>3, DueCheck
  <2>4. CASE sched' = [s EXCEPT !.pc = "user", !.userRan = @ \union {clock}] /\ Run("user")
    <3>1. SchedRecord(sched') /\ sched'.pc = "user"
      BY <2>2, <2>4 DEF SchedRecord
    <3>. QED
      BY <2>0, <2>4, <3>1, DueRun
  <2>. QED
    BY <1>1, <2>1, <2>3, <2>4 DEF Tick
<1>2. CASE FinishUser
  <2>1. Me.todo = {} /\ Check(sched) /\ sched.pc = "user" /\ up /\ UNCHANGED <<clock, up, market, rows, due>>
    BY <1>2 DEF FinishUser, Done, Me
  <2>. QED
    BY <1>0, <2>1, DueCheck
<1>3. CASE Finish
  <2>1. /\ Me.todo = {} /\ job' = [job EXCEPT !["scheduler"] = Idle]
        /\ sched.pc # "start" /\ UNCHANGED <<clock, up, outcome, market, rows, due>>
        /\ sched' = [sched EXCEPT !.pc = IF @ = "global" THEN "wait" ELSE "users"]
    BY <1>3 DEF Finish, Done, Me, history
  <2>2. SchedRecord(sched')
    BY <1>0, <2>1 DEF SchedRecord
  <2>. QED
    BY <2>1, <2>2, DueIdle, MeIdle
<1>4. CASE CatchUp
  <2>0. up /\ sched.pc = "start" /\ Me.todo = {} /\ UNCHANGED <<clock, up, market, rows, due>>
    BY <1>4 DEF CatchUp, DueInv, ListInv
  <2>1. CASE clock \in {WindowEnd, Late}
    <3>1. Run("global") /\ sched' = [sched EXCEPT !.pc = "catch up", !.ran = TRUE]
      BY <1>4, <2>1 DEF CatchUp
    <3>2. SchedRecord(sched') /\ sched'.pc = "catch up"
      BY <1>0, <3>1 DEF SchedRecord
    <3>. QED
      BY <2>0, <2>1, <3>1, <3>2, DueRun
  <2>2. CASE clock \notin {WindowEnd, Late}
    <3>1. sched' = [sched EXCEPT !.pc = "users", !.ran = clock = Closed] /\ UNCHANGED <<job, outcome>>
      BY <1>4, <2>2 DEF CatchUp
    <3>2. SchedRecord(sched') /\ Me' = Me
      BY <1>0, <3>1 DEF SchedRecord, Me
    <3>3. clock \in {Trading, Window, SquareOffTime, Closed}
      BY <2>2 DEF DueInv, ClockInv
    <3>. QED
      BY <2>0, <3>1, <3>2, <3>3, DueIdle
  <2>. QED
    BY <2>1, <2>2
<1>5. CASE CatchUpUsers
  <2>0. up /\ sched.pc = "users" /\ Me.todo = {} /\ UNCHANGED <<clock, up, market, rows, due>>
    BY <1>5 DEF CatchUpUsers, DueInv, ListInv
  <2>1. CASE sched' = [sched EXCEPT !.pc = "global"] /\ Run("user")
    <3>1. SchedRecord(sched') /\ sched'.pc = "global"
      BY <1>0, <2>1 DEF SchedRecord
    <3>. QED
      BY <2>0, <2>1, <3>1, DueRun
  <2>2. CASE sched' = [sched EXCEPT !.pc = "wait"] /\ UNCHANGED <<job, outcome>>
    <3>1. SchedRecord(sched') /\ Me' = Me
      BY <1>0, <2>2 DEF SchedRecord, Me
    <3>. QED
      BY <2>0, <2>2, <3>1, DueIdle
  <2>. QED
    BY <1>5, <2>1, <2>2 DEF CatchUpUsers
<1>. QED
  BY <1>1, <1>2, <1>3, <1>4, <1>5

\* Time passes.  At 15:05 what is open becomes due, before any run could have served it.
LEMMA DueAdvance == ASSUME Inv, DueInv, Advance PROVE DueInv'
<1>1. /\ UNCHANGED <<up, filled, leg, cancelled, exited, reversed, job>>
      /\ clock \in Trading..Closed /\ clock < Closed /\ clock' = clock + 1
      /\ sched' = [sched EXCEPT !.tick = up] /\ SchedRecord(sched)
  BY DEF Advance, market, rows, DueInv, ClockInv, SchedRecord
<1>2. SchedRecord(sched') /\ sched'.pc = sched.pc /\ Me' = Me
  BY <1>1 DEF SchedRecord, Me
<1>3. /\ clock < SquareOffTime => outcome' = outcome
      /\ outcome' = "served" => outcome = "served"
      /\ clock >= SquareOffTime /\ (~up \/ outcome # "none" \/ clock = SquareOffTime) => outcome' # "none"
  <2>1. CASE clock < SquareOffTime \/ outcome = "served"
    <3>1. outcome' = outcome
      BY <2>1 DEF Advance
    <3>. QED
      BY ONLY <1>1, <2>1, <3>1 DEF SquareOffTime, Trading, Closed
  <2>2. CASE ~(clock < SquareOffTime \/ outcome = "served")
    BY <1>1, <2>2 DEF Advance
  <2>. QED
    BY <2>1, <2>2
<1>4. up => sched.pc # "start"
  BY DEF Advance
<1>5. ClockInv' /\ ListInv'
  BY <1>1, <1>2 DEF DueInv, ClockInv, ListInv, SchedRecord
<1>6. OutcomeInv'
  <2>0. OutcomeInv
    BY DEF DueInv
  <2>1. clock >= SquareOffTime => outcome' # "none"
    BY ONLY <1>1, <1>3, <1>4, <2>0 DEF OutcomeInv, Closed, SquareOffTime, Trading
  <2>2. clock' < SquareOffTime => outcome' # "served"
    BY ONLY <1>1, <1>3, <2>0 DEF OutcomeInv, Closed, SquareOffTime, Trading
  <2>. QED
    BY ONLY <1>1, <2>1, <2>2 DEF OutcomeInv, Closed, SquareOffTime, Trading
<1>7. CASE clock' = SquareOffTime
  <2>0. due' \subseteq OpenOrders
    BY <1>7 DEF Advance
  <2>1. due' \subseteq OpenOrders /\ outcome' # "served"
    BY <1>1, <1>3, <1>7, <2>0 DEF DueInv, OutcomeInv
  <2>2. DueOpen'
    BY <1>1, <2>1 DEF DueOpen, OpenOrders, Traded
  <2>. QED
    BY <1>5, <1>6, <2>1, <2>2 DEF DueInv, ServedInv
<1>8. CASE clock' # SquareOffTime
  <2>1. due' = due
    BY <1>8 DEF Advance
  <2>2. DueOpen'
    BY <1>1, <2>1 DEF DueInv, DueOpen, Traded
  <2>3. outcome' = "served" => outcome = "served"
    BY <1>3
  <2>4. ServedInv'
    BY <1>1, <1>2, <2>1, <2>3 DEF DueInv, ServedInv, OnList, Covered
  <2>. QED
    BY <1>5, <1>6, <2>2, <2>4 DEF DueInv
<1>. QED
  BY <1>7, <1>8

\* A crash in the run at 15:05 takes back that it served the rows.
LEMMA DueCrash == ASSUME Inv, DueInv, Crash PROVE DueInv'
<1>1. /\ ~up' /\ UNCHANGED <<clock, sched, filled, leg, cancelled, exited, reversed, due>>
      /\ outcome' = IF Me.kind # "global" THEN outcome ELSE IF clock = Closed THEN "down" ELSE "none"
  BY DEF Crash, market, rows, Me
<1>2. Me' = Idle
  BY SchedulerCloser, SquareOffAssumption DEF Crash, Me
<1>3. ClockInv' /\ ListInv' /\ OutcomeInv'
  BY <1>1, <1>2, IdleRecord DEF DueInv, ClockInv, ListInv, OutcomeInv
<1>4. DueOpen'
  BY <1>1 DEF DueInv, DueOpen, Traded
<1>5. ServedInv'
  BY <1>1 DEF DueInv, ServedInv, OnList, Covered
<1>. QED
  BY <1>3, <1>4, <1>5 DEF DueInv

LEMMA DueStart == ASSUME Inv, DueInv, Start PROVE DueInv'
<1>1. /\ ~up /\ up' /\ UNCHANGED <<clock, filled, leg, cancelled, exited, reversed, due, job>>
      /\ sched' = [pc |-> "start", tick |-> FALSE, ran |-> FALSE, userRan |-> {}]
      /\ outcome' = IF clock \in {WindowEnd, Late} /\ outcome # "served" THEN "none" ELSE outcome
  BY DEF Start, market, rows
<1>2. Me' = Me /\ Me.todo = {}
  BY <1>1 DEF Me, DueInv, ListInv
<1>3. ClockInv' /\ ListInv' /\ OutcomeInv'
  BY <1>1, <1>2 DEF DueInv, ClockInv, ListInv, OutcomeInv
<1>4. DueOpen'
  BY <1>1 DEF DueInv, DueOpen, Traded
<1>5. ServedInv'
  BY <1>1, <1>2 DEF DueInv, ServedInv, OnList, Covered
<1>. QED
  BY <1>3, <1>4, <1>5 DEF DueInv

\* Every step keeps what is known of the rows that were due.
LEMMA DueStep == Inv /\ MarketInv /\ DueInv /\ [Next]_vars => DueInv'
<1>. SUFFICES ASSUME Inv, MarketInv, DueInv, [Next]_vars PROVE DueInv'
  OBVIOUS
<1>1. Grows
  BY MarketStep
<1>2. ASSUME NEW c \in {"scheduler", "consumer"},
             FetchOpenPositions(c) \/ \E x \in job[c].todo : Place(c, x)
      PROVE  DueInv'
  BY <1>1, <1>2, DueBook, DuePlace
<1>3. ASSUME NEW q \in Requests, \E x \in job[q].todo : ForceExitOrder(q, x) PROVE DueInv'
  BY <1>1, <1>3, DueForce
<1>. QED
  BY <1>1, <1>2, <1>3, DueEnvironment, DueScheduler, DueAdvance, DueCrash, DueStart DEF Next

(***************************************************************************)
(* For any number of entries and requests and any sequence of restarts,    *)
(* configurations and failures: at the close the run at 15:05 is accounted *)
(* for, and if it read the rows, every row that was due then was sold or   *)
(* skipped by it or covered by another closer.                             *)
(***************************************************************************)
THEOREM DueIsTakenUp == Spec => []NoneForgotten
<1>1. DueInv => NoneForgotten
  BY DEF DueInv, OutcomeInv, ListInv, ServedInv, OnList, Covered, NoneForgotten, Me
<1>2. MarketInv /\ [Next]_vars => MarketInv'
  BY MarketStep
<1>. QED
  BY <1>1, <1>2, InitInv, NextInv, MarketInit, DueInit, DueStep, PTL DEF Spec

-----------------------------------------------------------------------------
(***************************************************************************)
(* Who turns a position short                                              *)
(***************************************************************************)

Lookers == {"scheduler", "consumer"}
On(c, e) == \E x \in job[c].todo : x.row[1] = e

\* No list has more of an entry than has traded.
QtyInv ==
    \A c \in Closers : \A x \in job[c].todo :
        x.row \in Rows /\ x.qty \in Nat /\ (x.row[2] = "entry" => x.qty <= filled[x.row[1]])

\* What the book showed is so still, unless something traded since.
BookInv ==
    \A c \in Lookers, e \in Entries :
        job[c].pc = "place" /\ e \in job[c].book /\ On(c, e) => net[e] # 0 \/ \E by : <<e, by>> \in job[c].since

\* The consumer has no list from 15:05 to 15:10, and the run at 15:05 is not before it:
\* neither sells behind the back of the other in that time.
WindowInv ==
    /\ Me.kind \in {"none", "user", "global"} /\ job["consumer"].kind \in {"none", "consumer"}
    /\ job["consumer"].pc = "idle" => job["consumer"].todo = {}
    /\ Me.kind = "global" => clock >= SquareOffTime
    /\ job["consumer"].todo # {} => clock <= Window \/ clock >= Late
    /\ clock < Late =>
          /\ Me.kind = "global" => \A e : <<e, "consumer">> \notin Me.since
          /\ job["consumer"].todo # {} => \A e : <<e, "global">> \notin job["consumer"].since

ShortInv == net \in [Entries -> Int] /\ QtyInv /\ BookInv /\ WindowInv

LEMMA ShortInit == Init => ShortInv
BY SchedulerCloser, IdleRecord DEF Init, ShortInv, QtyInv, BookInv, WindowInv, Me, On, Lookers, Idle, Task

\* Who may tell of a sale: the consumer while it has a list, the run at 15:05 while it runs.
Tag(by) == (by = "consumer" => job["consumer"].todo # {}) /\ (by = "global" => Me.kind = "global")

\* A closer goes on with its list: it learns of nothing, and of a trade only that there was one.
Kept(c, by) ==
    /\ job'[c].pc = job[c].pc /\ job'[c].kind = job[c].kind /\ job'[c].book = job[c].book
    /\ job'[c].todo \subseteq job[c].todo /\ job[c].since \subseteq job'[c].since
    /\ \A s \in job'[c].since : s \in job[c].since \/ (s[2] = by /\ s = <<s[1], s[2]>>)
    /\ \A e \in Entries : net'[e] # net[e] /\ job[c].pc = "place" /\ (On(c, e))' => <<e, by>> \in job'[c].since

\* A closer begins or ends.
Fresh(c) ==
    /\ net' = net /\ filled' = filled /\ job'[c].since = {}
    /\ \E set \in SUBSET Rows :
          /\ job'[c].todo = Listed(set) /\ (job'[c].pc = "place" => set = {})
          /\ c = "scheduler" => \/ job'[c].kind \in {"none", "user"}
                                \/ job'[c].kind = "global" /\ clock >= SquareOffTime
          /\ c = "consumer" => /\ job'[c].kind \in {"none", "consumer"}
                               /\ set # {} => job'[c].pc # "idle" /\ (clock <= Window \/ clock >= Late)

\* A closer looks at the book.
Looked(c) ==
    /\ net' = net /\ job'[c].kind = job[c].kind /\ job'[c].todo = job[c].todo /\ job'[c].since = job[c].since
    /\ job'[c].pc # "idle" /\ (job'[c].pc = "place" => job'[c].book = {e \in Entries : net[e] # 0})

\* A list that was read has what had traded.
LEMMA ListedQty ==
    ASSUME MarketInv, NEW set \in SUBSET Rows, NEW x \in Listed(set)
    PROVE  x.row \in Rows /\ x.qty \in Nat /\ (x.row[2] = "entry" => x.qty <= filled[x.row[1]])
<1>1. PICK r \in set : x = [row |-> r, qty |-> Traded(r)]
  BY DEF Listed
<1>2. r \in Rows /\ r[1] \in Entries
  BY DEF Rows
<1>3. filled[r[1]] \in Nat /\ leg[r[1]].qty \in Nat
  BY <1>2 DEF MarketInv
<1>. QED
  BY <1>1, <1>2, <1>3 DEF Traded

LEMMA ShortFrom ==
    ASSUME MarketInv, ShortInv, clock' = clock, clock \in Trading..Closed,
           net' \in [Entries -> Int], filled' \in [Entries -> Nat], \A e \in Entries : filled[e] <= filled'[e],
           NEW by, Tag(by), \A c \in Closers : Kept(c, by) \/ Fresh(c) \/ Looked(c)
    PROVE  ShortInv'
<1>0. "scheduler" \in Closers /\ "consumer" \in Closers /\ Lookers \subseteq Closers
  BY SchedulerCloser DEF Lookers
<1>1. QtyInv'
  <2>. SUFFICES ASSUME NEW c \in Closers, NEW x \in job'[c].todo
                PROVE  x.row \in Rows /\ x.qty \in Nat /\ (x.row[2] = "entry" => x.qty <= filled'[x.row[1]])
    BY DEF QtyInv
  <2>1. CASE x \in job[c].todo
    <3>1. x.row \in Rows /\ x.qty \in Nat /\ (x.row[2] = "entry" => x.qty <= filled[x.row[1]])
      BY <2>1 DEF ShortInv, QtyInv
    <3>2. x.row[1] \in Entries
      BY <3>1 DEF Rows
    <3>3. filled[x.row[1]] <= filled'[x.row[1]] /\ filled[x.row[1]] \in Nat /\ filled'[x.row[1]] \in Nat
      BY <3>2 DEF MarketInv
    <3>. QED
      BY <3>1, <3>3
  <2>2. CASE Fresh(c)
    BY <2>2, ListedQty DEF Fresh
  <2>. QED
    BY <2>1, <2>2 DEF Kept, Looked
<1>2. BookInv'
  <2>. SUFFICES ASSUME NEW c \in Lookers, NEW e \in Entries,
                       job'[c].pc = "place", e \in job'[c].book, (On(c, e))'
                PROVE  net'[e] # 0 \/ \E b : <<e, b>> \in job'[c].since
    BY DEF BookInv
  <2>1. CASE Kept(c, by)
    <3>1. job[c].pc = "place" /\ e \in job[c].book /\ On(c, e)
      BY <2>1 DEF Kept, On
    <3>2. net[e] # 0 \/ \E b : <<e, b>> \in job[c].since
      BY <3>1 DEF ShortInv, BookInv
    <3>3. CASE net'[e] = net[e]
      BY <2>1, <3>2, <3>3 DEF Kept
    <3>4. CASE net'[e] # net[e]
      BY <2>1, <3>1, <3>4 DEF Kept
    <3>. QED
      BY <3>3, <3>4
  <2>2. CASE Fresh(c)
    BY <2>2 DEF Fresh, On, Listed
  <2>3. CASE Looked(c)
    BY <2>3 DEF Looked
  <2>. QED
    BY <1>0, <2>1, <2>2, <2>3
<1>3. WindowInv'
  <2>0. WindowInv
    BY DEF ShortInv
  <2>1. /\ Me'.kind \in {"none", "user", "global"} /\ (Me'.kind = "global" => clock >= SquareOffTime)
    <3>1. CASE Kept("scheduler", by)
      BY <2>0, <3>1 DEF Kept, WindowInv, Me
    <3>2. CASE Fresh("scheduler")
      BY <3>2 DEF Fresh, Me
    <3>3. CASE Looked("scheduler")
      BY <2>0, <3>3 DEF Looked, WindowInv, Me
    <3>. QED
      BY <1>0, <3>1, <3>2, <3>3
  <2>2. clock < Late /\ Me'.kind = "global" => \A e : <<e, "consumer">> \notin Me'.since
    <3>1. CASE Kept("scheduler", by)
      <4>. SUFFICES ASSUME clock < Late, Me'.kind = "global", NEW e, <<e, "consumer">> \in Me'.since PROVE FALSE
        OBVIOUS
      <4>1. Me.kind = "global" /\ (<<e, "consumer">> \in Me.since \/ by = "consumer")
        BY <3>1 DEF Kept, Me
      <4>2. by = "consumer" => clock <= Window \/ clock >= Late
        BY <2>0 DEF Tag, WindowInv
      <4>3. clock >= SquareOffTime /\ <<e, "consumer">> \notin Me.since
        BY <2>0, <4>1 DEF WindowInv
      <4>. QED
        BY <4>1, <4>2, <4>3
    <3>2. CASE Fresh("scheduler")
      BY <3>2 DEF Fresh, Me
    <3>3. CASE Looked("scheduler")
      BY <2>0, <3>3 DEF Looked, WindowInv, Me
    <3>. QED
      BY <1>0, <3>1, <3>2, <3>3
  <2>3. /\ job'["consumer"].kind \in {"none", "consumer"}
        /\ job'["consumer"].pc = "idle" => job'["consumer"].todo = {}
        /\ job'["consumer"].todo # {} => clock <= Window \/ clock >= Late
    <3>1. CASE Kept("consumer", by)
      BY <2>0, <3>1 DEF Kept, WindowInv
    <3>2. CASE Fresh("consumer")
      <4>1. PICK set \in SUBSET Rows :
               /\ job'["consumer"].todo = Listed(set) /\ job'["consumer"].kind \in {"none", "consumer"}
               /\ set # {} => job'["consumer"].pc # "idle" /\ (clock <= Window \/ clock >= Late)
        BY <3>2 DEF Fresh
      <4>2. set = {} => Listed(set) = {}
        BY DEF Listed
      <4>. QED
        BY <4>1, <4>2
    <3>3. CASE Looked("consumer")
      BY <2>0, <3>3 DEF Looked, WindowInv
    <3>. QED
      BY <1>0, <3>1, <3>2, <3>3
  <2>4. clock < Late /\ job'["consumer"].todo # {} => \A e : <<e, "global">> \notin job'["consumer"].since
    <3>1. CASE Kept("consumer", by)
      <4>. SUFFICES ASSUME clock < Late, job'["consumer"].todo # {}, NEW e, <<e, "global">> \in job'["consumer"].since
                    PROVE  FALSE
        OBVIOUS
      <4>1. job["consumer"].todo # {} /\ (<<e, "global">> \in job["consumer"].since \/ by = "global")
        BY <3>1 DEF Kept
      <4>2. by = "global" => clock >= SquareOffTime
        BY <2>0 DEF Tag, WindowInv
      <4>3. clock <= Window /\ <<e, "global">> \notin job["consumer"].since
        BY <2>0, <4>1 DEF WindowInv
      <4>. QED
        BY <4>1, <4>2, <4>3
    <3>2. CASE Fresh("consumer")
      BY <3>2 DEF Fresh
    <3>3. CASE Looked("consumer")
      BY <2>0, <3>3 DEF Looked, WindowInv
    <3>. QED
      BY <1>0, <3>1, <3>2, <3>3
  <2>. QED
    BY <2>1, <2>2, <2>3, <2>4 DEF WindowInv
<1>. QED
  BY <1>1, <1>2, <1>3 DEF ShortInv

\* A closer that does nothing while nothing trades.
LEMMA KeptAsIs == ASSUME NEW c, job'[c] = job[c], net' = net, NEW by PROVE Kept(c, by)
BY DEF Kept

\* One closer begins, ends or looks.
LEMMA ShortOne ==
    ASSUME Inv, MarketInv, ShortInv, UNCHANGED <<clock, net, filled>>, clock \in Trading..Closed,
           NEW c \in Closers, NEW j, job' = [job EXCEPT ![c] = j], Fresh(c) \/ Looked(c)
    PROVE  ShortInv'
<1>1. \A b \in Closers : b # c => job'[b] = job[b]
  BY DEF Inv, Shape
<1>2. \A b \in Closers : Kept(b, "none") \/ Fresh(b) \/ Looked(b)
  BY <1>1, KeptAsIs
<1>3. Tag("none")
  BY DEF Tag
<1>4. net' \in [Entries -> Int] /\ filled' \in [Entries -> Nat] /\ \A e \in Entries : filled[e] <= filled'[e]
  BY DEF ShortInv, MarketInv
<1>. QED
  BY <1>2, <1>3, <1>4, ShortFrom

\* A fill, or an exit order that trades.
LEMMA ShortTold ==
    ASSUME Inv, MarketInv, ShortInv, clock' = clock, clock \in Trading..Closed,
           NEW e \in Entries, Fill(e) \/ LegFills(e)
    PROVE  ShortInv'
<1>1. PICK by \in {"fill", "leg"}, n \in {net[e] + 1, net[e] - filled[e]} :
         job' = Told(job, e, by) /\ net' = [net EXCEPT ![e] = n]
  BY DEF Fill, LegFills
<1>2. n \in Int
  BY DEF ShortInv, MarketInv
<1>3. net' \in [Entries -> Int] /\ \A f \in Entries : f # e => net'[f] = net[f]
  BY <1>1, <1>2 DEF ShortInv
<1>4. filled' \in [Entries -> Nat] /\ \A f \in Entries : filled[f] <= filled'[f]
  <2>1. CASE Fill(e)
    BY <2>1, FillMarket DEF MarketInv
  <2>2. CASE LegFills(e)
    BY <2>2 DEF LegFills, MarketInv
  <2>. QED
    BY <2>1, <2>2
<1>5. Tag(by)
  BY DEF Tag
<1>6. ASSUME NEW c \in Closers PROVE Kept(c, by)
  <2>0. \A b \in Closers : Record(job[b])
    BY DEF Inv, Shape
  <2>1. /\ Same(job'[c], job[c]) /\ job[c].since \subseteq job'[c].since
        /\ job'[c].since \subseteq job[c].since \union {<<e, by>>}
        /\ job[c].pc = "place" /\ (\E x \in job[c].todo : x.row[1] = e) => <<e, by>> \in job'[c].since
    BY <1>1, <2>0, ToldSame
  <2>2. \A s \in job'[c].since : s \in job[c].since \/ (s[2] = by /\ s = <<s[1], s[2]>>)
    BY <2>1
  <2>3. \A f \in Entries : net'[f] # net[f] /\ job[c].pc = "place" /\ (On(c, f))' => <<f, by>> \in job'[c].since
    BY <1>3, <2>1 DEF On, Same
  <2>. QED
    BY <2>1, <2>2, <2>3 DEF Kept, Same
<1>. QED
  BY <1>3, <1>4, <1>5, <1>6, ShortFrom

\* A row is taken from a list, and sold or not.
LEMMA ShortSale ==
    ASSUME Inv, MarketInv, ShortInv, UNCHANGED <<clock, filled>>, clock \in Trading..Closed,
           NEW c \in Closers, NEW x \in job[c].todo, NEW by, Tag(by),
           LET left == [job EXCEPT ![c].todo = @ \ {x}] IN
           (job' = left /\ UNCHANGED net) \/ Sell(x, left, by)
    PROVE  ShortInv'
<1>. DEFINE left == [job EXCEPT ![c].todo = @ \ {x}]
<1>0. x.row \in Rows /\ x.row[1] \in Entries /\ x.qty \in Nat
  BY DEF ShortInv, QtyInv, Rows
<1>1. \A b \in Closers : Record(left[b])
  BY LeftJobs DEF Inv
<1>2. \A b \in Closers : /\ left[b].pc = job[b].pc /\ left[b].kind = job[b].kind
                         /\ left[b].book = job[b].book /\ left[b].since = job[b].since
                         /\ left[b].todo \subseteq job[b].todo
  <2>1. /\ \A b \in Closers : /\ left[b].pc = job[b].pc /\ left[b].kind = job[b].kind
                              /\ left[b].book = job[b].book /\ left[b].since = job[b].since
        /\ left[c].todo = job[c].todo \ {x}
        /\ \A b \in Closers \ {c} : left[b] = job[b]
    BY LeftSame DEF Inv
  <2>. QED
    BY <2>1
<1>3. (job' = left /\ net' = net) \/ Sell(x, left, by)
  OBVIOUS
<1>. HIDE DEF left
<1>4. /\ net' \in [Entries -> Int]
      /\ \A b \in Closers : Kept(b, by)
  <2>1. CASE job' = left /\ net' = net
    BY <1>2, <2>1 DEF Kept, ShortInv
  <2>2. CASE Sell(x, left, by)
    <3>1. /\ \A b \in Closers :
                 /\ Same(job'[b], left[b]) /\ left[b].since \subseteq job'[b].since
                 /\ job'[b].since \subseteq left[b].since \union {<<x.row[1], by>>}
          /\ \/ net' = net
             \/ /\ net' = Reverse(x.row, x.qty)
                /\ \A b \in Closers : left[b].pc = "place" /\ (\E y \in left[b].todo : y.row[1] = x.row[1])
                                          => <<x.row[1], by>> \in job'[b].since
      BY <1>1, <2>2, SellSame
    <3>2. net' \in [Entries -> Int] /\ \A e \in Entries : net'[e] # net[e] => e = x.row[1]
      BY <1>0, <3>1 DEF Reverse, ShortInv
    <3>3. ASSUME NEW b \in Closers PROVE Kept(b, by)
      <4>1. \A s \in job'[b].since : s \in job[b].since \/ (s[2] = by /\ s = <<s[1], s[2]>>)
        BY <1>2, <3>1
      <4>2. \A e \in Entries : net'[e] # net[e] /\ job[b].pc = "place" /\ (On(b, e))' => <<e, by>> \in job'[b].since
        BY <1>2, <3>1, <3>2 DEF On, Same
      <4>3. /\ job'[b].pc = job[b].pc /\ job'[b].kind = job[b].kind /\ job'[b].book = job[b].book
            /\ job'[b].todo \subseteq job[b].todo /\ job[b].since \subseteq job'[b].since
        BY <1>2, <3>1 DEF Same
      <4>. QED
        BY <4>1, <4>2, <4>3 DEF Kept
    <3>. QED
      BY <3>2, <3>3
  <2>. QED
    BY <1>3, <2>1, <2>2
<1>5. filled' \in [Entries -> Nat] /\ \A e \in Entries : filled[e] <= filled'[e]
  BY DEF MarketInv
<1>. QED
  BY <1>4, <1>5, ShortFrom

\* A closer that is idle, or over, has nothing on its list.
LEMMA FreshEmpty ==
    ASSUME NEW c, UNCHANGED <<net, filled>>, job'[c] \in {Idle, Over}
    PROVE  Fresh(c)
<1>1. Listed({}) = {} /\ {} \in SUBSET Rows
  BY DEF Listed
<1>2. job'[c].since = {} /\ job'[c].todo = {} /\ job'[c].pc # "place" /\ job'[c].kind = "none"
  BY DEF Idle, Over, Task
<1>. QED
  BY <1>1, <1>2 DEF Fresh

\* A closer reads rows.
LEMMA FreshBegin ==
    ASSUME Inv, NEW c \in {"scheduler", "consumer"}, NEW kind, NEW set \in SUBSET Rows, Begin(c, kind, set),
           UNCHANGED <<net, filled>>,
           c = "scheduler" => kind = "user" \/ (kind = "global" /\ clock >= SquareOffTime),
           c = "consumer" => kind = "consumer" /\ (set # {} => clock <= Window \/ clock >= Late)
    PROVE  Fresh(c)
<1>1. job'[c] = Task(IF set = {} THEN "place" ELSE "book", kind, Listed(set), clock)
  BY SchedulerCloser DEF Begin, Inv, Shape
<1>2. /\ job'[c].since = {} /\ job'[c].todo = Listed(set) /\ job'[c].kind = kind
      /\ job'[c].pc = IF set = {} THEN "place" ELSE "book"
  BY <1>1 DEF Task
<1>. QED
  BY <1>2 DEF Fresh

\* A run of the scheduler begins.
LEMMA ShortRun ==
    ASSUME Inv, MarketInv, ShortInv, UNCHANGED <<clock, market>>, clock \in Trading..Closed,
           NEW kind \in {"user", "global"}, Run(kind), kind = "global" => clock >= SquareOffTime
    PROVE  ShortInv'
<1>1. PICK set \in {OpenOrders, {}} : Begin("scheduler", kind, set)
  BY DEF Run
<1>2. set \in SUBSET Rows /\ UNCHANGED <<net, filled>> /\ "scheduler" \in Closers
  BY SchedulerCloser DEF OpenOrders, market
<1>3. Fresh("scheduler")
  BY <1>1, <1>2, FreshBegin
<1>. QED
  BY <1>1, <1>2, <1>3, ShortOne DEF Begin

\* A closer's record is replaced by an empty one.
LEMMA ShortReset ==
    ASSUME Inv, MarketInv, ShortInv, UNCHANGED <<clock, net, filled>>, clock \in Trading..Closed,
           NEW c \in Closers, NEW j \in {Idle, Over}, job' = [job EXCEPT ![c] = j]
    PROVE  ShortInv'
<1>1. job'[c] = j
  BY DEF Inv, Shape
<1>2. Fresh(c)
  BY <1>1, FreshEmpty
<1>. QED
  BY <1>2, ShortOne

LEMMA ShortAsIs ==
    ASSUME Inv, MarketInv, ShortInv, UNCHANGED <<clock, net, filled, job>>
    PROVE  ShortInv'
BY DEF ShortInv, QtyInv, BookInv, WindowInv, On, Me

LEMMA ShortScheduler ==
    ASSUME Inv, MarketInv, ShortInv, clock \in Trading..Closed,
           Tick \/ FinishUser \/ Finish \/ CatchUp \/ CatchUpUsers
    PROVE  ShortInv'
<1>0. UNCHANGED <<clock, market>> /\ UNCHANGED <<net, filled>> /\ "scheduler" \in Closers
  BY SchedulerCloser DEF Tick, FinishUser, Finish, CatchUp, CatchUpUsers, market
<1>1. CASE Run("user") \/ (Run("global") /\ clock >= SquareOffTime)
  BY <1>0, <1>1, ShortRun
<1>2. CASE job' = [job EXCEPT !["scheduler"] = Idle]
  BY <1>0, <1>2, ShortReset
<1>3. CASE job' = job
  BY <1>0, <1>3, ShortAsIs
<1>4. ASSUME NEW s, Check(s) PROVE ShortInv'
  BY <1>1, <1>2, <1>4 DEF Check
<1>5. CASE Tick
  BY <1>1, <1>4, <1>5 DEF Tick
<1>6. CASE FinishUser \/ Finish
  BY <1>2, <1>4, <1>6 DEF FinishUser, Finish
<1>7. CASE CatchUp
  <2>1. (Run("global") /\ clock \in {WindowEnd, Late}) \/ job' = job
    BY <1>7 DEF CatchUp
  <2>. QED
    BY <1>1, <1>3, <2>1
<1>8. CASE CatchUpUsers
  BY <1>1, <1>3, <1>8 DEF CatchUpUsers
<1>. QED
  BY <1>5, <1>6, <1>7, <1>8

LEMMA ShortBook ==
    ASSUME Inv, MarketInv, ShortInv, clock \in Trading..Closed,
           NEW c \in {"scheduler", "consumer"}, FetchOpenPositions(c)
    PROVE  ShortInv'
<1>0. UNCHANGED <<clock, net, filled>> /\ c \in Closers
  BY SchedulerCloser DEF FetchOpenPositions, market
<1>1. PICK pc \in {"place", "place unbooked"}, book \in SUBSET Entries :
         /\ job' = [job EXCEPT ![c].pc = pc, ![c].book = book]
         /\ pc = "place" => book = {e \in Entries : net[e] # 0}
  BY DEF FetchOpenPositions
<1>2. job' = [job EXCEPT ![c] = [job[c] EXCEPT !.pc = pc, !.book = book]]
  BY <1>0, <1>1 DEF Inv, Shape
<1>3. job'[c] = [job[c] EXCEPT !.pc = pc, !.book = book] /\ Record(job[c])
  BY <1>0, <1>2 DEF Inv, Shape
<1>4. /\ job'[c].kind = job[c].kind /\ job'[c].todo = job[c].todo /\ job'[c].since = job[c].since
      /\ job'[c].pc = pc /\ job'[c].book = book
  BY <1>3 DEF Record
<1>5. Looked(c)
  BY <1>0, <1>1, <1>4 DEF Looked
<1>. QED
  BY <1>0, <1>2, <1>5, ShortOne

LEMMA ShortPlace ==
    ASSUME Inv, MarketInv, ShortInv, clock \in Trading..Closed,
           NEW c \in {"scheduler", "consumer"}, NEW x \in job[c].todo, Place(c, x)
    PROVE  ShortInv'
<1>0. UNCHANGED <<clock, filled>> /\ c \in Closers
  BY SchedulerCloser DEF Place
<1>1. Tag(job[c].kind)
  BY DEF Tag, ShortInv, WindowInv, Me
<1>2. LET left == [job EXCEPT ![c].todo = @ \ {x}] IN
      (job' = left /\ UNCHANGED net) \/ Sell(x, left, job[c].kind)
  BY DEF Place
<1>. QED
  BY <1>0, <1>1, <1>2, ShortSale

LEMMA ShortForce ==
    ASSUME Inv, MarketInv, ShortInv, clock \in Trading..Closed,
           NEW q \in Requests, NEW x \in job[q].todo, ForceExitOrder(q, x)
    PROVE  ShortInv'
<1>0. UNCHANGED <<clock, filled>> /\ q \in Closers
  BY SchedulerCloser DEF ForceExitOrder
<1>1. Tag("force")
  BY DEF Tag
<1>2. LET left == [job EXCEPT ![q].todo = @ \ {x}] IN
      (job' = left /\ UNCHANGED net) \/ Sell(x, left, "force")
  BY DEF ForceExitOrder
<1>. QED
  BY <1>0, <1>1, <1>2, ShortSale

LEMMA ShortOthers ==
    ASSUME Inv, MarketInv, ShortInv, clock \in Trading..Closed,
           \/ CloseStrategy \/ BulkCancel
           \/ \E q \in Requests : ForceExitCancel(q)
           \/ \E q \in Requests : \E scope, token : ForceExit(q, scope, token)
    PROVE  ShortInv'
<1>0. UNCHANGED <<clock, net, filled>>
  BY DEF CloseStrategy, BulkCancel, ForceExitCancel, ForceExit, market
<1>1. "consumer" \in Closers /\ \A q \in Requests : q \in Closers /\ q # "scheduler" /\ q # "consumer"
  BY SquareOffAssumption DEF Closers
<1>2. \A s : Exitable(s) \in SUBSET Rows
  BY DEF Exitable, RowsOf
<1>3. CASE CloseStrategy
  <2>1. PICK set \in SUBSET Rows : /\ Begin("consumer", "consumer", set)
                                   /\ set # {} => ~isEODSquareOffWindow
    BY <1>2, <1>3 DEF CloseStrategy
  <2>2. set # {} => clock <= Window \/ clock >= Late
    BY <2>1 DEF isEODSquareOffWindow
  <2>3. Fresh("consumer")
    BY <1>0, <2>1, <2>2, FreshBegin
  <2>. QED
    BY <1>0, <1>1, <2>1, <2>3, ShortOne DEF Begin
<1>4. CASE BulkCancel
  BY <1>0, <1>1, <1>4, ShortReset DEF BulkCancel
<1>5. ASSUME NEW q \in Requests, ForceExitCancel(q) PROVE ShortInv'
  BY <1>0, <1>1, <1>5, ShortReset DEF ForceExitCancel
<1>6. ASSUME NEW q \in Requests, NEW scope, NEW token, ForceExit(q, scope, token) PROVE ShortInv'
  <2>. DEFINE j == Task(IF token THEN "exit" ELSE "mark", scope, Listed(Exitable(scope)), 0)
  <2>1. job' = [job EXCEPT ![q] = j]
    BY <1>6 DEF ForceExit
  <2>2. job'[q] = j
    BY <1>1, <2>1 DEF Inv, Shape
  <2>3. j.since = {} /\ j.todo = Listed(Exitable(scope)) /\ j.pc # "place"
    BY DEF Task
  <2>. HIDE DEF j
  <2>4. Fresh(q)
    BY <1>0, <1>1, <1>2, <2>2, <2>3 DEF Fresh
  <2>. QED
    BY <1>0, <1>1, <2>1, <2>4, ShortOne
<1>. QED
  BY <1>3, <1>4, <1>5, <1>6

\* After 15:04 the consumer has no list until 15:11, as it was idle then.
LEMMA ShortAdvance ==
    ASSUME Inv, MarketInv, ShortInv, clock \in Trading..Closed, Advance
    PROVE  ShortInv'
<1>1. UNCHANGED <<net, filled, job>> /\ clock' = clock + 1 /\ (clock = Window => job["consumer"].pc = "idle")
  BY DEF Advance, market
<1>2. (net \in [Entries -> Int] /\ QtyInv /\ BookInv)'
  BY <1>1 DEF ShortInv, QtyInv, BookInv, On
<1>3. WindowInv
  BY DEF ShortInv
<1>4. WindowInv'
  BY <1>1, <1>3 DEF WindowInv, Me
<1>. QED
  BY <1>2, <1>4 DEF ShortInv

LEMMA ShortCrash ==
    ASSUME Inv, MarketInv, ShortInv, clock \in Trading..Closed, Crash
    PROVE  ShortInv'
<1>1. UNCHANGED <<clock, net, filled>> /\ \A c \in Closers : job'[c] \in {Idle, Over}
  BY DEF Crash, market
<1>2. \A c \in Closers : Fresh(c)
  BY <1>1, FreshEmpty
<1>3. net' \in [Entries -> Int] /\ filled' \in [Entries -> Nat] /\ \A e \in Entries : filled[e] <= filled'[e]
  BY <1>1 DEF ShortInv, MarketInv
<1>4. Tag("none")
  BY DEF Tag
<1>. QED
  BY <1>1, <1>2, <1>3, <1>4, ShortFrom

\* Every step keeps what the closers know of each other.
LEMMA ShortStep == Inv /\ MarketInv /\ ClockInv /\ ShortInv /\ [Next]_vars => ShortInv'
<1>. SUFFICES ASSUME Inv, MarketInv, ClockInv, ShortInv, [Next]_vars PROVE ShortInv'
  OBVIOUS
<1>0. clock \in Trading..Closed
  BY DEF ClockInv
<1>1. ASSUME NEW e \in Entries, Fill(e) \/ LegFills(e) PROVE ShortInv'
  BY <1>0, <1>1, ShortTold DEF Fill, LegFills
<1>2. ASSUME NEW c \in {"scheduler", "consumer"},
             FetchOpenPositions(c) \/ \E x \in job[c].todo : Place(c, x)
      PROVE  ShortInv'
  BY <1>0, <1>2, ShortBook, ShortPlace
<1>3. ASSUME NEW q \in Requests, \E x \in job[q].todo : ForceExitOrder(q, x) PROVE ShortInv'
  BY <1>0, <1>3, ShortForce
<1>4. CASE (\E t \in Times : SetConfig(t)) \/ Start \/ UNCHANGED vars
  BY <1>4, ShortAsIs DEF SetConfig, Start, vars, market
<1>. QED
  BY <1>0, <1>1, <1>2, <1>3, <1>4, ShortScheduler, ShortOthers, ShortAdvance, ShortCrash DEF Next

\* What a sale does to the net quantity of an entry that it turns short.
LEMMA SoldMore ==
    ASSUME MarketInv, ShortInv, NEW c \in Closers, NEW x \in job[c].todo, NEW e \in Entries,
           net' = net \/ net' = Reverse(x.row, x.qty), net[e] >= 0, net'[e] < 0
    PROVE  x.row[1] = e /\ net[e] < filled[e]
<1>1. x.row \in Rows /\ x.qty \in Nat /\ (x.row[2] = "entry" => x.qty <= filled[x.row[1]])
  BY DEF ShortInv, QtyInv
<1>2. x.row[1] \in Entries /\ net[e] \in Int /\ net[x.row[1]] \in Int
  BY <1>1 DEF Rows, ShortInv
<1>3. net' = Reverse(x.row, x.qty)
  BY <1>2
<1>4. net'[e] = IF x.row[1] = e THEN IF x.row[2] = "entry" THEN net[e] - x.qty ELSE net[e] + x.qty ELSE net[e]
  BY <1>2, <1>3 DEF Reverse, ShortInv
<1>5. x.row[1] = e /\ x.row[2] = "entry" /\ net[e] < x.qty
  BY <1>1, <1>2, <1>4
<1>6. filled[e] \in Int
  BY DEF MarketInv
<1>. QED
  BY ONLY <1>1, <1>2, <1>5, <1>6

\* The cause in a sale of the scheduler or the consumer.
LEMMA PlaceCause ==
    ASSUME Inv, MarketInv, ShortInv, clock \in Trading..Closed, NEW c \in {"scheduler", "consumer"}, NEW x \in job[c].todo, Place(c, x),
           NEW e \in Entries, net[e] >= 0, net'[e] < 0
    PROVE  job'[c].todo # job[c].todo /\ (job[c].pc = "place unbooked" \/ Raced(c, e) \/ Partly(c, e))
<1>. DEFINE left == [job EXCEPT ![c].todo = @ \ {x}]
<1>0. c \in Closers /\ c \in Lookers
  BY SchedulerCloser DEF Lookers
<1>1. \A b \in Closers : Record(left[b])
  BY <1>0, LeftJobs DEF Inv
<1>2. left[c].todo = job[c].todo \ {x}
  BY <1>0, LeftSame DEF Inv
<1>3. \/ job' = left /\ UNCHANGED <<net, reversed>>
      \/ Sell(x, left, job[c].kind) /\ ~IsExited(c, x.row)
  BY DEF Place
<1>. HIDE DEF left
<1>4. (net' = net \/ net' = Reverse(x.row, x.qty)) /\ job'[c].todo = left[c].todo
  <2>1. CASE job' = left /\ UNCHANGED <<net, reversed>>
    BY <2>1
  <2>2. CASE Sell(x, left, job[c].kind)
    <3>1. PICK by : by = job[c].kind
      OBVIOUS
    <3>2. Sell(x, left, by)
      BY <2>2, <3>1
    <3>3. Same(job'[c], left[c]) /\ (net' = net \/ net' = Reverse(x.row, x.qty))
      BY <1>0, <1>1, <3>2, SellSame
    <3>. QED
      BY <3>3 DEF Same
  <2>. QED
    BY <1>3, <2>1, <2>2
<1>5. x.row[1] = e /\ net[e] < filled[e]
  BY <1>0, <1>4, SoldMore
<1>6. net' # net /\ net[e] \in Int
  BY DEF ShortInv
<1>7. e \in job[c].book /\ On(c, e)
  BY <1>3, <1>5, <1>6 DEF IsExited, On
<1>8. job[c].pc \in {"place", "place unbooked"}
  BY DEF Place
<1>9. ASSUME job[c].pc = "place", ~Partly(c, e) PROVE Raced(c, e)
  <2>1. net[e] = 0 /\ <<e, "fill">> \notin job[c].since
    BY <1>5, <1>6, <1>9 DEF Partly
  <2>2. PICK by : <<e, by>> \in job[c].since
    BY <1>0, <1>7, <1>9, <2>1 DEF ShortInv, BookInv
  <2>3. by # "fill"
    BY <2>1, <2>2
  <2>4. clock >= Late \/ {by, job[c].kind} # {"consumer", "global"}
    <3>. SUFFICES ASSUME ~(clock >= Late), {by, job[c].kind} = {"consumer", "global"} PROVE FALSE
      OBVIOUS
    <3>0. clock < Late /\ WindowInv
      BY DEF ShortInv
    <3>1. (by = "consumer" /\ job[c].kind = "global") \/ (by = "global" /\ job[c].kind = "consumer")
      OBVIOUS
    <3>2. CASE by = "consumer" /\ job[c].kind = "global"
      <4>1. c = "scheduler"
        BY <3>0, <3>2 DEF WindowInv
      <4>. QED
        BY <2>2, <3>0, <3>2, <4>1 DEF WindowInv, Me
    <3>3. CASE by = "global" /\ job[c].kind = "consumer"
      <4>1. c = "consumer"
        BY <3>0, <3>3 DEF WindowInv, Me
      <4>. QED
        BY <2>2, <3>0, <3>3, <4>1 DEF WindowInv
    <3>. QED
      BY <3>1, <3>2, <3>3
  <2>. QED
    BY <2>2, <2>3, <2>4 DEF Raced
<1>. QED
  BY <1>2, <1>4, <1>8, <1>9

\* A force exit that turns a position short sells what was sold.
LEMMA ForceCause ==
    ASSUME Inv, MarketInv, ShortInv, NEW q \in Requests, NEW x \in job[q].todo, ForceExitOrder(q, x),
           NEW e \in Entries, net[e] >= 0, net'[e] < 0
    PROVE  job'[q] # job[q] /\ net[e] < filled[e]
<1>. DEFINE left == [job EXCEPT ![q].todo = @ \ {x}]
<1>0. q \in Closers
  BY SchedulerCloser
<1>1. \A b \in Closers : Record(left[b])
  BY <1>0, LeftJobs DEF Inv
<1>2. left[q].todo = job[q].todo \ {x}
  BY <1>0, LeftSame DEF Inv
<1>3. (job' = left /\ UNCHANGED <<net, reversed>>) \/ Sell(x, left, "force")
  BY DEF ForceExitOrder
<1>. HIDE DEF left
<1>4. (net' = net \/ net' = Reverse(x.row, x.qty)) /\ job'[q].todo = left[q].todo
  <2>1. CASE job' = left /\ UNCHANGED <<net, reversed>>
    BY <2>1
  <2>2. CASE Sell(x, left, "force")
    BY <1>0, <1>1, <2>2, SellSame DEF Same
  <2>. QED
    BY <1>3, <2>1, <2>2
<1>. QED
  BY <1>0, <1>2, <1>4, SoldMore

\* A position turns short in one of three steps.
LEMMA ShortCause ==
    ASSUME Inv, MarketInv, ShortInv, clock \in Trading..Closed, [Next]_vars, NEW e \in Entries, net[e] >= 0, net'[e] < 0
    PROVE  \/ leg'[e] # leg[e]
           \/ \E q \in Requests : job'[q] # job[q] /\ net[e] < filled[e]
           \/ \E c \in {"scheduler", "consumer"} :
                 job'[c].todo # job[c].todo /\ (job[c].pc = "place unbooked" \/ Raced(c, e) \/ Partly(c, e))
<1>0. net' # net /\ net \in [Entries -> Int]
  BY DEF ShortInv
<1>1. ASSUME NEW f \in Entries, Fill(f) PROVE FALSE
  BY <1>0, <1>1 DEF Fill
<1>2. ASSUME NEW f \in Entries, LegFills(f) PROVE leg'[e] # leg[e]
  <2>1. /\ net' = [net EXCEPT ![f] = @ - filled[f]] /\ leg[f].state = "working"
        /\ leg' = [leg EXCEPT ![f] = [state |-> "filled", qty |-> filled[f]]]
    BY <1>2 DEF LegFills
  <2>2. f = e
    BY <1>0, <2>1
  <2>3. leg'[e].state = "filled"
    BY <2>1, <2>2 DEF MarketInv
  <2>. QED
    BY <2>1, <2>2, <2>3
<1>3. ASSUME NEW c \in {"scheduler", "consumer"},
             FetchOpenPositions(c) \/ \E x \in job[c].todo : Place(c, x)
      PROVE  job'[c].todo # job[c].todo /\ (job[c].pc = "place unbooked" \/ Raced(c, e) \/ Partly(c, e))
  <2>1. ~FetchOpenPositions(c)
    BY <1>0 DEF FetchOpenPositions, market
  <2>2. PICK x \in job[c].todo : Place(c, x)
    BY <1>3, <2>1
  <2>. QED
    BY <2>2, PlaceCause
<1>4. ASSUME NEW q \in Requests, \E x \in job[q].todo : ForceExitOrder(q, x)
      PROVE  job'[q] # job[q] /\ net[e] < filled[e]
  BY <1>4, ForceCause
<1>5. ASSUME \/ Tick \/ FinishUser \/ Finish \/ CatchUp \/ CatchUpUsers
             \/ \E t \in Times : SetConfig(t)
             \/ CloseStrategy \/ BulkCancel \/ Advance \/ Crash \/ Start \/ UNCHANGED vars
             \/ \E q \in Requests : ForceExitCancel(q)
             \/ \E q \in Requests : \E scope, token : ForceExit(q, scope, token)
      PROVE  FALSE
  BY <1>0, <1>5 DEF Tick, FinishUser, Finish, CatchUp, CatchUpUsers, SetConfig, CloseStrategy, BulkCancel,
                    Advance, Crash, Start, vars, market, ForceExitCancel, ForceExit
<1>. QED
  BY <1>1, <1>2, <1>3, <1>4, <1>5 DEF Next

(***************************************************************************)
(* For entries of any size, any number of requests and any interleaving of *)
(* fills, exits, closers and failures: a position turns short only through *)
(* an exit order left at the broker, a repeated force exit, a book that    *)
(* could not be read or was stale when used, or a part that was closed     *)
(* while the entry filled; and never because the consumer of strategy      *)
(* events and the run at 15:05 sold behind each other's back before 15:11. *)
(***************************************************************************)
THEOREM ShortHasCause == Spec => ShortNeedsCause
<1>1. Inv /\ MarketInv /\ DueInv /\ ShortInv /\ [Next]_vars =>
        [\A e \in Entries : net[e] >= 0 /\ net'[e] < 0 =>
          \/ leg'[e] # leg[e]
          \/ \E q \in Requests : job'[q] # job[q] /\ net[e] < filled[e]
          \/ \E c \in {"scheduler", "consumer"} :
                job'[c].todo # job[c].todo /\ (job[c].pc = "place unbooked" \/ Raced(c, e) \/ Partly(c, e))]_vars
  BY ShortCause DEF DueInv, ClockInv
<1>2. MarketInv /\ [Next]_vars => MarketInv'
  BY MarketStep
<1>3. DueInv => ClockInv
  BY DEF DueInv
<1>. QED
  BY <1>1, <1>2, <1>3, InitInv, NextInv, MarketInit, DueInit, DueStep, ShortInit, ShortStep, PTL
  DEF Spec, ShortNeedsCause
=============================================================================
