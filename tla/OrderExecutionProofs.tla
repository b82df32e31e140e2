------------------------ MODULE OrderExecutionProofs ------------------------
(***************************************************************************)
(* For every quantity, price set, number of retries and scenario: the row  *)
(* of an order never claims more than the broker order it names has        *)
(* traded, its price lies between the prices of the trades whenever trades *)
(* are reported with a price, no write but CancelOrder's erases a fill,    *)
(* and a retry after a timeout creates no second order.                    *)
(***************************************************************************)
EXTENDS OrderExecution, TLAPS

-----------------------------------------------------------------------------
(***************************************************************************)
(* Arithmetic of the rounded average                                       *)
(***************************************************************************)

LEMMA DivBounds ==
    ASSUME NEW a \in Nat, NEW b \in Nat, b > 0
    PROVE  /\ a \div b \in Nat
           /\ b * (a \div b) <= a
           /\ a < b * (a \div b) + b
BY SMT

LEMMA RoundedBounds ==
    ASSUME NEW n \in Nat, NEW d \in Nat, d > 0,
           NEW lo \in Nat, NEW hi \in Nat, lo * d <= n, n <= hi * d
    PROVE  Rounded(n, d) \in Nat /\ lo <= Rounded(n, d) /\ Rounded(n, d) <= hi
<1> DEFINE a == 2 * n + d
           b == 2 * d
           q == a \div b
<1>1. a \in Nat /\ b \in Nat /\ b > 0
  OBVIOUS
<1>2. q \in Nat /\ b * q <= a /\ a < b * q + b
  <2> HIDE DEF a, b
  <2> QED
    BY <1>1, DivBounds
<1> HIDE DEF q
<1>3. lo <= q
  <2> SUFFICES ASSUME q + 1 <= lo PROVE FALSE
    BY <1>2
  <2>1. d * (q + 1) <= d * lo
    BY <1>2
  <2> QED
    BY <1>2, <2>1
<1>4. q <= hi
  <2> SUFFICES ASSUME hi + 1 <= q PROVE FALSE
    BY <1>2
  <2>1. d * (hi + 1) <= d * q
    BY <1>2
  <2> QED
    BY <1>2, <2>1
<1> QED
  BY <1>2, <1>3, <1>4 DEF q, Rounded

\* The average of an old price p, with weight f, and a new price q, with
\* weight c - f, lies between the smaller and the larger one.
LEMMA WeightedAverage ==
    ASSUME NEW p \in Nat, NEW q \in Nat, NEW f \in Nat, NEW c \in Nat, 0 < f, f < c,
           NEW lo \in Nat, NEW hi \in Nat, lo <= p, lo <= q, p <= hi, q <= hi
    PROVE  LET r == Rounded(p * f + q * (c - f), c) IN
           r \in Nat /\ lo <= r /\ r <= hi
<1> DEFINE n == p * f + q * (c - f)
<1>1. c - f \in Nat /\ p * f \in Nat /\ q * (c - f) \in Nat
  OBVIOUS
<1>2. lo * f <= p * f /\ p * f <= hi * f
  OBVIOUS
<1>3. lo * (c - f) <= q * (c - f) /\ q * (c - f) <= hi * (c - f)
  BY <1>1
<1>4. lo * f + lo * (c - f) = lo * c /\ hi * f + hi * (c - f) = hi * c
  OBVIOUS
<1>5. n \in Nat /\ lo * c <= n /\ n <= hi * c
  <2>1. lo * f \in Nat /\ lo * (c - f) \in Nat /\ hi * f \in Nat /\ hi * (c - f) \in Nat
    BY <1>1
  <2> QED
    BY <1>1, <1>2, <1>3, <1>4, <2>1
<1> HIDE DEF n
<1>6. Rounded(n, c) \in Nat /\ lo <= Rounded(n, c) /\ Rounded(n, c) <= hi
  BY <1>5, RoundedBounds
<1> QED
  BY <1>6 DEF n

-----------------------------------------------------------------------------
(***************************************************************************)
(* The inductive invariant                                                 *)
(***************************************************************************)

\* Attempt n alone creates broker order n, and creates it once.
AttemptsFresh ==
    /\ exec = "retrying" => attempt <= MaxRetries
    /\ \A id \in Attempts : id > attempt \/ (id = attempt /\ exec = "placing") => order[id].st = "none"

\* Event e, or row r, does not claim more than was traded in order book o.
EventTrue(e, o) == e.filled <= o[e.id].filled
RowTrue(r, o) ==
    /\ r.id \in Ids \union {0}
    /\ r.id = 0 => r.filled = 0
    /\ r.id # 0 => r.filled <= o[r.id].filled

\* Its price is that of a trade in t; only the last event has none.
EventPriced(e, o, t) ==
    /\ e.price \in t[e.id] \union {0}
    /\ e.st \in {"PARTIAL", "EXECUTED"} => e.price # 0
    /\ e.st = "PENDING" => e.filled = 0
    /\ e.st = "CANCELLED" => o[e.id].st = "cancelled" /\ e.filled = o[e.id].filled

\* Seen, in the trades t.
SeenIn(t, id) == t[id] \union (IF OrderPrice > 0 THEN {OrderPrice} ELSE {})

RowPriced(r, o, t) ==
    /\ r.id = 0 => r.price = 0
    /\ r.id # 0 /\ r.price # 0 => Between(r.price, SeenIn(t, r.id))
    /\ r.id # 0 /\ r.filled > 0 /\ r.price = 0 =>
          o[r.id].st = "cancelled" /\ r.filled = o[r.id].filled

\* Every trade is reported with its price.
Priced(s) == s \intersect {"no price", "restart"} = {}

EventOK(e, s, o, t) == EventTrue(e, o) /\ (Priced(s) => EventPriced(e, o, t))
RowOK(r, s, o, t) == RowTrue(r, o) /\ (Priced(s) => RowPriced(r, o, t))

EventsOK ==
    /\ \A e \in events : EventOK(e, scenario, order, traded)
    /\ \A id \in Ids : waiting[id] # NoEvent =>
           waiting[id].id = id /\ EventOK(waiting[id], scenario, order, traded)

RowsOK == RowOK(row, scenario, order, traded) /\ RowOK(copy, scenario, order, traded)

\* The order book, which has no prices, is read after a restart only.
Restarted == started # "first" => "restart" \in scenario

IInv == TypeOK /\ AttemptsFresh /\ Restarted /\ EventsOK /\ RowsOK

-----------------------------------------------------------------------------
(***************************************************************************)
(* What one handled event does to the row                                  *)
(***************************************************************************)

LEMMA IdsFacts ==
    /\ Ids \subseteq Nat /\ 0 \notin Ids
    /\ 1 \in Attempts /\ Attempts \subseteq Ids /\ Other \notin Attempts
BY OrderAssumption DEF Ids, Attempts, Other

LEMMA UpdatedType ==
    ASSUME TypeOK, NEW e \in EventRecords, row.id = e.id
    PROVE  Updated(e) \in Rows
<1>1. /\ e.filled \in Nat /\ e.price \in Nat /\ row.filled \in Nat /\ row.price \in Nat
      /\ e.id \in Nat /\ e.st \in Statuses
  BY IdsFacts DEF TypeOK, Rows, EventRecords, Statuses
<1>2. e.filled > row.filled /\ row.filled # 0 => Average(e) \in Nat
  <2> SUFFICES ASSUME e.filled > row.filled, row.filled # 0 PROVE Average(e) \in Nat
    OBVIOUS
  <2> DEFINE hi == row.price + e.price
  <2>1. hi \in Nat /\ row.price <= hi /\ e.price <= hi
    BY <1>1
  <2>2. 0 < row.filled /\ row.filled < e.filled /\ 0 \in Nat /\ 0 <= row.price /\ 0 <= e.price
    BY <1>1
  <2> HIDE DEF hi
  <2> QED
    BY ONLY <1>1, <2>1, <2>2, WeightedAverage DEF Average
<1>3. TradePrice(e) \in Nat
  BY <1>1, <1>2 DEF TradePrice
<1>4. NewPrice(e) \in Nat
  BY <1>3, OrderAssumption DEF NewPrice
<1> QED
  BY <1>1, <1>4 DEF Updated, Row, Rows

LEMMA UpdatedTrue ==
    ASSUME TypeOK, NEW e \in EventRecords, row.id = e.id, EventTrue(e, order), RowTrue(row, order)
    PROVE  RowTrue(Updated(e), order)
BY IdsFacts DEF TypeOK, EventRecords, EventTrue, RowTrue, Updated, Row

LEMMA AverageBetween ==
    ASSUME NEW S \in SUBSET Nat, NEW p \in Nat, Between(p, S), NEW q \in S,
           NEW f \in Nat, NEW c \in Nat, 0 < f, f < c
    PROVE  Between(Rounded(p * f + q * (c - f), c), S)
<1>1. PICK a \in S : a <= p
  BY DEF Between
<1>2. PICK b \in S : p <= b
  BY DEF Between
<1> DEFINE lo == IF a <= q THEN a ELSE q
           hi == IF b <= q THEN q ELSE b
           r == Rounded(p * f + q * (c - f), c)
<1>3. lo \in S /\ hi \in S /\ lo <= p /\ lo <= q /\ p <= hi /\ q <= hi
  BY <1>1, <1>2
<1>4. lo \in Nat /\ hi \in Nat /\ q \in Nat
  BY <1>3
<1> HIDE DEF lo, hi
<1>5. lo <= r /\ r <= hi
  BY <1>3, <1>4, WeightedAverage
<1> QED
  BY <1>3, <1>5 DEF Between

LEMMA UpdatedPriced ==
    ASSUME TypeOK, NEW e \in EventRecords, row.id = e.id,
           EventTrue(e, order), RowTrue(row, order),
           EventPriced(e, order, traded), RowPriced(row, order, traded)
    PROVE  RowPriced(Updated(e), order, traded)
<1> DEFINE id == e.id
           new == Updated(e)
<1>1. /\ e.filled \in Nat /\ e.price \in Nat /\ row.filled \in Nat /\ row.price \in Nat
      /\ id \in Ids /\ id # 0 /\ order[id].filled \in Nat
      /\ e.st \in {"PENDING", "PARTIAL", "EXECUTED", "CANCELLED"}
  BY IdsFacts DEF TypeOK, Rows, EventRecords
<1>2. /\ SeenIn(traded, id) \in SUBSET Nat /\ 0 \notin SeenIn(traded, id)
      /\ traded[id] \subseteq SeenIn(traded, id)
  <2>1. traded[id] \subseteq Nat \ {0}
    BY <1>1, OrderAssumption DEF TypeOK
  <2> QED
    BY <2>1, OrderAssumption DEF SeenIn
<1>3. /\ new.id = id /\ new.price = NewPrice(e)
      /\ new.filled = IF e.filled > row.filled THEN e.filled ELSE row.filled
  BY DEF Updated, Row
<1>4. \A p \in SeenIn(traded, id) : Between(p, SeenIn(traded, id))
  BY <1>2 DEF Between
<1>5. row.price # 0 => Between(row.price, SeenIn(traded, id))
  BY <1>1 DEF RowPriced
<1>6. e.price # 0 => e.price \in SeenIn(traded, id)
  BY <1>2 DEF EventPriced
<1>7. ASSUME e.filled > row.filled, e.price # 0, row.filled # 0
      PROVE  Between(Average(e), SeenIn(traded, id)) /\ Average(e) # 0
  <2>1. row.price # 0
    BY <1>1, <1>7 DEF RowPriced, EventTrue
  <2>2. Between(Average(e), SeenIn(traded, id))
    <3>1. /\ Between(row.price, SeenIn(traded, id)) /\ e.price \in SeenIn(traded, id)
          /\ 0 < row.filled /\ row.filled < e.filled
      BY <1>1, <1>5, <1>6, <1>7, <2>1
    <3> HIDE DEF id
    <3> QED
      BY ONLY <1>1, <1>2, <3>1, AverageBetween DEF Average
  <2>3. PICK a \in SeenIn(traded, id) : a <= Average(e)
    BY <2>2 DEF Between
  <2> QED
    BY <1>2, <2>2, <2>3
<1>8. TradePrice(e) # 0 => Between(TradePrice(e), SeenIn(traded, id))
  BY <1>1, <1>4, <1>5, <1>6, <1>7 DEF TradePrice
<1>9. NewPrice(e) # 0 => Between(NewPrice(e), SeenIn(traded, id))
  <2>1. OrderPrice # 0 => OrderPrice \in SeenIn(traded, id)
    BY OrderAssumption DEF SeenIn
  <2> QED
    BY <1>4, <1>8, <2>1 DEF NewPrice
<1>10. ASSUME new.filled > 0, NewPrice(e) = 0
       PROVE  order[id].st = "cancelled" /\ new.filled = order[id].filled
  <2>1. TradePrice(e) = 0
    BY <1>10 DEF NewPrice
  <2>2. CASE e.filled > row.filled
    <3>1. e.price = 0
      BY <1>7, <2>1, <2>2 DEF TradePrice
    <3>2. e.st = "CANCELLED"
      BY <1>1, <2>2, <3>1 DEF EventPriced
    <3> QED
      BY <1>3, <2>2, <3>2 DEF EventPriced
  <2>3. CASE ~(e.filled > row.filled)
    <3>1. row.price = 0
      BY <2>1, <2>3 DEF TradePrice
    <3> QED
      BY <1>1, <1>3, <1>10, <2>3, <3>1 DEF RowPriced
  <2> QED
    BY <2>2, <2>3
<1> QED
  BY <1>1, <1>3, <1>9, <1>10 DEF RowPriced

LEMMA UpdatedOK ==
    ASSUME TypeOK, NEW e \in EventRecords, row.id = e.id,
           EventOK(e, scenario, order, traded), RowOK(row, scenario, order, traded)
    PROVE  Updated(e) \in Rows /\ RowOK(Updated(e), scenario, order, traded)
BY UpdatedType, UpdatedTrue, UpdatedPriced DEF EventOK, RowOK

-----------------------------------------------------------------------------
(***************************************************************************)
(* What stays true while the order book grows                              *)
(***************************************************************************)

Books == [Ids -> [st : {"none", "open", "executed", "cancelled"}, filled : Nat]]
Trades == [Ids -> SUBSET Prices]

Grown(o, t, o2, t2) ==
    \A id \in Ids : /\ o[id].filled <= o2[id].filled
                    /\ t[id] \subseteq t2[id]
                    /\ o[id].st = "cancelled" => o2[id] = o[id]

LEMMA EventKept ==
    ASSUME NEW o \in Books, NEW t \in Trades, NEW o2 \in Books, NEW t2 \in Trades, NEW s,
           Grown(o, t, o2, t2), NEW e \in EventRecords, EventOK(e, s, o, t)
    PROVE  EventOK(e, s, o2, t2)
<1>1. e.id \in Ids /\ e.filled \in Nat
  BY DEF EventRecords
<1>2. o[e.id].filled \in Nat /\ o2[e.id].filled \in Nat
  BY <1>1 DEF Books
<1>3. EventTrue(e, o2)
  BY <1>1, <1>2 DEF EventOK, EventTrue, Grown
<1>4. Priced(s) => EventPriced(e, o2, t2)
  BY <1>1 DEF EventOK, EventPriced, Grown
<1> QED
  BY <1>3, <1>4 DEF EventOK

LEMMA RowKept ==
    ASSUME NEW o \in Books, NEW t \in Trades, NEW o2 \in Books, NEW t2 \in Trades, NEW s,
           Grown(o, t, o2, t2), NEW r \in Rows, RowOK(r, s, o, t)
    PROVE  RowOK(r, s, o2, t2)
<1>1. r.filled \in Nat /\ (r.id # 0 => r.id \in Ids)
  BY DEF RowOK, RowTrue, Rows
<1>2. r.id # 0 => o[r.id].filled \in Nat /\ o2[r.id].filled \in Nat
  BY <1>1 DEF Books
<1>3. RowTrue(r, o2)
  BY <1>1, <1>2 DEF RowOK, RowTrue, Grown
<1>4. ASSUME Priced(s) PROVE RowPriced(r, o2, t2)
  <2>1. r.id # 0 => SeenIn(t, r.id) \subseteq SeenIn(t2, r.id)
    BY <1>1 DEF Grown, SeenIn
  <2>2. r.id # 0 /\ r.price # 0 => Between(r.price, SeenIn(t2, r.id))
    BY <1>4, <2>1 DEF RowOK, RowPriced, Between
  <2> QED
    BY <1>1, <1>4, <2>2 DEF RowOK, RowPriced, Grown
<1> QED
  BY <1>3, <1>4 DEF RowOK

\* What IInv says of a state holds of its events and rows in a grown book.
LEMMA Carried ==
    ASSUME IInv, scenario' = scenario, order' \in Books, traded' \in Trades,
           Grown(order, traded, order', traded')
    PROVE  /\ \A e \in events : EventOK(e, scenario', order', traded')
           /\ \A id \in Ids : waiting[id] # NoEvent =>
                  waiting[id].id = id /\ EventOK(waiting[id], scenario', order', traded')
           /\ RowOK(row, scenario', order', traded')
           /\ RowOK(copy, scenario', order', traded')
<1>1. /\ order \in Books /\ traded \in Trades /\ row \in Rows /\ copy \in Rows
      /\ events \subseteq EventRecords
      /\ \A id \in Ids : waiting[id] \in EventRecords \union {NoEvent}
  BY DEF IInv, TypeOK, Books, Trades
<1>2. \A e \in events : EventOK(e, scenario', order', traded')
  <2> TAKE e \in events
  <2>1. e \in EventRecords /\ EventOK(e, scenario, order, traded)
    BY <1>1 DEF IInv, EventsOK
  <2> QED
    BY <1>1, <2>1, EventKept
<1>3. ASSUME NEW id \in Ids, waiting[id] # NoEvent
      PROVE  waiting[id].id = id /\ EventOK(waiting[id], scenario', order', traded')
  <2>1. /\ waiting[id] \in EventRecords /\ waiting[id].id = id
        /\ EventOK(waiting[id], scenario, order, traded)
    BY <1>1, <1>3 DEF IInv, EventsOK
  <2> QED
    BY <1>1, <2>1, EventKept
<1>4. RowOK(row, scenario', order', traded') /\ RowOK(copy, scenario', order', traded')
  BY <1>1, RowKept DEF IInv, RowsOK
<1> QED
  BY <1>2, <1>3, <1>4

\* A step that leaves the broker and the events alone or drops some.
LEMMA SameBook ==
    ASSUME IInv, UNCHANGED <<scenario, order, traded>>
    PROVE  Grown(order, traded, order', traded') /\ order' \in Books /\ traded' \in Trades
<1>1. order \in Books /\ traded \in Trades
  BY DEF IInv, TypeOK, Books, Trades
<1>2. \A id \in Ids : order[id].filled \in Nat
  BY <1>1 DEF Books
<1> QED
  BY <1>1, <1>2 DEF Grown

\* Rows that nobody has filled yet.
LEMMA EmptyRow ==
    ASSUME NEW st \in Statuses, NEW id \in Ids \union {0}, NEW o \in Books, NEW t, NEW s
    PROVE  Row(st, id, 0, 0) \in Rows /\ RowOK(Row(st, id, 0, 0), s, o, t)
BY IdsFacts DEF Row, Rows, RowOK, RowTrue, RowPriced, Books

(***************************************************************************)
(* The broker's steps: the book grows, and its new event is a true one     *)
(***************************************************************************)

LEMMA AcceptOK ==
    ASSUME IInv, exec = "placing", Accept(attempt), UNCHANGED <<scenario, traded>>
    PROVE  /\ order' \in Books /\ traded' \in Trades /\ Grown(order, traded, order', traded')
           /\ events' \subseteq EventRecords
           /\ \A e \in events' : EventOK(e, scenario', order', traded')
           /\ \A id \in Ids : id # attempt => order'[id] = order[id]
<1> DEFINE new == Event(attempt, "PENDING", 0, 0)
<1>1. /\ order \in Books /\ traded \in Trades /\ events \subseteq EventRecords /\ attempt \in Ids
      /\ order[attempt].st = "none"
  BY IdsFacts DEF IInv, TypeOK, Books, Trades, AttemptsFresh
<1>2. order' \in Books /\ \A id \in Ids : id # attempt => order'[id] = order[id]
  BY <1>1 DEF Accept, Books
<1>3. order'[attempt].filled = order[attempt].filled
  BY <1>1 DEF Accept, Books
<1>4. \A id \in Ids : order[id].filled \in Nat
  BY <1>1 DEF Books
<1>5. Grown(order, traded, order', traded')
  BY <1>1, <1>2, <1>3, <1>4 DEF Grown
<1>6. new \in EventRecords
  BY <1>1 DEF Event, EventRecords
<1>7. EventOK(new, scenario', order', traded')
  BY <1>1, <1>3, <1>4 DEF Event, EventOK, EventTrue, EventPriced
<1>8. events' = events \union {new}
  BY DEF Accept
<1> QED
  BY <1>1, <1>2, <1>5, <1>6, <1>7, <1>8, Carried

LEMMA EndOrderOK ==
    ASSUME IInv, NEW id \in Ids, EndOrder(id), UNCHANGED <<scenario, traded>>
    PROVE  /\ order' \in Books /\ traded' \in Trades /\ Grown(order, traded, order', traded')
           /\ events' \subseteq EventRecords
           /\ \A e \in events' : EventOK(e, scenario', order', traded')
           /\ \A i \in Ids : order[i].st = "none" => order'[i] = order[i]
<1>1. /\ order \in Books /\ traded \in Trades /\ events \subseteq EventRecords
      /\ order[id].st = "open" /\ order[id].filled \in Nat
      /\ traded[id] \subseteq Nat
  BY OrderAssumption DEF IInv, TypeOK, Books, Trades, EndOrder
<1>2. PICK price \in traded[id] \union {0} :
          events' = events \union {Event(id, "CANCELLED", order[id].filled, price)}
  BY DEF EndOrder
<1> DEFINE new == Event(id, "CANCELLED", order[id].filled, price)
<1>3. /\ order' \in Books
      /\ \A i \in Ids : i # id => order'[i] = order[i]
      /\ order'[id].filled = order[id].filled /\ order'[id].st = "cancelled"
  BY <1>1 DEF EndOrder, Books
<1>4. \A i \in Ids : order[i].filled \in Nat
  BY <1>1 DEF Books
<1>5. Grown(order, traded, order', traded')
  BY <1>1, <1>3, <1>4 DEF Grown
<1>6. new \in EventRecords
  BY <1>1, <1>2 DEF Event, EventRecords
<1>7. EventOK(new, scenario', order', traded')
  BY <1>1, <1>2, <1>3 DEF Event, EventOK, EventTrue, EventPriced
<1>8. \A i \in Ids : order[i].st = "none" => order'[i] = order[i]
  BY <1>1, <1>3
<1> HIDE DEF new
<1>9. events' = events \union {new}
  BY <1>2 DEF new
<1> QED
  BY <1>1, <1>3, <1>5, <1>6, <1>7, <1>8, <1>9, Carried

LEMMA TradeOK ==
    ASSUME IInv, NEW id \in Ids, NEW q \in Nat, NEW p \in Prices, Trade(id, q, p)
    PROVE  /\ order' \in Books /\ traded' \in Trades /\ Grown(order, traded, order', traded')
           /\ events' \subseteq EventRecords
           /\ \A e \in events' : EventOK(e, scenario', order', traded')
           /\ \A i \in Ids : order[i].st = "none" => order'[i] = order[i]
<1> DEFINE st == IF q = Quantity THEN "EXECUTED" ELSE "PARTIAL"
<1>1. /\ order \in Books /\ traded \in Trades /\ events \subseteq EventRecords
      /\ order[id].st = "open" /\ order[id].filled \in Nat /\ order[id].filled < q
      /\ q \in Nat /\ p \in Nat /\ p # 0 /\ scenario' = scenario
  <2>1. order \in Books /\ traded \in Trades /\ events \subseteq EventRecords
    BY DEF IInv, TypeOK, Books, Trades
  <2>2. order[id].st = "open" /\ order[id].filled < q /\ scenario' = scenario
    BY DEF Trade
  <2>3. order[id].filled \in Nat
    BY <2>1 DEF Books
  <2>4. p \in Nat /\ p # 0
    BY OrderAssumption
  <2> QED
    BY <2>1, <2>2, <2>3, <2>4
<1>2. PICK price \in {p, 0} :
          /\ price = 0 => "no price" \in scenario
          /\ events' = events \union {Event(id, st, q, price)}
  BY <1>1 DEF Trade
<1> DEFINE new == Event(id, st, q, price)
<1>3. /\ order' \in Books
      /\ \A i \in Ids : i # id => order'[i] = order[i]
      /\ order'[id].filled = q
  BY <1>1 DEF Trade, Books
<1>4. /\ traded' \in Trades
      /\ \A i \in Ids : i # id => traded'[i] = traded[i]
      /\ traded'[id] = traded[id] \union {p}
  BY <1>1 DEF Trade, Trades
<1>5. \A i \in Ids : order[i].filled \in Nat
  BY <1>1 DEF Books
<1>6. Grown(order, traded, order', traded')
  <2> SUFFICES ASSUME NEW i \in Ids
               PROVE  /\ order[i].filled <= order'[i].filled
                      /\ traded[i] \subseteq traded'[i]
                      /\ order[i].st = "cancelled" => order'[i] = order[i]
    BY DEF Grown
  <2>1. CASE i = id
    BY <1>1, <1>3, <1>4, <2>1
  <2>2. CASE i # id
    BY <1>3, <1>4, <1>5, <2>2
  <2> QED
    BY <2>1, <2>2
<1>7. new \in EventRecords
  <2>1. price \in Nat /\ st \in {"PARTIAL", "EXECUTED"}
    BY <1>1
  <2> HIDE DEF st
  <2> QED
    BY <1>1, <2>1 DEF Event, EventRecords
<1>8. EventOK(new, scenario', order', traded')
  <2>1. new.id = id /\ new.filled = q /\ new.price = price /\ new.st = st
    BY DEF Event
  <2>2. Priced(scenario') => price = p
    BY <1>1, <1>2 DEF Priced
  <2>3. st \in {"EXECUTED", "PARTIAL"}
    OBVIOUS
  <2> HIDE DEF new, st
  <2>4. EventTrue(new, order')
    BY <1>1, <1>3, <2>1 DEF EventTrue
  <2>5. Priced(scenario') => EventPriced(new, order', traded')
    BY <1>1, <1>4, <2>1, <2>2, <2>3 DEF EventPriced
  <2> QED
    BY <2>4, <2>5 DEF EventOK
<1>9. \A i \in Ids : order[i].st = "none" => order'[i] = order[i]
  BY <1>1, <1>3
<1> HIDE DEF new
<1>10. events' = events \union {new}
  BY <1>2 DEF new
<1> QED
  BY <1>1, <1>3, <1>4, <1>6, <1>7, <1>8, <1>9, <1>10, Carried
-----------------------------------------------------------------------------
(***************************************************************************)
(* Initial states and steps                                                *)
(***************************************************************************)

\* At first the book has no order of this one.
LEMMA NoneYet == Init => \A id \in Attempts : order[id].st = "none"
<1> SUFFICES ASSUME Init, NEW id \in Attempts PROVE order[id].st = "none"
  OBVIOUS
<1>1. id \in Ids /\ id # Other
  BY IdsFacts
<1>2. order = [i \in Ids |-> [st |-> IF i = Other /\ "other order" \in scenario THEN "open" ELSE "none",
                             filled |-> 0]]
  BY DEF Init
<1> QED
  BY <1>1, <1>2

LEMMA InitInv == ASSUME Init PROVE IInv
<1>1. TypeOK
  BY OrderAssumption, IdsFacts DEF Init, TypeOK, Row, Rows, Statuses
<1>2. order \in Books
  BY <1>1 DEF TypeOK, Books
<1>3. RowsOK
  BY <1>2, EmptyRow DEF Init, RowsOK, Statuses
<1>4. AttemptsFresh
  BY NoneYet DEF Init, AttemptsFresh
<1> QED
  BY <1>1, <1>3, <1>4 DEF Init, IInv, Restarted, EventsOK

\* What a step has to show about the executor and the broker's book.
LEMMA AttemptsKept ==
    ASSUME IInv, attempt' = attempt,
           exec' = "retrying" => attempt <= MaxRetries,
           exec' = "placing" => exec = "placing",
           \A id \in Ids : order[id].st = "none" => order'[id] = order[id]
    PROVE  AttemptsFresh'
BY IdsFacts DEF IInv, AttemptsFresh

\* WriteRow leaves a row that holds what either row holds.
LEMMA WriteRowOK ==
    ASSUME NEW r \in Rows, WriteRow(r), row \in Rows,
           RowOK(row, scenario', order', traded'), RowOK(r, scenario', order', traded')
    PROVE  row' \in Rows /\ RowOK(row', scenario', order', traded')
BY DEF WriteRow

\* A step of the broker alone, that adds events.
LEMMA BrokerStep ==
    ASSUME IInv, scenario' = scenario,
           order' \in Books, traded' \in Trades, Grown(order, traded, order', traded'),
           events' \subseteq EventRecords,
           \A e \in events' : EventOK(e, scenario', order', traded'),
           UNCHANGED <<waiting, row, copy>>
    PROVE  EventsOK' /\ RowsOK'
BY Carried DEF EventsOK, RowsOK

LEMMA BrokerStepInv ==
    ASSUME IInv,
           (\E id \in Ids, filled \in 1..Quantity, p \in Prices : Trade(id, filled, p))
             \/ (\E id \in Ids : ExchangeEnds(id))
    PROVE  IInv'
<1>1. CASE \E id \in Ids, filled \in 1..Quantity, p \in Prices : Trade(id, filled, p)
  <2>1. PICK id \in Ids, q \in 1..Quantity, p \in Prices : Trade(id, q, p)
    BY <1>1
  <2>2. q \in Nat
    BY OrderAssumption
  <2>3. UNCHANGED <<scenario, execVars, waiting, row, cancelVars, started>>
    BY <2>1 DEF Trade
  <2>4. /\ order' \in Books /\ traded' \in Trades /\ Grown(order, traded, order', traded')
        /\ events' \subseteq EventRecords
        /\ \A e \in events' : EventOK(e, scenario', order', traded')
        /\ \A i \in Ids : order[i].st = "none" => order'[i] = order[i]
    BY <2>1, <2>2, TradeOK
  <2>5. TypeOK'
    BY <2>3, <2>4 DEF IInv, TypeOK, execVars, cancelVars, Books, Trades
  <2>6. AttemptsFresh'
    BY <2>3, <2>4, AttemptsKept DEF IInv, AttemptsFresh, execVars
  <2>7. EventsOK' /\ RowsOK'
    BY <2>3, <2>4, BrokerStep DEF cancelVars
  <2> QED
    BY <2>3, <2>5, <2>6, <2>7 DEF IInv, Restarted
<1>2. CASE \E id \in Ids : ExchangeEnds(id)
  <2>1. PICK id \in Ids : ExchangeEnds(id)
    BY <1>2
  <2>2. EndOrder(id) /\ UNCHANGED <<scenario, execVars, traded, waiting, row, cancelVars, started>>
    BY <2>1 DEF ExchangeEnds
  <2>3. /\ order' \in Books /\ traded' \in Trades /\ Grown(order, traded, order', traded')
        /\ events' \subseteq EventRecords
        /\ \A e \in events' : EventOK(e, scenario', order', traded')
        /\ \A i \in Ids : order[i].st = "none" => order'[i] = order[i]
    BY <2>2, EndOrderOK
  <2>4. TypeOK'
    BY <2>2, <2>3 DEF IInv, TypeOK, execVars, cancelVars, Books, Trades
  <2>5. AttemptsFresh'
    BY <2>2, <2>3, AttemptsKept DEF IInv, AttemptsFresh, execVars
  <2>6. EventsOK' /\ RowsOK'
    BY <2>2, <2>3, BrokerStep DEF cancelVars
  <2> QED
    BY <2>2, <2>4, <2>5, <2>6 DEF IInv, Restarted
<1> QED
  BY <1>1, <1>2

\* Steps of ExecuteOrder.
LEMMA ExecutorInv == ASSUME IInv, Executor PROVE IInv'
<1>0. /\ order \in Books /\ traded \in Trades /\ row \in Rows /\ copy \in Rows
      /\ attempt \in Attempts /\ attempt \in Ids /\ attempt \in Nat /\ MaxRetries \in Nat
      /\ placedId \in Ids \union {0} /\ Attempts = 1..MaxRetries + 1 /\ Attempts \subseteq Ids
  BY OrderAssumption, IdsFacts DEF IInv, TypeOK, Books, Trades, Attempts
<1>1. CASE PlaceOrder
  <2>1. /\ exec = "placing" /\ exec' = "placed" /\ placedId' = attempt /\ Accept(attempt)
        /\ UNCHANGED <<scenario, attempt, timedOut, traded, waiting, row, cancelVars, started>>
    BY <1>1 DEF PlaceOrder
  <2>2. /\ order' \in Books /\ traded' \in Trades /\ Grown(order, traded, order', traded')
        /\ events' \subseteq EventRecords
        /\ \A e \in events' : EventOK(e, scenario', order', traded')
        /\ \A id \in Ids : id # attempt => order'[id] = order[id]
    BY <2>1, AcceptOK
  <2>3. TypeOK'
    BY <1>0, <2>1, <2>2 DEF IInv, TypeOK, cancelVars, Books, Trades
  <2>4. AttemptsFresh'
    BY <1>0, <2>1, <2>2 DEF IInv, AttemptsFresh
  <2>5. EventsOK' /\ RowsOK'
    BY <2>1, <2>2, BrokerStep DEF cancelVars
  <2> QED
    BY <2>1, <2>3, <2>4, <2>5 DEF IInv, Restarted
<1>2. CASE PlaceRejected
  <2>1. /\ exec' = "failed" /\ WriteRow(Row("FAILED", 0, 0, 0))
        /\ UNCHANGED <<scenario, attempt, timedOut, placedId, brokerVars, events, waiting,
                       cancelVars, started>>
    BY <1>2 DEF PlaceRejected, FailOrder
  <2>2. Grown(order, traded, order', traded') /\ order' \in Books /\ traded' \in Trades
    BY <2>1, SameBook DEF brokerVars
  <2>3. row' \in Rows /\ RowOK(row', scenario', order', traded')
    <3>1. /\ Row("FAILED", 0, 0, 0) \in Rows
          /\ RowOK(Row("FAILED", 0, 0, 0), scenario', order', traded')
      BY <2>2, EmptyRow DEF Statuses
    <3> QED
      BY <1>0, <2>1, <2>2, <3>1, Carried, WriteRowOK
  <2>4. TypeOK'
    BY <2>1, <2>3 DEF IInv, TypeOK, brokerVars, cancelVars
  <2>5. AttemptsFresh'
    BY <2>1, AttemptsKept DEF brokerVars
  <2>6. EventsOK' /\ RowsOK'
    BY <2>1, <2>2, <2>3, Carried DEF EventsOK, RowsOK, cancelVars
  <2> QED
    BY <2>1, <2>4, <2>5, <2>6 DEF IInv, Restarted
<1>3. CASE \E timeout \in BOOLEAN : PlaceFails(timeout)
  <2>1. PICK timeout \in BOOLEAN : PlaceFails(timeout)
    BY <1>3
  <2>2. /\ exec = "placing" /\ timedOut' = timeout
        /\ UNCHANGED <<scenario, attempt, placedId, traded, waiting, cancelVars, started>>
        /\ UNCHANGED <<order, events>> \/ Accept(attempt)
        /\ \/ attempt <= MaxRetries /\ exec' = "retrying" /\ UNCHANGED row
           \/ attempt = MaxRetries + 1 /\ FailOrder
    BY <2>1 DEF PlaceFails
  <2>3. /\ order' \in Books /\ traded' \in Trades /\ Grown(order, traded, order', traded')
        /\ events' \subseteq EventRecords
        /\ \A e \in events' : EventOK(e, scenario', order', traded')
        /\ \A id \in Ids : id # attempt => order'[id] = order[id]
    <3>1. CASE UNCHANGED <<order, events>>
      <4>1. Grown(order, traded, order', traded') /\ order' \in Books /\ traded' \in Trades
        BY <2>2, <3>1, SameBook
      <4> QED
        BY <2>2, <3>1, <4>1, Carried DEF IInv, TypeOK
    <3>2. CASE Accept(attempt)
      BY <2>2, <3>2, AcceptOK
    <3> QED
      BY <2>2, <3>1, <3>2
  <2>4. row' \in Rows /\ RowOK(row', scenario', order', traded')
    <3>1. RowOK(row, scenario', order', traded')
      BY <2>2, <2>3, Carried
    <3>2. /\ Row("FAILED", 0, 0, 0) \in Rows
          /\ RowOK(Row("FAILED", 0, 0, 0), scenario', order', traded')
      BY <2>3, EmptyRow DEF Statuses
    <3>3. FailOrder => row' \in Rows /\ RowOK(row', scenario', order', traded')
      BY <1>0, <3>1, <3>2, WriteRowOK DEF FailOrder
    <3> QED
      BY <1>0, <2>2, <3>1, <3>3
  <2>5. exec' \in {"retrying", "failed"} /\ (exec' = "retrying" => attempt <= MaxRetries)
    BY <2>2 DEF FailOrder
  <2>6. TypeOK'
    BY <2>2, <2>3, <2>4, <2>5 DEF IInv, TypeOK, cancelVars, Books, Trades
  <2>7. AttemptsFresh'
    BY <1>0, <2>2, <2>3, <2>5 DEF IInv, AttemptsFresh
  <2>8. EventsOK' /\ RowsOK'
    BY <2>2, <2>3, <2>4, Carried DEF EventsOK, RowsOK, cancelVars
  <2> QED
    BY <2>2, <2>6, <2>7, <2>8 DEF IInv, Restarted
<1>4. CASE Retry
  <2>1. /\ exec = "retrying"
        /\ UNCHANGED <<scenario, timedOut, brokerVars, events, waiting, row, cancelVars, started>>
        /\ \/ placedId' \in InBook /\ exec' = "placed" /\ attempt' = attempt
           \/ exec' = "placing" /\ attempt' = attempt + 1 /\ placedId' = placedId
    BY <1>4 DEF Retry
  <2>2. Grown(order, traded, order', traded') /\ order' \in Books /\ traded' \in Trades
    BY <2>1, SameBook DEF brokerVars
  <2>3. attempt <= MaxRetries /\ attempt + 1 \in Attempts
    BY <1>0, <2>1 DEF IInv, AttemptsFresh
  <2>4. TypeOK'
    <3>1. placedId' \in Ids \union {0} /\ attempt' \in Attempts /\ exec' \in {"placed", "placing"}
      BY <1>0, <2>1, <2>3 DEF InBook
    <3> QED
      BY <2>1, <3>1 DEF IInv, TypeOK, brokerVars, cancelVars
  <2>5. AttemptsFresh'
    BY <1>0, <2>1, <2>3 DEF IInv, AttemptsFresh, brokerVars
  <2>6. EventsOK' /\ RowsOK'
    BY <2>1, <2>2, Carried DEF EventsOK, RowsOK, cancelVars
  <2> QED
    BY <2>1, <2>4, <2>5, <2>6 DEF IInv, Restarted
<1>5. CASE ContextEnds
  <2>1. /\ exec' = "gone"
        /\ UNCHANGED <<scenario, attempt, timedOut, placedId, brokerVars, events, waiting, row,
                       cancelVars, started>>
    BY <1>5 DEF ContextEnds
  <2>2. Grown(order, traded, order', traded') /\ order' \in Books /\ traded' \in Trades
    BY <2>1, SameBook DEF brokerVars
  <2>3. TypeOK'
    BY <2>1 DEF IInv, TypeOK, brokerVars, cancelVars
  <2>4. AttemptsFresh'
    BY <2>1, AttemptsKept DEF brokerVars
  <2>5. EventsOK' /\ RowsOK'
    BY <2>1, <2>2, Carried DEF EventsOK, RowsOK, cancelVars
  <2> QED
    BY <2>1, <2>3, <2>4, <2>5 DEF IInv, Restarted
<1>6. CASE WriteSubmitted
  <2>1. /\ exec' = "done" /\ WriteRow(Row("SUBMITTED", placedId, 0, 0))
        /\ UNCHANGED <<scenario, attempt, timedOut, placedId, brokerVars, events, waiting,
                       cancelVars, started>>
    BY <1>6 DEF WriteSubmitted
  <2>2. Grown(order, traded, order', traded') /\ order' \in Books /\ traded' \in Trades
    BY <2>1, SameBook DEF brokerVars
  <2>3. row' \in Rows /\ RowOK(row', scenario', order', traded')
    <3>1. /\ Row("SUBMITTED", placedId, 0, 0) \in Rows
          /\ RowOK(Row("SUBMITTED", placedId, 0, 0), scenario', order', traded')
      BY <1>0, <2>2, EmptyRow DEF Statuses
    <3> QED
      BY <1>0, <2>1, <2>2, <3>1, Carried, WriteRowOK
  <2>4. TypeOK'
    BY <2>1, <2>3 DEF IInv, TypeOK, brokerVars, cancelVars
  <2>5. AttemptsFresh'
    BY <2>1, AttemptsKept DEF brokerVars
  <2>6. EventsOK' /\ RowsOK'
    BY <2>1, <2>2, <2>3, Carried DEF EventsOK, RowsOK, cancelVars
  <2> QED
    BY <2>1, <2>4, <2>5, <2>6 DEF IInv, Restarted
<1> QED
  BY <1>1, <1>2, <1>3, <1>4, <1>5, <1>6 DEF Executor

\* Steps of the status service.
LEMMA StatusServiceInv == ASSUME IInv, StatusService PROVE IInv'
<1>0. /\ row \in Rows /\ copy \in Rows /\ events \subseteq EventRecords
      /\ waiting \in [Ids -> EventRecords \union {NoEvent}]
  BY DEF IInv, TypeOK
<1>1. CASE \E e \in events : HandleStatusUpdate(e)
  <2>1. PICK e \in events : HandleStatusUpdate(e)
    BY <1>1
  <2>2. /\ events' = events \ {e}
        /\ UNCHANGED <<scenario, execVars, brokerVars, cancelVars, started>>
        /\ \/ row.id = e.id /\ WriteRow(Updated(e)) /\ waiting' = waiting
           \/ waiting' = [waiting EXCEPT ![e.id] = e] /\ row' = row
    BY <2>1 DEF HandleStatusUpdate
  <2>3. e \in EventRecords /\ e.id \in Ids /\ EventOK(e, scenario, order, traded)
    BY <1>0 DEF IInv, EventsOK, EventRecords
  <2>4. Grown(order, traded, order', traded') /\ order' \in Books /\ traded' \in Trades
    BY <2>2, SameBook DEF brokerVars
  <2>5. row' \in Rows /\ RowOK(row', scenario', order', traded')
    <3>1. CASE row.id = e.id /\ WriteRow(Updated(e))
      <4>1. Updated(e) \in Rows /\ RowOK(Updated(e), scenario', order', traded')
        BY <2>2, <2>3, <3>1, UpdatedOK DEF IInv, RowsOK, brokerVars
      <4> QED
        BY <1>0, <2>2, <2>4, <3>1, <4>1, Carried, WriteRowOK
    <3>2. CASE row' = row
      BY <1>0, <2>2, <2>4, <3>2, Carried
    <3> QED
      BY <2>2, <3>1, <3>2
  <2>6. /\ waiting' \in [Ids -> EventRecords \union {NoEvent}]
        /\ \A id \in Ids : waiting'[id] = waiting[id] \/ (id = e.id /\ waiting'[id] = e)
    BY <1>0, <2>2, <2>3
  <2>7. TypeOK'
    BY <1>0, <2>2, <2>5, <2>6 DEF IInv, TypeOK, execVars, brokerVars, cancelVars
  <2>8. AttemptsFresh'
    BY <2>2, AttemptsKept DEF IInv, AttemptsFresh, execVars, brokerVars
  <2>9. EventsOK' /\ RowsOK'
    BY <2>2, <2>3, <2>4, <2>5, <2>6, Carried DEF EventsOK, RowsOK, brokerVars, cancelVars
  <2> QED
    BY <2>2, <2>7, <2>8, <2>9 DEF IInv, Restarted
<1>2. CASE \E id \in Ids : LookUpAgain(id)
  <2>1. PICK id \in Ids : LookUpAgain(id)
    BY <1>2
  <2> DEFINE e == waiting[id]
  <2>2. /\ e # NoEvent
        /\ waiting' = [waiting EXCEPT ![id] = NoEvent]
        /\ UNCHANGED <<scenario, execVars, brokerVars, events, cancelVars, started>>
        /\ \/ row.id = id /\ WriteRow(Updated(e))
           \/ row' = row
    BY <2>1 DEF LookUpAgain, Free
  <2>3. e \in EventRecords /\ e.id = id /\ EventOK(e, scenario, order, traded)
    BY <1>0, <2>2 DEF IInv, EventsOK
  <2>4. Grown(order, traded, order', traded') /\ order' \in Books /\ traded' \in Trades
    BY <2>2, SameBook DEF brokerVars
  <2>5. row' \in Rows /\ RowOK(row', scenario', order', traded')
    <3> HIDE DEF e
    <3>1. CASE row.id = id /\ WriteRow(Updated(e))
      <4>1. Updated(e) \in Rows /\ RowOK(Updated(e), scenario', order', traded')
        BY <2>2, <2>3, <3>1, UpdatedOK DEF IInv, RowsOK, brokerVars
      <4> QED
        BY <1>0, <2>2, <2>4, <3>1, <4>1, Carried, WriteRowOK
    <3>2. CASE row' = row
      BY <1>0, <2>2, <2>4, <3>2, Carried
    <3> QED
      BY <2>2, <3>1, <3>2
  <2>6. /\ waiting' \in [Ids -> EventRecords \union {NoEvent}]
        /\ \A i \in Ids : waiting'[i] # NoEvent => waiting'[i] = waiting[i]
    BY <1>0, <2>2
  <2>7. TypeOK'
    BY <2>2, <2>5, <2>6 DEF IInv, TypeOK, execVars, brokerVars, cancelVars
  <2>8. AttemptsFresh'
    BY <2>2, AttemptsKept DEF IInv, AttemptsFresh, execVars, brokerVars
  <2>9. EventsOK' /\ RowsOK'
    BY <2>2, <2>4, <2>5, <2>6, Carried DEF EventsOK, RowsOK, cancelVars
  <2> QED
    BY <2>2, <2>7, <2>8, <2>9 DEF IInv, Restarted
<1> QED
  BY <1>1, <1>2 DEF StatusService

\* Steps of CancelOrder.
LEMMA CancelInv == ASSUME IInv, ReadForCancel \/ CancelAtBroker \/ WriteCancelled PROVE IInv'
<1>0. row \in Rows /\ copy \in Rows
  BY DEF IInv, TypeOK
<1>1. CASE ReadForCancel
  <2>1. /\ copy' = row /\ cancel' = "read"
        /\ UNCHANGED <<scenario, execVars, brokerVars, events, waiting, row, started>>
    BY <1>1 DEF ReadForCancel
  <2>2. Grown(order, traded, order', traded') /\ order' \in Books /\ traded' \in Trades
    BY <2>1, SameBook DEF brokerVars
  <2>3. TypeOK'
    BY <1>0, <2>1 DEF IInv, TypeOK, execVars, brokerVars
  <2>4. AttemptsFresh'
    BY <2>1, AttemptsKept DEF IInv, AttemptsFresh, execVars, brokerVars
  <2>5. EventsOK' /\ RowsOK'
    BY <2>1, <2>2, Carried DEF EventsOK, RowsOK
  <2> QED
    BY <2>1, <2>3, <2>4, <2>5 DEF IInv, Restarted
<1>2. CASE CancelAtBroker
  <2>1. /\ cancel' = "sent"
        /\ \/ copy.id # 0 /\ EndOrder(copy.id)
           \/ UNCHANGED <<order, events>>
        /\ UNCHANGED <<scenario, execVars, traded, waiting, row, copy, started>>
    BY <1>2 DEF CancelAtBroker
  <2>2. copy.id # 0 => copy.id \in Ids
    BY DEF IInv, RowsOK, RowOK, RowTrue
  <2>3. /\ order' \in Books /\ traded' \in Trades /\ Grown(order, traded, order', traded')
        /\ events' \subseteq EventRecords
        /\ \A e \in events' : EventOK(e, scenario', order', traded')
        /\ \A i \in Ids : order[i].st = "none" => order'[i] = order[i]
    <3>1. CASE copy.id # 0 /\ EndOrder(copy.id)
      BY <2>1, <2>2, <3>1, EndOrderOK
    <3>2. CASE UNCHANGED <<order, events>>
      <4>1. Grown(order, traded, order', traded') /\ order' \in Books /\ traded' \in Trades
        BY <2>1, <3>2, SameBook
      <4> QED
        BY <2>1, <3>2, <4>1, Carried DEF IInv, TypeOK
    <3> QED
      BY <2>1, <3>1, <3>2
  <2>4. TypeOK'
    BY <2>1, <2>3 DEF IInv, TypeOK, execVars, Books, Trades
  <2>5. AttemptsFresh'
    BY <2>1, <2>3, AttemptsKept DEF IInv, AttemptsFresh, execVars
  <2>6. EventsOK' /\ RowsOK'
    BY <2>1, <2>3, BrokerStep
  <2> QED
    BY <2>1, <2>4, <2>5, <2>6 DEF IInv, Restarted
<1>3. CASE WriteCancelled
  <2> DEFINE r == [copy EXCEPT !.st = "CANCELLED"]
  <2>1. /\ cancel' = "idle" /\ WriteRow(r)
        /\ UNCHANGED <<scenario, execVars, brokerVars, events, waiting, copy, started>>
    BY <1>3 DEF WriteCancelled
  <2>2. Grown(order, traded, order', traded') /\ order' \in Books /\ traded' \in Trades
    BY <2>1, SameBook DEF brokerVars
  <2>3. /\ r \in Rows
        /\ r.id = copy.id /\ r.filled = copy.filled /\ r.price = copy.price
    BY <1>0 DEF Rows, Statuses
  <2>4. RowOK(copy, scenario', order', traded')
    BY <2>1, <2>2, Carried
  <2> HIDE DEF r
  <2>5. RowOK(r, scenario', order', traded')
    BY <2>3, <2>4 DEF RowOK, RowTrue, RowPriced
  <2>6. row' \in Rows /\ RowOK(row', scenario', order', traded')
    BY <1>0, <2>1, <2>2, <2>3, <2>5, Carried, WriteRowOK
  <2>7. TypeOK'
    BY <2>1, <2>6 DEF IInv, TypeOK, execVars, brokerVars
  <2>8. AttemptsFresh'
    BY <2>1, AttemptsKept DEF IInv, AttemptsFresh, execVars, brokerVars
  <2>9. EventsOK' /\ RowsOK'
    BY <2>1, <2>2, <2>6, Carried DEF EventsOK, RowsOK
  <2> QED
    BY <2>1, <2>7, <2>8, <2>9 DEF IInv, Restarted
<1> QED
  BY <1>1, <1>2, <1>3

\* Lost events, the restart and the reconciliation after it.
LEMMA RestartInv ==
    ASSUME IInv, (\E e \in events : LoseEvent(e)) \/ Restart \/ Reconcile
    PROVE  IInv'
<1>1. CASE \E e \in events : LoseEvent(e)
  <2>1. /\ events' \subseteq events
        /\ UNCHANGED <<scenario, execVars, brokerVars, waiting, row, cancelVars, started>>
    BY <1>1 DEF LoseEvent
  <2>2. Grown(order, traded, order', traded') /\ order' \in Books /\ traded' \in Trades
    BY <2>1, SameBook DEF brokerVars
  <2>3. TypeOK'
    BY <2>1 DEF IInv, TypeOK, execVars, brokerVars, cancelVars
  <2>4. AttemptsFresh'
    BY <2>1, AttemptsKept DEF IInv, AttemptsFresh, execVars, brokerVars
  <2>5. EventsOK' /\ RowsOK'
    BY <2>1, <2>2, Carried DEF EventsOK, RowsOK, cancelVars
  <2> QED
    BY <2>1, <2>3, <2>4, <2>5 DEF IInv, Restarted
<1>2. CASE Restart
  <2>1. /\ "restart" \in scenario /\ started' = "reconciling"
        /\ exec' \in {exec, "gone"} /\ exec' # "placing" /\ exec' # "retrying"
        /\ events' = {} /\ waiting' = [id \in Ids |-> NoEvent] /\ cancel' = "idle"
        /\ UNCHANGED <<scenario, attempt, timedOut, placedId, brokerVars, row, copy>>
    BY <1>2 DEF Restart
  <2>2. Grown(order, traded, order', traded') /\ order' \in Books /\ traded' \in Trades
    BY <2>1, SameBook DEF brokerVars
  <2>3. TypeOK'
    BY <2>1 DEF IInv, TypeOK, brokerVars
  <2>4. AttemptsFresh'
    BY <2>1, AttemptsKept DEF brokerVars
  <2>5. EventsOK' /\ RowsOK'
    BY <2>1, <2>2, Carried DEF EventsOK, RowsOK
  <2> QED
    BY <2>1, <2>3, <2>4, <2>5 DEF IInv, Restarted
<1>3. CASE Reconcile
  <2> DEFINE new == Event(row.id, BookStatus(row.id), order[row.id].filled, 0)
  <2>1. /\ started = "reconciling" /\ started' = "again"
        /\ UNCHANGED <<scenario, execVars, brokerVars, waiting, row, cancelVars>>
        /\ \/ row.id # 0 /\ events' = events \union {new}
           \/ events' = events
    BY <1>3 DEF Reconcile
  <2>2. Grown(order, traded, order', traded') /\ order' \in Books /\ traded' \in Trades
    BY <2>1, SameBook DEF brokerVars
  <2>3. "restart" \in scenario /\ ~Priced(scenario')
    BY <2>1 DEF IInv, Restarted, Priced
  <2>4. row.id # 0 => new \in EventRecords /\ EventOK(new, scenario', order', traded')
    <3> SUFFICES ASSUME row.id # 0
                 PROVE  new \in EventRecords /\ EventOK(new, scenario', order', traded')
      OBVIOUS
    <3>1. row.id \in Ids
      BY DEF IInv, RowsOK, RowOK, RowTrue
    <3>2. order' = order /\ order[row.id].filled \in Nat
      BY <2>1, <3>1 DEF IInv, TypeOK, brokerVars
    <3>3. BookStatus(row.id) \in {"PENDING", "PARTIAL", "EXECUTED", "CANCELLED"}
      BY DEF BookStatus
    <3>4. new \in EventRecords
      BY <3>1, <3>2, <3>3 DEF Event, EventRecords
    <3>5. EventTrue(new, order')
      BY <3>1, <3>2 DEF Event, EventTrue
    <3> QED
      BY <2>3, <3>4, <3>5 DEF EventOK
  <2> HIDE DEF new
  <2>5. events' \subseteq EventRecords
    BY <2>1, <2>4 DEF IInv, TypeOK
  <2>6. \A e \in events' : EventOK(e, scenario', order', traded')
    BY <2>1, <2>2, <2>4, Carried
  <2>7. TypeOK'
    BY <2>1, <2>5 DEF IInv, TypeOK, execVars, brokerVars, cancelVars
  <2>8. AttemptsFresh'
    BY <2>1, AttemptsKept DEF IInv, AttemptsFresh, execVars, brokerVars
  <2>9. EventsOK' /\ RowsOK'
    BY <2>1, <2>2, <2>5, <2>6, BrokerStep DEF cancelVars
  <2> QED
    BY <2>1, <2>3, <2>7, <2>8, <2>9 DEF IInv, Restarted
<1> QED
  BY <1>1, <1>2, <1>3

LEMMA NextInv == ASSUME IInv, [Next]_vars PROVE IInv'
<1>1. CASE Next
  BY <1>1, BrokerStepInv, ExecutorInv, StatusServiceInv, CancelInv, RestartInv DEF Next
<1>2. CASE UNCHANGED vars
  BY <1>2 DEF IInv, TypeOK, AttemptsFresh, Restarted, EventsOK, RowsOK, vars, execVars, brokerVars,
              cancelVars
<1> QED
  BY <1>1, <1>2

\* The row, the cancel copy and every event in flight agree with the broker's
\* book in every state of trade-execution's order handling.
THEOREM Invariance == Spec => []IInv
<1>1. Init => IInv
  BY InitInv
<1>2. IInv /\ [Next]_vars => IInv'
  BY NextInv
<1> QED
  BY <1>1, <1>2, PTL DEF Spec

-----------------------------------------------------------------------------
(***************************************************************************)
(* However the status service's goroutines, the executor's background      *)
(* write, CancelOrder's write of an old copy, lost events and restarts     *)
(* interleave, the filled quantity that trade-execution stores for an      *)
(* order is never more than its broker order traded.                       *)
(***************************************************************************)
THEOREM RowNeverOverclaims == Spec => []FilledWasTraded
<1>1. IInv => FilledWasTraded
  BY DEF IInv, RowsOK, RowOK, RowTrue, FilledWasTraded
<1> QED
  BY <1>1, Invariance, PTL

(***************************************************************************)
(* The weighted average that handleStatusUpdate computes from cumulative   *)
(* quantities, rounded to the paisa, stays between the lowest and the      *)
(* highest price of the order's trades (and its limit price), in whatever  *)
(* order the events are handled, if each of them has a price.              *)
(***************************************************************************)
THEOREM PriceIsCredible == Spec => []PricedEvents
<1>1. IInv => PricedEvents
  <2> SUFFICES ASSUME IInv, Priced(scenario), row.price # 0
               PROVE  row.id # 0 /\ Between(row.price, SeenIn(traded, row.id))
    BY DEF PricedEvents, PriceIsAverage, Priced, Seen, SeenIn
  <2> QED
    BY DEF IInv, RowsOK, RowOK, RowPriced
<1> QED
  BY <1>1, Invariance, PTL

-----------------------------------------------------------------------------
(***************************************************************************)
(* No fill is erased: the broker ID is written last by the executor, so a  *)
(* row without one has no fills that its write could undo.                 *)
(***************************************************************************)

NoIdYet ==
    /\ exec \in {"placing", "retrying", "placed"} => row.id = 0 /\ copy.id = 0
    /\ cancel # "idle" => "cancel" \in scenario

LEMMA NoIdYetStep == ASSUME IInv, NoIdYet, [Next]_vars PROVE NoIdYet'
<1>0. \A e \in events : e.id # 0
  BY IdsFacts DEF IInv, TypeOK, EventRecords
<1>1. CASE \E id \in Ids, filled \in 1..Quantity, p \in Prices : Trade(id, filled, p)
  BY <1>1 DEF NoIdYet, Trade, execVars, cancelVars
<1>2. CASE \E id \in Ids : ExchangeEnds(id)
  BY <1>2 DEF NoIdYet, ExchangeEnds, execVars, cancelVars
<1>3. CASE \E e \in events : LoseEvent(e)
  BY <1>3 DEF NoIdYet, LoseEvent, execVars, cancelVars
<1>4. CASE Executor
  <2>1. CASE PlaceOrder
    BY <2>1 DEF NoIdYet, PlaceOrder, cancelVars
  <2>2. CASE PlaceRejected
    BY <2>2 DEF NoIdYet, PlaceRejected, FailOrder, cancelVars
  <2>3. CASE \E timeout \in BOOLEAN : PlaceFails(timeout)
    BY <2>3 DEF NoIdYet, PlaceFails, FailOrder, cancelVars
  <2>4. CASE Retry
    BY <2>4 DEF NoIdYet, Retry, cancelVars
  <2>5. CASE ContextEnds
    BY <2>5 DEF NoIdYet, ContextEnds, cancelVars
  <2>6. CASE WriteSubmitted
    BY <2>6 DEF NoIdYet, WriteSubmitted, cancelVars
  <2> QED
    BY <1>4, <2>1, <2>2, <2>3, <2>4, <2>5, <2>6 DEF Executor
<1>5. CASE \E e \in events : HandleStatusUpdate(e)
  <2>1. PICK e \in events : HandleStatusUpdate(e)
    BY <1>5
  <2>2. row' = row \/ row.id # 0
    BY <1>0, <2>1 DEF HandleStatusUpdate
  <2> QED
    BY <2>1, <2>2 DEF NoIdYet, HandleStatusUpdate, execVars, cancelVars
<1>6. CASE \E id \in Ids : LookUpAgain(id)
  <2>1. PICK id \in Ids : LookUpAgain(id)
    BY <1>6
  <2>2. row' = row \/ row.id # 0
    BY <2>1, IdsFacts DEF LookUpAgain
  <2> QED
    BY <2>1, <2>2 DEF NoIdYet, LookUpAgain, execVars, cancelVars
<1>7. CASE ReadForCancel
  BY <1>7 DEF NoIdYet, ReadForCancel, execVars
<1>8. CASE CancelAtBroker
  BY <1>8 DEF NoIdYet, CancelAtBroker, execVars
<1>9. CASE WriteCancelled
  <2>1. row' = row \/ row'.id = copy.id
    BY <1>9 DEF WriteCancelled, WriteRow, IInv, TypeOK, Rows
  <2> QED
    BY <1>9, <2>1 DEF NoIdYet, WriteCancelled, execVars
<1>10. CASE Restart
  BY <1>10 DEF NoIdYet, Restart
<1>11. CASE Reconcile
  BY <1>11 DEF NoIdYet, Reconcile, execVars, cancelVars
<1>12. CASE UNCHANGED vars
  BY <1>12 DEF NoIdYet, vars, execVars, cancelVars
<1> QED
  BY <1>1, <1>2, <1>3, <1>4, <1>5, <1>6, <1>7, <1>8, <1>9, <1>10, <1>11, <1>12
  DEF Next, StatusService

LEMMA UpdatedKeepsFills ==
    ASSUME TypeOK, NEW e \in EventRecords
    PROVE  Updated(e).filled >= row.filled
BY DEF TypeOK, Rows, EventRecords, Updated, Row

LEMMA NoFillErasedStep ==
    ASSUME IInv, NoIdYet, [Next]_vars, "cancel" \notin scenario
    PROVE  row'.filled >= row.filled
<1>0. row.filled \in Nat
  BY DEF IInv, TypeOK, Rows
<1>1. exec \in {"placing", "retrying", "placed"} => row.filled = 0
  BY DEF IInv, NoIdYet, RowsOK, RowOK, RowTrue
<1>2. CASE Executor
  <2>1. ASSUME exec \in {"placing", "retrying", "placed"},
               NEW st, NEW id, WriteRow(Row(st, id, 0, 0)) \/ row' = row
        PROVE  row'.filled >= row.filled
    <3>1. row.filled = 0
      BY <1>1, <2>1
    <3>2. Row(st, id, 0, 0).filled = 0
      BY DEF Row
    <3>3. row' = row \/ row' = Row(st, id, 0, 0)
      BY <2>1 DEF WriteRow
    <3>4. row'.filled = 0
      BY <3>1, <3>2, <3>3
    <3> QED
      BY <3>1, <3>4
  <2>2. CASE PlaceRejected
    BY <2>1, <2>2 DEF PlaceRejected, FailOrder
  <2>3. CASE \E timeout \in BOOLEAN : PlaceFails(timeout)
    BY <2>1, <2>3 DEF PlaceFails, FailOrder
  <2>4. CASE WriteSubmitted
    BY <2>1, <2>4 DEF WriteSubmitted
  <2>5. CASE PlaceOrder \/ Retry \/ ContextEnds
    <3>1. row' = row
      BY <2>5 DEF PlaceOrder, Retry, ContextEnds
    <3> QED
      BY <1>0, <3>1
  <2> QED
    BY <1>2, <2>2, <2>3, <2>4, <2>5 DEF Executor
<1>3. CASE \E e \in events : HandleStatusUpdate(e)
  <2>1. PICK e \in events : HandleStatusUpdate(e)
    BY <1>3
  <2>2. Updated(e).filled >= row.filled
    BY UpdatedKeepsFills DEF IInv, TypeOK
  <2>3. row' = row \/ row' = Updated(e)
    BY <2>1 DEF HandleStatusUpdate, WriteRow
  <2> QED
    BY <1>0, <2>2, <2>3
<1>4. CASE \E id \in Ids : LookUpAgain(id)
  <2>1. PICK id \in Ids : LookUpAgain(id)
    BY <1>4
  <2>2. waiting[id] \in EventRecords
    BY <2>1 DEF IInv, TypeOK, LookUpAgain, Free
  <2>3. Updated(waiting[id]).filled >= row.filled
    BY <2>2, UpdatedKeepsFills DEF IInv
  <2>4. row' = row \/ row' = Updated(waiting[id])
    BY <2>1 DEF LookUpAgain, WriteRow
  <2> QED
    BY <1>0, <2>3, <2>4
<1>5. ~WriteCancelled
  BY DEF NoIdYet, WriteCancelled
<1>6. CASE row' = row
  BY <1>0, <1>6
<1>7. Executor \/ StatusService \/ row' = row
  BY <1>5 DEF Next, Trade, ExchangeEnds, LoseEvent, ReadForCancel, CancelAtBroker, Restart,
              Reconcile, vars
<1> QED
  BY <1>2, <1>3, <1>4, <1>6, <1>7 DEF StatusService

(***************************************************************************)
(* As long as nobody cancels, no write of the order's row lowers its       *)
(* filled quantity: not the executor's late write of the broker ID, not an *)
(* old event, not the retried lookup, not the reconciliation.              *)
(***************************************************************************)
THEOREM FillsAreKept == Spec => NoFillErased
<1>1. Init => NoIdYet
  <2> SUFFICES ASSUME Init PROVE NoIdYet
    OBVIOUS
  <2>1. row = Row("RECEIVED", 0, 0, 0) /\ copy = row /\ cancel = "idle"
    BY DEF Init
  <2> QED
    BY <2>1 DEF NoIdYet, Row
<1>2. IInv /\ NoIdYet /\ [Next]_vars => NoIdYet'
  BY NoIdYetStep
<1>3. IInv /\ NoIdYet /\ [Next]_vars => ["cancel" \notin scenario => row'.filled >= row.filled]_vars
  BY NoFillErasedStep
<1> QED
  BY <1>1, <1>2, <1>3, Invariance, PTL DEF Spec, NoFillErased

-----------------------------------------------------------------------------
(***************************************************************************)
(* One order: while the executor may still place one, the book has none of *)
(* its own, unless a timeout left the question open.                       *)
(***************************************************************************)

Ours == {id \in Attempts : order[id].st # "none"}

InNone == scenario \intersect {"reset", "book misses"} = {}

SingleOrder ==
    InNone =>
        /\ \A a, b \in Attempts : a \in Ours /\ b \in Ours => a = b
        /\ exec = "placing" \/ (exec = "retrying" /\ ~timedOut) => Ours = {}

\* A step that puts no new order in the book and gives no new reason to place one.
LEMMA SameSingleOrder ==
    ASSUME SingleOrder, UNCHANGED scenario, Ours' \subseteq Ours,
           UNCHANGED <<exec, timedOut>> \/ exec' \notin {"placing", "retrying"}
    PROVE  SingleOrder'
BY DEF SingleOrder, InNone

LEMMA SingleOrderStep == ASSUME IInv, SingleOrder, [Next]_vars PROVE SingleOrder'
<1>0. attempt \in Attempts /\ Attempts \subseteq Ids /\ order \in Books
  BY IdsFacts DEF IInv, TypeOK, Books
<1>1. Accept(attempt) => Ours' = Ours \union {attempt}
  BY <1>0 DEF Accept, Ours, Books
<1>2. \A id \in Ids : EndOrder(id) => Ours' = Ours
  BY <1>0 DEF EndOrder, Ours, Books
<1>3. CASE \E id \in Ids, filled \in 1..Quantity, p \in Prices : Trade(id, filled, p)
  <2>1. PICK id \in Ids, q \in 1..Quantity, p \in Prices : Trade(id, q, p)
    BY <1>3
  <2>2. \A i \in Ids : order'[i].st # "none" => order[i].st # "none"
    BY <1>0, <2>1 DEF Trade, Books
  <2> QED
    <3>1. Ours' \subseteq Ours
      BY <1>0, <2>2 DEF Ours
    <3> QED
      BY <2>1, <3>1, SameSingleOrder DEF Trade, execVars
<1>4. CASE \E id \in Ids : ExchangeEnds(id)
  BY <1>2, <1>4, SameSingleOrder DEF ExchangeEnds, execVars
<1>5. CASE PlaceOrder
  BY <1>1, <1>5 DEF SingleOrder, InNone, PlaceOrder
<1>6. CASE \E timeout \in BOOLEAN : PlaceFails(timeout)
  <2>1. PICK timeout \in BOOLEAN : PlaceFails(timeout)
    BY <1>6
  <2>2. InNone => Ours = {}
    BY <2>1 DEF SingleOrder, PlaceFails
  <2>3. InNone => (order' = order \/ (timeout /\ Ours' = Ours \union {attempt}))
    BY <1>1, <2>1 DEF InNone, PlaceFails
  <2>4. order' = order => Ours' = Ours
    BY DEF Ours
  <2>5. exec' # "placing" /\ timedOut' = timeout /\ scenario' = scenario
    BY <2>1 DEF PlaceFails, FailOrder
  <2> QED
    BY <2>2, <2>3, <2>4, <2>5 DEF SingleOrder, InNone
<1>7. CASE Retry
  <2>1. Ours' = Ours /\ scenario' = scenario
    BY <1>7 DEF Retry, Ours, brokerVars
  <2>2. InNone /\ exec' = "placing" => Ours = {}
    BY <1>7, IdsFacts DEF Retry, SingleOrder, InNone, InBook, Ours
  <2>3. exec' \in {"placed", "placing"}
    BY <1>7 DEF Retry
  <2> QED
    BY <2>1, <2>2, <2>3 DEF SingleOrder, InNone
<1>8. CASE CancelAtBroker
  <2>1. copy.id # 0 => copy.id \in Ids
    BY DEF IInv, RowsOK, RowOK, RowTrue
  <2>2. Ours' = Ours
    BY <1>2, <1>8, <2>1 DEF CancelAtBroker, Ours
  <2> QED
    BY <1>8, <2>2, SameSingleOrder DEF CancelAtBroker, execVars
<1>9. CASE PlaceRejected \/ ContextEnds \/ WriteSubmitted \/ Restart
  <2>1. order' = order /\ scenario' = scenario /\ exec' \notin {"placing", "retrying"}
    BY <1>9 DEF PlaceRejected, FailOrder, ContextEnds, WriteSubmitted, Restart, brokerVars
  <2> QED
    BY <2>1, SameSingleOrder DEF Ours
<1>10. CASE StatusService \/ ReadForCancel \/ WriteCancelled \/ Reconcile
             \/ (\E e \in events : LoseEvent(e)) \/ UNCHANGED vars
  <2>1. UNCHANGED <<order, scenario, exec, timedOut>>
    BY <1>10 DEF StatusService, HandleStatusUpdate, LookUpAgain, ReadForCancel, WriteCancelled,
                 Reconcile, LoseEvent, vars, execVars, brokerVars
  <2> QED
    BY <2>1, SameSingleOrder DEF Ours
<1> QED
  BY <1>3, <1>4, <1>5, <1>6, <1>7, <1>8, <1>9, <1>10 DEF Next, Executor

(***************************************************************************)
(* The executor's idempotency guard: however many attempts time out, and   *)
(* whichever of them reached the broker, at most one order of this         *)
(* executor exists there, whatever other orders the book has, if a failure *)
(* that is no timeout means that the broker has no order and the order     *)
(* book shows every order it has.                                          *)
(***************************************************************************)
THEOREM RetryCreatesNoSecondOrder == Spec => []OneOrder
<1>1. Init => SingleOrder
  BY NoneYet DEF SingleOrder, Ours
<1>2. IInv /\ SingleOrder /\ [Next]_vars => SingleOrder'
  BY SingleOrderStep
<1>3. SingleOrder => OneOrder
  BY DEF SingleOrder, OneOrder, InNone, Ours
<1> QED
  BY <1>1, <1>2, <1>3, Invariance, PTL DEF Spec
=============================================================================
