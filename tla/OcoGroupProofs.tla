--------------------------- MODULE OcoGroupProofs ---------------------------
(***************************************************************************)
(* Four results about one OCO group, for every quantity, every choice of   *)
(* legs and every interleaving; each rests on the ones before.             *)
(*                                                                         *)
(* In every environment an exit leg is never larger than the position.     *)
(* The quantity of a leg passes through an event, the group, the placer    *)
(* and the modify goroutines, so the invariant Inv bounds it at each of    *)
(* these places by what the entry has traded, and adds that a group with   *)
(* legs has a quantity: FilledQty = 0 would make buildLegOrder and         *)
(* ModifySLLeg fall back to the full one.                                  *)
(*                                                                         *)
(* In environments without the races that the theorems name, a group that  *)
(* has ended stays ended (FinalInv), one exit cancels the other            *)
(* (OrphanInv), and the legs cover the position (CoverInv).                *)
(***************************************************************************)
EXTENDS OcoGroup, TLAPS

\* What the entry has traded.
Position == order["ENTRY"].filled

EntryBounded ==
    /\ order["ENTRY"].qty = Quantity
    /\ Position <= Quantity

\* Events about the entry report no more than it traded, and a partial fill
\* at least one unit.
EventsHonest ==
    \A e \in events : e.o = "ENTRY" =>
        /\ e.filled <= Position
        /\ e.kind = "EXECUTED" => Position = Quantity
        /\ e.kind = "PARTIAL" => e.filled > 0

QuantitiesBounded ==
    /\ filledQty <= Position
    /\ legQty <= Position
    /\ \A t \in modifies : 0 < t.qty /\ t.qty <= Position
    /\ LegsWithinPosition

HasQuantity == placer # "idle" \/ Live => filledQty > 0

Inv == TypeOK /\ EntryBounded /\ EventsHonest /\ QuantitiesBounded /\ HasQuantity

-----------------------------------------------------------------------------
(***************************************************************************)
(* The broker's steps                                                      *)
(***************************************************************************)

BrokerInv == BrokerTypeOK /\ EntryBounded /\ EventsHonest

\* A broker step that keeps the broker's part and does not lose a trade.
BrokerStep == BrokerInv' /\ Position <= Position'

\* No leg, and no order of a leg whose answer was lost, changes its quantity.
SameSizes ==
    /\ \A l \in Legs : order'[l].qty = order[l].qty
    /\ \A x \in LostOrders : lost'[x].qty = lost[x].qty

LEMMA FillStep ==
    ASSUME BrokerInv, NEW o \in Orders, NEW filled \in Nat, 0 < filled, Fill(o, filled)
    PROVE  /\ BrokerStep
           /\ SameSizes
<1> USE QuantityAssumption DEF Orders, Legs, OrderStates, Kinds, Event
<1>1. BrokerTypeOK'
  BY DEF BrokerInv, BrokerTypeOK, Fill, Open
<1>2. EntryBounded' /\ Position <= Position'
  BY DEF BrokerInv, BrokerTypeOK, EntryBounded, Position, Fill, Open
<1>3. EventsHonest'
  BY <1>2 DEF BrokerInv, BrokerTypeOK, EntryBounded, EventsHonest, Position, Fill, Open
<1>4. SameSizes
  BY DEF BrokerInv, BrokerTypeOK, Fill, SameSizes
<1> QED BY <1>1, <1>2, <1>3, <1>4 DEF BrokerInv, BrokerStep

LEMMA EndStep ==
    ASSUME BrokerInv, NEW o \in Orders, NEW st \in {"cancelled", "rejected"}, End(o, st)
    PROVE  /\ BrokerStep
           /\ SameSizes
<1> USE QuantityAssumption DEF Orders, Legs, OrderStates, Kinds, Event
<1>1. BrokerTypeOK'
  BY DEF BrokerInv, BrokerTypeOK, End
<1>2. EntryBounded' /\ Position' = Position
  BY DEF BrokerInv, BrokerTypeOK, EntryBounded, Position, End
<1>3. EventsHonest'
  BY <1>2 DEF BrokerInv, BrokerTypeOK, EntryBounded, EventsHonest, Position, End
<1>4. SameSizes
  BY DEF BrokerInv, BrokerTypeOK, End, SameSizes
<1>5. Position \in Nat
  BY DEF BrokerInv, BrokerTypeOK, Position
<1> QED BY <1>1, <1>2, <1>3, <1>4, <1>5 DEF BrokerInv, BrokerStep

LEMMA StillStep ==
    ASSUME BrokerInv, UNCHANGED <<order, lost>>, events' \subseteq events
    PROVE  /\ BrokerStep
           /\ SameSizes
<1>1. Position' = Position /\ Position \in Nat
  BY DEF BrokerInv, BrokerTypeOK, Position, Orders
<1> QED BY <1>1 DEF BrokerInv, BrokerTypeOK, EntryBounded, EventsHonest, BrokerStep, SameSizes

LEMMA CancelStep ==
    ASSUME BrokerInv, NEW o \in Orders, CancelOrder(o) \/ UNCHANGED brokerVars
    PROVE  /\ BrokerStep
           /\ SameSizes
<1>1. CASE End(o, "cancelled")
  BY <1>1, EndStep
<1>2. CASE UNCHANGED brokerVars
  BY <1>2, StillStep DEF brokerVars
<1> QED BY <1>1, <1>2 DEF CancelOrder

\* An order whose answer was lost trades or ends.
LEMMA LostStep ==
    ASSUME BrokerInv, NEW x \in LostOrders,
           \/ \E filled \in Nat : FillLost(x, filled)
           \/ \E st \in {"cancelled", "rejected"} : EndLost(x, st)
    PROVE  BrokerStep /\ SameSizes
<1> USE DEF Orders, OrderStates, Kinds, Event
<1>1. order' = order /\ \A e \in events' : \/ e \in events
                                            \/ e \in [o : {"UNKNOWN"}, kind : Kinds, filled : Nat]
  <2>1. CASE \E filled \in Nat : FillLost(x, filled)
    BY <2>1 DEF FillLost
  <2>2. CASE \E st \in {"cancelled", "rejected"} : EndLost(x, st)
    BY <2>2 DEF EndLost
  <2> QED BY <2>1, <2>2
<1>2. lost' \in [LostOrders -> [st : OrderStates, qty : Nat, filled : Nat]]
      /\ \A y \in LostOrders : lost'[y].qty = lost[y].qty
  <2>1. CASE \E filled \in Nat : FillLost(x, filled)
    <3>1. PICK filled \in Nat, st \in OrderStates :
             lost' = [lost EXCEPT ![x].filled = filled, ![x].st = st]
      BY <2>1 DEF FillLost
    <3> QED BY <3>1 DEF BrokerInv, BrokerTypeOK
  <2>2. CASE \E st \in {"cancelled", "rejected"} : EndLost(x, st)
    BY <2>2 DEF BrokerInv, BrokerTypeOK, EndLost
  <2> QED BY <2>1, <2>2
<1>3. Position' = Position /\ Position \in Nat
  BY <1>1 DEF BrokerInv, BrokerTypeOK, Position
<1>4. BrokerTypeOK'
  BY <1>1, <1>2 DEF BrokerInv, BrokerTypeOK
<1>5. EntryBounded' /\ EventsHonest'
  BY <1>1, <1>3 DEF BrokerInv, EntryBounded, EventsHonest
<1> QED BY <1>1, <1>2, <1>3, <1>4, <1>5 DEF BrokerInv, BrokerStep, SameSizes

\* An order within the position is accepted, and the answer is lost.
LEMMA LoseStep ==
    ASSUME BrokerInv, LegsWithinPosition,
           NEW x \in LostOrders, NEW qty \in Nat, qty <= Position, LoseOrder(x, qty)
    PROVE  BrokerStep /\ LegsWithinPosition'
<1>1. UNCHANGED <<order, events>>
  BY DEF LoseOrder
<1>2. lost' \in [LostOrders -> [st : OrderStates, qty : Nat, filled : Nat]]
      /\ \A y \in LostOrders : lost'[y].qty \in {lost[y].qty, qty}
  BY DEF BrokerInv, BrokerTypeOK, OrderStates, LoseOrder
<1>3. Position' = Position /\ Position \in Nat
  BY <1>1 DEF BrokerInv, BrokerTypeOK, Orders, Position
<1>4. BrokerInv'
  BY <1>1, <1>2, <1>3 DEF BrokerInv, BrokerTypeOK, EntryBounded, EventsHonest
<1> QED BY <1>1, <1>2, <1>3, <1>4 DEF LegsWithinPosition, Position, BrokerStep

\* Placing or resizing a leg within the position.
LEMMA LegStep ==
    ASSUME BrokerInv, LegsWithinPosition,
           NEW l \in Legs, NEW qty \in Nat, qty <= Position,
           PlaceOrder(l, qty) \/ ModifyOrder(l, qty)
    PROVE  BrokerStep /\ LegsWithinPosition'
<1> USE DEF Orders, Legs, OrderStates, Kinds, Event
<1>1. BrokerTypeOK'
  BY DEF BrokerInv, BrokerTypeOK, PlaceOrder, ModifyOrder, brokerVars
<1>2. order'["ENTRY"] = order["ENTRY"]
  BY DEF BrokerInv, BrokerTypeOK, PlaceOrder, ModifyOrder, brokerVars
<1>3. Position' = Position /\ Position \in Nat
  BY <1>2 DEF BrokerInv, BrokerTypeOK, Position
<1>4. EntryBounded'
  BY <1>2, <1>3 DEF BrokerInv, EntryBounded
<1>5. EventsHonest'
  BY <1>3 DEF BrokerInv, EventsHonest, PlaceOrder, ModifyOrder, brokerVars
<1>6. LegsWithinPosition'
  <2>1. \A k \in Legs : order'[k].qty \in {order[k].qty, qty}
    BY DEF BrokerInv, BrokerTypeOK, PlaceOrder, ModifyOrder, brokerVars
  <2>2. lost' = lost
    BY DEF PlaceOrder, ModifyOrder, brokerVars
  <2> QED BY <2>1, <2>2, <1>3 DEF LegsWithinPosition, Position
<1> QED BY <1>1, <1>3, <1>4, <1>5, <1>6 DEF BrokerInv, BrokerStep

-----------------------------------------------------------------------------
(***************************************************************************)
(* The steps of the group.  Each keeps the types; the quantities follow    *)
(* from the bound on the one the step has changed.                         *)
(***************************************************************************)

\* A step after which every quantity is an old one or bounded by the position.
LEMMA BoundsStep ==
    ASSUME Inv, BrokerStep, SameSizes,
           filledQty' \in Nat, filledQty' <= Position',
           legQty' \in Nat, legQty' <= Position',
           \A t \in modifies' : 0 < t.qty /\ t.qty <= Position'
    PROVE  QuantitiesBounded'
<1>1. Position \in Nat /\ Position' \in Nat /\ (\A l \in Legs : order[l].qty \in Nat)
      /\ \A x \in LostOrders : lost[x].qty \in Nat
  BY DEF Inv, BrokerStep, BrokerInv, TypeOK, BrokerTypeOK, Position, Orders, Legs
<1>2. LegsWithinPosition'
  BY <1>1 DEF Inv, QuantitiesBounded, LegsWithinPosition, BrokerStep, Position, SameSizes
<1> QED BY <1>2 DEF QuantitiesBounded

\* The quantities that a step leaves alone stay bounded.
LEMMA OldBounds ==
    ASSUME Inv, BrokerStep
    PROVE  /\ filledQty \in Nat /\ filledQty <= Position'
           /\ legQty \in Nat /\ legQty <= Position'
           /\ \A t \in modifies : 0 < t.qty /\ t.qty <= Position'
<1>1. Position \in Nat /\ Position' \in Nat
  BY DEF Inv, BrokerStep, BrokerInv, TypeOK, BrokerTypeOK, Position, Orders
<1>2. filledQty \in Nat /\ legQty \in Nat /\ \A t \in modifies : t.qty \in Nat
  BY DEF Inv, TypeOK, GroupTypeOK, Modifies
<1> QED BY <1>1, <1>2 DEF Inv, QuantitiesBounded, BrokerStep

\* The market moves an order; the group is not involved.
LEMMA ExchangeStep == ASSUME Inv, Exchange PROVE Inv'
<1> USE DEF Orders, Legs
<1>1. BrokerInv
  BY DEF Inv, TypeOK, BrokerInv
<1>2. Market
  BY DEF Exchange, EntryFills, EntryEnds, LegFills, LegEnds, LostFills, LostEnds
<1>3. BrokerStep /\ SameSizes
  <2>1. CASE \E filled \in 1..Quantity : EntryFills(filled)
    <3>1. PICK filled \in 1..Quantity : Fill("ENTRY", filled)
      BY <2>1 DEF EntryFills
    <3>2. filled \in Nat /\ 0 < filled
      BY QuantityAssumption
    <3> QED BY <1>1, <3>1, <3>2, FillStep
  <2>2. CASE \E st \in {"cancelled", "rejected"} : EntryEnds(st)
    BY <1>1, <2>2, EndStep DEF EntryEnds
  <2>3. CASE \E l \in Legs, filled \in 1..Quantity : LegFills(l, filled)
    <3>1. PICK l \in Legs, filled \in 1..Quantity : Fill(l, filled)
      BY <2>3 DEF LegFills
    <3>2. filled \in Nat /\ 0 < filled
      BY QuantityAssumption
    <3> QED BY <1>1, <3>1, <3>2, FillStep
  <2>4. CASE \E l \in Legs, st \in {"cancelled", "rejected"} : LegEnds(l, st)
    BY <1>1, <2>4, EndStep DEF LegEnds
  <2>5. CASE \E x \in LostOrders, filled \in 1..Quantity : LostFills(x, filled)
    <3>1. PICK x \in LostOrders, filled \in 1..Quantity : FillLost(x, filled)
      BY <2>5 DEF LostFills
    <3>2. filled \in Nat
      BY QuantityAssumption
    <3> QED BY <1>1, <3>1, <3>2, LostStep
  <2>6. CASE \E x \in LostOrders, st \in {"cancelled", "rejected"} : LostEnds(x, st)
    BY <1>1, <2>6, LostStep DEF LostEnds
  <2> QED BY <2>1, <2>2, <2>3, <2>4, <2>5, <2>6 DEF Exchange
<1>4. GroupTypeOK' /\ HasQuantity'
  BY <1>2 DEF Inv, TypeOK, GroupTypeOK, HasQuantity, Live, Market, groupVars, placerVars, taskVars
<1>5. QuantitiesBounded'
  BY <1>2, <1>3, OldBounds, BoundsStep DEF Market, groupVars, placerVars, taskVars
<1> QED BY <1>3, <1>4, <1>5 DEF Inv, TypeOK, BrokerStep, BrokerInv

\* The hypotheses a step that leaves the broker's orders alone has to meet.
LEMMA QuietStep ==
    ASSUME Inv, UNCHANGED <<order, lost>>, events' \subseteq events,
           GroupTypeOK', HasQuantity',
           filledQty' <= Position, legQty' <= Position,
           \A t \in modifies' : 0 < t.qty /\ t.qty <= Position
    PROVE  Inv'
<1>1. BrokerInv
  BY DEF Inv, TypeOK, BrokerInv
<1>2. BrokerStep /\ SameSizes
  BY <1>1, StillStep
<1>3. Position' = Position
  BY DEF Position
<1>4. filledQty' \in Nat /\ legQty' \in Nat
  BY DEF GroupTypeOK
<1>5. QuantitiesBounded'
  BY <1>2, <1>3, <1>4, BoundsStep
<1> QED BY <1>2, <1>5 DEF Inv, TypeOK, BrokerStep, BrokerInv

LEMMA InvBounds ==
    ASSUME Inv
    PROVE  /\ filledQty <= Position /\ legQty <= Position
           /\ \A t \in modifies : 0 < t.qty /\ t.qty <= Position
BY DEF Inv, QuantitiesBounded

\* The variables that hold no quantity, and are not part of HasQuantity.
OtherTypesOK ==
    /\ tracked \in BOOLEAN /\ partial \in BOOLEAN /\ cleanup \in BOOLEAN /\ withTimer \in BOOLEAN
    /\ known \subseteq Legs /\ confirmed \subseteq Legs /\ cancels \subseteq Orders
    /\ result \in [Legs -> {"none", "placed", "failed"}]
    /\ timer \in {"off", "running", "expired"}

\* What an event about the entry may do: nothing, a modify, or a placement.
EntryOutcome(q) ==
    /\ legQty' = legQty
    /\ \/ filledQty' = filledQty /\ modifies' = modifies /\ placer' = placer
          /\ state' \in {state, "FAILED"}
       \/ /\ filledQty' = q /\ placer' = placer /\ state' = state
          /\ modifies' = modifies \union {[qty |-> q, step |-> "read", todo |-> {}]}
       \/ /\ filledQty' = q /\ placer' = "starting" /\ state' = "PLACING_LEGS"
          /\ modifies' = modifies

LEMMA EntryOutcomeStep ==
    ASSUME Inv, UNCHANGED <<order, lost>>, events' \subseteq events, OtherTypesOK',
           NEW q \in Nat, 0 < q, q <= Position, EntryOutcome(q)
    PROVE  Inv'
<1>1. filledQty' <= Position /\ legQty' <= Position
  BY InvBounds DEF EntryOutcome
<1>2. \A t \in modifies' : 0 < t.qty /\ t.qty <= Position
  BY InvBounds DEF EntryOutcome
<1>3. HasQuantity'
  BY DEF Inv, HasQuantity, Live, EntryOutcome
<1>4. /\ state' \in States /\ placer' \in {"idle", "starting", "placing", "timer"}
      /\ filledQty' \in Nat /\ legQty' \in Nat
  BY DEF Inv, TypeOK, GroupTypeOK, States, EntryOutcome
<1>5. modifies' \subseteq Modifies
  BY DEF Inv, TypeOK, GroupTypeOK, Modifies, EntryOutcome
<1>6. GroupTypeOK'
  BY <1>4, <1>5 DEF OtherTypesOK, GroupTypeOK
<1> QED BY <1>1, <1>2, <1>3, <1>6, QuietStep

LEMMA EntryStep ==
    ASSUME Inv, NEW e \in events, e.o = "ENTRY", events' = events \ {e}, UNCHANGED <<order, lost>>,
           NEW filled \in e.filled..Position, HandleEntry(e.kind, filled)
    PROVE  Inv'
<1>1. /\ Position \in Nat /\ e.filled \in Nat
      /\ filled \in Nat /\ filled <= Position /\ e.filled <= filled
  BY DEF Inv, TypeOK, BrokerTypeOK, Position, Orders
<1>2. /\ e.kind = "EXECUTED" => Position = Quantity
      /\ e.kind = "PARTIAL" => e.filled > 0
  BY DEF Inv, EventsHonest
<1>3. Quantity \in Nat /\ 0 < Quantity
  BY QuantityAssumption
<1>4. OtherTypesOK
  BY DEF Inv, TypeOK, GroupTypeOK, OtherTypesOK
<1>5. CASE e.kind = "EXECUTED" /\ EntryExecuted
  <2>1. EntryOutcome(Quantity)
    BY <1>5 DEF EntryOutcome, EntryExecuted, StartPlacing, Modify, Drop,
         groupVars, placerVars, taskVars
  <2>2. OtherTypesOK'
    BY <1>4, <1>5 DEF OtherTypesOK, EntryExecuted, StartPlacing, StopTimer, Drop,
         groupVars, placerVars, taskVars
  <2>3. Quantity <= Position
    BY <1>1, <1>2, <1>5
  <2> QED BY <1>3, <2>1, <2>2, <2>3, EntryOutcomeStep
<1>6. CASE e.kind = "PARTIAL" /\ EntryPartial(filled)
  <2>1. EntryOutcome(filled)
    BY <1>6 DEF EntryOutcome, EntryPartial, StartPlacing, Modify, Drop,
         groupVars, placerVars, taskVars
  <2>2. OtherTypesOK'
    BY <1>4, <1>6 DEF OtherTypesOK, EntryPartial, StartPlacing, Drop,
         groupVars, placerVars, taskVars
  <2>3. 0 < filled
    BY <1>1, <1>2, <1>6
  <2> QED BY <1>1, <2>1, <2>2, <2>3, EntryOutcomeStep
<1>7. CASE EntryGone \/ Drop
  <2>1. filledQty' = filledQty /\ legQty' = legQty /\ modifies' = modifies /\ placer' = placer
    BY <1>7 DEF EntryGone, Drop, groupVars, placerVars, taskVars
  <2>2. state' \in {state, "FAILED"}
    BY <1>7 DEF EntryGone, Drop, groupVars
  <2>3. OtherTypesOK'
    BY <1>4, <1>7 DEF OtherTypesOK, EntryGone, StopTimer, Drop, groupVars, placerVars, taskVars
  <2>4. HasQuantity'
    BY <2>1, <2>2 DEF Inv, HasQuantity, Live
  <2>5. GroupTypeOK'
    BY <2>1, <2>2, <2>3 DEF Inv, TypeOK, GroupTypeOK, OtherTypesOK, States
  <2> QED BY <2>1, <2>4, <2>5, QuietStep, InvBounds
<1> QED BY <1>5, <1>6, <1>7 DEF HandleEntry

\* A step that moves no quantity.
LEMMA PlainStep ==
    ASSUME Inv, BrokerStep, SameSizes,
           filledQty' = filledQty, legQty' = legQty, modifies' = modifies,
           OtherTypesOK', state' \in States,
           placer' \in {"idle", "starting", "placing", "timer"}, HasQuantity'
    PROVE  Inv'
<1>1. GroupTypeOK'
  BY DEF Inv, TypeOK, GroupTypeOK, OtherTypesOK
<1>2. QuantitiesBounded'
  BY OldBounds, BoundsStep
<1> QED BY <1>1, <1>2 DEF Inv, TypeOK, BrokerStep, BrokerInv

LEMMA InvTypes ==
    ASSUME Inv
    PROVE  /\ BrokerInv /\ OtherTypesOK /\ state \in States
           /\ placer \in {"idle", "starting", "placing", "timer"}
BY DEF Inv, TypeOK, BrokerInv, GroupTypeOK, OtherTypesOK

\* checkLegsConfirmed leads from LEGS_SUBMITTED to ACTIVE at most.
LEMMA CheckLegsValue ==
    ASSUME NEW st, NEW k, NEW c
    PROVE  \/ CheckLegsConfirmed(st, k, c) = st
           \/ st = "LEGS_SUBMITTED" /\ CheckLegsConfirmed(st, k, c) = "ACTIVE"
BY DEF CheckLegsConfirmed

LEMMA LegEventStep ==
    ASSUME Inv, NEW e \in events, events' = events \ {e}, UNCHANGED <<order, lost>>,
           NEW l \in Legs, HandleLeg(l, e.kind)
    PROVE  Inv'
<1>1. BrokerStep /\ SameSizes
  BY InvTypes, StillStep
<1>2. /\ filledQty' = filledQty /\ legQty' = legQty /\ modifies' = modifies /\ placer' = placer
  BY DEF HandleLeg, placerVars
<1>3. OtherTypesOK'
  BY InvTypes DEF OtherTypesOK, HandleLeg, GoCancel, Legs, Orders, placerVars
<1>4. state' \in States /\ (state' \in {"ACTIVE", "LEGS_SUBMITTED"} => Live)
  <2>1. \/ state' \in {state, "SL_TRIGGERED", "TP_TRIGGERED", "COMPLETED", "CANCELLED", "FAILED"}
        \/ state' = CheckLegsConfirmed(state, known', confirmed')
    BY DEF HandleLeg, Triggered
  <2> QED BY <2>1, InvTypes, CheckLegsValue DEF States, Live
<1>5. HasQuantity'
  BY <1>2, <1>4 DEF Inv, HasQuantity, Live
<1> QED BY <1>1, <1>2, <1>3, <1>4, <1>5, InvTypes, PlainStep

\* CancelGroup, called by a user or by the manual-exit detection.
LEMMA CancelOrdersStep == ASSUME Inv, BrokerStep, SameSizes, CancelOrders PROVE Inv'
<1>1. /\ filledQty' = filledQty /\ legQty' = legQty /\ modifies' = modifies /\ placer' = placer
      /\ state' = "CANCELLED"
  BY DEF CancelOrders, placerVars
<1>2. OtherTypesOK'
  BY InvTypes DEF CancelOrders, OtherTypesOK, placerVars, Legs, Orders
<1>3. HasQuantity'
  BY <1>1 DEF Inv, HasQuantity, Live
<1> QED BY <1>1, <1>2, <1>3, InvTypes, PlainStep DEF States

LEMMA HandleStep == ASSUME Inv, NEW e \in events, HandleBrokerUpdate(e) PROVE Inv'
<1>1. events' = events \ {e} /\ UNCHANGED <<order, lost>>
  BY DEF HandleBrokerUpdate
<1>2. CASE Drop
  <2>1. BrokerStep /\ SameSizes
    BY <1>1, InvTypes, StillStep
  <2>2. OtherTypesOK' /\ state' = state /\ placer' = placer
        /\ filledQty' = filledQty /\ legQty' = legQty /\ modifies' = modifies
    BY <1>2, InvTypes DEF Drop, OtherTypesOK, groupVars, placerVars, taskVars
  <2>3. HasQuantity'
    BY <2>2 DEF Inv, HasQuantity, Live
  <2> QED BY <2>1, <2>2, <2>3, InvTypes, PlainStep
<1>3. CASE e.o = "ENTRY" /\ \E filled \in e.filled..order["ENTRY"].filled :
                                HandleEntry(e.kind, filled)
  BY <1>1, <1>3, EntryStep DEF Position
<1>4. CASE e.o \in Legs /\ HandleLeg(e.o, e.kind)
  BY <1>1, <1>4, LegEventStep
<1>5. CASE CancelOrders
  <2>1. BrokerStep /\ SameSizes
    BY <1>1, InvTypes, StillStep
  <2> QED BY <1>5, <2>1, CancelOrdersStep
<1> QED BY <1>2, <1>3, <1>4, <1>5 DEF HandleBrokerUpdate

-----------------------------------------------------------------------------
(***************************************************************************)
(* Goroutines                                                              *)
(***************************************************************************)

\* What an attempt of placeLegWithRetry does at the broker.
LEMMA PlaceLegCases ==
    ASSUME NEW l \in Legs, PlaceLeg(l)
    PROVE  \/ PlaceOrder(l, legQty) /\ result' = [result EXCEPT ![l] = "placed"]
           \/ UNCHANGED brokerVars /\ result' = [result EXCEPT ![l] = "failed"]
           \/ /\ \E x \in LostOrders : LoseOrder(x, legQty)
              /\ UNCHANGED result /\ "unanswered" \in Environment
<1>1. \A i \in Left(l) : <<l, i>> \in LostOrders
  BY DEF Left, LostOrders
<1> QED BY <1>1 DEF PlaceLeg

LEMMA PlacerStep == ASSUME Inv, Placer PROVE Inv'
<1>1. CASE AbortLegs
  <2>1. BrokerStep /\ SameSizes
    BY <1>1, InvTypes, StillStep DEF AbortLegs, brokerVars
  <2>2. /\ OtherTypesOK'
        /\ filledQty' = filledQty /\ legQty' = legQty /\ modifies' = modifies
    BY <1>1, InvTypes DEF AbortLegs, OtherTypesOK, taskVars
  <2>3. state' = "FAILED" /\ placer' \in {"idle", "timer"} /\ placer = "starting"
    BY <1>1 DEF AbortLegs
  <2>4. HasQuantity'
    BY <2>2, <2>3 DEF Inv, HasQuantity, Live
  <2> QED BY <2>1, <2>2, <2>3, <2>4, PlainStep DEF States
<1>2. CASE BuildLegs
  <2>1. filledQty > 0 /\ filledQty \in Nat
    BY <1>2 DEF BuildLegs, Inv, HasQuantity, TypeOK, GroupTypeOK
  <2>2. /\ filledQty' = filledQty /\ legQty' = filledQty /\ modifies' = modifies
        /\ placer' = "placing" /\ state' = state
    BY <1>2, <2>1 DEF BuildLegs, taskVars
  <2>3. OtherTypesOK'
    BY <1>2, InvTypes DEF BuildLegs, OtherTypesOK, Legs, taskVars
  <2>4. GroupTypeOK'
    BY <2>1, <2>2, <2>3 DEF Inv, TypeOK, GroupTypeOK, OtherTypesOK
  <2>5. HasQuantity'
    BY <2>1, <2>2 DEF HasQuantity
  <2>6. UNCHANGED <<order, lost>> /\ events' = events
    BY <1>2 DEF BuildLegs, brokerVars
  <2> QED BY <2>2, <2>4, <2>5, <2>6, InvBounds, QuietStep
<1>3. CASE \E l \in Legs : PlaceLeg(l)
  <2>1. PICK l \in Legs : PlaceLeg(l)
    BY <1>3
  <2>2. /\ filledQty' = filledQty /\ legQty' = legQty /\ modifies' = modifies
        /\ placer' = placer /\ state' = state
    BY <2>1 DEF PlaceLeg, groupVars, taskVars
  <2>3. OtherTypesOK'
    BY <2>1, InvTypes DEF PlaceLeg, OtherTypesOK, groupVars, taskVars
  <2>4. legQty \in Nat /\ legQty <= Position /\ LegsWithinPosition
    BY DEF Inv, QuantitiesBounded, TypeOK, GroupTypeOK
  <2>5. BrokerStep /\ LegsWithinPosition'
    <3>1. CASE PlaceOrder(l, legQty)
      BY <2>4, <3>1, InvTypes, LegStep
    <3>2. CASE UNCHANGED brokerVars
      <4>1. BrokerStep
        BY <3>2, InvTypes, StillStep DEF brokerVars
      <4> QED BY <2>4, <3>2, <4>1 DEF LegsWithinPosition, brokerVars
    <3>3. CASE \E x \in LostOrders : LoseOrder(x, legQty)
      BY <2>4, <3>3, InvTypes, LoseStep
    <3> QED BY <2>1, <3>1, <3>2, <3>3, PlaceLegCases
  <2>6. QuantitiesBounded'
    BY <2>2, <2>5, OldBounds DEF QuantitiesBounded
  <2>7. GroupTypeOK' /\ HasQuantity'
    BY <2>2, <2>3 DEF Inv, TypeOK, GroupTypeOK, OtherTypesOK, HasQuantity, Live
  <2> QED BY <2>5, <2>6, <2>7 DEF Inv, TypeOK, BrokerStep, BrokerInv
<1>4. CASE FinishPlacing
  <2>1. BrokerStep /\ SameSizes
    BY <1>4, InvTypes, StillStep DEF FinishPlacing, brokerVars
  <2>2. filledQty' = filledQty /\ legQty' = legQty /\ modifies' = modifies
    BY <1>4 DEF FinishPlacing
  <2>3. OtherTypesOK'
    BY <1>4, InvTypes DEF FinishPlacing, OtherTypesOK, GoCancel, Placed, Failed, Legs, Orders
  <2>4. placer' \in {"idle", "timer"} /\ placer = "placing"
    BY <1>4 DEF FinishPlacing
  <2>5. state' \in States
    <3>1. \/ state' = "FAILED"
          \/ state' = CheckLegsConfirmed("LEGS_SUBMITTED", known', confirmed')
      BY <1>4 DEF FinishPlacing
    <3> QED BY <3>1, CheckLegsValue DEF States
  <2>6. HasQuantity'
    BY <2>2, <2>4 DEF Inv, HasQuantity
  <2> QED BY <2>1, <2>2, <2>3, <2>4, <2>5, <2>6, PlainStep
<1>5. CASE StartPartialFillTimer
  <2>1. BrokerStep /\ SameSizes
    BY <1>5, InvTypes, StillStep DEF StartPartialFillTimer, brokerVars
  <2>2. /\ OtherTypesOK' /\ state' = state /\ placer' = "idle"
        /\ filledQty' = filledQty /\ legQty' = legQty /\ modifies' = modifies
    BY <1>5, InvTypes DEF StartPartialFillTimer, OtherTypesOK, groupVars
  <2>3. HasQuantity'
    BY <2>2 DEF Inv, HasQuantity, Live
  <2> QED BY <2>1, <2>2, <2>3, InvTypes, PlainStep
<1> QED BY <1>1, <1>2, <1>3, <1>4, <1>5 DEF Placer

LEMMA ModifierStep == ASSUME Inv, Modifier PROVE Inv'
<1>1. PICK t \in modifies : ReadLegs(t) \/ (\E l \in Legs : ModifyLeg(t, l)) \/ RecordQty(t)
  BY DEF Modifier
<1>2. /\ t \in Modifies /\ t.qty \in Nat /\ 0 < t.qty /\ t.qty <= Position
      /\ modifies \subseteq Modifies
  BY <1>1, InvBounds DEF Inv, TypeOK, GroupTypeOK, Modifies
<1>3. CASE ReadLegs(t)
  <2> DEFINE t2 == [t EXCEPT !.step = "modify", !.todo = known]
  <2>1. /\ filledQty' = filledQty /\ legQty' = legQty /\ placer' = placer /\ state' = state
        /\ modifies' = (modifies \ {t}) \union {t2}
    BY <1>3 DEF ReadLegs, groupVars, placerVars
  <2>2. OtherTypesOK'
    BY <1>3, InvTypes DEF ReadLegs, OtherTypesOK, groupVars, placerVars
  <2>3. t2 \in Modifies /\ t2.qty = t.qty
    BY <1>2, InvTypes DEF Modifies, OtherTypesOK
  <2>4. modifies' \subseteq Modifies /\ \A u \in modifies' : 0 < u.qty /\ u.qty <= Position
    BY <1>2, <2>1, <2>3, InvBounds
  <2>5. GroupTypeOK'
    BY <2>1, <2>2, <2>4 DEF Inv, TypeOK, GroupTypeOK, OtherTypesOK
  <2>6. HasQuantity'
    BY <2>1 DEF Inv, HasQuantity, Live
  <2>7. UNCHANGED <<order, lost>> /\ events' = events
    BY <1>3 DEF ReadLegs, brokerVars
  <2> QED BY <2>1, <2>4, <2>5, <2>6, <2>7, InvBounds, QuietStep
<1>4. CASE \E l \in Legs : ModifyLeg(t, l)
  <2>1. PICK l \in Legs : ModifyLeg(t, l)
    BY <1>4
  <2> DEFINE t2 == [t EXCEPT !.todo = t.todo \ {l}]
  <2>2. /\ filledQty' = filledQty /\ legQty' = legQty /\ placer' = placer /\ state' = state
        /\ modifies' = (modifies \ {t}) \union {t2}
    BY <2>1 DEF ModifyLeg, groupVars, placerVars
  <2>3. OtherTypesOK'
    BY <2>1, InvTypes DEF ModifyLeg, OtherTypesOK, groupVars, placerVars
  <2>4. t2 \in Modifies /\ t2.qty = t.qty
    BY <1>2 DEF Modifies
  <2>5. BrokerStep /\ LegsWithinPosition'
    <3>1. CASE ModifyOrder(l, t.qty)
      BY <1>2, <3>1, InvTypes, LegStep DEF Inv, QuantitiesBounded
    <3>2. CASE UNCHANGED brokerVars
      <4>1. BrokerStep
        BY <3>2, InvTypes, StillStep DEF brokerVars
      <4> QED BY <3>2, <4>1 DEF Inv, QuantitiesBounded, LegsWithinPosition, brokerVars
    <3> QED BY <2>1, <3>1, <3>2 DEF ModifyLeg
  <2>6. 0 < t.qty /\ t.qty <= Position'
    BY <1>1, <2>5, OldBounds
  <2>7. modifies' \subseteq Modifies /\ \A u \in modifies' : 0 < u.qty /\ u.qty <= Position'
    BY <1>2, <2>2, <2>4, <2>5, <2>6, OldBounds
  <2>8. QuantitiesBounded'
    BY <2>2, <2>5, <2>7, OldBounds DEF QuantitiesBounded
  <2>9. GroupTypeOK' /\ HasQuantity'
    BY <2>2, <2>3, <2>7 DEF Inv, TypeOK, GroupTypeOK, OtherTypesOK, HasQuantity, Live
  <2> QED BY <2>5, <2>8, <2>9 DEF Inv, TypeOK, BrokerStep, BrokerInv
<1>5. CASE RecordQty(t)
  <2>1. /\ filledQty' = t.qty /\ legQty' = legQty /\ placer' = placer /\ state' = state
        /\ modifies' = modifies \ {t}
    BY <1>5 DEF RecordQty, placerVars
  <2>2. OtherTypesOK'
    BY <1>5, InvTypes DEF RecordQty, OtherTypesOK, placerVars
  <2>3. GroupTypeOK' /\ HasQuantity'
    BY <1>2, <2>1, <2>2 DEF Inv, TypeOK, GroupTypeOK, OtherTypesOK, HasQuantity
  <2>4. UNCHANGED <<order, lost>> /\ events' = events
    BY <1>5 DEF RecordQty, brokerVars
  <2>5. \A u \in modifies' : 0 < u.qty /\ u.qty <= Position
    BY <2>1, InvBounds
  <2> QED BY <1>2, <2>1, <2>3, <2>4, <2>5, InvBounds, QuietStep
<1> QED BY <1>1, <1>3, <1>4, <1>5

\* The trailing monitor sends FilledQty, which an active group has.
LEMMA TrailStep == ASSUME Inv, ModifySLLeg PROVE Inv'
<1>1. filledQty > 0 /\ filledQty \in Nat /\ filledQty <= Position
  BY DEF ModifySLLeg, Inv, HasQuantity, Live, TypeOK, GroupTypeOK, QuantitiesBounded
<1>2. BrokerStep /\ LegsWithinPosition'
  BY <1>1, InvTypes, LegStep DEF ModifySLLeg, Inv, QuantitiesBounded, Legs
<1>3. UNCHANGED <<groupVars, placerVars, taskVars>>
  BY DEF ModifySLLeg
<1>4. QuantitiesBounded'
  BY <1>2, <1>3, OldBounds DEF QuantitiesBounded, groupVars, placerVars, taskVars
<1>5. GroupTypeOK' /\ HasQuantity'
  BY <1>3 DEF Inv, TypeOK, GroupTypeOK, HasQuantity, Live, groupVars, placerVars, taskVars
<1> QED BY <1>2, <1>4, <1>5 DEF Inv, TypeOK, BrokerStep, BrokerInv

LEMMA CancelsStep ==
    ASSUME Inv, CancelEntryRemaining \/ \E o \in Orders : CancelLeg(o)
    PROVE  Inv'
<1>1. BrokerStep /\ SameSizes
  <2>1. CASE CancelEntryRemaining
    BY <2>1, InvTypes, CancelStep DEF CancelEntryRemaining, Orders
  <2>2. CASE \E o \in Orders : CancelLeg(o)
    BY <2>2, InvTypes, CancelStep DEF CancelLeg
  <2> QED BY <2>1, <2>2
<1>2. filledQty' = filledQty /\ legQty' = legQty /\ modifies' = modifies /\ placer' = placer
  BY DEF CancelEntryRemaining, CancelLeg, groupVars, placerVars
<1>3. state' \in {state, "COMPLETED"}
  BY DEF CancelEntryRemaining, CancelLeg, groupVars
<1>4. OtherTypesOK'
  BY InvTypes DEF CancelEntryRemaining, CancelLeg, OtherTypesOK, groupVars, placerVars
<1>5. HasQuantity'
  BY <1>2, <1>3 DEF Inv, HasQuantity, Live
<1> QED BY <1>1, <1>2, <1>3, <1>4, <1>5, InvTypes, PlainStep DEF States

LEMMA ControlStep ==
    ASSUME Inv, AdoptOrder \/ TimerExpires \/ CancelGroup \/ Cleanup \/ UNCHANGED vars
    PROVE  Inv'
<1> USE DEF AdoptOrder, TimerExpires, CancelGroup, CancelOrders, Cleanup, vars
<1>1. BrokerStep /\ SameSizes
  <2>1. UNCHANGED brokerVars
    OBVIOUS
  <2> QED BY <2>1, InvTypes, StillStep DEF brokerVars
<1>2. filledQty' = filledQty /\ legQty' = legQty /\ modifies' = modifies /\ placer' = placer
  BY DEF groupVars, placerVars, taskVars
<1>3. state' \in {state, "CANCELLED"}
  BY DEF groupVars
<1>4. OtherTypesOK'
  <2>1. OtherTypesOK
    BY InvTypes
  <2>2. CASE AdoptOrder
    BY <2>1, <2>2 DEF OtherTypesOK, placerVars, taskVars
  <2>3. CASE TimerExpires
    BY <2>1, <2>3 DEF OtherTypesOK, placerVars
  <2>4. CASE CancelGroup
    BY <2>1, <2>4 DEF OtherTypesOK, placerVars, Legs, Orders
  <2>5. CASE Cleanup
    BY <2>1, <2>5 DEF OtherTypesOK, placerVars, taskVars
  <2>6. CASE UNCHANGED vars
    BY <2>1, <2>6 DEF OtherTypesOK, groupVars, placerVars, taskVars
  <2> QED BY <2>2, <2>3, <2>4, <2>5, <2>6
<1>5. HasQuantity'
  BY <1>2, <1>3 DEF Inv, HasQuantity, Live
<1> QED BY <1>1, <1>2, <1>3, <1>4, <1>5, InvTypes, PlainStep DEF States

-----------------------------------------------------------------------------
LEMMA InitInv == ASSUME Init PROVE Inv
<1> USE QuantityAssumption DEF Init, BrokerInit, Orders, Legs
<1>1. BrokerTypeOK /\ EntryBounded /\ EventsHonest
  BY DEF BrokerTypeOK, OrderStates, Kinds, EntryBounded, EventsHonest, Position
<1>2. QuantitiesBounded
  BY DEF QuantitiesBounded, LegsWithinPosition, Position
<1>3. HasQuantity
  BY DEF HasQuantity, Live
<1>4. tracked \in BOOLEAN
  OBVIOUS
<1>5. GroupTypeOK
  BY <1>4 DEF GroupTypeOK, States, Modifies
<1> QED BY <1>1, <1>2, <1>3, <1>5 DEF Inv, TypeOK

LEMMA NextInv == ASSUME Inv, [Next]_vars PROVE Inv'
BY ExchangeStep, HandleStep, PlacerStep, ModifierStep, TrailStep, CancelsStep, ControlStep
   DEF Next

(***************************************************************************)
(* The inductive invariant holds in every state.                           *)
(***************************************************************************)
THEOREM GroupInvariance == Spec => []Inv
BY InitInv, NextInv, PTL DEF Spec

(***************************************************************************)
(* Every variable of the group keeps its type, whatever happens.           *)
(***************************************************************************)
THEOREM GroupTypeCorrect == Spec => []TypeOK
<1>1. Inv => TypeOK
  BY DEF Inv
<1> QED BY <1>1, GroupInvariance, PTL

(***************************************************************************)
(* No exit order is ever larger than the position: for every quantity, and *)
(* however fills, cancels, rejects, timeouts, failures and the goroutines  *)
(* of the OCO manager interleave.                                          *)
(***************************************************************************)
THEOREM ExitsNeverExceedPosition == Spec => []LegsWithinPosition
<1>1. Inv => LegsWithinPosition
  BY DEF Inv, QuantitiesBounded
<1> QED BY <1>1, GroupInvariance, PTL

-----------------------------------------------------------------------------
(***************************************************************************)
(* What the broker's operations do to the orders and to the events         *)
(***************************************************************************)

\* The order `o` is the only one that changes.
Only(o) == \A p \in Orders : p # o => order'[p] = order[p]

LEMMA FillEffect ==
    ASSUME BrokerTypeOK, NEW o \in Orders, NEW filled \in Nat, Fill(o, filled)
    PROVE  /\ Only(o) /\ Open(o) /\ order[o].filled < filled /\ lost' = lost
           /\ order'[o].qty = order[o].qty /\ order'[o].filled = filled
           /\ \E e \in events' :
                 /\ events' = events \union {e} /\ e.o = o /\ e.filled = filled
                 /\ \/ e.kind = "EXECUTED" /\ order'[o].st = "executed" /\ filled = order[o].qty
                    \/ e.kind = "PARTIAL" /\ order'[o].st = "open" /\ filled # order[o].qty
<1> DEFINE e == Event(o, IF filled = order[o].qty THEN "EXECUTED" ELSE "PARTIAL", filled)
<1>1. /\ Only(o) /\ Open(o) /\ order[o].filled < filled /\ lost' = lost
      /\ order'[o].qty = order[o].qty /\ order'[o].filled = filled
      /\ order'[o].st = IF filled = order[o].qty THEN "executed" ELSE "open"
  BY DEF BrokerTypeOK, Only, Fill, Open
<1>2. events' = events \union {e}
  BY DEF Fill
<1>3. /\ e.o = o /\ e.filled = filled
      /\ e.kind = IF filled = order[o].qty THEN "EXECUTED" ELSE "PARTIAL"
  BY DEF Event
<1> HIDE DEF e
<1> QED BY <1>1, <1>2, <1>3

LEMMA EndEffect ==
    ASSUME BrokerTypeOK, NEW o \in Orders, NEW st \in {"cancelled", "rejected"}, End(o, st)
    PROVE  /\ Only(o) /\ Open(o) /\ lost' = lost
           /\ order'[o].qty = order[o].qty /\ order'[o].filled = order[o].filled
           /\ order'[o].st = st
           /\ \E e \in events' :
                 /\ events' = events \union {e} /\ e.o = o /\ e.filled = order[o].filled
                 /\ e.kind = IF st = "rejected" THEN "REJECTED" ELSE "CANCELLED"
<1> DEFINE e == Event(o, IF st = "rejected" THEN "REJECTED" ELSE "CANCELLED", order[o].filled)
<1>1. /\ Only(o) /\ Open(o) /\ lost' = lost
      /\ order'[o].qty = order[o].qty /\ order'[o].filled = order[o].filled
      /\ order'[o].st = st
  BY DEF BrokerTypeOK, Only, End, Open
<1>2. events' = events \union {e}
  BY DEF End
<1>3. /\ e.o = o /\ e.filled = order[o].filled
      /\ e.kind = IF st = "rejected" THEN "REJECTED" ELSE "CANCELLED"
  BY DEF Event
<1> HIDE DEF e
<1> QED BY <1>1, <1>2, <1>3

LEMMA PlaceEffect ==
    ASSUME BrokerTypeOK, NEW o \in Orders, NEW qty \in Nat, PlaceOrder(o, qty)
    PROVE  /\ Only(o) /\ lost' = lost
           /\ order'[o].qty = qty /\ order'[o].filled = 0 /\ order'[o].st = "open"
           /\ \E e \in events' : events' = events \union {e} /\ e.o = o /\ e.kind = "PENDING"
<1> DEFINE e == Event(o, "PENDING", 0)
<1>1. Only(o) /\ lost' = lost /\ order'[o].qty = qty /\ order'[o].filled = 0 /\ order'[o].st = "open"
  BY DEF BrokerTypeOK, Only, PlaceOrder
<1>2. events' = events \union {e}
  BY DEF PlaceOrder
<1>3. e.o = o /\ e.kind = "PENDING"
  BY DEF Event
<1> HIDE DEF e
<1> QED BY <1>1, <1>2, <1>3

LEMMA ModifyEffect ==
    ASSUME BrokerTypeOK, NEW o \in Orders, NEW qty \in Nat, ModifyOrder(o, qty)
    PROVE  /\ Only(o) /\ events' = events /\ lost' = lost
           /\ \A p \in Orders : order'[p].st = order[p].st /\ order'[p].filled = order[p].filled
           /\ \/ Open(o) /\ order[o].filled < qty /\ order'[o].qty = qty
              \/ (~Open(o) \/ order[o].filled >= qty) /\ order' = order
BY DEF BrokerTypeOK, Only, ModifyOrder, Open, brokerVars

-----------------------------------------------------------------------------
(***************************************************************************)
(* A group that has ended stays ended                                      *)
(*                                                                         *)
(* FinishPlacing writes the state whatever it was when placeOCOLegs began. *)
(* Nothing else may end the group in between: the invariant says that the  *)
(* group is in PLACING_LEGS exactly while its legs are being placed, which *)
(* needs that no leg moves, nothing is cancelled and the entry does not    *)
(* end (its end is reported once, and before that the fill is partial).    *)
(***************************************************************************)

\* Users do not cancel and the legs do not trade or end while the legs are placed.
CalmPlacing == {"cancel while placing", "leg while placing"} \intersect Environment = {}

\* The event says that the order ended untraded or with less than its quantity.
Gone(e, o) == e.o = o /\ e.kind \in {"CANCELLED", "REJECTED"}

\* The legs before they are placed, and while they are.
NoLegs ==
    /\ \A l \in Legs : order[l].st = "none" /\ order[l].filled = 0 /\ result[l] = "none"
    /\ \A x \in LostOrders : lost[x].st = "none"
    /\ \A e \in events : e.o = "ENTRY"
LegsNew ==
    /\ \A l \in Legs : /\ order[l].filled = 0
                       /\ order[l].st = IF result[l] = "placed" THEN "open" ELSE "none"
    /\ \A e \in events : e.o # "ENTRY" => e.o \in Legs /\ e.kind = "PENDING"
Untouched == cancels = {} /\ timer = "off"

PhaseInv ==
    /\ Placing <=> state = "PLACING_LEGS"
    /\ state = "PENDING_ENTRY" => placer = "idle" /\ NoLegs /\ Untouched /\ known = {} /\ ~partial
    /\ placer = "starting" => NoLegs
    /\ Placing => LegsNew /\ Untouched

\* The entry has ended, and the group need not hear of it any more.
EntryOver == ~Open("ENTRY") /\ \A e \in events : ~Gone(e, "ENTRY")

\* The entry ends once, and says so once; a fill that is complete is final.
EntryInv ==
    /\ \A e \in events :
          /\ e.o = "ENTRY" /\ e.kind = "EXECUTED" => order["ENTRY"].st = "executed"
          /\ Gone(e, "ENTRY") => order["ENTRY"].st \in {"cancelled", "rejected"}
    /\ \A e, f \in events : Gone(e, "ENTRY") /\ Gone(f, "ENTRY") => e = f
    /\ Placing /\ ~partial => EntryOver

FinalInv == PhaseInv /\ EntryInv

\* The group's variables that FinalInv speaks of.
phaseVars == <<state, partial, known, placer, result, cancels, timer>>

LEMMA PhaseExchange ==
    ASSUME CalmPlacing, Inv, FinalInv, Exchange
    PROVE  FinalInv'
<1> USE DEF Orders, Legs
<1>1. BrokerTypeOK
  BY DEF Inv, TypeOK
<1>2. UNCHANGED phaseVars /\ (Placing' <=> Placing)
  BY DEF Exchange, EntryFills, EntryEnds, LegFills, LegEnds, LostFills, LostEnds, Market, groupVars, placerVars,
         taskVars, phaseVars, Placing
<1>3. ASSUME Only("ENTRY"), Open("ENTRY"), lost' = lost,
             NEW e \in events', events' = events \union {e}, e.o = "ENTRY",
             e.kind = "EXECUTED" => order'["ENTRY"].st = "executed",
             Gone(e, "ENTRY") => order'["ENTRY"].st \in {"cancelled", "rejected"}
      PROVE  FinalInv'
  <2>1. PhaseInv'
    BY <1>2, <1>3 DEF FinalInv, PhaseInv, NoLegs, LegsNew, Untouched, Only, phaseVars
  <2>2. EntryInv'
    BY <1>2, <1>3 DEF FinalInv, EntryInv, EntryOver, Gone, Open, phaseVars
  <2> QED BY <2>1, <2>2 DEF FinalInv
<1>4. CASE \E filled \in 1..Quantity : EntryFills(filled)
  <2>1. PICK filled \in 1..Quantity : Fill("ENTRY", filled)
    BY <1>4 DEF EntryFills
  <2>2. filled \in Nat
    BY QuantityAssumption
  <2> QED BY <1>1, <1>3, <2>1, <2>2, FillEffect DEF Gone
<1>5. CASE \E st \in {"cancelled", "rejected"} : EntryEnds(st)
  <2>1. PICK st \in {"cancelled", "rejected"} : End("ENTRY", st)
    BY <1>5 DEF EntryEnds
  <2> QED BY <1>1, <1>3, <2>1, EndEffect DEF Gone
<1>6. ASSUME NEW l \in Legs, ~Placing, Only(l), Open(l),
             NEW e \in events', events' = events \union {e}, e.o = l
      PROVE  FinalInv'
  <2>1. state # "PENDING_ENTRY" /\ placer # "starting"
    BY <1>6 DEF FinalInv, PhaseInv, NoLegs, Open, Placing
  <2>2. PhaseInv'
    BY <1>2, <1>6, <2>1 DEF FinalInv, PhaseInv, phaseVars
  <2>3. order'["ENTRY"] = order["ENTRY"] /\ \A f \in events' : f.o = "ENTRY" => f \in events
    BY <1>6 DEF Only
  <2>4. EntryInv'
    BY <1>2, <1>6, <2>3 DEF FinalInv, EntryInv, EntryOver, Gone, Open, phaseVars
  <2> QED BY <2>2, <2>4 DEF FinalInv
<1>7. CASE \E l \in Legs, filled \in 1..Quantity : LegFills(l, filled)
  <2>1. PICK l \in Legs, filled \in 1..Quantity : LegMayMove /\ Fill(l, filled)
    BY <1>7 DEF LegFills
  <2>2. filled \in Nat
    BY QuantityAssumption
  <2>3. ~Placing
    BY <2>1 DEF LegMayMove, CalmPlacing
  <2> QED BY <1>1, <1>6, <2>1, <2>2, <2>3, FillEffect
<1>8. CASE \E l \in Legs, st \in {"cancelled", "rejected"} : LegEnds(l, st)
  <2>1. PICK l \in Legs, st \in {"cancelled", "rejected"} : LegMayMove /\ End(l, st)
    BY <1>8 DEF LegEnds
  <2>2. ~Placing
    BY <2>1 DEF LegMayMove, CalmPlacing
  <2> QED BY <1>1, <1>6, <2>1, <2>2, EndEffect
\* An order whose answer was lost: there is one only once a leg was to be placed.
<1>9. ASSUME NEW x \in LostOrders, ~Placing, lost[x].st = "open", UNCHANGED order,
             \A e \in events' : e \in events \/ e.o = "UNKNOWN"
      PROVE  FinalInv'
  <2>1. state # "PENDING_ENTRY" /\ placer # "starting"
    BY <1>9 DEF FinalInv, PhaseInv, NoLegs, Placing
  <2>2. PhaseInv'
    BY <1>2, <1>9, <2>1 DEF FinalInv, PhaseInv, phaseVars
  <2>3. \A f \in events' : f.o = "ENTRY" => f \in events
    BY <1>9
  <2>4. EntryInv'
    BY <1>2, <1>9, <2>3 DEF FinalInv, EntryInv, EntryOver, Gone, Open, phaseVars
  <2> QED BY <2>2, <2>4 DEF FinalInv
<1>10. CASE \E x \in LostOrders, filled \in 1..Quantity : LostFills(x, filled)
  <2>1. PICK x \in LostOrders, filled \in 1..Quantity : LegMayMove /\ FillLost(x, filled)
    BY <1>10 DEF LostFills
  <2>2. ~Placing
    BY <2>1 DEF LegMayMove, CalmPlacing
  <2>3. lost[x].st = "open" /\ UNCHANGED order
        /\ \A e \in events' : e \in events \/ e.o = "UNKNOWN"
    BY <2>1 DEF FillLost, Event
  <2> QED BY <1>9, <2>2, <2>3
<1>11. CASE \E x \in LostOrders, st \in {"cancelled", "rejected"} : LostEnds(x, st)
  BY <1>9, <1>11 DEF LostEnds, LegMayMove, CalmPlacing, EndLost
<1> QED BY <1>4, <1>5, <1>7, <1>8, <1>10, <1>11 DEF Exchange

\* Events only disappear, and the orders stay.
LEMMA QuietBroker ==
    ASSUME NoLegs \/ LegsNew, UNCHANGED <<order, lost>>, events' \subseteq events, UNCHANGED result
    PROVE  (NoLegs => NoLegs') /\ (LegsNew => LegsNew') /\ (NoLegs => LegsNew)
BY DEF NoLegs, LegsNew, Legs

LEMMA QuietEntry ==
    ASSUME EntryInv, UNCHANGED order, events' \subseteq events,
           Placing' /\ ~partial' => ~Open("ENTRY") /\ \A e \in events' : ~Gone(e, "ENTRY")
    PROVE  EntryInv'
BY DEF EntryInv, EntryOver, Open, Gone

LEMMA PhaseEntry ==
    ASSUME Inv, FinalInv, NEW e \in events, e.o = "ENTRY",
           events' = events \ {e}, UNCHANGED <<order, lost>>, ~IsTerminal(state),
           NEW filled, HandleEntry(e.kind, filled)
    PROVE  FinalInv'
<1>1. events' \subseteq events
  OBVIOUS
<1>2. CASE Drop
  <2>1. UNCHANGED phaseVars /\ (Placing' <=> Placing)
    BY <1>2 DEF Drop, groupVars, placerVars, taskVars, phaseVars, Placing
  <2>2. PhaseInv'
    BY <1>1, <2>1, QuietBroker DEF FinalInv, PhaseInv, Untouched, phaseVars
  <2>3. EntryInv'
    BY <1>1, <2>1, QuietEntry DEF FinalInv, EntryInv, EntryOver, phaseVars
  <2> QED BY <2>2, <2>3 DEF FinalInv
<1>3. ASSUME state = "PENDING_ENTRY", state' = "PLACING_LEGS", placer' = "starting",
             UNCHANGED <<result, cancels, timer>>, ~partial' => e.kind = "EXECUTED"
      PROVE  FinalInv'
  <2>1. NoLegs' /\ LegsNew' /\ Untouched'
    <3>1. NoLegs /\ Untouched
      BY <1>3 DEF FinalInv, PhaseInv
    <3>2. NoLegs' /\ Untouched'
      BY <1>1, <1>3, <3>1, QuietBroker DEF Untouched
    <3>3. LegsNew'
      BY <3>2 DEF NoLegs, LegsNew, Legs
    <3> QED BY <3>2, <3>3
  <2>2. PhaseInv'
    BY <1>3, <2>1 DEF PhaseInv, Placing
  <2>3. ~partial' => order["ENTRY"].st = "executed"
    BY <1>3 DEF FinalInv, EntryInv, EntryOver
  <2>4. EntryInv'
    BY <1>1, <2>3, QuietEntry DEF FinalInv, EntryInv, EntryOver, Open
  <2> QED BY <2>2, <2>4 DEF FinalInv
<1>4. ASSUME partial, UNCHANGED <<state, known, placer, result, cancels>>,
             timer' \in {timer, "off"}, e.kind \in {"EXECUTED", "CANCELLED", "REJECTED"} \/ partial'
      PROVE  FinalInv'
  <2>1. state # "PENDING_ENTRY" /\ (Placing' <=> Placing)
    BY <1>4 DEF FinalInv, PhaseInv, Placing
  <2>2. PhaseInv'
    BY <1>1, <1>4, <2>1, QuietBroker DEF FinalInv, PhaseInv, Untouched
  <2>3. ~partial' => ~Open("ENTRY") /\ \A f \in events' : ~Gone(f, "ENTRY")
    BY <1>4 DEF FinalInv, EntryInv, EntryOver, Open, Gone
  <2>4. EntryInv'
    BY <1>1, <2>3, QuietEntry DEF FinalInv
  <2> QED BY <2>2, <2>4 DEF FinalInv
<1>5. ASSUME state' = "FAILED", UNCHANGED placer, ~Placing
      PROVE  FinalInv'
  <2>1. ~Placing' /\ placer' # "starting"
    BY <1>5 DEF Placing
  <2>2. PhaseInv'
    BY <1>5, <2>1 DEF PhaseInv
  <2>3. EntryInv'
    BY <1>1, <2>1, QuietEntry DEF FinalInv
  <2> QED BY <2>2, <2>3 DEF FinalInv
<1>6. CASE e.kind = "EXECUTED" /\ EntryExecuted
  <2>1. state = "PENDING_ENTRY" => ~Placing
    BY DEF FinalInv, PhaseInv, Placing
  <2> QED BY <1>2, <1>3, <1>4, <1>5, <1>6, <2>1
          DEF EntryExecuted, StartPlacing, StopTimer, placerVars, taskVars
<1>7. CASE e.kind = "PARTIAL" /\ EntryPartial(filled)
  <2>1. CASE Drop
    BY <1>2, <2>1
  <2>2. CASE state = "PENDING_ENTRY" /\ StartPlacing(filled) /\ partial' = TRUE
             /\ UNCHANGED taskVars
    BY <1>3, <2>2 DEF StartPlacing, taskVars
  <2>3. CASE partial /\ UNCHANGED <<state, partial, known, placerVars, timer, cancels>>
    <3>1. partial'
      BY <2>3
    <3> QED BY <1>4, <2>3, <3>1 DEF placerVars
  <2> QED BY <1>7, <2>1, <2>2, <2>3 DEF EntryPartial
<1>8. CASE e.kind \in {"CANCELLED", "REJECTED"} /\ EntryGone
  <2>1. ~partial => ~Placing
    BY <1>8 DEF FinalInv, EntryInv, EntryOver, Gone
  <2> QED BY <1>4, <1>5, <1>8, <2>1 DEF EntryGone, StopTimer, placerVars, taskVars
<1> QED BY <1>2, <1>6, <1>7, <1>8 DEF HandleEntry

LEMMA PhaseLeg ==
    ASSUME Inv, FinalInv, NEW e \in events, e.o \in Legs,
           events' = events \ {e}, UNCHANGED <<order, lost>>, ~IsTerminal(state), HandleLeg(e.o, e.kind)
    PROVE  FinalInv'
<1>1. events' \subseteq events
  OBVIOUS
<1>2. UNCHANGED <<partial, placer, result, timer>> /\ (Placing' <=> Placing)
  BY DEF HandleLeg, placerVars, Placing
<1>3. EntryInv'
  BY <1>1, <1>2, QuietEntry DEF FinalInv, EntryInv, EntryOver
<1>4. state # "PENDING_ENTRY"
  BY DEF FinalInv, PhaseInv, NoLegs, Legs
<1>5. CASE Placing
  <2>1. e.kind = "PENDING" /\ state = "PLACING_LEGS"
    BY <1>5 DEF FinalInv, PhaseInv, LegsNew, Legs
  <2>2. cancels' = cancels /\ state' = state
    BY <2>1, CheckLegsValue DEF HandleLeg
  <2>3. PhaseInv'
    BY <1>1, <1>2, <1>4, <2>2, QuietBroker DEF FinalInv, PhaseInv, Untouched
  <2> QED BY <1>3, <2>3 DEF FinalInv
<1>6. CASE ~Placing
  <2>1. state # "PLACING_LEGS"
    BY <1>6 DEF FinalInv, PhaseInv
  <2>2. \/ state' \in {state, "SL_TRIGGERED", "TP_TRIGGERED", "COMPLETED", "CANCELLED", "FAILED"}
        \/ state' = CheckLegsConfirmed(state, known', confirmed')
    BY DEF HandleLeg, Triggered
  <2>3. state' \notin {"PLACING_LEGS", "PENDING_ENTRY"}
    BY <1>4, <2>1, <2>2, CheckLegsValue
  <2>4. ~Placing' /\ placer' # "starting"
    BY <1>2, <1>6 DEF Placing
  <2>5. PhaseInv'
    BY <2>3, <2>4 DEF PhaseInv
  <2> QED BY <1>3, <2>5 DEF FinalInv
<1> QED BY <1>5, <1>6

LEMMA PhaseHandle ==
    ASSUME Inv, FinalInv, NEW e \in events, HandleBrokerUpdate(e)
    PROVE  FinalInv'
<1>1. events' = events \ {e} /\ UNCHANGED <<order, lost>> /\ events' \subseteq events
  BY DEF HandleBrokerUpdate
<1>2. CASE Drop
  <2>1. UNCHANGED phaseVars /\ (Placing' <=> Placing)
    BY <1>2 DEF Drop, groupVars, placerVars, taskVars, phaseVars, Placing
  <2>2. PhaseInv'
    BY <1>1, <2>1, QuietBroker DEF FinalInv, PhaseInv, Untouched, phaseVars
  <2>3. EntryInv'
    BY <1>1, <2>1, QuietEntry DEF FinalInv, EntryInv, EntryOver, phaseVars
  <2> QED BY <2>2, <2>3 DEF FinalInv
<1>3. CASE e.o = "UNKNOWN" /\ CancelOrders
  <2>1. ~Placing
    BY <1>3 DEF FinalInv, PhaseInv, LegsNew, Legs
  <2>2. state' = "CANCELLED" /\ UNCHANGED placer
    BY <1>3 DEF CancelOrders, placerVars
  <2>3. ~Placing' /\ placer' # "starting"
    BY <2>1, <2>2 DEF Placing
  <2>4. PhaseInv'
    BY <2>2, <2>3 DEF PhaseInv
  <2>5. EntryInv'
    BY <1>1, <2>3, QuietEntry DEF FinalInv
  <2> QED BY <2>4, <2>5 DEF FinalInv
<1> QED BY <1>1, <1>2, <1>3, PhaseEntry, PhaseLeg DEF HandleBrokerUpdate

LEMMA PhasePlacer == ASSUME Inv, FinalInv, Placer PROVE FinalInv'
<1> USE DEF Orders, Legs
<1>1. BrokerTypeOK /\ legQty \in Nat /\ result \in [Legs -> {"none", "placed", "failed"}]
  BY DEF Inv, TypeOK, GroupTypeOK
<1>2. ASSUME UNCHANGED brokerVars, placer' \notin {"starting", "placing"},
             state' \notin {"PENDING_ENTRY", "PLACING_LEGS"}
      PROVE  FinalInv'
  <2>1. ~Placing' /\ placer' # "starting"
    BY <1>2 DEF Placing
  <2>2. PhaseInv'
    BY <1>2, <2>1 DEF PhaseInv
  <2>3. EntryInv'
    BY <1>2, <2>1, QuietEntry DEF FinalInv, brokerVars
  <2> QED BY <2>2, <2>3 DEF FinalInv
<1>3. CASE AbortLegs
  BY <1>2, <1>3 DEF AbortLegs
<1>4. CASE BuildLegs
  <2>1. /\ placer = "starting" /\ placer' = "placing"
        /\ UNCHANGED <<order, events, state, partial, result, cancels, timer>>
    BY <1>4 DEF BuildLegs, brokerVars, taskVars
  <2>2. Placing /\ Placing'
    BY <2>1 DEF Placing
  <2>3. LegsNew /\ Untouched /\ state = "PLACING_LEGS"
    BY <2>2 DEF FinalInv, PhaseInv
  <2>4. LegsNew' /\ Untouched'
    BY <2>1, <2>3 DEF LegsNew, Untouched
  <2>5. PhaseInv'
    BY <2>1, <2>2, <2>3, <2>4 DEF PhaseInv
  <2>6. EntryInv'
    BY <2>1, <2>2, QuietEntry DEF FinalInv, EntryInv, EntryOver
  <2> QED BY <2>5, <2>6 DEF FinalInv
<1>5. CASE \E l \in Legs : PlaceLeg(l)
  <2>1. PICK l \in Legs : PlaceLeg(l)
    BY <1>5
  <2>2. /\ placer = "placing" /\ result[l] = "none"
        /\ UNCHANGED <<placer, state, partial, cancels, timer>>
    BY <2>1 DEF PlaceLeg, groupVars, taskVars
  <2>3. Placing /\ Placing'
    BY <2>2 DEF Placing
  <2>4. LegsNew /\ Untouched /\ state = "PLACING_LEGS"
    BY <2>3 DEF FinalInv, PhaseInv
  <2>5. CASE PlaceOrder(l, legQty) /\ result' = [result EXCEPT ![l] = "placed"]
    <3>1. /\ Only(l) /\ order'[l].filled = 0 /\ order'[l].st = "open"
          /\ \E e \in events' : events' = events \union {e} /\ e.o = l /\ e.kind = "PENDING"
      BY <1>1, <2>5, PlaceEffect
    <3>2. LegsNew'
      BY <1>1, <2>4, <2>5, <3>1 DEF LegsNew, Only
    <3>3. PhaseInv'
      BY <2>2, <2>3, <2>4, <3>2 DEF PhaseInv, Untouched
    <3>4. order'["ENTRY"] = order["ENTRY"] /\ \A f \in events' : f.o = "ENTRY" => f \in events
      BY <3>1 DEF Only
    <3>5. EntryInv'
      BY <2>2, <2>3, <3>4 DEF FinalInv, EntryInv, EntryOver, Gone, Open
    <3> QED BY <3>3, <3>5 DEF FinalInv
  <2>6. CASE UNCHANGED brokerVars /\ result' = [result EXCEPT ![l] = "failed"]
    <3>1. LegsNew'
      BY <1>1, <2>2, <2>4, <2>6 DEF LegsNew, brokerVars
    <3>2. PhaseInv'
      BY <2>2, <2>3, <2>4, <3>1 DEF PhaseInv, Untouched
    <3>3. EntryInv'
      BY <2>2, <2>3, <2>6, QuietEntry DEF FinalInv, EntryInv, EntryOver, brokerVars
    <3> QED BY <3>2, <3>3 DEF FinalInv
  <2>7. CASE (\E x \in LostOrders : LoseOrder(x, legQty)) /\ UNCHANGED result
    <3>1. UNCHANGED <<order, events>>
      BY <2>7 DEF LoseOrder
    <3>2. LegsNew'
      BY <2>4, <2>7, <3>1 DEF LegsNew
    <3>3. PhaseInv'
      BY <2>2, <2>3, <2>4, <3>2 DEF PhaseInv, Untouched
    <3>4. EntryInv'
      BY <2>2, <2>3, <3>1, QuietEntry DEF FinalInv, EntryInv, EntryOver
    <3> QED BY <3>3, <3>4 DEF FinalInv
  <2> QED BY <2>1, <2>5, <2>6, <2>7, PlaceLegCases
<1>6. CASE FinishPlacing
  <2>1. UNCHANGED brokerVars /\ placer' \in {"idle", "timer"}
    BY <1>6 DEF FinishPlacing
  <2>2. \/ state' = "FAILED"
        \/ state' = CheckLegsConfirmed("LEGS_SUBMITTED", known', confirmed')
    BY <1>6 DEF FinishPlacing
  <2> QED BY <1>2, <2>1, <2>2, CheckLegsValue
<1>7. CASE StartPartialFillTimer
  <2>1. UNCHANGED brokerVars /\ placer = "timer" /\ placer' = "idle" /\ state' = state
    BY <1>7 DEF StartPartialFillTimer, groupVars
  <2>2. state \notin {"PENDING_ENTRY", "PLACING_LEGS"}
    BY <2>1 DEF FinalInv, PhaseInv, Placing
  <2> QED BY <1>2, <2>1, <2>2
<1> QED BY <1>3, <1>4, <1>5, <1>6, <1>7 DEF Placer

\* A step that resizes a leg, or records that it did.
LEMMA PhaseModify ==
    ASSUME Inv, FinalInv, Modifier \/ ModifySLLeg
    PROVE  FinalInv'
<1> USE DEF Orders, Legs
<1>1. BrokerTypeOK /\ Quantity \in Nat /\ filledQty \in Nat /\ \A t \in modifies : t.qty \in Nat
  BY QuantityAssumption DEF Inv, TypeOK, GroupTypeOK, Modifies
<1>2. UNCHANGED phaseVars /\ (Placing' <=> Placing)
  BY DEF Modifier, ReadLegs, ModifyLeg, RecordQty, ModifySLLeg, groupVars, placerVars,
         taskVars, phaseVars, Placing
<1>3. events' = events /\ lost' = lost
      /\ \A p \in Orders : order'[p].st = order[p].st /\ order'[p].filled = order[p].filled
  <2>1. CASE ModifySLLeg
    BY <1>1, <2>1, ModifyEffect DEF ModifySLLeg
  <2>2. CASE \E t \in modifies : \E l \in Legs : ModifyLeg(t, l)
    BY <1>1, <2>2, ModifyEffect DEF ModifyLeg, brokerVars
  <2>3. CASE \E t \in modifies : ReadLegs(t) \/ RecordQty(t)
    BY <2>3 DEF ReadLegs, RecordQty, brokerVars
  <2> QED BY <2>1, <2>2, <2>3 DEF Modifier
<1>4. (NoLegs' <=> NoLegs) /\ (LegsNew' <=> LegsNew)
  BY <1>2, <1>3 DEF NoLegs, LegsNew, phaseVars
<1>5. PhaseInv'
  BY <1>2, <1>4 DEF FinalInv, PhaseInv, Untouched, phaseVars
<1>6. EntryInv'
  BY <1>2, <1>3 DEF FinalInv, EntryInv, EntryOver, Gone, Open, phaseVars
<1> QED BY <1>5, <1>6 DEF FinalInv

\* A cancel at the broker: of a leg, of the entry, or of what is left of it.
LEMMA PhaseCancels ==
    ASSUME Inv, FinalInv, CancelEntryRemaining \/ \E o \in Orders : CancelLeg(o)
    PROVE  FinalInv'
<1> USE DEF Orders
<1>1. BrokerTypeOK
  BY DEF Inv, TypeOK
<1>2. ~Placing /\ state # "PENDING_ENTRY"
  BY DEF FinalInv, PhaseInv, Untouched, CancelEntryRemaining, CancelLeg
<1>3. UNCHANGED <<placer, partial>> /\ state' \in {state, "COMPLETED"}
  BY DEF CancelEntryRemaining, CancelLeg, groupVars, placerVars
<1>4. ~Placing' /\ placer' # "starting"
  BY <1>2, <1>3 DEF Placing
<1>5. PhaseInv'
  BY <1>2, <1>3, <1>4 DEF FinalInv, PhaseInv
<1>6. ASSUME NEW o \in Orders, End(o, "cancelled") PROVE EntryInv'
  <2>1. /\ Only(o) /\ Open(o) /\ order'[o].st = "cancelled"
        /\ \E e \in events' : events' = events \union {e} /\ e.o = o /\ e.kind = "CANCELLED"
    BY <1>1, <1>6, EndEffect
  <2>2. CASE o = "ENTRY"
    BY <1>4, <2>1, <2>2 DEF FinalInv, EntryInv, EntryOver, Gone, Open
  <2>3. CASE o # "ENTRY"
    <3>1. order'["ENTRY"] = order["ENTRY"] /\ \A f \in events' : f.o = "ENTRY" => f \in events
      BY <2>1, <2>3 DEF Only
    <3> QED BY <1>4, <3>1 DEF FinalInv, EntryInv, EntryOver, Gone, Open
  <2> QED BY <2>2, <2>3
<1>7. CASE UNCHANGED brokerVars
  BY <1>4, <1>5, <1>7, QuietEntry DEF FinalInv, brokerVars
<1> QED BY <1>5, <1>6, <1>7 DEF FinalInv, CancelEntryRemaining, CancelLeg, CancelOrder

LEMMA PhaseControl ==
    ASSUME CalmPlacing, Inv, FinalInv,
           AdoptOrder \/ TimerExpires \/ CancelGroup \/ Cleanup \/ UNCHANGED vars
    PROVE  FinalInv'
<1>1. UNCHANGED <<order, lost, events, placer, result>> /\ (Placing' <=> Placing)
  BY DEF AdoptOrder, TimerExpires, CancelGroup, CancelOrders, Cleanup, vars, brokerVars, placerVars, Placing
<1>2. CASE AdoptOrder \/ Cleanup \/ UNCHANGED vars
  <2>1. UNCHANGED phaseVars
    BY <1>2 DEF AdoptOrder, Cleanup, vars, groupVars, placerVars, taskVars, phaseVars
  <2>2. PhaseInv'
    BY <1>1, <2>1 DEF FinalInv, PhaseInv, NoLegs, LegsNew, Untouched, phaseVars
  <2>3. EntryInv'
    BY <1>1, <2>1 DEF FinalInv, EntryInv, EntryOver, Gone, Open, phaseVars
  <2> QED BY <2>2, <2>3 DEF FinalInv
<1>3. CASE TimerExpires \/ CancelGroup
  <2>1. ~Placing /\ (state' = "PENDING_ENTRY" \/ state' = "PLACING_LEGS" => FALSE)
    BY <1>3 DEF FinalInv, PhaseInv, Untouched, TimerExpires, CancelGroup, CancelOrders, CalmPlacing
  <2>2. ~Placing' /\ placer' # "starting"
    BY <1>1, <2>1 DEF Placing
  <2>3. PhaseInv'
    BY <2>1, <2>2 DEF PhaseInv
  <2>4. EntryInv'
    BY <1>1, <2>2, QuietEntry DEF FinalInv
  <2> QED BY <2>3, <2>4 DEF FinalInv
<1> QED BY <1>2, <1>3

LEMMA InitFinal == ASSUME Init PROVE FinalInv
BY DEF Init, BrokerInit, Orders, Legs, FinalInv, PhaseInv, EntryInv, EntryOver, NoLegs, Untouched,
       Placing

LEMMA NextFinal == ASSUME CalmPlacing, Inv, FinalInv, [Next]_vars PROVE FinalInv'
BY PhaseExchange, PhaseHandle, PhasePlacer, PhaseModify, PhaseCancels, PhaseControl DEF Next

\* CalmPlacing speaks of a constant: the invariant holds in every environment that satisfies it.
LEMMA FinalInvariance == ASSUME CalmPlacing PROVE Spec => []FinalInv
BY InitFinal, NextFinal, GroupInvariance, PTL DEF Spec

\* Of the steps that write the state, only FinishPlacing does not look at it.
LEMMA EndedStep ==
    ASSUME FinalInv, [Next]_vars, IsTerminal(state)
    PROVE  IsTerminal(state')
<1>1. CASE UNCHANGED state
  BY <1>1
<1>2. CASE \E e \in events : HandleBrokerUpdate(e)
  BY <1>2 DEF HandleBrokerUpdate, Drop, groupVars
<1>3. CASE Placer
  <2>1. ~Placing
    BY DEF FinalInv, PhaseInv, IsTerminal
  <2>2. StartPartialFillTimer
    BY <1>3, <2>1 DEF Placer, AbortLegs, BuildLegs, PlaceLeg, FinishPlacing, Placing
  <2> QED BY <2>2 DEF StartPartialFillTimer, groupVars
<1>4. CASE CancelGroup \/ \E o \in Orders : CancelLeg(o)
  BY <1>4 DEF CancelGroup, CancelOrders, CancelLeg, IsTerminal
<1>5. CASE Exchange \/ AdoptOrder \/ TimerExpires \/ CancelEntryRemaining \/ Modifier
           \/ ModifySLLeg \/ Cleanup \/ UNCHANGED vars
  <2>1. UNCHANGED state
    BY <1>5 DEF Exchange, EntryFills, EntryEnds, LegFills, LegEnds, LostFills, LostEnds, Market, AdoptOrder,
         TimerExpires, CancelEntryRemaining, Modifier, ReadLegs, ModifyLeg, RecordQty,
         ModifySLLeg, Cleanup, vars, groupVars
  <2> QED BY <2>1
<1> QED BY <1>2, <1>3, <1>4, <1>5 DEF Next

(***************************************************************************)
(* A group that has ended stays ended, for every quantity, every choice of *)
(* legs and every interleaving, as long as users do not cancel and the     *)
(* legs do not move before placeOCOLegs has recorded them.                 *)
(***************************************************************************)
THEOREM EndedStaysEnded == ASSUME CalmPlacing PROVE Spec => TerminalIsFinal
BY FinalInvariance, EndedStep, PTL DEF Spec, TerminalIsFinal

-----------------------------------------------------------------------------
(***************************************************************************)
(* One cancels the other                                                   *)
(*                                                                         *)
(* From the step that decides to end the group on, every leg that is open  *)
(* and has not traded has a cancelLeg goroutine; until that step, a leg    *)
(* that traded has an event under way that will take it.  The step knows   *)
(* the broker IDs of the legs it cancels because they are open only after  *)
(* they were placed, and are recorded when the placement ends.  An order   *)
(* that was accepted without an answer has such an event too when it       *)
(* executes: the one of an unknown order (LostTold).                       *)
(***************************************************************************)

\* The partial-fill timer does not expire, and the broker takes every cancel.
NoTimeout == "timeout" \notin Environment
CancelsSucceed == "cancel failure" \notin Environment

\* Orders out of the manager's sight move only at the exchange, and are created
\* only by placeLegWithRetry; events are taken only by HandleBrokerUpdate.
LEMMA BrokerCases ==
    ASSUME Inv, [Next]_vars
    PROVE  \/ \E x \in LostOrders, filled \in 1..Quantity : LostFills(x, filled)
           \/ \E x \in LostOrders, st \in {"cancelled", "rejected"} : LostEnds(x, st)
           \/ \E x \in LostOrders : LoseOrder(x, legQty)
           \/ \E e \in events : HandleBrokerUpdate(e)
           \/ /\ lost' = lost /\ events \subseteq events'
              /\ \A e \in events' : e \in events \/ e.o \in Orders
<1> USE DEF Orders, Legs
<1>1. BrokerTypeOK /\ Quantity \in Nat /\ filledQty \in Nat /\ legQty \in Nat
      /\ \A t \in modifies : t.qty \in Nat
  BY QuantityAssumption DEF Inv, TypeOK, GroupTypeOK, Modifies
<1> DEFINE Known == /\ lost' = lost /\ events \subseteq events'
                    /\ \A e \in events' : e \in events \/ e.o \in Orders
<1>3. ASSUME NEW o \in Orders, NEW filled \in 1..Quantity, Fill(o, filled) PROVE Known
  <2>1. filled \in Nat
    BY <1>1
  <2> QED BY <1>1, <1>3, <2>1, FillEffect
<1>4. ASSUME NEW o \in Orders, NEW st \in {"cancelled", "rejected"}, End(o, st) PROVE Known
  BY <1>1, <1>4, EndEffect
<1>5. ASSUME UNCHANGED <<lost, events>> PROVE Known
  BY <1>5
<1>6. CASE Exchange
  BY <1>3, <1>4, <1>6 DEF Exchange, EntryFills, EntryEnds, LegFills, LegEnds
<1>7. CASE \E e \in events : HandleBrokerUpdate(e)
  BY <1>7
<1>8. CASE \E l \in Legs : PlaceLeg(l)
  <2>1. PICK l \in Legs : PlaceLeg(l)
    BY <1>8
  <2>2. CASE PlaceOrder(l, legQty)
    BY <1>1, <2>2, PlaceEffect
  <2> QED BY <1>5, <2>1, <2>2, PlaceLegCases DEF brokerVars
<1>9. CASE (\E t \in modifies, l \in Legs : ModifyLeg(t, l)) \/ ModifySLLeg
  <2>1. CASE \E t \in modifies, l \in Legs : ModifyLeg(t, l)
    BY <1>1, <1>5, <2>1, ModifyEffect DEF ModifyLeg, brokerVars
  <2>2. CASE ModifySLLeg
    BY <1>1, <1>5, <2>2, ModifyEffect DEF ModifySLLeg
  <2> QED BY <1>9, <2>1, <2>2
<1>10. CASE CancelEntryRemaining \/ \E o \in Orders : CancelLeg(o)
  <2>1. \/ \E o \in Orders : End(o, "cancelled")
        \/ UNCHANGED <<lost, events>>
    BY <1>10 DEF CancelEntryRemaining, CancelLeg, CancelOrder, brokerVars
  <2> QED BY <1>4, <1>5, <2>1
<1>11. CASE \/ AbortLegs \/ BuildLegs \/ FinishPlacing \/ StartPartialFillTimer
            \/ (\E t \in modifies : ReadLegs(t) \/ RecordQty(t))
            \/ AdoptOrder \/ TimerExpires \/ CancelGroup \/ Cleanup \/ UNCHANGED vars
  BY <1>5, <1>11 DEF AbortLegs, BuildLegs, FinishPlacing, StartPartialFillTimer, ReadLegs,
       RecordQty, AdoptOrder, TimerExpires, CancelGroup, Cleanup, vars, brokerVars
<1> QED BY <1>6, <1>7, <1>8, <1>9, <1>10, <1>11 DEF Next, Placer, Modifier

\* The event says that the order traded.
Trade(e, o) == e.o = o /\ e.kind \in {"PARTIAL", "EXECUTED"}

\* The group has decided to end.
Ending == IsTerminal(state) \/ state \in {"SL_TRIGGERED", "TP_TRIGGERED"}

LegsKnown == \A l \in Legs : Open(l) /\ ~Placing => l \in known

EndingCancels ==
    /\ CancelsSucceed => \A l \in Legs : Ending /\ Open(l) /\ ~Traded(l) => l \in cancels
    /\ cancels # {} => Ending

TradeTold ==
    /\ \A l \in Legs : Traded(l) /\ ~Ending => \E e \in events : Trade(e, l)
    /\ \A e \in events, l \in Legs : (Gone(e, l) => ~Open(l)) /\ (Trade(e, l) => Traded(l))

\* The entry of a group with legs has traded.
EntryTold ==
    /\ \A e \in events : Trade(e, "ENTRY") => Traded("ENTRY")
    /\ state # "PENDING_ENTRY" /\ ~IsTerminal(state) => Traded("ENTRY")

\* The entry is over once the group no longer waits for the rest of it.
EntrySettled == state # "PENDING_ENTRY" /\ ~IsTerminal(state) /\ ~partial => EntryOver

Lifecycle ==
    /\ cleanup => IsTerminal(state)
    /\ ~tracked => IsTerminal(state) \/ state = "PENDING_ENTRY"
    /\ timer # "expired"

OrphanInv ==
    LegsKnown /\ EndingCancels /\ TradeTold /\ EntryTold /\ EntrySettled /\ Lifecycle

LEMMA Numbers ==
    ASSUME Inv
    PROVE  /\ \A o \in Orders : order[o].filled \in Nat /\ order[o].qty \in Nat
           /\ \A e \in events : e.filled \in Nat /\ e.kind \in Kinds
BY DEF Inv, TypeOK, BrokerTypeOK

LEMMA OrphanExchange ==
    ASSUME CalmPlacing, Inv, FinalInv, OrphanInv, Exchange
    PROVE  OrphanInv'
<1> USE DEF Orders, Legs
<1>1. BrokerTypeOK
  BY DEF Inv, TypeOK
<1>2. UNCHANGED <<state, partial, tracked, cleanup, known, cancels, timer>>
      /\ (Placing' <=> Placing)
  BY DEF Exchange, EntryFills, EntryEnds, LegFills, LegEnds, LostFills, LostEnds, Market, groupVars, placerVars,
         taskVars, Placing
<1>3. Lifecycle' /\ (Ending' <=> Ending)
  BY <1>2 DEF OrphanInv, Lifecycle, IsTerminal, Ending
<1>4. ASSUME Only("ENTRY"), Open("ENTRY"),
             NEW e \in events', events' = events \union {e}, e.o = "ENTRY",
             Trade(e, "ENTRY") => Traded("ENTRY")',
             Traded("ENTRY") => Traded("ENTRY")'
      PROVE  OrphanInv'
  <2>1. \A l \in Legs : (Open(l)' <=> Open(l)) /\ (Traded(l)' <=> Traded(l))
    BY <1>4 DEF Only, Open, Traded
  <2>2. \A l \in Legs : ~Gone(e, l) /\ ~Trade(e, l)
    BY <1>4 DEF Gone, Trade
  <2>3. LegsKnown' /\ EndingCancels'
    BY <1>2, <1>3, <2>1 DEF OrphanInv, LegsKnown, EndingCancels
  <2>4. TradeTold'
    BY <1>3, <1>4, <2>1, <2>2 DEF OrphanInv, TradeTold
  <2>5. EntryTold'
    BY <1>2, <1>4 DEF OrphanInv, EntryTold, IsTerminal
  <2>6. EntrySettled'
    BY <1>2, <1>4 DEF OrphanInv, EntrySettled, EntryOver, IsTerminal
  <2> QED BY <1>3, <2>3, <2>4, <2>5, <2>6 DEF OrphanInv
<1>5. CASE \E filled \in 1..Quantity : EntryFills(filled)
  <2>1. PICK filled \in 1..Quantity : Fill("ENTRY", filled)
    BY <1>5 DEF EntryFills
  <2>2. filled \in Nat /\ filled > 0
    BY QuantityAssumption
  <2>3. Traded("ENTRY")'
    BY <1>1, <2>1, <2>2, FillEffect DEF Traded
  <2> QED BY <1>1, <1>4, <2>1, <2>2, <2>3, FillEffect DEF Gone, Trade
<1>6. CASE \E st \in {"cancelled", "rejected"} : EntryEnds(st)
  <2>1. PICK st \in {"cancelled", "rejected"} : End("ENTRY", st)
    BY <1>6 DEF EntryEnds
  <2>2. Traded("ENTRY")' <=> Traded("ENTRY")
    BY <1>1, <2>1, EndEffect DEF Traded
  <2> QED BY <1>1, <1>4, <2>1, <2>2, EndEffect DEF Gone, Trade
<1>7. ASSUME NEW l \in Legs, ~Placing, Only(l), Open(l),
             NEW e \in events', events' = events \union {e}, e.o = l,
             Traded(l)' <=> Trade(e, l), Gone(e, l) => ~Open(l)', Open(l)' => Traded(l)',
             Traded(l) => Traded(l)'
      PROVE  OrphanInv'
  <2>1. \A k \in Legs : k # l => (Open(k)' <=> Open(k)) /\ (Traded(k)' <=> Traded(k))
    BY <1>7 DEF Only, Open, Traded
  <2>2. \A k \in Legs : k # l => ~Gone(e, k) /\ ~Trade(e, k)
    BY <1>7 DEF Gone, Trade
  <2>3. LegsKnown' /\ EndingCancels'
    BY <1>2, <1>3, <1>7, <2>1 DEF OrphanInv, LegsKnown, EndingCancels
  <2>4. TradeTold'
    <3>1. \A f \in events : ~Gone(f, l)
      BY <1>7 DEF OrphanInv, TradeTold
    <3>2. ~(Gone(e, l) /\ Trade(e, l))
      BY DEF Gone, Trade
    <3>3. \A f \in events : Trade(f, l) => Traded(l)
      BY DEF OrphanInv, TradeTold
    <3>4. ASSUME NEW f \in events, Trade(f, l) PROVE Traded(l)'
      BY <1>7, <3>3, <3>4
    <3> QED BY <1>3, <1>7, <2>1, <2>2, <3>1, <3>2, <3>4 DEF OrphanInv, TradeTold
  <2>5. (Traded("ENTRY")' <=> Traded("ENTRY")) /\ ~Gone(e, "ENTRY") /\ ~Trade(e, "ENTRY")
    BY <1>7 DEF Only, Traded, Gone, Trade
  <2>6. EntryTold'
    BY <1>2, <1>7, <2>5 DEF OrphanInv, EntryTold, IsTerminal
  <2>7. EntrySettled'
    <3>1. Open("ENTRY")' <=> Open("ENTRY")
      BY <1>7 DEF Only, Open
    <3> QED BY <1>2, <1>7, <2>5, <3>1 DEF OrphanInv, EntrySettled, EntryOver, IsTerminal
  <2> QED BY <1>3, <2>3, <2>4, <2>6, <2>7 DEF OrphanInv
<1>8. CASE \E l \in Legs, filled \in 1..Quantity : LegFills(l, filled)
  <2>1. PICK l \in Legs, filled \in 1..Quantity : LegMayMove /\ Fill(l, filled)
    BY <1>8 DEF LegFills
  <2>2. filled \in Nat /\ filled > 0
    BY QuantityAssumption
  <2>3. ~Placing
    BY <2>1 DEF LegMayMove, CalmPlacing
  <2>4. Traded(l)'
    BY <1>1, <2>1, <2>2, FillEffect DEF Traded
  <2> QED BY <1>1, <1>7, <2>1, <2>2, <2>3, <2>4, FillEffect DEF Gone, Trade
<1>9. CASE \E l \in Legs, st \in {"cancelled", "rejected"} : LegEnds(l, st)
  <2>1. PICK l \in Legs, st \in {"cancelled", "rejected"} : LegMayMove /\ ~Traded(l) /\ End(l, st)
    BY <1>9 DEF LegEnds
  <2>2. ~Placing
    BY <2>1 DEF LegMayMove, CalmPlacing
  <2>3. ~Traded(l)' /\ ~Open(l)'
    BY <1>1, <2>1, EndEffect DEF Traded, Open
  <2> QED BY <1>1, <1>7, <2>1, <2>2, <2>3, EndEffect DEF Gone, Trade
\* An order whose answer was lost moves.
<1>10. ASSUME UNCHANGED order, events \subseteq events',
              \A e \in events' : e \in events \/ e.o = "UNKNOWN"
       PROVE  OrphanInv'
  <2>1. \A o : (Open(o)' <=> Open(o)) /\ (Traded(o)' <=> Traded(o))
    BY <1>10 DEF Open, Traded
  <2>2. \A e \in events', o \in Orders : Gone(e, o) \/ Trade(e, o) => e \in events
    BY <1>10 DEF Gone, Trade
  <2>3. LegsKnown' /\ EndingCancels'
    BY <1>2, <1>3, <2>1 DEF OrphanInv, LegsKnown, EndingCancels
  <2>4. TradeTold'
    BY <1>3, <1>10, <2>1, <2>2 DEF OrphanInv, TradeTold
  <2>5. EntryTold'
    BY <1>2, <2>1, <2>2 DEF OrphanInv, EntryTold, IsTerminal
  <2>6. EntrySettled'
    BY <1>2, <2>1, <2>2 DEF OrphanInv, EntrySettled, EntryOver, IsTerminal
  <2> QED BY <1>3, <2>3, <2>4, <2>5, <2>6 DEF OrphanInv
<1>11. CASE \E x \in LostOrders, filled \in 1..Quantity : LostFills(x, filled)
  <2>1. PICK x \in LostOrders, filled \in 1..Quantity : FillLost(x, filled)
    BY <1>11 DEF LostFills
  <2>2. UNCHANGED order /\ events \subseteq events'
    BY <2>1 DEF FillLost
  <2>3. \A e \in events' : e \in events \/ e.o = "UNKNOWN"
    BY <2>1 DEF FillLost, Event
  <2> QED BY <1>10, <2>2, <2>3
<1>12. CASE \E x \in LostOrders, st \in {"cancelled", "rejected"} : LostEnds(x, st)
  BY <1>10, <1>12 DEF LostEnds, EndLost
<1> QED BY <1>5, <1>6, <1>8, <1>9, <1>11, <1>12 DEF Exchange

\* The orders stay and events go: what is left to show of OrphanInv.
LEMMA QuietTold ==
    ASSUME OrphanInv, UNCHANGED order, events' \subseteq events,
           IsTerminal(state) => IsTerminal(state'),
           \A l \in Legs : Traded(l) /\ ~Ending' => \E e \in events' : Trade(e, l),
           state' # "PENDING_ENTRY" /\ ~IsTerminal(state') => Traded("ENTRY")
    PROVE  TradeTold' /\ EntryTold'
<1>1. \A o : (Open(o)' <=> Open(o)) /\ (Traded(o)' <=> Traded(o))
  BY DEF Open, Traded
<1>2. TradeTold'
  BY <1>1 DEF OrphanInv, TradeTold
<1>3. EntryTold'
  BY <1>1 DEF OrphanInv, EntryTold, IsTerminal
<1> QED BY <1>2, <1>3

LEMMA QuietSettled ==
    ASSUME OrphanInv, UNCHANGED order, events' \subseteq events,
           state' # "PENDING_ENTRY" /\ ~IsTerminal(state') /\ ~partial' =>
               EntryOver \/ (state # "PENDING_ENTRY" /\ ~IsTerminal(state) /\ ~partial)
    PROVE  EntrySettled'
BY DEF OrphanInv, EntrySettled, EntryOver, Open, IsTerminal

\* The group ends, or does not start, before there are legs.
LEMMA WithoutLegs ==
    ASSUME Inv, NoLegs
    PROVE  \A l \in Legs : ~Open(l) /\ ~Traded(l)
BY Numbers DEF NoLegs, Open, Traded, Legs, Orders

LEMMA OrphanEntry ==
    ASSUME Inv, FinalInv, OrphanInv, NEW e \in events, e.o = "ENTRY",
           events' = events \ {e}, UNCHANGED <<order, lost>>, tracked, ~IsTerminal(state),
           NEW filled, HandleEntry(e.kind, filled)
    PROVE  OrphanInv'
<1> USE DEF Legs
<1>1. /\ \A l \in Legs : Traded(l) /\ ~Ending => \E f \in events' : Trade(f, l)
      /\ events' \subseteq events
      /\ \A o : (Open(o)' <=> Open(o)) /\ (Traded(o)' <=> Traded(o))
  BY DEF OrphanInv, TradeTold, Trade, Open, Traded
<1>2. ASSUME UNCHANGED <<state, tracked, cleanup, known, cancels, placer>>,
             timer' \in {timer, "off"}, (partial => partial') \/ EntryOver'
      PROVE  OrphanInv'
  <2>1. (Ending' <=> Ending) /\ (Placing' <=> Placing) /\ (IsTerminal(state') <=> IsTerminal(state))
    BY <1>2 DEF Ending, Placing, IsTerminal
  <2>2. LegsKnown' /\ EndingCancels' /\ Lifecycle'
    BY <1>1, <1>2, <2>1 DEF OrphanInv, LegsKnown, EndingCancels, Lifecycle
  <2>3. state' # "PENDING_ENTRY" /\ ~IsTerminal(state') => Traded("ENTRY")
    BY <1>2, <2>1 DEF OrphanInv, EntryTold
  <2>4. TradeTold' /\ EntryTold'
    BY <1>1, <2>1, <2>3, QuietTold
  <2>5. EntrySettled'
    <3>1. partial => partial' \/ EntryOver'
      BY <1>2
    <3> QED BY <1>1, <1>2, <2>1, <3>1, QuietSettled DEF EntrySettled
  <2> QED BY <2>2, <2>4, <2>5 DEF OrphanInv
<1>3. ASSUME state = "PENDING_ENTRY", UNCHANGED <<tracked, cancels, timer>>,
             \/ state' = "PLACING_LEGS" /\ Trade(e, "ENTRY") /\ UNCHANGED cleanup
                /\ (partial' \/ EntryOver')
             \/ state' = "FAILED"
      PROVE  OrphanInv'
  <2>1. NoLegs /\ cancels = {}
    BY <1>3 DEF FinalInv, PhaseInv, Untouched
  <2>2. \A l \in Legs : ~Open(l)' /\ ~Traded(l)'
    BY <1>1, <2>1, WithoutLegs
  <2>3. LegsKnown' /\ EndingCancels'
    BY <1>3, <2>1, <2>2 DEF LegsKnown, EndingCancels
  <2>4. Lifecycle'
    BY <1>3 DEF OrphanInv, Lifecycle, IsTerminal
  <2>5. state' # "PENDING_ENTRY" /\ ~IsTerminal(state') => Traded("ENTRY")
    BY <1>3 DEF OrphanInv, EntryTold, IsTerminal
  <2>6. TradeTold' /\ EntryTold'
    BY <1>1, <1>3, <2>2, <2>5, QuietTold
  <2>7. EntrySettled'
    BY <1>3 DEF EntrySettled, IsTerminal
  <2> QED BY <2>3, <2>4, <2>6, <2>7 DEF OrphanInv
<1>4. CASE Drop
  <2>1. partial => partial'
    BY <1>4 DEF Drop, groupVars
  <2> QED BY <1>2, <1>4, <2>1 DEF Drop, groupVars, placerVars, taskVars
<1>5. e.kind \in {"EXECUTED", "CANCELLED", "REJECTED"} => EntryOver'
  BY DEF FinalInv, EntryInv, EntryOver, Gone, Open
<1>6. CASE e.kind = "EXECUTED" /\ EntryExecuted
  BY <1>2, <1>3, <1>4, <1>5, <1>6
     DEF EntryExecuted, StartPlacing, StopTimer, placerVars, taskVars, Trade
<1>7. CASE e.kind = "PARTIAL" /\ EntryPartial(filled)
  <2>1. CASE state = "PENDING_ENTRY" /\ StartPlacing(filled) /\ partial' = TRUE
             /\ UNCHANGED <<tracked, cleanup, taskVars>>
    <3>1. partial'
      BY <2>1
    <3> QED BY <1>3, <1>7, <2>1, <3>1 DEF StartPlacing, taskVars, Trade
  <2>2. CASE UNCHANGED <<tracked, state, partial, known, cleanup, placerVars, timer, cancels>>
    <3>1. partial => partial'
      BY <2>2
    <3> QED BY <1>2, <2>2, <3>1 DEF placerVars
  <2> QED BY <1>4, <1>7, <2>1, <2>2 DEF EntryPartial
<1>8. CASE e.kind \in {"CANCELLED", "REJECTED"} /\ EntryGone
  <2>1. ~partial => state = "PENDING_ENTRY"
    BY <1>8 DEF OrphanInv, EntrySettled, EntryOver, Gone
  <2> QED BY <1>2, <1>3, <1>5, <1>8, <2>1 DEF EntryGone, StopTimer, placerVars, taskVars
<1> QED BY <1>4, <1>6, <1>7, <1>8 DEF HandleEntry

LEMMA OrphanLeg ==
    ASSUME Inv, FinalInv, OrphanInv, NEW e \in events, e.o \in Legs,
           events' = events \ {e}, UNCHANGED <<order, lost>>, tracked, ~IsTerminal(state),
           HandleLeg(e.o, e.kind)
    PROVE  OrphanInv'
<1> USE DEF Legs
<1> DEFINE l == e.o
<1>1. /\ events' \subseteq events
      /\ \A o : (Open(o)' <=> Open(o)) /\ (Traded(o)' <=> Traded(o))
  BY DEF Open, Traded
<1>2. UNCHANGED <<tracked, partial, placer, timer>> /\ (Placing' <=> Placing)
      /\ known' = known \union {l}
  BY DEF HandleLeg, placerVars, Placing
<1>3. LegsKnown'
  BY <1>1, <1>2 DEF OrphanInv, LegsKnown
<1>4. state # "PENDING_ENTRY" /\ Traded("ENTRY") /\ ~cleanup
  BY DEF FinalInv, PhaseInv, NoLegs, OrphanInv, EntryTold, Lifecycle
<1>5. (Gone(e, l) => ~Open(l)) /\ (Trade(e, l) => Traded(l)) /\ EntrySettled'
  BY <1>1, <1>2, <1>4, QuietSettled DEF OrphanInv, TradeTold
<1>6. e.kind # "PENDING" => ~Placing
  BY DEF FinalInv, PhaseInv, LegsNew
\* The state is left as it is, or the legs are confirmed.
<1>7. ASSUME UNCHANGED <<cleanup, cancels>>, Ending' <=> Ending, ~IsTerminal(state'),
             Trade(e, l) => Ending
      PROVE  OrphanInv'
  <2>1. EndingCancels'
    BY <1>1, <1>7 DEF OrphanInv, EndingCancels
  <2>2. Lifecycle'
    BY <1>2, <1>4, <1>7 DEF OrphanInv, Lifecycle
  <2>3. \A k \in Legs : Traded(k) /\ ~Ending' => \E f \in events' : Trade(f, k)
    BY <1>7 DEF OrphanInv, TradeTold, Trade
  <2>4. TradeTold' /\ EntryTold'
    BY <1>1, <1>4, <1>7, <2>3, QuietTold
  <2> QED BY <1>3, <1>5, <2>1, <2>2, <2>4 DEF OrphanInv
\* The group ends: the other leg is cancelled, if it has a broker ID.
<1>8. ASSUME Ending', GoCancel({Other(l)}, known), Gone(e, l) \/ Trade(e, l),
             cleanup' => IsTerminal(state'), tracked
      PROVE  OrphanInv'
  <2>1. ~Placing
    BY <1>6, <1>8 DEF Gone, Trade
  <2>2. \A k \in Legs : Open(k) => k \in known
    BY <2>1 DEF OrphanInv, LegsKnown
  <2>3. \A k \in Legs : Open(k) /\ ~Traded(k) => k = Other(l)
    BY <1>5, <1>8 DEF Other
  <2>4. EndingCancels'
    BY <1>1, <1>8, <2>2, <2>3 DEF EndingCancels, GoCancel
  <2>5. Lifecycle'
    BY <1>2, <1>8 DEF OrphanInv, Lifecycle
  <2>6. TradeTold' /\ EntryTold'
    BY <1>1, <1>4, <1>8, QuietTold
  <2> QED BY <1>3, <1>5, <2>4, <2>5, <2>6 DEF OrphanInv
<1>9. CASE e.kind = "PENDING"
  <2>1. state' = state \/ (state = "LEGS_SUBMITTED" /\ state' = "ACTIVE")
    BY <1>9, CheckLegsValue DEF HandleLeg
  <2>2. UNCHANGED <<cleanup, cancels>>
    BY <1>9 DEF HandleLeg
  <2> QED BY <1>7, <1>9, <2>1, <2>2 DEF Ending, IsTerminal, Trade
<1>10. CASE e.kind \in {"EXECUTED", "PARTIAL", "CANCELLED"} /\ Live
  <2>1. /\ GoCancel({Other(l)}, known)
        /\ state' \in {"SL_TRIGGERED", "TP_TRIGGERED", "COMPLETED", "CANCELLED"}
        /\ cleanup' => state' = "CANCELLED"
    BY <1>4, <1>10 DEF HandleLeg, Triggered
  <2> QED BY <1>8, <1>10, <2>1 DEF Ending, IsTerminal, Gone, Trade
<1>11. CASE e.kind = "REJECTED" /\ l = "SL"
  <2>1. GoCancel({Other(l)}, known) /\ state' = "FAILED"
    BY <1>11 DEF HandleLeg, Other
  <2> QED BY <1>8, <1>11, <2>1 DEF Ending, IsTerminal, Gone
<1>12. CASE \/ e.kind \in {"EXECUTED", "PARTIAL", "CANCELLED"} /\ ~Live
            \/ e.kind = "REJECTED" /\ l = "TP"
  <2>1. UNCHANGED <<state, cleanup, cancels>>
    BY <1>12 DEF HandleLeg
  <2>2. Trade(e, l) => Ending
    <3>1. state # "PLACING_LEGS" \/ e.kind = "PENDING"
      BY <1>6 DEF FinalInv, PhaseInv
    <3>2. state \in States
      BY InvTypes
    <3> QED BY <1>4, <1>12, <3>1, <3>2 DEF States, Trade, Live, Ending, IsTerminal
  <2> QED BY <1>7, <2>1, <2>2 DEF Ending, IsTerminal
<1> QED BY <1>9, <1>10, <1>11, <1>12 DEF HandleLeg

\* A group whose legs are not being placed is cancelled as a whole.
LEMMA OrphanCancelOrders ==
    ASSUME Inv, FinalInv, OrphanInv, ~Placing, CancelOrders,
           UNCHANGED order, events' \subseteq events
    PROVE  OrphanInv'
<1> USE DEF Legs
<1>1. UNCHANGED <<known, placer, timer, partial, tracked>>
      /\ (Placing' <=> Placing) /\ \A o : (Open(o)' <=> Open(o)) /\ (Traded(o)' <=> Traded(o))
  BY DEF CancelOrders, placerVars, Placing, Open, Traded
<1>2. state' = "CANCELLED" /\ IsTerminal(state') /\ Ending'
  BY DEF CancelOrders, IsTerminal, Ending
<1>3. LegsKnown'
  BY <1>1 DEF OrphanInv, LegsKnown
<1>4. CancelsSucceed => \A l \in Legs : Open(l) /\ ~Traded(l) => l \in cancels'
  <2>1. SUFFICES ASSUME CancelsSucceed, NEW l \in Legs, Open(l), ~Traded(l) PROVE l \in cancels'
    OBVIOUS
  <2>2. l \in known /\ state # "PENDING_ENTRY"
    BY <2>1, WithoutLegs DEF OrphanInv, LegsKnown, FinalInv, PhaseInv
  <2>3. state \in States /\ state # "PLACING_LEGS"
    BY InvTypes DEF FinalInv, PhaseInv
  <2>4. Live \/ Ending
    BY <2>2, <2>3 DEF Live, Ending, IsTerminal, States
  <2> QED BY <2>1, <2>2, <2>4 DEF CancelOrders, OrphanInv, EndingCancels
<1>5. EndingCancels'
  BY <1>1, <1>2, <1>4 DEF EndingCancels
<1>6. Lifecycle'
  BY <1>1, <1>2 DEF OrphanInv, Lifecycle
<1>7. TradeTold' /\ EntryTold' /\ EntrySettled'
  BY <1>1, <1>2, QuietTold DEF EntrySettled
<1> QED BY <1>3, <1>5, <1>6, <1>7 DEF OrphanInv

LEMMA OrphanHandle ==
    ASSUME Inv, FinalInv, OrphanInv, NEW e \in events, HandleBrokerUpdate(e)
    PROVE  OrphanInv'
<1>1. events' = events \ {e} /\ UNCHANGED <<order, lost>> /\ events' \subseteq events
  BY DEF HandleBrokerUpdate
<1>2. CASE ~(tracked /\ ~IsTerminal(state)) /\ Drop
  <2>1. UNCHANGED <<state, partial, tracked, cleanup, known, cancels, placer, timer>>
    BY <1>2 DEF Drop, groupVars, placerVars, taskVars
  <2>2. (Ending' <=> Ending) /\ (Placing' <=> Placing) /\ (IsTerminal(state') <=> IsTerminal(state))
    BY <2>1 DEF Ending, Placing, IsTerminal
  <2>3. \A o : (Open(o)' <=> Open(o)) /\ (Traded(o)' <=> Traded(o))
    BY <1>1 DEF Open, Traded
  <2>4. LegsKnown' /\ EndingCancels' /\ Lifecycle'
    BY <2>1, <2>2, <2>3 DEF OrphanInv, LegsKnown, EndingCancels, Lifecycle
  <2>5. \A l \in Legs : Traded(l) => Ending
    <3>1. IsTerminal(state) \/ state = "PENDING_ENTRY"
      BY <1>2 DEF OrphanInv, Lifecycle
    <3>2. state = "PENDING_ENTRY" => NoLegs
      BY DEF FinalInv, PhaseInv
    <3> QED BY <3>1, <3>2, WithoutLegs DEF Ending
  <2>6. state' # "PENDING_ENTRY" /\ ~IsTerminal(state') => Traded("ENTRY")
    BY <2>1, <2>2 DEF OrphanInv, EntryTold
  <2>7. TradeTold' /\ EntryTold'
    BY <1>1, <2>2, <2>5, <2>6, QuietTold
  <2>8. EntrySettled'
    BY <1>1, <2>1, <2>2, QuietSettled
  <2> QED BY <2>4, <2>7, <2>8 DEF OrphanInv
<1>3. CASE e.o = "UNKNOWN" /\ CancelOrders
  <2>1. ~Placing
    BY <1>3 DEF FinalInv, PhaseInv, LegsNew, Legs
  <2> QED BY <1>1, <1>3, <2>1, OrphanCancelOrders
<1> QED BY <1>1, <1>2, <1>3, OrphanEntry, OrphanLeg DEF HandleBrokerUpdate

LEMMA OrphanPlacer ==
    ASSUME Inv, FinalInv, OrphanInv, FinalInv', Placer
    PROVE  OrphanInv'
<1> USE DEF Legs, Orders
<1>1. BrokerTypeOK /\ legQty \in Nat
  BY DEF Inv, TypeOK, GroupTypeOK
<1>2. CASE AbortLegs
  <2>1. UNCHANGED <<order, events, tracked, known, cancels, timer, cleanup>> /\ state' = "FAILED"
    BY <1>2 DEF AbortLegs, brokerVars, taskVars
  <2>2. \A l \in Legs : ~Open(l)
    BY <1>2, WithoutLegs DEF AbortLegs, FinalInv, PhaseInv
  <2>3. IsTerminal(state') /\ Ending'
    BY <2>1 DEF IsTerminal, Ending
  <2>4. LegsKnown' /\ EndingCancels'
    BY <2>1, <2>2, <2>3 DEF LegsKnown, EndingCancels, Open
  <2>5. Lifecycle'
    BY <2>1, <2>3 DEF OrphanInv, Lifecycle
  <2>6. TradeTold' /\ EntryTold'
    BY <2>1, <2>3, QuietTold
  <2>7. EntrySettled'
    BY <2>3 DEF EntrySettled
  <2> QED BY <2>4, <2>5, <2>6, <2>7 DEF OrphanInv
<1>3. CASE BuildLegs \/ StartPartialFillTimer
  <2>1. UNCHANGED <<order, events, state, partial, tracked, known, cancels, cleanup>>
    BY <1>3 DEF BuildLegs, StartPartialFillTimer, brokerVars, groupVars, taskVars
  <2>2. timer' # "expired" /\ (Placing' <=> Placing)
    BY <1>3 DEF BuildLegs, StartPartialFillTimer, taskVars, OrphanInv, Lifecycle, Placing
  <2>3. (Ending' <=> Ending) /\ (IsTerminal(state') <=> IsTerminal(state))
        /\ \A o : (Open(o)' <=> Open(o)) /\ (Traded(o)' <=> Traded(o))
    BY <2>1 DEF Ending, IsTerminal, Open, Traded
  <2>4. LegsKnown' /\ EndingCancels' /\ Lifecycle'
    BY <2>1, <2>2, <2>3 DEF OrphanInv, LegsKnown, EndingCancels, Lifecycle
  <2>5. TradeTold' /\ EntryTold'
    BY <2>1, <2>3 DEF OrphanInv, TradeTold, EntryTold
  <2>6. EntrySettled'
    BY <2>1, <2>3, QuietSettled
  <2> QED BY <2>4, <2>5, <2>6 DEF OrphanInv
<1>4. CASE \E l \in Legs : PlaceLeg(l)
  <2>1. PICK l \in Legs : PlaceLeg(l)
    BY <1>4
  <2>2. /\ placer = "placing"
        /\ UNCHANGED <<state, partial, tracked, known, cancels, cleanup, timer, placer>>
    BY <2>1 DEF PlaceLeg, groupVars, taskVars
  <2>3. Placing /\ Placing' /\ state = "PLACING_LEGS" /\ LegsNew'
    BY <2>2 DEF Placing, FinalInv, PhaseInv
  <2>4. ~Ending' /\ ~Ending /\ ~IsTerminal(state') /\ ~IsTerminal(state)
    BY <2>2, <2>3 DEF Ending, IsTerminal
  <2>5. LegsKnown' /\ EndingCancels' /\ Lifecycle'
    BY <2>2, <2>3, <2>4 DEF OrphanInv, LegsKnown, EndingCancels, Lifecycle
  <2>6. TradeTold'
    <3>1. \A k \in Legs : ~Traded(k)'
      BY <2>3 DEF LegsNew, Traded
    <3>2. \A e \in events', k \in Legs : ~Gone(e, k) /\ ~Trade(e, k)
      BY <2>3 DEF LegsNew, Gone, Trade
    <3> QED BY <3>1, <3>2 DEF TradeTold
  <2>7. order'["ENTRY"] = order["ENTRY"] /\ \A f \in events' : f.o = "ENTRY" => f \in events
    <3>1. CASE PlaceOrder(l, legQty)
      BY <1>1, <3>1, PlaceEffect DEF Only
    <3>2. CASE UNCHANGED brokerVars
      BY <3>2 DEF brokerVars
    <3>3. CASE \E x \in LostOrders : LoseOrder(x, legQty)
      BY <3>3 DEF LoseOrder
    <3> QED BY <2>1, <3>1, <3>2, <3>3, PlaceLegCases
  <2>8. EntryTold'
    BY <2>2, <2>4, <2>7 DEF OrphanInv, EntryTold, Trade, Traded
  <2>9. EntrySettled'
    BY <2>2, <2>4, <2>7 DEF OrphanInv, EntrySettled, EntryOver, Gone, Open
  <2> QED BY <2>5, <2>6, <2>8, <2>9 DEF OrphanInv
<1>5. CASE FinishPlacing
  <2>1. /\ UNCHANGED <<order, events, partial, tracked, timer>> /\ placer = "placing"
        /\ known' = known \union Placed
    BY <1>5 DEF FinishPlacing, brokerVars
  <2>2. Placing /\ state = "PLACING_LEGS" /\ LegsNew /\ cancels = {}
    BY <2>1 DEF Placing, FinalInv, PhaseInv, Untouched
  <2>3. \A l \in Legs : (Open(l)' => l \in Placed) /\ ~Traded(l) /\ ~Traded(l)'
    BY <2>1, <2>2 DEF LegsNew, Open, Traded, Placed
  <2>4. LegsKnown'
    BY <2>1, <2>3 DEF LegsKnown
  <2>5. ~cleanup /\ tracked /\ Traded("ENTRY")
    BY <2>2 DEF OrphanInv, Lifecycle, EntryTold, IsTerminal
  <2>6. Lifecycle'
    BY <1>5, <2>1, <2>5 DEF OrphanInv, Lifecycle, FinishPlacing, IsTerminal
  <2>7. EndingCancels'
    <3>1. CASE Failed = Legs
      <4>1. \A l \in Legs : ~Open(l)'
        BY <2>3, <3>1 DEF Placed, Failed
      <4>2. cancels' = {}
        BY <1>5, <2>2, <3>1 DEF FinishPlacing
      <4> QED BY <4>1, <4>2 DEF EndingCancels
    <3>2. CASE "SL" \in Failed /\ Failed # Legs
      <4>1. cancels' = {"TP"} \intersect Placed /\ state' = "FAILED"
        BY <1>5, <2>2, <3>2 DEF FinishPlacing, GoCancel
      <4>2. "SL" \notin Placed
        BY <3>2 DEF Placed, Failed
      <4> QED BY <2>3, <4>1, <4>2 DEF EndingCancels, Ending, IsTerminal
    <3>3. CASE "SL" \notin Failed
      <4>1. cancels' = {} /\ state' \in {"LEGS_SUBMITTED", "ACTIVE"}
        BY <1>5, <2>2, <3>3, CheckLegsValue DEF FinishPlacing
      <4> QED BY <4>1 DEF EndingCancels, Ending, IsTerminal
    <3> QED BY <3>1, <3>2, <3>3
  <2>8. TradeTold' /\ EntryTold'
    BY <2>1, <2>2, <2>3, <2>5, QuietTold DEF IsTerminal
  <2>9. EntrySettled'
    BY <2>1, <2>2, QuietSettled DEF IsTerminal
  <2> QED BY <2>4, <2>6, <2>7, <2>8, <2>9 DEF OrphanInv
<1> QED BY <1>2, <1>3, <1>4, <1>5 DEF Placer

LEMMA OrphanModify ==
    ASSUME Inv, OrphanInv, Modifier \/ ModifySLLeg
    PROVE  OrphanInv'
<1> USE DEF Orders, Legs
<1>1. BrokerTypeOK /\ Quantity \in Nat /\ filledQty \in Nat /\ \A t \in modifies : t.qty \in Nat
  BY QuantityAssumption DEF Inv, TypeOK, GroupTypeOK, Modifies
<1>2. UNCHANGED <<state, partial, tracked, known, cancels, cleanup, timer, placer>>
  BY DEF Modifier, ReadLegs, ModifyLeg, RecordQty, ModifySLLeg, groupVars, placerVars, taskVars
<1>3. events' = events
      /\ \A p \in Orders : order'[p].st = order[p].st /\ order'[p].filled = order[p].filled
  <2>1. CASE ModifySLLeg
    BY <1>1, <2>1, ModifyEffect DEF ModifySLLeg
  <2>2. CASE \E t \in modifies : \E l \in Legs : ModifyLeg(t, l)
    BY <1>1, <2>2, ModifyEffect DEF ModifyLeg, brokerVars
  <2>3. CASE \E t \in modifies : ReadLegs(t) \/ RecordQty(t)
    BY <2>3 DEF ReadLegs, RecordQty, brokerVars
  <2> QED BY <2>1, <2>2, <2>3 DEF Modifier
<1>4. \A p \in Orders : (Open(p)' <=> Open(p)) /\ (Traded(p)' <=> Traded(p))
  BY <1>3 DEF Open, Traded
<1>5. (Placing' <=> Placing) /\ (Ending' <=> Ending) /\ (IsTerminal(state') <=> IsTerminal(state))
  BY <1>2 DEF Placing, Ending, IsTerminal
<1>6. LegsKnown' /\ EndingCancels' /\ Lifecycle'
  BY <1>2, <1>4, <1>5 DEF OrphanInv, LegsKnown, EndingCancels, Lifecycle
<1>7. TradeTold' /\ EntryTold'
  BY <1>2, <1>3, <1>4, <1>5 DEF OrphanInv, TradeTold, EntryTold
<1>8. EntrySettled'
  BY <1>2, <1>3, <1>4, <1>5 DEF OrphanInv, EntrySettled, EntryOver
<1> QED BY <1>6, <1>7, <1>8 DEF OrphanInv

\* A cancelLeg goroutine ends the order it works on, and the group is over.
LEMMA OrphanCancel ==
    ASSUME Inv, FinalInv, OrphanInv, NEW o \in Orders, CancelLeg(o)
    PROVE  OrphanInv'
<1> USE DEF Orders, Legs
<1>1. BrokerTypeOK
  BY DEF Inv, TypeOK
<1>2. /\ cancels' = cancels \ {o} /\ UNCHANGED <<tracked, known, cleanup, timer, placer>>
      /\ Ending
  BY DEF CancelLeg, placerVars, OrphanInv, EndingCancels
<1>3. IsTerminal(state') /\ Ending' /\ (Placing' <=> Placing)
  BY <1>2 DEF CancelLeg, IsTerminal, Ending, Placing
<1>4. /\ Only(o) /\ (CancelsSucceed => ~Open(o)') /\ (Open(o)' => Open(o))
      /\ \A p \in Orders : order'[p].filled = order[p].filled
      /\ \A e \in events' : e \in events \/ Gone(e, o)
  <2>1. CASE End(o, "cancelled")
    BY <1>1, <2>1, EndEffect DEF Only, Open, Gone
  <2>2. CASE ~Open(o) /\ UNCHANGED brokerVars
    BY <2>2 DEF Only, Open, brokerVars
  <2>3. CASE ~CancelsSucceed /\ UNCHANGED brokerVars
    BY <2>3 DEF Only, Open, brokerVars
  <2> QED BY <2>1, <2>2, <2>3 DEF CancelLeg, CancelOrder, CancelsSucceed
<1>5. \A p \in Orders : /\ Open(p)' => Open(p) /\ (CancelsSucceed => p # o)
                        /\ Traded(p)' <=> Traded(p)
  BY <1>4 DEF Only, Open, Traded
<1>6. LegsKnown' /\ EndingCancels' /\ Lifecycle'
  BY <1>2, <1>3, <1>5 DEF OrphanInv, LegsKnown, EndingCancels, Lifecycle
<1>7. TradeTold'
  <2>1. \A e \in events' : e \in events \/ (Gone(e, o) /\ ~Open(o)')
    <3>1. CASE End(o, "cancelled")
      BY <1>1, <3>1, EndEffect DEF Open, Gone
    <3>2. CASE UNCHANGED brokerVars
      BY <3>2 DEF brokerVars
    <3> QED BY <3>1, <3>2 DEF CancelLeg, CancelOrder
  <2> QED BY <1>3, <1>5, <2>1 DEF OrphanInv, TradeTold, Gone, Trade
<1>8. EntryTold' /\ EntrySettled'
  BY <1>3, <1>4, <1>5 DEF OrphanInv, EntryTold, EntrySettled, Gone, Trade
<1> QED BY <1>6, <1>7, <1>8 DEF OrphanInv

LEMMA OrphanControl ==
    ASSUME CalmPlacing, NoTimeout, Inv, FinalInv, OrphanInv,
           \/ AdoptOrder \/ TimerExpires \/ CancelEntryRemaining
           \/ CancelGroup \/ Cleanup \/ UNCHANGED vars
    PROVE  OrphanInv'
<1> USE DEF Legs
<1>1. ~TimerExpires /\ ~CancelEntryRemaining
  BY DEF NoTimeout, OrphanInv, Lifecycle, TimerExpires, CancelEntryRemaining
<1>2. UNCHANGED <<order, events, partial, known, placer, timer>>
      /\ (Placing' <=> Placing) /\ \A o : (Open(o)' <=> Open(o)) /\ (Traded(o)' <=> Traded(o))
  BY <1>1 DEF AdoptOrder, CancelGroup, CancelOrders, Cleanup, vars, brokerVars, groupVars, placerVars, taskVars,
         Placing, Open, Traded
<1>3. LegsKnown'
  BY <1>2 DEF OrphanInv, LegsKnown
<1>4. CASE CancelGroup
  BY <1>2, <1>4, OrphanCancelOrders DEF CancelGroup, CalmPlacing
<1>5. CASE AdoptOrder \/ Cleanup \/ UNCHANGED vars
  <2>1. UNCHANGED <<state, cleanup, cancels>> /\ (tracked' = tracked \/ tracked' = TRUE \/ cleanup)
    BY <1>5 DEF AdoptOrder, Cleanup, vars, groupVars, taskVars
  <2>2. (Ending' <=> Ending) /\ (IsTerminal(state') <=> IsTerminal(state))
    BY <2>1 DEF Ending, IsTerminal
  <2>3. EndingCancels' /\ Lifecycle'
    BY <1>2, <2>1, <2>2 DEF OrphanInv, EndingCancels, Lifecycle
  <2>4. TradeTold' /\ EntryTold'
    BY <1>2, <2>1, <2>2 DEF OrphanInv, TradeTold, EntryTold
  <2>5. EntrySettled'
    BY <1>2, <2>1, <2>2, QuietSettled
  <2> QED BY <1>3, <2>3, <2>4, <2>5 DEF OrphanInv
<1> QED BY <1>1, <1>4, <1>5

LEMMA InitOrphan == ASSUME Init PROVE OrphanInv
<1>1. \A l \in Legs : ~Open(l) /\ ~Traded(l)
  BY DEF Init, BrokerInit, Open, Traded, Legs, Orders
<1> QED BY <1>1 DEF Init, BrokerInit, OrphanInv, LegsKnown, EndingCancels, TradeTold, EntryTold,
            EntrySettled, Lifecycle, IsTerminal

LEMMA NextOrphan ==
    ASSUME CalmPlacing, NoTimeout, Inv, FinalInv, OrphanInv, [Next]_vars
    PROVE  OrphanInv'
BY NextFinal, OrphanExchange, OrphanHandle, OrphanPlacer, OrphanModify, OrphanCancel, OrphanControl
   DEF Next

LEMMA OrphanInvariance == ASSUME CalmPlacing, NoTimeout PROVE Spec => []OrphanInv
BY InitOrphan, NextOrphan, GroupInvariance, FinalInvariance, PTL DEF Spec

\* A group that has decided to end does not change its mind.
LEMMA EndingStays ==
    ASSUME FinalInv, [Next]_vars, Ending
    PROVE  Ending'
<1>1. CASE IsTerminal(state)
  BY <1>1, EndedStep DEF Ending
<1>2. CASE ~IsTerminal(state)
  <2>1. state \in {"SL_TRIGGERED", "TP_TRIGGERED"}
    BY <1>2 DEF Ending
  <2>2. CASE \E e \in events : HandleBrokerUpdate(e)
    <3>1. ASSUME NEW kind, NEW filled, HandleEntry(kind, filled)
          PROVE  state' \in {state, "FAILED", "CANCELLED"}
      BY <2>1, <3>1 DEF HandleEntry, Drop, EntryExecuted, EntryPartial, EntryGone, groupVars
    <3>2. ASSUME NEW l, NEW kind, HandleLeg(l, kind)
          PROVE  state' \in {state, "FAILED", "CANCELLED"}
      BY <2>1, <3>2 DEF HandleLeg, Live, CheckLegsConfirmed
    <3>3. state' \in {state, "FAILED", "CANCELLED"}
      BY <2>2, <3>1, <3>2 DEF HandleBrokerUpdate, Drop, CancelOrders, groupVars
    <3> QED BY <2>1, <3>3 DEF Ending, IsTerminal
  <2>3. CASE Placer
    <3>1. ~Placing
      BY <2>1 DEF FinalInv, PhaseInv
    <3>2. StartPartialFillTimer
      BY <2>3, <3>1 DEF Placer, AbortLegs, BuildLegs, PlaceLeg, FinishPlacing, Placing
    <3> QED BY <2>1, <3>2 DEF StartPartialFillTimer, groupVars, Ending
  <2>4. CASE CancelGroup \/ \E o \in Orders : CancelLeg(o)
    BY <2>4 DEF CancelGroup, CancelOrders, CancelLeg, IsTerminal, Ending
  <2>5. CASE Exchange \/ AdoptOrder \/ TimerExpires \/ CancelEntryRemaining \/ Modifier
             \/ ModifySLLeg \/ Cleanup \/ UNCHANGED vars
    <3>1. UNCHANGED state
      BY <2>5 DEF Exchange, EntryFills, EntryEnds, LegFills, LegEnds, LostFills, LostEnds, Market,
           AdoptOrder, TimerExpires, CancelEntryRemaining, Modifier, ReadLegs, ModifyLeg, RecordQty,
           ModifySLLeg, Cleanup, vars, groupVars
    <3> QED BY <2>1, <3>1 DEF Ending
  <2> QED BY <2>2, <2>3, <2>4, <2>5 DEF Next
<1> QED BY <1>1, <1>2

\* An exit nobody knows of that executed has ended the group, or its event is under way.
LostTold == LostExecuted /\ ~Ending => \E e \in events : e.o = "UNKNOWN"

LEMMA NextLostTold ==
    ASSUME Inv, FinalInv, OrphanInv, LostTold, [Next]_vars
    PROVE  LostTold'
<1>1. SUFFICES ASSUME LostExecuted', ~Ending' PROVE \E e \in events' : e.o = "UNKNOWN"
  BY DEF LostTold
<1>2. ~Ending
  BY <1>1, EndingStays
<1>3. CASE LostExecuted /\ events \subseteq events'
  BY <1>2, <1>3 DEF LostTold
<1>4. CASE \E x \in LostOrders, filled \in 1..Quantity : LostFills(x, filled)
  <2>1. PICK x \in LostOrders, filled \in 1..Quantity : FillLost(x, filled)
    BY <1>4 DEF LostFills
  <2>2. CASE filled = lost[x].qty
    <3>1. Event("UNKNOWN", "EXECUTED", filled) \in events'
      BY <2>1, <2>2 DEF FillLost
    <3> QED BY <3>1 DEF Event
  <2>3. CASE filled # lost[x].qty
    <3>1. lost' = [lost EXCEPT ![x].filled = filled, ![x].st = "open"] /\ events' = events
      BY <2>1, <2>3 DEF FillLost
    <3>2. LostExecuted
      BY <1>1, <3>1 DEF LostExecuted, Inv, TypeOK, BrokerTypeOK
    <3> QED BY <1>3, <3>1, <3>2
  <2> QED BY <2>2, <2>3
<1>5. CASE \E x \in LostOrders, st \in {"cancelled", "rejected"} : LostEnds(x, st)
  <2>1. PICK x \in LostOrders, st \in {"cancelled", "rejected"} : EndLost(x, st)
    BY <1>5 DEF LostEnds
  <2>2. LostExecuted /\ events' = events
    BY <1>1, <2>1 DEF EndLost, LostExecuted, Inv, TypeOK, BrokerTypeOK
  <2> QED BY <1>3, <2>2
<1>6. CASE \E x \in LostOrders : LoseOrder(x, legQty)
  <2>1. LostExecuted /\ events' = events
    BY <1>1, <1>6 DEF LoseOrder, LostExecuted, Inv, TypeOK, BrokerTypeOK
  <2> QED BY <1>3, <2>1
<1>7. CASE \E e \in events : HandleBrokerUpdate(e)
  <2>1. PICK e \in events : HandleBrokerUpdate(e)
    BY <1>7
  <2>2. events' = events \ {e} /\ LostExecuted
    BY <1>1, <2>1 DEF HandleBrokerUpdate, LostExecuted
  <2>3. state # "PENDING_ENTRY"
    BY <2>2 DEF FinalInv, PhaseInv, NoLegs, LostExecuted
  <2>4. tracked /\ ~IsTerminal(state)
    BY <1>2, <2>3 DEF OrphanInv, Lifecycle, Ending
  <2>5. e.o # "UNKNOWN"
    <3>1. e.o = "UNKNOWN" => CancelOrders
      BY <2>1, <2>4 DEF HandleBrokerUpdate, Legs
    <3> QED BY <1>1, <3>1 DEF CancelOrders, Ending, IsTerminal
  <2> QED BY <1>2, <2>2, <2>5 DEF LostTold
<1>8. CASE lost' = lost /\ events \subseteq events'
  BY <1>1, <1>3, <1>8 DEF LostExecuted
<1>9. \/ \E x \in LostOrders, filled \in 1..Quantity : LostFills(x, filled)
      \/ \E x \in LostOrders, st \in {"cancelled", "rejected"} : LostEnds(x, st)
      \/ \E x \in LostOrders : LoseOrder(x, legQty)
      \/ \E e \in events : HandleBrokerUpdate(e)
      \/ lost' = lost /\ events \subseteq events'
  BY BrokerCases
<1> QED BY <1>4, <1>5, <1>6, <1>7, <1>8, <1>9

LEMMA LostToldInvariance == ASSUME CalmPlacing, NoTimeout PROVE Spec => []LostTold
<1>1. ASSUME Init PROVE LostTold
  BY <1>1 DEF Init, BrokerInit, LostTold, LostExecuted
<1> QED BY <1>1, NextLostTold, GroupInvariance, FinalInvariance, OrphanInvariance, PTL DEF Spec

LEMMA OrphanImplies == ASSUME CancelsSucceed, LostTold, OrphanInv PROVE NoOrphanLeg
<1>1. SUFFICES ASSUME Settled, IsTerminal(state) \/ (\E l \in Legs : Traded(l)) \/ LostExecuted,
                      NEW k \in Legs, Open(k), ~Traded(k)
               PROVE  FALSE
  BY DEF NoOrphanLeg
<1>2. events = {} /\ cancels = {}
  BY <1>1 DEF Settled
<1>3. Ending
  BY <1>1, <1>2 DEF OrphanInv, TradeTold, LostTold, Ending
<1> QED BY <1>1, <1>2, <1>3 DEF OrphanInv, EndingCancels

(***************************************************************************)
(* One cancels the other, for every quantity, every choice of legs and     *)
(* every interleaving of events, placements, resizes and cancels: when     *)
(* everything has settled, no leg the manager placed is left open beside   *)
(* an exit that traded or a group that ended.  Placements may be refused,  *)
(* or accepted without an answer and sent again: if such an order executes *)
(* it counts as an exit.  Cancels are assumed to succeed, the timer of a   *)
(* partial fill not to expire, and nothing to end the group while its legs *)
(* are being placed; without any one of these TLC finds an orphan.         *)
(***************************************************************************)
THEOREM OneCancelsTheOther ==
    ASSUME CalmPlacing, NoTimeout, CancelsSucceed PROVE Spec => []NoOrphanLeg
BY LostToldInvariance, OrphanInvariance, OrphanImplies, PTL

-----------------------------------------------------------------------------
(***************************************************************************)
(* The position is covered                                                 *)
(*                                                                         *)
(* The quantity the entry has traded is carried to the legs by one thing   *)
(* at a time: the event that reports the fill, then the group's FilledQty, *)
(* then the placement or one modifyLegsQty goroutine.  When none of them   *)
(* is under way the open legs have that quantity.                          *)
(***************************************************************************)

\* The entry does not trade again before the last fill has reached the legs,
\* and does not end partly filled; fills carry a price, and the group exists
\* before the entry trades.
CalmFilling ==
    {"fill while placing", "entry ends partly filled", "no fill price", "adopted"}
        \intersect Environment = {}

\* The broker takes every change of a quantity.
ModifiesSucceed == "modify failure" \notin Environment

\* No order is out of the manager's sight.
NoneLost == AllAnswered /\ \A e \in events : e.o # "UNKNOWN"

\* The orders the manager does not know of do not move.
LEMMA NoLostMoves ==
    ASSUME NoneLost, Exchange
    PROVE  \/ \E filled \in 1..Quantity : EntryFills(filled)
           \/ \E st \in {"cancelled", "rejected"} : EntryEnds(st)
           \/ \E l \in Legs, filled \in 1..Quantity : LegFills(l, filled)
           \/ \E l \in Legs, st \in {"cancelled", "rejected"} : LegEnds(l, st)
<1>1. \A x \in LostOrders : lost[x].st # "open"
  BY DEF NoneLost, AllAnswered
<1>2. \A x \in LostOrders, filled \in 1..Quantity : ~LostFills(x, filled)
  BY <1>1 DEF LostFills, FillLost
<1>3. \A x \in LostOrders, st \in {"cancelled", "rejected"} : ~LostEnds(x, st)
  BY <1>1 DEF LostEnds, EndLost
<1> QED BY <1>2, <1>3 DEF Exchange

\* While every placement was answered, nothing is out of sight: then it never was.
AnsweredSeen == AllAnswered => NoneLost

LEMMA AnsweredStep ==
    ASSUME Inv, AnsweredSeen, AllAnswered', [Next]_vars
    PROVE  NoneLost /\ NoneLost'
<1> USE DEF AllAnswered
<1>1. \A x \in LostOrders, qty \in Nat : ~LoseOrder(x, qty)
  BY DEF LoseOrder, Inv, TypeOK, BrokerTypeOK
<1>2. \A x \in LostOrders, filled \in Nat : ~LostFills(x, filled)
  <2>1. ASSUME NEW x \in LostOrders, NEW filled \in Nat, FillLost(x, filled) PROVE FALSE
    <3>1. lost'[x].st \in {"executed", "open"}
      BY <2>1 DEF FillLost, Inv, TypeOK, BrokerTypeOK
    <3> QED BY <3>1
  <2> QED BY <2>1 DEF LostFills
<1>3. \A x \in LostOrders, st \in {"cancelled", "rejected"} : ~LostEnds(x, st)
  BY DEF LostEnds, EndLost, Inv, TypeOK, BrokerTypeOK
<1>4. legQty \in Nat /\ \A filled \in 1..Quantity : filled \in Nat
  BY QuantityAssumption DEF Inv, TypeOK, GroupTypeOK
<1>5. lost' = lost /\ \A e \in events' : e \in events \/ e.o \in Orders
  BY <1>1, <1>2, <1>3, <1>4, BrokerCases DEF HandleBrokerUpdate
<1>6. NoneLost
  BY <1>5 DEF AnsweredSeen
<1> QED BY <1>5, <1>6 DEF NoneLost, Orders

LEMMA AnsweredInvariance == Spec => []AnsweredSeen
<1>1. ASSUME Init PROVE AnsweredSeen
  BY <1>1 DEF Init, BrokerInit, AnsweredSeen, NoneLost
<1>2. ASSUME Inv, AnsweredSeen, [Next]_vars PROVE AnsweredSeen'
  BY <1>2, AnsweredStep DEF AnsweredSeen
<1> QED BY <1>1, <1>2, GroupInvariance, PTL DEF Spec

\* Every fill of the entry has been handled.
Told == \A e \in events : ~Trade(e, "ENTRY")

Covers(l) == Open(l) /\ ~Traded(l) => order[l].qty = Position

\* The legs of a group that has not ended are placed.
HasLegs == state # "PENDING_ENTRY" /\ ~Placing

FillCarried ==
    /\ \A e \in events : Trade(e, "ENTRY") =>
          /\ e.filled = Position /\ modifies = {}
          /\ state = "PENDING_ENTRY" \/ partial
          /\ \A f \in events : Trade(f, "ENTRY") => f = e
    /\ \A e \in events : Gone(e, "ENTRY") => ~Traded("ENTRY")
    /\ state = "PENDING_ENTRY" => modifies = {} /\ (Traded("ENTRY") => ~Told)
    /\ state # "PENDING_ENTRY" /\ Told => filledQty = Position

PlacingCovers ==
    /\ Placing => Told /\ modifies = {}
    /\ placer = "placing" => legQty = Position /\ \A l \in Legs : Covers(l)

ResizeCovers ==
    /\ \A t \in modifies : t.qty = Position /\ modifies = {t}
    /\ HasLegs => /\ Told /\ modifies = {} => \A l \in Legs : Covers(l)
                  /\ \A t \in modifies : t.step = "modify" => \A l \in Legs \ t.todo : Covers(l)

\* The stop-loss is open until an exit trades or its end is reported.
StopLossStands ==
    /\ HasLegs => \/ Open("SL") \/ \E l \in Legs : Traded(l)
                  \/ \E e \in events : Gone(e, "SL")
    /\ Ending => \E l \in Legs : Traded(l)

CoverInv ==
    ~IsTerminal(state) =>
        tracked /\ FillCarried /\ PlacingCovers /\ ResizeCovers /\ StopLossStands

\* The parts of CoverInv, for a step that does not end the group.
LEMMA CoverStep ==
    ASSUME FinalInv, CoverInv, [Next]_vars,
           ~IsTerminal(state) /\ ~IsTerminal(state')
               /\ tracked /\ FillCarried /\ PlacingCovers /\ ResizeCovers /\ StopLossStands
             => (tracked /\ FillCarried /\ PlacingCovers /\ ResizeCovers /\ StopLossStands)'
    PROVE  CoverInv'
<1>1. ~IsTerminal(state') => ~IsTerminal(state)
  BY EndedStep
<1> QED BY <1>1 DEF CoverInv, IsTerminal

LEMMA CoverExchange ==
    ASSUME CalmPlacing, CalmFilling, Inv, NoneLost, FinalInv, OrphanInv, CoverInv, Exchange
    PROVE  CoverInv'
<1> USE DEF Orders, Legs
<1>1. [Next]_vars /\ BrokerTypeOK
  BY DEF Next, Inv, TypeOK
<1>2. SUFFICES ASSUME ~IsTerminal(state), tracked, FillCarried, PlacingCovers, ResizeCovers,
                      StopLossStands
               PROVE  (tracked /\ FillCarried /\ PlacingCovers /\ ResizeCovers /\ StopLossStands)'
  BY <1>1, CoverStep
<1>3. UNCHANGED <<tracked, state, filledQty, partial, placer, legQty, modifies>>
      /\ (Placing' <=> Placing) /\ (HasLegs' <=> HasLegs) /\ (Ending' <=> Ending)
  BY DEF Exchange, EntryFills, EntryEnds, LegFills, LegEnds, LostFills, LostEnds, Market, groupVars, placerVars,
         taskVars, Placing, HasLegs, Ending, IsTerminal
<1>4. CASE \E filled \in 1..Quantity : EntryFills(filled)
  <2>1. PICK filled \in 1..Quantity : EntryFills(filled)
    BY <1>4
  <2>2. filled \in Nat /\ Fill("ENTRY", filled)
    <3>1. filled \in Nat
      BY QuantityAssumption
    <3> QED BY <2>1, <3>1 DEF EntryFills
  <2>3. Only("ENTRY") /\ Open("ENTRY") /\ Position' = filled
    BY <1>1, <2>2, FillEffect DEF Position
  <2>4. PICK e \in events' : events' = events \union {e} /\ Trade(e, "ENTRY") /\ e.filled = filled
    BY <1>1, <2>2, FillEffect DEF Trade
  <2>5. \A l \in Legs : (Open(l)' <=> Open(l)) /\ (Traded(l)' <=> Traded(l))
    BY <2>3 DEF Only, Open, Traded
  <2>6. Told /\ modifies = {} /\ ~Placing /\ (state = "PENDING_ENTRY" \/ partial)
    <3>1. CASE Traded("ENTRY")
      <4>1. state # "PENDING_ENTRY" /\ ~Placing /\ ~Resizing
        BY <2>1, <3>1 DEF EntryFills, CalmFilling
      <4>2. partial
        BY <1>2, <2>3, <4>1 DEF OrphanInv, EntrySettled, EntryOver
      <4> QED BY <4>1, <4>2 DEF Resizing, Told, Trade
    <3>2. CASE ~Traded("ENTRY")
      <4>1. Told /\ state = "PENDING_ENTRY"
        BY <1>2, <3>2 DEF OrphanInv, EntryTold, Told
      <4> QED BY <1>2, <4>1 DEF FillCarried, FinalInv, PhaseInv, Placing
    <3> QED BY <3>1, <3>2
  <2>7. ~Told'
    BY <2>4 DEF Told
  <2>8. FillCarried'
    <3>1. \A f \in events' : ~Gone(f, "ENTRY")
      BY <2>3, <2>4 DEF FinalInv, EntryInv, Open, Gone, Trade
    <3> QED BY <1>3, <2>3, <2>4, <2>6, <2>7, <3>1 DEF FillCarried, Told
  <2>9. PlacingCovers' /\ ResizeCovers'
    BY <1>3, <2>6, <2>7 DEF PlacingCovers, ResizeCovers, Placing
  <2>10. StopLossStands'
    BY <1>2, <1>3, <2>3, <2>4, <2>5 DEF StopLossStands
  <2> QED BY <1>2, <1>3, <2>8, <2>9, <2>10
\* In the other cases the entry's trades stay, and events about them too.
<1>5. ASSUME Position' = Position, Traded("ENTRY")' <=> Traded("ENTRY"),
             NEW e \in events', events' = events \union {e}, ~Trade(e, "ENTRY"),
             Gone(e, "ENTRY") => ~Traded("ENTRY"),
             \A l \in Legs : /\ Covers(l) => Covers(l)'
                             /\ Traded(l) => Traded(l)',
             Open("SL") => Open("SL")' \/ Traded("SL")' \/ Gone(e, "SL")
      PROVE  (tracked /\ FillCarried /\ PlacingCovers /\ ResizeCovers /\ StopLossStands)'
  <2>1. (Told' <=> Told) /\ \A f \in events' : Trade(f, "ENTRY") => f \in events
    BY <1>5 DEF Told
  <2>2. FillCarried'
    BY <1>2, <1>3, <1>5, <2>1 DEF FillCarried
  <2>3. PlacingCovers' /\ ResizeCovers'
    BY <1>2, <1>3, <1>5, <2>1 DEF PlacingCovers, ResizeCovers
  <2>4. StopLossStands'
    BY <1>2, <1>3, <1>5 DEF StopLossStands
  <2> QED BY <1>2, <1>3, <2>2, <2>3, <2>4
<1>6. CASE \E st \in {"cancelled", "rejected"} : EntryEnds(st)
  <2>1. PICK st \in {"cancelled", "rejected"} : End("ENTRY", st) /\ ~Traded("ENTRY")
    BY <1>6 DEF EntryEnds, CalmFilling
  <2>2. /\ Only("ENTRY") /\ order'["ENTRY"].filled = order["ENTRY"].filled
        /\ \E e \in events' : events' = events \union {e} /\ ~Trade(e, "ENTRY")
    BY <1>1, <2>1, EndEffect DEF Trade
  <2>3. Position' = Position /\ \A l \in Legs : order'[l] = order[l]
    BY <2>2 DEF Position, Only
  <2> QED BY <1>5, <2>1, <2>2, <2>3 DEF Covers, Open, Traded
<1>7. CASE \E l \in Legs, filled \in 1..Quantity : LegFills(l, filled)
  <2>1. PICK l \in Legs, filled \in 1..Quantity : Fill(l, filled)
    BY <1>7 DEF LegFills
  <2>2. filled \in Nat /\ filled > 0
    BY QuantityAssumption
  <2>3. /\ Only(l) /\ order'[l].filled = filled
        /\ \E e \in events' : /\ events' = events \union {e}
                              /\ ~Trade(e, "ENTRY") /\ ~Gone(e, "ENTRY")
    BY <1>1, <2>1, <2>2, FillEffect DEF Trade, Gone
  <2>4. Position' = Position /\ order'["ENTRY"] = order["ENTRY"]
        /\ (\A k \in Legs : k # l => order'[k] = order[k]) /\ Traded(l)'
    BY <2>2, <2>3 DEF Position, Only, Traded
  <2> QED BY <1>5, <2>3, <2>4 DEF Covers, Open, Traded
<1>8. CASE \E l \in Legs, st \in {"cancelled", "rejected"} : LegEnds(l, st)
  <2>1. PICK l \in Legs, st \in {"cancelled", "rejected"} : End(l, st)
    BY <1>8 DEF LegEnds
  <2>2. PICK e \in events' : events' = events \union {e} /\ Gone(e, l)
    BY <1>1, <2>1, EndEffect DEF Gone
  <2>3. Only(l) /\ order'[l].filled = order[l].filled /\ ~Open(l)'
    BY <1>1, <2>1, EndEffect DEF Open
  <2>4. Position' = Position /\ order'["ENTRY"] = order["ENTRY"]
        /\ ~Trade(e, "ENTRY") /\ ~Gone(e, "ENTRY")
        /\ (\A k \in Legs : k # l => order'[k] = order[k])
    BY <2>2, <2>3 DEF Position, Only, Trade, Gone
  <2> QED BY <1>5, <2>2, <2>3, <2>4 DEF Covers, Open, Traded
<1> QED BY <1>4, <1>6, <1>7, <1>8, NoLostMoves

\* The orders stay, and no event but `e` goes.
LEMMA CoverEvent ==
    ASSUME NEW e \in events, events' = events \ {e}, UNCHANGED order
    PROVE  /\ Position' = Position
           /\ \A o : /\ (Open(o)' <=> Open(o)) /\ (Traded(o)' <=> Traded(o))
                     /\ (Covers(o)' <=> Covers(o))
           /\ ~Trade(e, "ENTRY") => (Told' <=> Told)
           /\ FillCarried /\ Trade(e, "ENTRY") => Told' /\ ~Told
BY DEF Position, Open, Traded, Covers, Told, FillCarried

LEMMA CoverEntry ==
    ASSUME CalmFilling, Inv, FinalInv, OrphanInv, NEW e \in events, e.o = "ENTRY",
           events' = events \ {e}, UNCHANGED <<order, lost>>, ~IsTerminal(state), ~IsTerminal(state'),
           tracked, FillCarried, PlacingCovers, ResizeCovers, StopLossStands,
           NEW filled \in e.filled..Position, HandleEntry(e.kind, filled)
    PROVE  (tracked /\ FillCarried /\ PlacingCovers /\ ResizeCovers /\ StopLossStands)'
<1> USE DEF Legs
<1>1. Position \in Nat /\ Quantity \in Nat /\ e.filled \in Nat
  BY Numbers, QuantityAssumption DEF Position, Orders
<1>2. /\ Position' = Position
      /\ \A o : (Open(o)' <=> Open(o)) /\ (Traded(o)' <=> Traded(o)) /\ (Covers(o)' <=> Covers(o))
      /\ ~Trade(e, "ENTRY") => (Told' <=> Told)
      /\ Trade(e, "ENTRY") => Told' /\ ~Told
  BY CoverEvent
<1>3. \A f \in events : Gone(f, "SL") => f \in events'
  BY DEF Gone
\* An event that says nothing of a trade changes nothing.
<1>4. CASE ~Trade(e, "ENTRY")
  <2>1. Drop
    <3>1. ~(e.kind \in {"CANCELLED", "REJECTED"} /\ EntryGone)
      <4>1. SUFFICES ASSUME EntryGone, e.kind \in {"CANCELLED", "REJECTED"} PROVE FALSE
        OBVIOUS
      <4>2. state = "PENDING_ENTRY"
        BY <4>1 DEF FillCarried, OrphanInv, EntryTold, Gone
      <4>3. state' = "FAILED"
        BY <4>1, <4>2 DEF EntryGone, FinalInv, PhaseInv
      <4> QED BY <4>3 DEF IsTerminal
    <3> QED BY <1>4, <3>1 DEF HandleEntry, Trade
  <2>2. UNCHANGED <<tracked, state, filledQty, partial, placer, legQty, modifies>>
        /\ (Placing' <=> Placing) /\ (HasLegs' <=> HasLegs) /\ (Ending' <=> Ending)
    BY <2>1 DEF Drop, groupVars, placerVars, taskVars, Placing, HasLegs, Ending, IsTerminal
  <2>3. FillCarried'
    BY <1>2, <1>4, <2>2 DEF FillCarried
  <2>4. PlacingCovers' /\ ResizeCovers'
    BY <1>2, <1>4, <2>2 DEF PlacingCovers, ResizeCovers
  <2>5. StopLossStands'
    BY <1>2, <1>3, <2>2 DEF StopLossStands
  <2> QED BY <2>2, <2>3, <2>4, <2>5
<1>5. CASE Trade(e, "ENTRY")
  <2>1. /\ e.filled = Position /\ filled = Position /\ modifies = {} /\ ~Placing
        /\ state = "PENDING_ENTRY" \/ partial
        /\ Told' /\ \A f \in events' : ~Trade(f, "ENTRY")
    BY <1>1, <1>2, <1>5 DEF FillCarried, PlacingCovers, Told
  <2>2. e.kind = "EXECUTED" => Position = Quantity
    BY DEF Inv, EventsHonest
  <2>3. ASSUME state = "PENDING_ENTRY", StartPlacing(Position), UNCHANGED <<tracked, modifies>>
        PROVE  (tracked /\ FillCarried /\ PlacingCovers /\ ResizeCovers /\ StopLossStands)'
    <3>1. state' = "PLACING_LEGS" /\ placer' = "starting" /\ filledQty' = Position
      BY <2>3 DEF StartPlacing
    <3>2. ~HasLegs' /\ ~Ending'
      BY <3>1 DEF HasLegs, Placing, Ending, IsTerminal
    <3>3. FillCarried'
      BY <1>2, <2>1, <2>3, <3>1 DEF FillCarried
    <3>4. PlacingCovers' /\ ResizeCovers' /\ StopLossStands'
      BY <2>1, <2>3, <3>1, <3>2 DEF PlacingCovers, ResizeCovers, StopLossStands
    <3> QED BY <2>3, <3>3, <3>4
  <2>4. ASSUME partial, UNCHANGED <<tracked, state, placer>>, filledQty' = Position,
               Modify(Position)
        PROVE  (tracked /\ FillCarried /\ PlacingCovers /\ ResizeCovers /\ StopLossStands)'
    <3>1. /\ ~Placing' /\ (HasLegs' <=> HasLegs) /\ (Ending' <=> Ending)
          /\ state' # "PENDING_ENTRY" /\ placer' # "placing"
      BY <2>1, <2>4 DEF Placing, HasLegs, Ending, IsTerminal, FinalInv, PhaseInv
    <3>2. PICK t \in modifies' : modifies' = {t} /\ t.qty = Position /\ t.step = "read"
      BY <2>1, <2>4 DEF Modify
    <3>3. FillCarried'
      BY <1>2, <2>1, <2>4, <3>1 DEF FillCarried
    <3>4. PlacingCovers' /\ ResizeCovers'
      BY <1>2, <3>1, <3>2 DEF PlacingCovers, ResizeCovers
    <3>5. StopLossStands'
      BY <1>2, <1>3, <2>4, <3>1 DEF StopLossStands
    <3> QED BY <2>4, <3>3, <3>4, <3>5
  <2>5. CASE e.kind = "EXECUTED" /\ EntryExecuted
    <3>1. state' # "FAILED"
      BY DEF IsTerminal
    <3> QED BY <2>1, <2>2, <2>3, <2>4, <2>5, <3>1 DEF EntryExecuted, placerVars, taskVars
  <2>6. CASE e.kind = "PARTIAL" /\ EntryPartial(filled)
    <3>1. CASE partial /\ UNCHANGED <<tracked, state, placerVars>>
               /\ filledQty' = Position /\ Modify(Position)
      BY <2>4, <3>1 DEF placerVars
    <3>2. CASE state = "PENDING_ENTRY" /\ StartPlacing(Position) /\ UNCHANGED <<tracked, taskVars>>
      BY <2>3, <3>2 DEF taskVars
    <3> QED BY <2>1, <2>6, <3>1, <3>2 DEF EntryPartial, CalmFilling
  <2> QED BY <1>5, <2>5, <2>6 DEF HandleEntry, Trade
<1> QED BY <1>4, <1>5

LEMMA CoverLeg ==
    ASSUME Inv, FinalInv, OrphanInv, NEW e \in events, e.o \in Legs,
           events' = events \ {e}, UNCHANGED <<order, lost>>, ~IsTerminal(state), ~IsTerminal(state'),
           tracked, FillCarried, PlacingCovers, ResizeCovers, StopLossStands,
           HandleLeg(e.o, e.kind)
    PROVE  (tracked /\ FillCarried /\ PlacingCovers /\ ResizeCovers /\ StopLossStands)'
<1> USE DEF Legs
<1>1. ~Trade(e, "ENTRY")
  BY DEF Trade
<1>2. /\ Position' = Position
      /\ \A o : (Open(o)' <=> Open(o)) /\ (Traded(o)' <=> Traded(o)) /\ (Covers(o)' <=> Covers(o))
      /\ Told' <=> Told
  BY <1>1, CoverEvent
<1>3. UNCHANGED <<tracked, filledQty, partial, placer, legQty, modifies>> /\ (Placing' <=> Placing)
  BY DEF HandleLeg, placerVars, Placing
<1>4. state # "PENDING_ENTRY" /\ state' # "PENDING_ENTRY" /\ (HasLegs' <=> HasLegs)
  <2>1. state # "PENDING_ENTRY"
    BY DEF FinalInv, PhaseInv, NoLegs
  <2>2. \/ state' \in {state, "SL_TRIGGERED", "TP_TRIGGERED", "COMPLETED", "CANCELLED", "FAILED"}
        \/ state' = CheckLegsConfirmed(state, known', confirmed')
    BY DEF HandleLeg, Triggered
  <2>3. state' # "PENDING_ENTRY"
    BY <2>1, <2>2, CheckLegsValue
  <2> QED BY <1>3, <2>1, <2>3 DEF HasLegs
<1>5. FillCarried'
  BY <1>2, <1>3, <1>4 DEF FillCarried
<1>6. PlacingCovers' /\ ResizeCovers'
  BY <1>2, <1>3, <1>4 DEF PlacingCovers, ResizeCovers
<1>7. Ending' => \E l \in Legs : Traded(l)
  <2>1. CASE e.kind \in {"EXECUTED", "PARTIAL"}
    BY <2>1 DEF OrphanInv, TradeTold, Trade
  <2>2. CASE e.kind \notin {"EXECUTED", "PARTIAL"}
    <3>1. state' \in {state, "CANCELLED", "FAILED"}
          \/ state' = CheckLegsConfirmed(state, known', confirmed')
      BY <2>2 DEF HandleLeg
    <3>2. Ending' => Ending
      BY <3>1, CheckLegsValue DEF Ending, IsTerminal
    <3> QED BY <3>2 DEF StopLossStands
  <2> QED BY <2>1, <2>2
<1>8. Gone(e, "SL") => \E l \in Legs : Traded(l)
  <2>1. SUFFICES ASSUME Gone(e, "SL") PROVE Ending
    BY DEF StopLossStands
  <2>2. state # "PLACING_LEGS"
    BY <2>1 DEF FinalInv, PhaseInv, LegsNew, Gone
  <2>3. ~Live
    BY <2>1 DEF Gone, HandleLeg, IsTerminal
  <2> QED BY <1>4, <2>2, <2>3, InvTypes DEF States, Live, Ending, IsTerminal
<1>9. StopLossStands'
  BY <1>2, <1>3, <1>4, <1>7, <1>8 DEF StopLossStands
<1> QED BY <1>3, <1>5, <1>6, <1>9

LEMMA CoverHandle ==
    ASSUME CalmFilling, Inv, NoneLost, FinalInv, OrphanInv, CoverInv,
           NEW e \in events, HandleBrokerUpdate(e)
    PROVE  CoverInv'
<1>1. SUFFICES ASSUME ~IsTerminal(state), ~IsTerminal(state'),
                      tracked, FillCarried, PlacingCovers, ResizeCovers, StopLossStands
               PROVE  (tracked /\ FillCarried /\ PlacingCovers /\ ResizeCovers /\ StopLossStands)'
  BY CoverStep DEF Next
<1> QED BY <1>1, CoverEntry, CoverLeg DEF HandleBrokerUpdate, Position, NoneLost

LEMMA CoverPlacer ==
    ASSUME AllAnswered', Inv, FinalInv, OrphanInv, CoverInv, "SL" \in Enabled, Placer
    PROVE  CoverInv'
<1> USE DEF Legs, Orders
<1>1. SUFFICES ASSUME ~IsTerminal(state), ~IsTerminal(state'),
                      tracked, FillCarried, PlacingCovers, ResizeCovers, StopLossStands
               PROVE  (tracked /\ FillCarried /\ PlacingCovers /\ ResizeCovers /\ StopLossStands)'
  BY CoverStep DEF Next
<1>2. BrokerTypeOK /\ legQty \in Nat /\ filledQty \in Nat
  BY DEF Inv, TypeOK, GroupTypeOK
<1>3. ~AbortLegs
  BY <1>1 DEF AbortLegs, IsTerminal
<1>4. CASE BuildLegs
  <2>1. /\ placer = "starting" /\ placer' = "placing" /\ UNCHANGED <<order, events>>
        /\ UNCHANGED <<tracked, state, filledQty, partial, modifies>>
        /\ legQty' = IF filledQty > 0 THEN filledQty ELSE Quantity
    BY <1>4 DEF BuildLegs, brokerVars, taskVars
  <2>2. Placing /\ Placing' /\ state = "PLACING_LEGS" /\ NoLegs
    BY <2>1 DEF Placing, FinalInv, PhaseInv
  <2>3. filledQty = Position /\ filledQty > 0 /\ Told /\ modifies = {}
    BY <1>1, <2>1, <2>2 DEF PlacingCovers, FillCarried, Inv, HasQuantity
  <2>4. /\ legQty' = Position' /\ Position' = Position /\ (Told' <=> Told)
        /\ Traded("ENTRY")' <=> Traded("ENTRY")
    BY <2>1, <2>3 DEF Position, Told, Traded
  <2>5. \A l \in Legs : Covers(l)'
    BY <2>1, <2>2, WithoutLegs DEF Covers, Open
  <2>6. FillCarried'
    BY <1>1, <2>1, <2>4 DEF FillCarried
  <2>7. ~HasLegs' /\ ~Ending'
    BY <2>1, <2>2 DEF HasLegs, Ending, IsTerminal
  <2>8. PlacingCovers' /\ ResizeCovers' /\ StopLossStands'
    BY <2>1, <2>3, <2>4, <2>5, <2>7 DEF PlacingCovers, ResizeCovers, StopLossStands
  <2> QED BY <1>1, <2>1, <2>6, <2>8
<1>5. CASE \E l \in Legs : PlaceLeg(l)
  <2>1. PICK l \in Legs : PlaceLeg(l)
    BY <1>5
  <2>2. /\ placer = "placing" /\ UNCHANGED <<placer, legQty, tracked, state>>
        /\ UNCHANGED <<filledQty, partial, modifies>>
    BY <2>1 DEF PlaceLeg, groupVars, taskVars
  <2>3. Placing /\ Placing' /\ state = "PLACING_LEGS"
    BY <2>2 DEF Placing, FinalInv, PhaseInv
  <2>4. legQty = Position /\ Told /\ modifies = {} /\ \A k \in Legs : Covers(k)
    BY <1>1, <2>2, <2>3 DEF PlacingCovers
  <2>5. /\ order'["ENTRY"] = order["ENTRY"] /\ Position' = Position
        /\ \A f \in events' : f.o = "ENTRY" => f \in events
        /\ events \subseteq events'
        /\ \A k \in Legs : Covers(k)'
    <3>1. CASE PlaceOrder(l, legQty)
      <4>1. /\ Only(l) /\ order'[l].qty = legQty
            /\ \E e \in events' : events' = events \union {e} /\ e.o = l
        BY <1>2, <3>1, PlaceEffect
      <4>2. order'["ENTRY"] = order["ENTRY"] /\ Position' = Position
        BY <4>1 DEF Only, Position
      <4>3. \A k \in Legs : Covers(k)'
        BY <2>4, <4>1, <4>2 DEF Only, Covers, Open, Traded
      <4> QED BY <4>1, <4>2, <4>3
    <3>2. CASE UNCHANGED brokerVars
      BY <2>4, <3>2 DEF brokerVars, Position, Covers, Open, Traded
    <3>3. \A x \in LostOrders : ~LoseOrder(x, legQty)
      BY DEF LoseOrder, AllAnswered, Inv, TypeOK, BrokerTypeOK
    <3> QED BY <2>1, <3>1, <3>2, <3>3, PlaceLegCases
  <2>6. Told'
    BY <2>4, <2>5 DEF Told, Trade
  <2>7. FillCarried'
    BY <1>1, <2>2, <2>3, <2>4, <2>5, <2>6 DEF FillCarried, Told, Gone, Traded
  <2>8. ~HasLegs' /\ ~Ending'
    BY <2>2, <2>3 DEF HasLegs, Ending, IsTerminal
  <2>9. PlacingCovers' /\ ResizeCovers' /\ StopLossStands'
    BY <2>2, <2>4, <2>5, <2>6, <2>8 DEF PlacingCovers, ResizeCovers, StopLossStands
  <2> QED BY <1>1, <2>2, <2>7, <2>9
<1>6. CASE FinishPlacing
  <2>1. /\ placer = "placing" /\ placer' \in {"idle", "timer"} /\ UNCHANGED <<order, events>>
        /\ UNCHANGED <<tracked, filledQty, partial, modifies>>
        /\ \A l \in Enabled : result[l] # "none"
    BY <1>6 DEF FinishPlacing, brokerVars
  <2>2. Placing /\ ~Placing' /\ state = "PLACING_LEGS" /\ LegsNew
    BY <2>1 DEF Placing, FinalInv, PhaseInv
  <2>3. "SL" \notin Failed /\ state' \in {"LEGS_SUBMITTED", "ACTIVE"}
    BY <1>1, <1>6, CheckLegsValue DEF FinishPlacing, IsTerminal
  <2>4. Open("SL")
    <3>1. result["SL"] = "placed"
      BY <2>1, <2>3 DEF Failed, Inv, TypeOK, GroupTypeOK
    <3> QED BY <2>2, <3>1 DEF LegsNew, Open
  <2>5. Told /\ modifies = {} /\ filledQty = Position /\ \A l \in Legs : Covers(l)
    BY <1>1, <2>1, <2>2 DEF PlacingCovers, FillCarried
  <2>6. \A e \in events : Gone(e, "ENTRY") => ~Traded("ENTRY")
    BY <1>1 DEF FillCarried
  <2>7. /\ Position' = Position /\ (Told' <=> Told)
        /\ \A o \in Orders : /\ (Open(o)' <=> Open(o)) /\ (Traded(o)' <=> Traded(o))
                             /\ (Covers(o)' <=> Covers(o))
    BY <2>1 DEF Position, Told, Open, Traded, Covers
  <2>8. ~Ending'
    BY <2>3 DEF Ending, IsTerminal
  <2>9. FillCarried'
    BY <2>1, <2>3, <2>5, <2>6, <2>7 DEF FillCarried, Told
  <2>10. PlacingCovers' /\ ResizeCovers'
    BY <2>1, <2>2, <2>5, <2>7 DEF PlacingCovers, ResizeCovers
  <2>11. StopLossStands'
    BY <2>1, <2>4, <2>7, <2>8 DEF StopLossStands
  <2> QED BY <1>1, <2>1, <2>9, <2>10, <2>11
<1>7. CASE StartPartialFillTimer
  <2>1. /\ UNCHANGED <<order, events, tracked, state, filledQty, partial, legQty, modifies>>
        /\ placer = "timer" /\ placer' = "idle"
    BY <1>7 DEF StartPartialFillTimer, brokerVars, groupVars
  <2>2. ~Placing /\ ~Placing' /\ (HasLegs' <=> HasLegs) /\ (Ending' <=> Ending)
    BY <2>1 DEF Placing, HasLegs, Ending, IsTerminal
  <2>3. /\ Position' = Position /\ (Told' <=> Told)
        /\ \A o \in Orders : /\ (Open(o)' <=> Open(o)) /\ (Traded(o)' <=> Traded(o))
                             /\ (Covers(o)' <=> Covers(o))
    BY <2>1 DEF Position, Told, Open, Traded, Covers
  <2>4. FillCarried'
    BY <1>1, <2>1, <2>3 DEF FillCarried
  <2>5. PlacingCovers' /\ ResizeCovers'
    BY <1>1, <2>1, <2>2, <2>3 DEF PlacingCovers, ResizeCovers
  <2>6. StopLossStands'
    BY <1>1, <2>1, <2>2, <2>3 DEF StopLossStands
  <2> QED BY <1>1, <2>1, <2>4, <2>5, <2>6
<1> QED BY <1>3, <1>4, <1>5, <1>6, <1>7 DEF Placer

\* A resize to the position covers the leg.
LEMMA ResizedCovers ==
    ASSUME Inv, NEW l \in Legs, NEW qty \in Nat, qty > 0, ModifyOrder(l, qty)
    PROVE  /\ UNCHANGED events /\ Position' = Position
           /\ \A o \in Orders : (Open(o)' <=> Open(o)) /\ (Traded(o)' <=> Traded(o))
           /\ \A k \in Legs : k # l => (Covers(k) => Covers(k)')
           /\ qty = Position => Covers(l)'
<1> USE DEF Legs, Orders
<1>1. BrokerTypeOK
  BY DEF Inv, TypeOK
<1>2. /\ Only(l) /\ events' = events
      /\ \A p \in Orders : order'[p].st = order[p].st /\ order'[p].filled = order[p].filled
      /\ \/ Open(l) /\ order[l].filled < qty /\ order'[l].qty = qty
         \/ (~Open(l) \/ order[l].filled >= qty) /\ order' = order
  BY <1>1, ModifyEffect
<1>3. Position' = Position /\ \A o \in Orders : (Open(o)' <=> Open(o)) /\ (Traded(o)' <=> Traded(o))
  BY <1>2 DEF Position, Open, Traded
<1>4. \A k \in Legs : k # l => (Covers(k) => Covers(k)')
  BY <1>2, <1>3 DEF Only, Covers
<1>5. qty = Position => Covers(l)'
  <2>1. order[l].filled >= qty => Traded(l)
    BY Numbers DEF Traded
  <2> QED BY <1>2, <1>3, <2>1 DEF Covers
<1> QED BY <1>2, <1>3, <1>4, <1>5

LEMMA CoverModify ==
    ASSUME ModifiesSucceed, Inv, FinalInv, OrphanInv, CoverInv, Modifier \/ ModifySLLeg
    PROVE  CoverInv'
<1> USE DEF Orders, Legs
<1>1. SUFFICES ASSUME ~IsTerminal(state), ~IsTerminal(state'),
                      tracked, FillCarried, PlacingCovers, ResizeCovers, StopLossStands
               PROVE  (tracked /\ FillCarried /\ PlacingCovers /\ ResizeCovers /\ StopLossStands)'
  BY CoverStep DEF Next
<1>2. UNCHANGED <<tracked, state, partial, placer, legQty>>
      /\ (Placing' <=> Placing) /\ (HasLegs' <=> HasLegs) /\ (Ending' <=> Ending)
  BY DEF Modifier, ReadLegs, ModifyLeg, RecordQty, ModifySLLeg, groupVars, placerVars,
         taskVars, Placing, HasLegs, Ending, IsTerminal
\* The orders keep what they have traded: the parts that say nothing of the legs' quantities.
<1>3. ASSUME UNCHANGED events, Position' = Position,
             \A o \in Orders : (Open(o)' <=> Open(o)) /\ (Traded(o)' <=> Traded(o)),
             ~Placing, modifies = {} => modifies' = {},
             filledQty' = filledQty \/ filledQty' = Position,
             ResizeCovers'
      PROVE  (tracked /\ FillCarried /\ PlacingCovers /\ ResizeCovers /\ StopLossStands)'
  <2>1. Told' <=> Told
    BY <1>3 DEF Told
  <2>2. FillCarried'
    BY <1>1, <1>2, <1>3, <2>1 DEF FillCarried
  <2>3. PlacingCovers'
    BY <1>2, <1>3 DEF PlacingCovers, Placing
  <2>4. StopLossStands'
    BY <1>1, <1>2, <1>3 DEF StopLossStands
  <2> QED BY <1>1, <1>2, <1>3, <2>2, <2>3, <2>4
<1>4. CASE ModifySLLeg
  <2>1. state = "ACTIVE" /\ modifies' = modifies /\ filledQty' = filledQty
        /\ ModifyOrder("SL", IF filledQty > 0 THEN filledQty ELSE Quantity)
    BY <1>4 DEF ModifySLLeg, groupVars, taskVars
  <2>2. filledQty \in Nat /\ filledQty > 0 /\ ~Placing
    BY <2>1 DEF Inv, HasQuantity, Live, TypeOK, GroupTypeOK, FinalInv, PhaseInv
  <2>3. /\ UNCHANGED events /\ Position' = Position
        /\ \A o \in Orders : (Open(o)' <=> Open(o)) /\ (Traded(o)' <=> Traded(o))
        /\ Covers("TP") => Covers("TP")'
        /\ filledQty = Position => Covers("SL")'
    BY <2>1, <2>2, ResizedCovers
  <2>4. Told => filledQty = Position
    BY <1>1, <2>1 DEF FillCarried
  <2>5. ~Told => modifies = {}
    BY <1>1 DEF FillCarried, Told
  <2>6. Told' <=> Told
    BY <2>3 DEF Told
  <2>7. ResizeCovers'
    BY <1>1, <1>2, <2>1, <2>3, <2>4, <2>5, <2>6 DEF ResizeCovers
  <2> QED BY <1>3, <2>1, <2>2, <2>3, <2>7
<1>5. CASE Modifier
  <2>1. PICK t \in modifies : ReadLegs(t) \/ (\E l \in Legs : ModifyLeg(t, l)) \/ RecordQty(t)
    BY <1>5 DEF Modifier
  <2>2. /\ t.qty = Position /\ modifies = {t} /\ ~Placing
        /\ t.qty \in Nat /\ t.qty > 0 /\ t \in Modifies
    BY <1>1, <2>1, InvBounds DEF ResizeCovers, PlacingCovers, Inv, TypeOK, GroupTypeOK, Modifies
  <2>3. CASE ReadLegs(t)
    <3> DEFINE t2 == [t EXCEPT !.step = "modify", !.todo = known]
    <3>1. /\ UNCHANGED <<order, events, filledQty>> /\ modifies' = (modifies \ {t}) \union {t2}
      BY <2>3 DEF ReadLegs, brokerVars, groupVars
    <3>2. t2.qty = t.qty /\ t2.todo = known
      BY <2>2 DEF Modifies
    <3> HIDE DEF t2
    <3>3. modifies' = {t2}
      BY <2>2, <3>1
    <3>4. /\ Position' = Position
          /\ \A o \in Orders : (Open(o)' <=> Open(o)) /\ (Traded(o)' <=> Traded(o))
      BY <3>1 DEF Position, Open, Traded
    <3>5. \A l \in Legs \ known : Covers(l)'
      BY <2>2, <3>4 DEF OrphanInv, LegsKnown, Covers
    <3>6. ResizeCovers'
      BY <2>2, <3>2, <3>3, <3>4, <3>5 DEF ResizeCovers
    <3> QED BY <1>3, <2>2, <3>1, <3>4, <3>6
  <2>4. CASE \E l \in Legs : ModifyLeg(t, l)
    <3>1. PICK l \in Legs : ModifyLeg(t, l)
      BY <2>4
    <3> DEFINE t2 == [t EXCEPT !.todo = t.todo \ {l}]
    <3>2. /\ UNCHANGED filledQty /\ modifies' = (modifies \ {t}) \union {t2}
          /\ ModifyOrder(l, t.qty) /\ t.step = "modify"
      BY <3>1 DEF ModifyLeg, ModifiesSucceed, groupVars
    <3>3. t2.qty = t.qty /\ t2.todo = t.todo \ {l}
      BY <2>2 DEF Modifies
    <3> HIDE DEF t2
    <3>4. modifies' = {t2}
      BY <2>2, <3>2
    <3>5. /\ UNCHANGED events /\ Position' = Position
          /\ \A o \in Orders : (Open(o)' <=> Open(o)) /\ (Traded(o)' <=> Traded(o))
          /\ \A k \in Legs : k # l => (Covers(k) => Covers(k)')
          /\ Covers(l)'
      BY <2>2, <3>2, ResizedCovers
    <3>6. HasLegs => \A k \in Legs \ t2.todo : Covers(k)'
      BY <1>1, <2>1, <3>2, <3>3, <3>5 DEF ResizeCovers
    <3>7. ResizeCovers'
      BY <1>2, <2>2, <3>3, <3>4, <3>5, <3>6 DEF ResizeCovers
    <3> QED BY <1>3, <2>2, <3>2, <3>5, <3>7
  <2>5. CASE RecordQty(t)
    <3>1. /\ UNCHANGED <<order, events>> /\ modifies' = {} /\ filledQty' = Position
          /\ t.step = "modify" /\ t.todo = {}
      BY <2>2, <2>5 DEF RecordQty, brokerVars
    <3>2. /\ Position' = Position
          /\ \A o \in Orders : (Open(o)' <=> Open(o)) /\ (Traded(o)' <=> Traded(o))
                               /\ (Covers(o)' <=> Covers(o))
      BY <3>1 DEF Position, Open, Traded, Covers
    <3>3. ResizeCovers'
      BY <1>1, <1>2, <2>1, <3>1, <3>2 DEF ResizeCovers
    <3> QED BY <1>3, <2>2, <3>1, <3>2, <3>3
  <2> QED BY <2>1, <2>3, <2>4, <2>5
<1> QED BY <1>4, <1>5

\* A cancel ends the group; a group that lives on is not cleaned up.
LEMMA CoverControl ==
    ASSUME NoTimeout, OrphanInv, FinalInv, CoverInv,
           \/ AdoptOrder \/ TimerExpires \/ CancelEntryRemaining \/ CancelGroup \/ Cleanup
           \/ (\E o \in Orders : CancelLeg(o)) \/ UNCHANGED vars
    PROVE  CoverInv'
<1>1. SUFFICES ASSUME ~IsTerminal(state), ~IsTerminal(state'),
                      tracked, FillCarried, PlacingCovers, ResizeCovers, StopLossStands
               PROVE  (tracked /\ FillCarried /\ PlacingCovers /\ ResizeCovers /\ StopLossStands)'
  BY CoverStep DEF Next
<1>2. UNCHANGED vars
  BY <1>1 DEF AdoptOrder, TimerExpires, CancelEntryRemaining, CancelGroup, CancelOrders,
         Cleanup, CancelLeg,
         NoTimeout, OrphanInv, Lifecycle, IsTerminal
<1>3. UNCHANGED <<order, events, tracked, state, filledQty, partial, placer, legQty, modifies>>
  BY <1>2 DEF vars, brokerVars, groupVars, placerVars, taskVars
<1>4. /\ Position' = Position /\ (Told' <=> Told)
      /\ \A o : (Open(o)' <=> Open(o)) /\ (Traded(o)' <=> Traded(o)) /\ (Covers(o)' <=> Covers(o))
      /\ (Placing' <=> Placing) /\ (HasLegs' <=> HasLegs) /\ (Ending' <=> Ending)
  BY <1>3 DEF Position, Told, Open, Traded, Covers, Placing, HasLegs, Ending, IsTerminal
<1>5. FillCarried'
  BY <1>1, <1>3, <1>4 DEF FillCarried
<1>6. PlacingCovers' /\ ResizeCovers'
  BY <1>1, <1>3, <1>4 DEF PlacingCovers, ResizeCovers
<1>7. StopLossStands'
  BY <1>1, <1>3, <1>4 DEF StopLossStands
<1> QED BY <1>1, <1>3, <1>5, <1>6, <1>7

LEMMA InitCover == ASSUME CalmFilling, Init PROVE CoverInv
<1> USE DEF Init, BrokerInit, Orders, Legs
<1>1. tracked /\ state = "PENDING_ENTRY" /\ events = {} /\ modifies = {} /\ placer = "idle"
  BY DEF CalmFilling
<1>2. ~Traded("ENTRY") /\ ~Placing /\ ~HasLegs /\ ~Ending
  BY <1>1 DEF Traded, Placing, HasLegs, Ending, IsTerminal
<1> QED BY <1>1, <1>2 DEF CoverInv, FillCarried, PlacingCovers, ResizeCovers, StopLossStands

LEMMA NextCover ==
    ASSUME CalmPlacing, NoTimeout, CalmFilling, ModifiesSucceed, "SL" \in Enabled,
           Inv, NoneLost, AllAnswered', FinalInv, OrphanInv, CoverInv, [Next]_vars
    PROVE  CoverInv'
BY CoverExchange, CoverHandle, CoverPlacer, CoverModify, CoverControl DEF Next

LEMMA CoverInvariance ==
    ASSUME CalmPlacing, NoTimeout, CalmFilling, ModifiesSucceed, "SL" \in Enabled
    PROVE  Spec => [](AllAnswered => CoverInv)
<1>1. ASSUME Inv, AnsweredSeen, FinalInv, OrphanInv, AllAnswered => CoverInv, [Next]_vars
      PROVE  (AllAnswered => CoverInv)'
  <2>1. SUFFICES ASSUME AllAnswered' PROVE CoverInv'
    OBVIOUS
  <2>2. NoneLost
    BY <1>1, <2>1, AnsweredStep
  <2>3. CoverInv
    BY <1>1, <2>2 DEF NoneLost
  <2> QED BY <1>1, <2>1, <2>2, <2>3, NextCover
<1> QED BY <1>1, InitCover, GroupInvariance, AnsweredInvariance, FinalInvariance, OrphanInvariance,
       PTL DEF Spec

LEMMA CoverImplies ==
    ASSUME FinalInv, AllAnswered => CoverInv, "SL" \in Enabled
    PROVE  LegsCoverPosition
<1>1. SUFFICES ASSUME Settled, ~IsTerminal(state), Traded("ENTRY"), \A l \in Legs : ~Traded(l),
                      AllAnswered
               PROVE  Open("SL") /\ \A l \in Legs : Open(l) => order[l].qty = Position
  BY DEF LegsCoverPosition, Position
<1>2. events = {} /\ placer = "idle" /\ modifies = {} /\ Told /\ ~Placing
  BY <1>1 DEF Settled, Told, Placing
<1>3. FillCarried /\ ResizeCovers /\ StopLossStands
  BY <1>1 DEF CoverInv
<1>4. HasLegs
  BY <1>1, <1>2, <1>3 DEF FillCarried, HasLegs
<1> QED BY <1>1, <1>2, <1>3, <1>4 DEF ResizeCovers, StopLossStands, Covers

(***************************************************************************)
(* The position is covered, for every quantity and every interleaving: in  *)
(* a group with a stop-loss that has not ended, whose exits have not       *)
(* traded and whose accepted placements were all answered, once everything *)
(* has settled the stop-loss is open and every open leg has exactly the    *)
(* quantity the entry has traded.  The entry is assumed not to trade or    *)
(* end while a fill is on its way to the legs (the events may overtake     *)
(* each other), and changes of a quantity to succeed; cancels and          *)
(* placements may fail.  TLC finds the position uncovered without any one  *)
(* of the assumptions.                                                     *)
(***************************************************************************)
THEOREM PositionIsCovered ==
    ASSUME CalmPlacing, NoTimeout, CalmFilling, ModifiesSucceed, "SL" \in Enabled
    PROVE  Spec => []LegsCoverPosition
BY FinalInvariance, CoverInvariance, CoverImplies, PTL
=============================================================================
