----------------------------- MODULE OcoGroup -----------------------------
(***************************************************************************)
(* One OCO group of services/trade-execution/internal/oco: an entry order, *)
(* and the stop-loss and take-profit legs that are placed when it fills.   *)
(*                                                                         *)
(* HandleBrokerUpdate, CancelGroup and ModifySLLeg hold the group's mutex; *)
(* they are one step each.  placeOCOLegs, modifyLegsQty, cancelLeg and the *)
(* partial-fill timer are goroutines: one step for each broker call and    *)
(* one for each section under the mutex.  The attempts of a placement that *)
(* are accepted without an answer are steps of their own; a cancel or a    *)
(* modification takes effect or fails as a whole.                          *)
(***************************************************************************)
EXTENDS OcoBroker

CONSTANTS
    Enabled,        \* the legs whose percentage is not 0
    Environment     \* what users, market and network do in this instance

ASSUME EnabledAssumption == Enabled \subseteq Legs

VARIABLES
    tracked,      \* the group is in m.groups
    state,        \* OCOGroup.State
    filledQty,    \* OCOGroup.FilledQty
    partial,      \* OCOGroup.PartialFillActive
    known,        \* the legs whose broker ID is stored on the group
    confirmed,    \* SLLegConfirmed, TPLegConfirmed
    cleanup,      \* scheduleCleanup was called
    placer,       \* placeOCOLegs: "idle", "starting", "placing", "timer"
    legQty,       \* quantity buildLegOrder gave the legs
    result,       \* placeLegWithRetry per leg: "none", "placed", "failed"
    withTimer,    \* placeOCOLegs was started by a partial fill
    timer,        \* the partial-fill timer: "off", "running", "expired"
    cancels,      \* the orders a cancelLeg goroutine is working on
    modifies      \* modifyLegsQty goroutines: new quantity, step, legs to do

groupVars == <<tracked, state, filledQty, partial, known, confirmed, cleanup>>
placerVars == <<placer, legQty, result, withTimer>>
taskVars == <<timer, cancels, modifies>>
vars == <<brokerVars, groupVars, placerVars, taskVars>>

States == {"PENDING_ENTRY", "PLACING_LEGS", "LEGS_SUBMITTED", "ACTIVE", "SL_TRIGGERED",
           "TP_TRIGGERED", "COMPLETED", "FAILED", "CANCELLED"}

IsTerminal(s) == s \in {"COMPLETED", "FAILED", "CANCELLED"}

Modifies == [qty : Nat, step : {"read", "modify"}, todo : SUBSET Legs]

GroupTypeOK ==
    /\ tracked \in BOOLEAN /\ partial \in BOOLEAN /\ cleanup \in BOOLEAN
    /\ state \in States
    /\ filledQty \in Nat /\ legQty \in Nat
    /\ known \subseteq Legs /\ confirmed \subseteq Legs
    /\ placer \in {"idle", "starting", "placing", "timer"}
    /\ result \in [Legs -> {"none", "placed", "failed"}]
    /\ withTimer \in BOOLEAN
    /\ timer \in {"off", "running", "expired"}
    /\ cancels \subseteq Orders
    /\ modifies \subseteq Modifies

TypeOK == BrokerTypeOK /\ GroupTypeOK

\* CreateOCOEntry registers the group before an event is handled; an order
\* of the default route is adopted after the executor has placed it.
Init ==
    /\ BrokerInit
    /\ tracked = ("adopted" \notin Environment)
    /\ state = "PENDING_ENTRY" /\ filledQty = 0 /\ partial = FALSE
    /\ known = {} /\ confirmed = {} /\ cleanup = FALSE
    /\ placer = "idle" /\ legQty = 0 /\ withTimer = FALSE
    /\ result = [l \in Legs |-> "none"]
    /\ timer = "off" /\ cancels = {} /\ modifies = {}

AdoptOrder ==
    /\ ~tracked /\ ~cleanup
    /\ tracked' = TRUE
    /\ UNCHANGED <<brokerVars, state, filledQty, partial, known, confirmed, cleanup,
                   placerVars, taskVars>>

-----------------------------------------------------------------------------
(***************************************************************************)
(* The environment                                                         *)
(***************************************************************************)
Market == UNCHANGED <<groupVars, placerVars, taskVars>>

\* The legs are being placed: the entry filled and placeOCOLegs has not ended.
Placing == placer \in {"starting", "placing"}

\* The legs are being resized, or an event that resizes them is not yet handled.
Resizing == modifies # {} \/ \E e \in events : e.o = "ENTRY"

EntryFills(filled) ==
    /\ filled < Quantity => "partial fill" \in Environment
    /\ Traded("ENTRY") =>
          \/ "fill while placing" \in Environment
          \/ state # "PENDING_ENTRY" /\ ~Placing /\ ~Resizing
    /\ Fill("ENTRY", filled)
    /\ Market

EntryEnds(st) ==
    /\ "entry ends" \in Environment
    /\ st = "rejected" => ~Traded("ENTRY")
    /\ Traded("ENTRY") => "entry ends partly filled" \in Environment
    /\ End("ENTRY", st)
    /\ Market

LegMayMove == Placing => "leg while placing" \in Environment
LegMayEnd(st) == (IF st = "rejected" THEN "leg reject" ELSE "leg cancel") \in Environment

LegFills(l, filled) ==
    /\ LegMayMove
    /\ filled < order[l].qty => "leg partial fill" \in Environment
    /\ Fill(l, filled)
    /\ Market

LegEnds(l, st) ==
    /\ LegMayMove /\ LegMayEnd(st)
    /\ ~Traded(l)
    /\ End(l, st)
    /\ Market

LostFills(x, filled) ==
    /\ LegMayMove
    /\ filled < lost[x].qty => "leg partial fill" \in Environment
    /\ FillLost(x, filled)
    /\ Market

LostEnds(x, st) ==
    /\ LegMayMove /\ LegMayEnd(st)
    /\ EndLost(x, st)
    /\ Market

-----------------------------------------------------------------------------
(***************************************************************************)
(* Handlers of the broker's events, under the group's mutex.  `filled` is  *)
(* order.FilledQuantity, the largest quantity any event has reported.      *)
(***************************************************************************)
Drop == UNCHANGED <<groupVars, placerVars, taskVars>>

\* Faulty variant: the placement is not started.
StartPlacingForgets(filled) ==
    /\ filledQty' = filled
    /\ state' = "PLACING_LEGS"
    /\ UNCHANGED <<placer, legQty, result>>

StartPlacing(filled) ==
    /\ filledQty' = filled
    /\ state' = "PLACING_LEGS"
    /\ placer' = "starting"
    /\ UNCHANGED <<legQty, result>>

\* Faulty variant: the legs keep their quantity.
ModifyForgotten(qty) == UNCHANGED modifies

Modify(qty) == modifies' = modifies \union {[qty |-> qty, step |-> "read", todo |-> {}]}

StopTimer ==
    /\ partial' = FALSE
    /\ timer' = IF timer = "running" THEN "off" ELSE timer

EntryExecuted ==
    \/ /\ partial
       /\ StopTimer
       /\ filledQty' = Quantity
       /\ Modify(Quantity)
       /\ UNCHANGED <<tracked, state, known, confirmed, cleanup, placerVars, cancels>>
    \/ /\ ~partial /\ state = "PENDING_ENTRY"
       /\ StartPlacing(Quantity)
       /\ withTimer' = FALSE
       /\ UNCHANGED <<tracked, partial, known, confirmed, cleanup, taskVars>>
    \/ /\ ~partial /\ state = "PENDING_ENTRY" /\ "no fill price" \in Environment
       /\ state' = "FAILED"
       /\ UNCHANGED <<tracked, filledQty, partial, known, confirmed, cleanup, placerVars, taskVars>>
    \/ ~partial /\ state # "PENDING_ENTRY" /\ Drop

EntryPartial(filled) ==
    \/ /\ ~partial /\ state = "PENDING_ENTRY"
       /\ StartPlacing(filled)
       /\ partial' = TRUE /\ withTimer' = TRUE
       /\ UNCHANGED <<tracked, known, confirmed, cleanup, taskVars>>
    \/ ~partial /\ state = "PENDING_ENTRY" /\ "no fill price" \in Environment /\ Drop
    \/ /\ partial
       /\ filledQty' = filled
       /\ Modify(filled)
       /\ UNCHANGED <<tracked, state, partial, known, confirmed, cleanup, placerVars,
                      timer, cancels>>
    \/ ~partial /\ state # "PENDING_ENTRY" /\ Drop

EntryGone ==
    \/ /\ partial
       /\ StopTimer
       /\ UNCHANGED <<tracked, state, filledQty, known, confirmed, cleanup, placerVars,
                      cancels, modifies>>
    \/ /\ ~partial
       /\ state' = "FAILED" /\ cleanup' = TRUE
       /\ UNCHANGED <<tracked, filledQty, partial, known, confirmed, placerVars, taskVars>>

HandleEntry(kind, filled) ==
    \/ kind = "EXECUTED" /\ EntryExecuted
    \/ kind = "PARTIAL" /\ EntryPartial(filled)
    \/ kind \in {"CANCELLED", "REJECTED"} /\ EntryGone
    \/ kind = "PENDING" /\ Drop

\* Faulty variant: the leg that traded is cancelled.
OtherSwapped(l) == l

Other(l) == IF l = "SL" THEN "TP" ELSE "SL"
Triggered(l) == IF l = "SL" THEN "SL_TRIGGERED" ELSE "TP_TRIGGERED"
Live == state \in {"ACTIVE", "LEGS_SUBMITTED"}

\* checkLegsConfirmed, on the values the caller has just assigned.
CheckLegsConfirmed(st, k, c) ==
    IF st = "LEGS_SUBMITTED" /\ \A l \in Legs : l \in c \/ l \notin k THEN "ACTIVE" ELSE st

\* cancelLeg returns at once when the broker ID is "".
GoCancel(legs, k) == cancels' = cancels \union (legs \intersect k)

\* HandleBrokerUpdate has stored the leg's broker ID, if it was missing.
HandleLeg(l, kind) ==
    /\ known' = known \union {l}
    /\ UNCHANGED <<tracked, filledQty, partial, placerVars, timer, modifies>>
    /\ \/ /\ kind = "PENDING"
          /\ confirmed' = confirmed \union {l}
          /\ state' = IF l \in confirmed THEN state
                      ELSE CheckLegsConfirmed(state, known', confirmed')
          /\ UNCHANGED <<cleanup, cancels>>
       \/ /\ kind = "EXECUTED" /\ Live
          /\ GoCancel({Other(l)}, known)
          /\ state' = IF Other(l) \in known THEN Triggered(l) ELSE "COMPLETED"
          /\ UNCHANGED <<confirmed, cleanup>>
       \/ /\ kind = "PARTIAL" /\ Live
          /\ GoCancel({Other(l)}, known)
          /\ state' = Triggered(l)
          /\ UNCHANGED <<confirmed, cleanup>>
       \/ /\ kind = "CANCELLED" /\ Live
          /\ GoCancel({Other(l)}, known)
          /\ state' = "CANCELLED" /\ cleanup' = TRUE
          /\ UNCHANGED confirmed
       \/ /\ kind = "REJECTED" /\ l = "SL"
          /\ GoCancel({"TP"}, known)
          /\ state' = "FAILED" /\ cleanup' = TRUE
          /\ UNCHANGED confirmed
       \/ /\ \/ kind \in {"EXECUTED", "PARTIAL", "CANCELLED"} /\ ~Live
             \/ kind = "REJECTED" /\ l = "TP"
          /\ UNCHANGED <<state, confirmed, cleanup, cancels>>

\* CancelGroup, on a group that has not ended.
CancelOrders ==
    /\ cancels' = cancels \union (IF state = "PENDING_ENTRY" THEN {"ENTRY"}
                                  ELSE IF Live THEN known ELSE {})
    /\ state' = "CANCELLED" /\ cleanup' = TRUE
    /\ UNCHANGED <<tracked, filledQty, partial, known, confirmed, placerVars,
                   timer, modifies>>

\* A complete fill of an order that is not in the database is taken for an
\* exit at the terminal: handleManualExitDetection cancels the symbol's groups.
HandleBrokerUpdate(e) ==
    /\ events' = events \ {e}
    /\ UNCHANGED <<order, lost>>
    /\ \/ /\ ~tracked \/ IsTerminal(state)
          /\ Drop
       \/ /\ tracked /\ ~IsTerminal(state)
          /\ \/ /\ e.o = "ENTRY"
                /\ \E filled \in e.filled..order["ENTRY"].filled : HandleEntry(e.kind, filled)
             \/ e.o \in Legs /\ HandleLeg(e.o, e.kind)
             \/ e.o = "UNKNOWN" /\ CancelOrders

-----------------------------------------------------------------------------
(***************************************************************************)
(* placeOCOLegs                                                            *)
(***************************************************************************)

\* Faulty variant: the return after the state change is missing.
AbortLegsContinues ==
    /\ placer = "starting"
    /\ Enabled = {} \/ "bad leg price" \in Environment
    /\ state' = "FAILED"
    /\ placer' = "placing"
    /\ legQty' = filledQty
    /\ UNCHANGED <<brokerVars, tracked, filledQty, partial, known, confirmed, cleanup,
                   result, withTimer, taskVars>>

\* No leg is enabled, or a price is on the wrong side of the fill.
AbortLegs ==
    /\ placer = "starting"
    /\ Enabled = {} \/ "bad leg price" \in Environment
    /\ state' = "FAILED"
    /\ placer' = IF withTimer THEN "timer" ELSE "idle"
    /\ UNCHANGED <<brokerVars, tracked, filledQty, partial, known, confirmed, cleanup,
                   legQty, result, withTimer, taskVars>>

\* Faulty variant: the legs get the quantity of the entry order.
BuildFullLegs ==
    /\ placer = "starting" /\ Enabled # {}
    /\ legQty' = Quantity
    /\ confirmed' = confirmed \union (Legs \ Enabled)
    /\ placer' = "placing"
    /\ UNCHANGED <<brokerVars, tracked, state, filledQty, partial, known, cleanup,
                   result, withTimer, taskVars>>

\* The orders are built from FilledQty, read without the mutex.
BuildLegs ==
    /\ placer = "starting" /\ Enabled # {}
    /\ legQty' = IF filledQty > 0 THEN filledQty ELSE Quantity
    /\ confirmed' = confirmed \union (Legs \ Enabled)
    /\ placer' = "placing"
    /\ UNCHANGED <<brokerVars, tracked, state, filledQty, partial, known, cleanup,
                   result, withTimer, taskVars>>

\* The attempts of a leg whose answer was lost, and those that are left.
Unanswered(l) == {i \in 1..Attempts : lost[<<l, i>>].st # "none"}
Left(l) == (1..Attempts) \ Unanswered(l)

\* placeLegWithRetry: after any error the order is sent again, without a look
\* at the book.  Attempts that are refused leave nothing and are not counted.
PlaceLeg(l) ==
    /\ placer = "placing" /\ l \in Enabled /\ result[l] = "none"
    /\ \/ /\ Left(l) # {}
          /\ PlaceOrder(l, legQty)
          /\ result' = [result EXCEPT ![l] = "placed"]
       \/ /\ "unanswered" \in Environment
          /\ \E i \in Left(l) : (\A j \in Left(l) : i <= j) /\ LoseOrder(<<l, i>>, legQty)
          /\ UNCHANGED result
       \/ /\ "place failure" \in Environment \/ Left(l) = {}
          /\ result' = [result EXCEPT ![l] = "failed"]
          /\ UNCHANGED brokerVars
    /\ UNCHANGED <<groupVars, placer, legQty, withTimer, taskVars>>

Placed == {l \in Legs : result[l] = "placed"}
Failed == {l \in Legs : result[l] = "failed"}

\* A failed stop-loss fails the group; a failed take-profit leaves it SL-only.
FinishPlacing ==
    /\ placer = "placing"
    /\ \A l \in Enabled : result[l] # "none"
    /\ placer' = IF withTimer THEN "timer" ELSE "idle"
    /\ known' = known \union Placed
    /\ \/ /\ Failed = Legs
          /\ state' = "FAILED" /\ cleanup' = TRUE
          /\ UNCHANGED <<confirmed, cancels>>
       \/ /\ "SL" \in Failed /\ Failed # Legs
          /\ state' = "FAILED"
          /\ GoCancel({"TP"}, Placed)
          /\ UNCHANGED <<confirmed, cleanup>>
       \/ /\ "SL" \notin Failed
          /\ confirmed' = confirmed \union Placed \union Failed
          /\ state' = CheckLegsConfirmed("LEGS_SUBMITTED", known', confirmed')
          /\ UNCHANGED <<cleanup, cancels>>
    /\ UNCHANGED <<brokerVars, tracked, filledQty, partial, legQty, result, withTimer,
                   timer, modifies>>

StartPartialFillTimer ==
    /\ placer = "timer"
    /\ placer' = "idle"
    /\ timer' = IF state # "FAILED" /\ partial THEN "running" ELSE timer
    /\ UNCHANGED <<brokerVars, groupVars, legQty, result, withTimer, cancels, modifies>>

-----------------------------------------------------------------------------
(***************************************************************************)
(* Partial fills                                                           *)
(***************************************************************************)

TimerExpires ==
    /\ timer = "running" /\ "timeout" \in Environment
    /\ timer' = IF partial THEN "expired" ELSE "off"
    /\ partial' = FALSE
    /\ UNCHANGED <<brokerVars, tracked, state, filledQty, known, confirmed, cleanup,
                   placerVars, cancels, modifies>>

CancelEntryRemaining ==
    /\ timer = "expired"
    /\ timer' = "off"
    /\ \/ CancelOrder("ENTRY")
       \/ "cancel failure" \in Environment /\ UNCHANGED brokerVars
    /\ UNCHANGED <<groupVars, placerVars, cancels, modifies>>

\* The broker IDs are read under the mutex; the quantity was read before.
ReadLegs(t) ==
    /\ t.step = "read"
    /\ modifies' = (modifies \ {t}) \union {[t EXCEPT !.step = "modify", !.todo = known]}
    /\ UNCHANGED <<brokerVars, groupVars, placerVars, timer, cancels>>

\* The stop-loss is modified before the take-profit; a failure is logged.
ModifyLeg(t, l) ==
    /\ t.step = "modify" /\ l \in t.todo
    /\ l = "TP" => "SL" \notin t.todo
    /\ \/ ModifyOrder(l, t.qty)
       \/ "modify failure" \in Environment /\ UNCHANGED brokerVars
    /\ modifies' = (modifies \ {t}) \union {[t EXCEPT !.todo = @ \ {l}]}
    /\ UNCHANGED <<groupVars, placerVars, timer, cancels>>

RecordQty(t) ==
    /\ t.step = "modify" /\ t.todo = {}
    /\ filledQty' = t.qty
    /\ modifies' = modifies \ {t}
    /\ UNCHANGED <<brokerVars, tracked, state, partial, known, confirmed, cleanup,
                   placerVars, timer, cancels>>

\* ModifySLLeg, called by the trailing monitor: what it does to the quantity.
\* When the call fails it changes nothing.
ModifySLLeg ==
    /\ "trailing" \in Environment
    /\ state = "ACTIVE" /\ "SL" \in known
    /\ ModifyOrder("SL", IF filledQty > 0 THEN filledQty ELSE Quantity)
    /\ UNCHANGED <<groupVars, placerVars, taskVars>>

-----------------------------------------------------------------------------
(***************************************************************************)
(* Cancel and cleanup                                                      *)
(***************************************************************************)

\* Faulty variant: the group is not completed.
CancelLegOnly(o) ==
    /\ o \in cancels
    /\ cancels' = cancels \ {o}
    /\ \/ CancelOrder(o)
       \/ "cancel failure" \in Environment /\ UNCHANGED brokerVars
    /\ UNCHANGED <<groupVars, placerVars, timer, modifies>>

\* State is assigned without the mutex, after success and after the last
\* failed attempt alike.  A handler that ends the group at the same time may
\* write after it: a terminal state may survive.
CancelLeg(o) ==
    /\ o \in cancels
    /\ cancels' = cancels \ {o}
    /\ \/ CancelOrder(o)
       \/ "cancel failure" \in Environment /\ UNCHANGED brokerVars
    /\ state' \in IF IsTerminal(state) THEN {state, "COMPLETED"} ELSE {"COMPLETED"}
    /\ UNCHANGED <<tracked, filledQty, partial, known, confirmed, cleanup, placerVars,
                   timer, modifies>>

CancelGroup ==
    /\ "user cancel" \in Environment
    /\ Placing => "cancel while placing" \in Environment
    /\ tracked /\ ~IsTerminal(state)
    /\ CancelOrders
    /\ UNCHANGED brokerVars

\* The 30 s timer of scheduleCleanup.
Cleanup ==
    /\ cleanup /\ tracked
    /\ tracked' = FALSE
    /\ UNCHANGED <<brokerVars, state, filledQty, partial, known, confirmed, cleanup,
                   placerVars, taskVars>>

-----------------------------------------------------------------------------
Exchange ==
    \/ \E filled \in 1..Quantity : EntryFills(filled)
    \/ \E st \in {"cancelled", "rejected"} : EntryEnds(st)
    \/ \E l \in Legs, filled \in 1..Quantity : LegFills(l, filled)
    \/ \E l \in Legs, st \in {"cancelled", "rejected"} : LegEnds(l, st)
    \/ \E x \in LostOrders, filled \in 1..Quantity : LostFills(x, filled)
    \/ \E x \in LostOrders, st \in {"cancelled", "rejected"} : LostEnds(x, st)

Placer == AbortLegs \/ BuildLegs \/ (\E l \in Legs : PlaceLeg(l)) \/ FinishPlacing
          \/ StartPartialFillTimer

Modifier == \E t \in modifies : ReadLegs(t) \/ (\E l \in Legs : ModifyLeg(t, l)) \/ RecordQty(t)

Next ==
    \/ Exchange
    \/ AdoptOrder
    \/ \E e \in events : HandleBrokerUpdate(e)
    \/ Placer
    \/ TimerExpires
    \/ CancelEntryRemaining
    \/ Modifier
    \/ ModifySLLeg
    \/ \E o \in Orders : CancelLeg(o)
    \/ CancelGroup
    \/ Cleanup

(***************************************************************************)
(* Goroutines run to their end and events are handled.  Nothing is assumed *)
(* of the market, of users or of the timers.                               *)
(***************************************************************************)
Fairness ==
    /\ WF_vars(\E e \in events : HandleBrokerUpdate(e))
    /\ WF_vars(Placer)
    /\ WF_vars(CancelEntryRemaining)
    /\ WF_vars(Modifier)
    /\ WF_vars(\E o \in Orders : CancelLeg(o))

Spec == Init /\ [][Next]_vars
FairSpec == Spec /\ Fairness

-----------------------------------------------------------------------------
(***************************************************************************)
(* Properties                                                              *)
(***************************************************************************)

(***************************************************************************)
(* An exit order is never larger than the position it closes: whatever is  *)
(* cancelled, reordered, repeated or resized concurrently, the quantity of *)
(* every order of a leg at the broker, one whose answer was lost included, *)
(* is at most what the entry has traded.  A leg that is too large would    *)
(* open a position on the other side.                                      *)
(***************************************************************************)
LegsWithinPosition ==
    /\ \A l \in Legs : order[l].qty <= order["ENTRY"].filled
    /\ \A x \in LostOrders : lost[x].qty <= order["ENTRY"].filled

\* Every placement that was accepted was answered; one that was not has executed.
AllAnswered == \A x \in LostOrders : lost[x].st = "none"
LostExecuted == \E x \in LostOrders : lost[x].st = "executed"

\* No event and no goroutine is under way, and an adoption is not pending.
Settled ==
    /\ tracked \/ cleanup
    /\ events = {} /\ placer = "idle" /\ cancels = {} /\ modifies = {}
    /\ timer # "expired"

(***************************************************************************)
(* One cancels the other: when everything has settled and an exit traded,  *)
(* or the group ended, no other leg that the manager placed is still open  *)
(* at the exchange, also if the exit that executed is one it has lost      *)
(* sight of.                                                               *)
(***************************************************************************)
NoOrphanLeg ==
    Settled /\ (IsTerminal(state) \/ (\E l \in Legs : Traded(l)) \/ LostExecuted) =>
        \A l \in Legs : Open(l) => Traded(l)

(***************************************************************************)
(* The same of the orders that placeLegWithRetry has lost sight of.  The   *)
(* code does not promise it: nothing looks for such an order.              *)
(***************************************************************************)
NoLostOrphan ==
    Settled /\ (IsTerminal(state) \/ \E l \in Legs : Traded(l)) =>
        \A x \in LostOrders : lost[x].st # "open"

(***************************************************************************)
(* While the group lives and no exit has traded, the position is covered:  *)
(* the stop-loss (or the take-profit, when there is no stop-loss) is open  *)
(* and an open leg has exactly the quantity the entry has traded.  If the  *)
(* answer to a placement was lost, the leg may be there twice.             *)
(***************************************************************************)
LegsCoverPosition ==
    Settled /\ ~IsTerminal(state) /\ Traded("ENTRY") /\ (\A l \in Legs : ~Traded(l)) /\ AllAnswered =>
        /\ Open(IF "SL" \in Enabled THEN "SL" ELSE "TP")
        /\ \A l \in Legs : Open(l) => order[l].qty = order["ENTRY"].filled

(***************************************************************************)
(* A group that has ended stays ended: no goroutine that was started       *)
(* before brings it back (HandleBrokerUpdate and CancelGroup rely on it).  *)
(***************************************************************************)
TerminalIsFinal == [][IsTerminal(state) => IsTerminal(state')]_vars

(***************************************************************************)
(* An exit that traded, wholly or in part, ends the group when both legs   *)
(* were placed.  (With one leg a partial trade is not the end of it: see   *)
(* ExecutedExitEndsGroup.)  An exit the manager does not know of, because  *)
(* the answer to its placement was lost, ends it when it executes: it is   *)
(* taken for a manual exit, and the legs that are known do not stay open   *)
(* beside a closed position.                                               *)
(***************************************************************************)
ExitEndsGroup ==
    /\ (Placed = Legs /\ \E l \in Legs : Traded(l)) ~> IsTerminal(state)
    /\ LostExecuted ~> (IsTerminal(state) /\ \A l \in Legs : Open(l) => Traded(l))

(***************************************************************************)
(* A leg that executed ends the group, in a group with one leg too.        *)
(***************************************************************************)
ExecutedExitEndsGroup == (\E l \in Legs : order[l].st = "executed") ~> IsTerminal(state)

(***************************************************************************)
(* An entry that filled gets its legs: the group leaves PENDING_ENTRY and  *)
(* PLACING_LEGS.                                                           *)
(***************************************************************************)
FillLeadsToLegs ==
    (order["ENTRY"].st = "executed") ~> (state \notin {"PENDING_ENTRY", "PLACING_LEGS"})
=============================================================================
