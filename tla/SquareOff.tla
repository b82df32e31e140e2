----------------------------- MODULE SquareOff -----------------------------
(***************************************************************************)
(* Who closes the live positions of a user: the square-off scheduler (at   *)
(* the user's own time, at 15:05, or when it catches up after a start),    *)
(* the consumer of strategy events (a strategy is paused or deleted), the  *)
(* force-exit requests, and the exit orders already resting at the broker. *)
(* They share the rows of the orders table, the broker's book, and         *)
(* nothing else: no lock covers reading the rows and selling.              *)
(*                                                                         *)
(* Every entry has a symbol of its own, so the book has one net quantity   *)
(* per entry.  The clock has the minutes that the code tells apart.  Paper *)
(* positions, which the same runs close first, are in PaperPosition.       *)
(***************************************************************************)
EXTENDS Integers, Sequences, FiniteSets, FiniteSetsExt

CONSTANTS
    Entries, StrategyOf,
    Size,       \* quantity of an entry
    Intraday,   \* the entries with product type INTRADAY
    Managed,    \* per entry: "OCO", "ML" or "NONE"
    CustomTimes,    \* auto_square_off_time of the orders, None without one
    Requests,   \* force-exit requests
    Events,     \* the strategies paused or deleted today, in the order of the topic
    Times,      \* the times a user may set
    Faults,     \* what may go wrong
    MaxOf,      \* bounds on what happens in a day, by kind
    MaxTotal    \* and in total

\* Before 15:00, 15:00 to 15:04, 15:05, 15:06 to 15:10, then to 15:29, from 15:30.
Trading == 1
Window == 2
SquareOffTime == 3
WindowEnd == 4
Late == 5
Closed == 6
None == 0    \* no row in user_square_off_config
Off == 9     \* a row that is not enabled

Kinds == {"configs", "restarts", "requests", "faults"}

ASSUME SquareOffAssumption ==
    /\ Size \in Nat \ {0} /\ Intraday \subseteq Entries /\ Requests \intersect {"scheduler", "consumer"} = {}
    /\ Managed \in [Entries -> {"OCO", "ML", "NONE"}]
    /\ CustomTimes \subseteq {None} \union Trading..Late
    /\ Times \subseteq {Off} \union Trading..Late
    /\ Faults \subseteq {"rows", "book", "sale", "cancel", "events"}
    /\ Events \in Seq({StrategyOf[e] : e \in Entries}) /\ MaxOf \in [Kinds -> Nat] /\ MaxTotal \in Nat

VARIABLES
    clock, up,
    filled,     \* per entry: filled quantity
    working,    \* entries with quantity still open at the broker
    leg,        \* per entry: its exit orders, and what they traded
    net,        \* per entry: NetQty of the position book
    cancelled, exited,  \* rows with status CANCELLED, rows with live_exit_price
    reversed,   \* entries for whose symbol and strategy a square-off row exists
    userTime, custom,   \* user_square_off_config; auto_square_off_time of each order
    sched,      \* the scheduler: what it does next, tick pending, the guards of today
    inbox,      \* strategy events not yet committed; they may wait as long as they like
    job,        \* per closer: what it is closing
    sold,       \* history: the rows that the scheduler has sold
    due, outcome,   \* history: what 15:05 found and is not yet taken up; what became of the run
    bounds

rows == <<cancelled, exited, reversed, custom>>
market == <<filled, working, leg, net>>
history == <<due, outcome>>
vars == <<clock, up, market, rows, userTime, sched, inbox, job, sold, history, bounds>>

Closers == {"scheduler", "consumer"} \union Requests
Rows == Entries \X {"entry", "leg"}
RowsOf(scope) == {r \in Rows : scope = "all" \/ StrategyOf[r[1]] = scope}

\* What a closer has to do, before it has asked for the book.
Task(pc, kind, list, now) ==
    [pc |-> pc, kind |-> kind, todo |-> list, book |-> {}, since |-> {}, now |-> now]
Idle == Task("idle", "none", {}, 0)
Over == Task("done", "none", {}, 0)

TypeOK ==
    /\ clock \in Trading..Closed /\ up \in BOOLEAN
    /\ filled \in [Entries -> 0..Size] /\ working \subseteq Entries
    /\ \A e \in Entries : leg[e].state \in {"none", "working", "filled", "cancelled"} /\ leg[e].qty \in 0..Size
    /\ cancelled \subseteq Rows /\ exited \subseteq Rows /\ reversed \subseteq Entries
    /\ due \subseteq Rows /\ outcome \in {"none", "served", "unread", "down", "started in it", "busy"}
    /\ DOMAIN job = Closers

Init ==
    /\ clock = Trading /\ up = TRUE
    /\ filled = [e \in Entries |-> 0] /\ working = Entries
    /\ leg = [e \in Entries |-> [state |-> "none", qty |-> 0]]
    /\ net = [e \in Entries |-> 0]
    /\ cancelled = {} /\ exited = {} /\ reversed = {}
    /\ custom \in [Entries -> CustomTimes]
    /\ userTime \in {None} \union {custom[e] : e \in Entries}
    /\ sched = [pc |-> "wait", tick |-> TRUE, ran |-> FALSE, userRan |-> {}]
    /\ inbox = [next |-> Events, failed |-> << >>] /\ job = [c \in Closers |-> Idle] /\ sold = {}
    /\ due = {} /\ outcome = "none"
    /\ bounds = [k \in Kinds |-> 0]

Counted(k) ==
    /\ bounds[k] < MaxOf[k] /\ MapThenSumSet(LAMBDA i : bounds[i], Kinds) < MaxTotal
    /\ bounds' = [bounds EXCEPT ![k] = @ + 1]

\* Something goes wrong, or nothing does.
Fault(f) == f \in Faults /\ Counted("faults")

Fine == UNCHANGED bounds

-----------------------------------------------------------------------------
(***************************************************************************)
(* The broker                                                              *)
(***************************************************************************)

\* History: a closer that has looked at the book, and has e to close, learns nothing of a
\* later fill or exit.
Told(jobs, e, by) ==
    [c \in Closers |-> IF jobs[c].pc = "place" /\ \E x \in jobs[c].todo : x.row[1] = e
                       THEN [jobs[c] EXCEPT !.since = @ \union {<<e, by>>}] ELSE jobs[c]]

\* A unit of the entry trades; the manager of its exits places or enlarges them.
Fill(e) ==
    /\ clock < Closed /\ e \in working
    /\ filled' = [filled EXCEPT ![e] = @ + 1]
    /\ working' = IF filled[e] + 1 = Size THEN working \ {e} ELSE working
    /\ leg' = IF Managed[e] # "NONE" /\ leg[e].state = "none" THEN [leg EXCEPT ![e].state = "working"] ELSE leg
    /\ net' = [net EXCEPT ![e] = @ + 1]
    /\ job' = Told(job, e, "fill")
    /\ UNCHANGED <<clock, up, rows, userTime, sched, inbox, sold, history, bounds>>

\* A stop-loss or target trades, whatever the position is by now.
LegFills(e) ==
    /\ clock < Closed /\ leg[e].state = "working"
    /\ leg' = [leg EXCEPT ![e] = [state |-> "filled", qty |-> filled[e]]]
    /\ net' = [net EXCEPT ![e] = @ - filled[e]]
    /\ job' = Told(job, e, "leg")
    /\ UNCHANGED <<clock, up, filled, working, rows, userTime, sched, inbox, sold, history, bounds>>

\* Filled quantity of a row.  OCO legs have rows like their entries, levels have none.
Traded(r) ==
    IF r[2] = "entry" THEN filled[r[1]] ELSE IF Managed[r[1]] = "OCO" THEN leg[r[1]].qty ELSE 0

-----------------------------------------------------------------------------
(***************************************************************************)
(* The queries                                                             *)
(***************************************************************************)

\* Faulty variant: the query does not look for earlier square-off rows.
OpenOrdersAgain ==
    {r \in Rows : Traded(r) > 0 /\ r \notin cancelled \union exited /\ r[1] \in Intraday}

\* GetOpenOrders and GetOpenOrdersByUser.
OpenOrders ==
    {r \in Rows : /\ Traded(r) > 0 /\ r \notin cancelled \union exited
                  /\ r[1] \in Intraday /\ r[1] \notin reversed}

\* GetExitableLiveOrdersByUser and ByStrategy: whatever the status, and whether or
\* not a square-off row exists.
Exitable(scope) == {r \in RowsOf(scope) : Traded(r) > 0 /\ r \notin exited}

Listed(set) == {[row |-> r, qty |-> Traded(r)] : r \in set}

-----------------------------------------------------------------------------
(***************************************************************************)
(* Closing                                                                 *)
(***************************************************************************)

\* The rows are read, and the time; without rows no book is asked.
Begin(c, kind, set) ==
    job' = [job EXCEPT ![c] = Task(IF set = {} THEN "place" ELSE "book", kind, Listed(set), clock)]

\* FetchOpenPositions: the entries whose net quantity is not zero; on any error the
\* check is left out, as if all were open.
FetchOpenPositions(c) ==
    /\ up /\ job[c].pc = "book" /\ c \in {"scheduler", "consumer"}
    /\ \/ /\ Fine
          /\ job' = [job EXCEPT ![c].pc = "place", ![c].book = {e \in Entries : net[e] # 0}]
       \/ /\ Fault("book")
          /\ job' = [job EXCEPT ![c].pc = "place unbooked", ![c].book = Entries]
    /\ UNCHANGED <<clock, up, market, rows, userTime, sched, inbox, sold, history>>

IsExited(c, r) == r[1] \notin job[c].book

\* The row is not sold: the book shows the position flat, the order has a later time
\* of its own (asked at 15:05 and at the start only), or the market is closed.
Later(c, r) == job[c].kind = "global" /\ custom[r[1]] > job[c].now
Refused(c) == c = "scheduler" /\ clock = Closed

\* The reverse order: an entry is sold, a leg bought back.
Reverse(r, qty) == [net EXCEPT ![r[1]] = IF r[2] = "entry" THEN @ - qty ELSE @ + qty]

\* The square-off row is created, then executed; the order may fail after the row.
Sell(x, jobs, by) ==
    /\ reversed' = reversed \union {x.row[1]}
    /\ \/ Fine /\ net' = Reverse(x.row, x.qty) /\ job' = Told(jobs, x.row[1], by)
       \/ Fault("sale") /\ job' = jobs /\ UNCHANGED net

\* createAndExecuteSquareOffOrder and squareOffLivePosition, or the row is skipped.
Place(c, x) ==
    /\ up /\ job[c].pc \in {"place", "place unbooked"} /\ c \in {"scheduler", "consumer"} /\ x \in job[c].todo
    /\ LET left == [job EXCEPT ![c].todo = @ \ {x}] IN
        IF IsExited(c, x.row) \/ Later(c, x.row) \/ Refused(c)
        THEN job' = left /\ Fine /\ UNCHANGED <<net, reversed>>
        ELSE Sell(x, left, job[c].kind)
    /\ due' = IF c = "scheduler" THEN due \ {x.row} ELSE due
    /\ sold' = IF c = "scheduler" /\ net' # net THEN sold \union {x.row} ELSE sold
    /\ UNCHANGED <<clock, up, filled, working, leg, cancelled, exited, custom, userTime, sched, inbox, outcome>>

Done(c) == job[c].pc \in {"place", "place unbooked"} /\ job[c].todo = {}

-----------------------------------------------------------------------------
(***************************************************************************)
(* AutoSquareOffScheduler                                                  *)
(***************************************************************************)

\* A run of the scheduler; if the rows cannot be read there is nothing to close.
Run(kind) ==
    \/ /\ Fine
       /\ Begin("scheduler", kind, OpenOrders)
       /\ outcome' = IF kind = "global" THEN "served" ELSE outcome
    \/ /\ Fault("rows")
       /\ Begin("scheduler", kind, {})
       /\ outcome' = IF kind = "global" THEN "unread" ELSE outcome

\* shouldSquareOff, with the time as it is after the users were served.
Check(s) ==
    IF clock = SquareOffTime /\ ~s.ran
    THEN sched' = [s EXCEPT !.pc = "global", !.ran = TRUE] /\ Run("global")
    ELSE /\ sched' = [s EXCEPT !.pc = "wait"]
         /\ job' = [job EXCEPT !["scheduler"] = Idle]
         /\ Fine /\ UNCHANGED outcome

\* Once a minute: the users whose time it is.  The guard is per user and time.
Tick ==
    /\ up /\ sched.pc = "wait" /\ sched.tick
    /\ LET s == [sched EXCEPT !.tick = FALSE] IN
        IF userTime = clock /\ clock \notin sched.userRan
        THEN sched' = [s EXCEPT !.pc = "user", !.userRan = @ \union {clock}] /\ Run("user")
        ELSE Check(s)
    /\ UNCHANGED <<clock, up, market, rows, userTime, inbox, sold, due>>

\* The run of the scheduler ends, and it goes on where it was.
FinishUser ==
    /\ up /\ Done("scheduler") /\ sched.pc = "user"
    /\ Check(sched)
    /\ UNCHANGED <<clock, up, market, rows, userTime, inbox, sold, due>>

Finish ==
    /\ up /\ Done("scheduler") /\ sched.pc \in {"global", "catch up"}
    /\ job' = [job EXCEPT !["scheduler"] = Idle]
    /\ sched' = [sched EXCEPT !.pc = IF @ = "global" THEN "wait" ELSE "users"]
    /\ UNCHANGED <<clock, up, market, rows, userTime, inbox, sold, history, bounds>>

\* Faulty variant: a start after the time is taken for one after the close.
CatchUpNever ==
    /\ up /\ sched.pc = "start"
    /\ sched' = [sched EXCEPT !.pc = "users", !.ran = clock > SquareOffTime]
    /\ UNCHANGED <<clock, up, market, rows, userTime, inbox, job, sold, history, bounds>>

\* runStartupCatchUp: later than 15:05 but before the close.
CatchUp ==
    /\ up /\ sched.pc = "start"
    /\ IF clock \in {WindowEnd, Late}
       THEN /\ sched' = [sched EXCEPT !.pc = "catch up", !.ran = TRUE]
            /\ Run("global")
       ELSE sched' = [sched EXCEPT !.pc = "users", !.ran = clock = Closed] /\ Fine /\ UNCHANGED <<job, outcome>>
    /\ UNCHANGED <<clock, up, market, rows, userTime, inbox, sold, due>>

\* runStartupUserCatchUp: the users whose time has come, unless the market is closed.
CatchUpUsers ==
    /\ up /\ sched.pc = "users"
    /\ IF userTime # None /\ userTime <= clock /\ clock < Closed
       THEN sched' = [sched EXCEPT !.pc = "global"] /\ Run("user")
       ELSE sched' = [sched EXCEPT !.pc = "wait"] /\ Fine /\ UNCHANGED <<job, outcome>>
    /\ UNCHANGED <<clock, up, market, rows, userTime, inbox, sold, due>>

\* handleSetAutoSquareOffConfig
SetConfig(t) ==
    /\ up /\ Counted("configs")
    /\ userTime' = t
    /\ UNCHANGED <<clock, up, market, rows, sched, inbox, job, sold, history>>

-----------------------------------------------------------------------------
(***************************************************************************)
(* StrategyEventsConsumer                                                  *)
(***************************************************************************)

\* Faulty variant: the window is not looked at.
isEODSquareOffWindowNever == FALSE

isEODSquareOffWindow == clock \in Window..WindowEnd

Mine(scope) == {e \in Entries : scope = "all" \/ StrategyOf[e] = scope}

\* OCO legs that are open at the broker are cancelled, and these entries; the levels of
\* a multi-level group are only forgotten.
CancelAtBroker(set, entries) ==
    /\ working' = working \ (entries \intersect set)
    /\ leg' = [e \in Entries |-> IF e \in set /\ Managed[e] = "OCO" /\ leg[e].state = "working"
                              THEN [leg[e] EXCEPT !.state = "cancelled"] ELSE leg[e]]

\* closeStrategyPositions for an event that arrives now, up to the square-off, which the
\* scheduler owns in the window.  Without rows, or if they cannot be read, it goes
\* on without one.
CloseStrategy ==
    /\ up /\ job["consumer"].pc = "idle" /\ inbox.next # << >> /\ clock < Closed
    /\ LET s == Head(inbox.next) IN
        \/ /\ \E kept \in SUBSET Mine(s) :
                /\ IF kept = {} THEN Fine ELSE Fault("cancel")
                /\ CancelAtBroker(Mine(s) \ kept, Entries)
           /\ Begin("consumer", "consumer", IF isEODSquareOffWindow THEN {} ELSE Exitable(s))
        \/ /\ Fault("rows")
           /\ CancelAtBroker(Mine(s), Entries)
           /\ Begin("consumer", "consumer", {})
    /\ UNCHANGED <<clock, up, filled, net, rows, userTime, sched, inbox, sold, history>>

\* An event that fails is not committed; it comes again after a restart, unless the
\* commit of a later one has passed it.
Handled == [next |-> Tail(inbox.next), failed |-> << >>]
Failed == [next |-> Tail(inbox.next), failed |-> Append(inbox.failed, Head(inbox.next))]

\* CancelAllOrdersByStrategy, FILLED rows too.
BulkCancel ==
    /\ up /\ Done("consumer")
    /\ \/ Fine /\ cancelled' = cancelled \union RowsOf(Head(inbox.next)) /\ inbox' = Handled
       \/ Fault("events") /\ inbox' = Failed /\ UNCHANGED cancelled
    /\ job' = [job EXCEPT !["consumer"] = Idle]
    /\ UNCHANGED <<clock, up, market, exited, reversed, custom, userTime, sched, sold, history>>

-----------------------------------------------------------------------------
(***************************************************************************)
(* Force exit                                                              *)
(***************************************************************************)

\* A request is for all or for one strategy, which then needs a token.
ForceExit(q, scope, token) ==
    /\ up /\ job[q].pc = "idle" /\ clock < Closed
    /\ token \/ scope = "all"
    /\ Counted("requests")
    /\ job' = [job EXCEPT ![q] = Task(IF token THEN "exit" ELSE "mark", scope, Listed(Exitable(scope)), 0)]
    /\ UNCHANGED <<clock, up, market, rows, userTime, sched, inbox, sold, history>>

\* UpdateLiveTradeExit marks the row, whether or not it was marked; then the reverse
\* order is placed, if there is a token.  No book is asked.
ForceExitOrder(q, x) ==
    /\ up /\ job[q].pc \in {"exit", "mark"} /\ x \in job[q].todo
    /\ exited' = exited \union {x.row} /\ cancelled' = cancelled \union {x.row}
    /\ LET left == [job EXCEPT ![q].todo = @ \ {x}] IN
        IF job[q].pc = "exit" THEN Sell(x, left, "force") ELSE job' = left /\ Fine /\ UNCHANGED <<net, reversed>>
    /\ UNCHANGED <<clock, up, filled, working, leg, custom, userTime, sched, inbox, sold, history>>

\* The OCO groups are cancelled, with the entries that wait; a request for all
\* also cancels the other entries and the rows.
ForceExitCancel(q) ==
    /\ up /\ job[q].pc \in {"exit", "mark"} /\ job[q].todo = {}
    /\ \E kept \in SUBSET Mine(job[q].kind) :
        /\ IF kept = {} THEN Fine ELSE Fault("cancel")
        /\ CancelAtBroker(Mine(job[q].kind) \ kept,
                          IF job[q].kind = "all" THEN Entries ELSE {e \in Entries : Managed[e] = "OCO" /\ filled[e] = 0})
    /\ cancelled' = IF job[q].kind = "all" THEN cancelled \union Rows ELSE cancelled
    /\ job' = [job EXCEPT ![q] = Over]
    /\ UNCHANGED <<clock, up, filled, net, exited, reversed, custom, userTime, sched, inbox, sold, history>>

-----------------------------------------------------------------------------
(***************************************************************************)
(* Time, crash and start                                                   *)
(***************************************************************************)

\* The scheduler handles a tick in its minute unless it is still busy; the closing of
\* a strategy that began before 15:00 is over at 15:05.
Advance ==
    /\ clock < Closed
    /\ up => (sched.pc \in {"user", "global", "catch up"} \/ (sched.pc = "wait" /\ ~sched.tick))
    /\ clock = Window => job["consumer"].pc = "idle"
    /\ clock' = clock + 1
    /\ sched' = [sched EXCEPT !.tick = up]
    /\ due' = IF clock' = SquareOffTime THEN {r \in OpenOrders : custom[r[1]] <= SquareOffTime} ELSE due
    /\ outcome' = IF clock < SquareOffTime \/ outcome = "served" THEN outcome
                  ELSE IF ~up THEN "down"
                  ELSE IF clock # SquareOffTime \/ outcome # "none" THEN outcome
                  ELSE IF sched.pc = "wait" THEN "started in it" ELSE "busy"
    /\ UNCHANGED <<up, market, rows, userTime, inbox, job, sold, bounds>>

Crash ==
    /\ up /\ Counted("restarts")
    /\ up' = FALSE
    /\ job' = [c \in Closers |-> IF c \in Requests /\ job[c].pc # "idle" THEN Over ELSE Idle]
    /\ outcome' = IF job["scheduler"].kind # "global" THEN outcome ELSE IF clock = Closed THEN "down" ELSE "none"
    /\ inbox' = [next |-> inbox.failed \o inbox.next, failed |-> << >>]
    /\ UNCHANGED <<clock, market, rows, userTime, sched, sold, due>>

\* The guards are in memory.  The first tick comes a minute later.  The backfill may
\* find the time of an order first.
Start ==
    /\ ~up /\ up' = TRUE
    /\ sched' = [pc |-> "start", tick |-> FALSE, ran |-> FALSE, userRan |-> {}]
    /\ userTime' \in {userTime} \union (IF userTime = None THEN {custom[e] : e \in Entries} ELSE {})
    /\ outcome' = IF clock \in {WindowEnd, Late} /\ outcome # "served" THEN "none" ELSE outcome
    /\ UNCHANGED <<clock, market, rows, inbox, job, sold, due, bounds>>

Next ==
    \/ \E e \in Entries : Fill(e) \/ LegFills(e)
    \/ \E c \in {"scheduler", "consumer"} : FetchOpenPositions(c) \/ \E x \in job[c].todo : Place(c, x)
    \/ Tick \/ FinishUser \/ Finish \/ CatchUp \/ CatchUpUsers
    \/ \E t \in Times : SetConfig(t)
    \/ CloseStrategy \/ BulkCancel
    \/ \E q \in Requests : ForceExitCancel(q) \/ \E x \in job[q].todo : ForceExitOrder(q, x)
    \/ \E q \in Requests, scope \in {"all"} \union {StrategyOf[e] : e \in Entries}, token \in BOOLEAN :
           ForceExit(q, scope, token)
    \/ Advance \/ Crash \/ Start

Spec == Init /\ [][Next]_vars

-----------------------------------------------------------------------------
(***************************************************************************)
(* Properties                                                              *)
(***************************************************************************)

\* The scheduler never sells a row a second time: its runs for the user, its run at
\* 15:05 and its catch-up after a restart find the square-off row, also when
\* the book cannot be read or the first order failed.
SchedulerClosesOnce ==
    [][\A x \in job["scheduler"].todo \ job'["scheduler"].todo : net' # net => x.row \notin sold]_vars

\* An exit of e traded after c had looked at the book.
Raced(c, e) ==
    \E s \in job[c].since : s[1] = e /\ s[2] # "fill" /\ (clock >= Late \/ {s[2], job[c].kind} # {"consumer", "global"})

\* Part of e was closed while it filled: the book tells c that e is not flat, and c sells
\* all of the row.
Partly(c, e) == net[e] < filled[e] /\ (net[e] > 0 \/ <<e, "fill">> \in job[c].since)

\* A long position turns short only if a force exit repeats another exit, an exit order
\* is left resting at the broker, the book could not be read, part of the position
\* was closed while the entry filled, or two closers had both looked before either
\* sold - which the window rules out for the consumer of strategy events and the
\* run at 15:05, as long as that minute lasts.
ShortNeedsCause ==
    [][\A e \in Entries : net[e] >= 0 /\ net'[e] < 0 =>
          \/ leg'[e] # leg[e]
          \/ \E q \in Requests : job'[q] # job[q] /\ net[e] < filled[e]
          \/ \E c \in {"scheduler", "consumer"} :
                job'[c].todo # job[c].todo /\ (job[c].pc = "place unbooked" \/ Raced(c, e) \/ Partly(c, e))]_vars

\* By the close every position that was open at 15:05 was taken up by the scheduler or
\* by another closer, also after a restart; the day's run is left out only
\* if the process is down to the end, starts within 15:05 or is busy past it, or
\* cannot read the rows.
NoneForgotten ==
    clock = Closed =>
        /\ outcome # "none"
        /\ (outcome = "served" /\ job["scheduler"].pc = "idle") =>
               \A r \in due : r \in cancelled \union exited \/ r[1] \in reversed

\* What the comment on GetExitableLiveOrdersByUser says: a force exit never exits a
\* position twice.
NeverDoubleExits == \A e \in Entries : net[e] >= 0
=============================================================================
