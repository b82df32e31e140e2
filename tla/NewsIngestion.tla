---------------------------- MODULE NewsIngestion ----------------------------
(***************************************************************************)
(* The data-ingestion service.  The watcher reads the change stream of the *)
(* news collection, drops what it has seen or what is not valid, and runs  *)
(* one goroutine per document that looks the company up in Redis, or in    *)
(* MongoDB when Redis has no entry, and publishes the enriched document.   *)
(* Redis is filled from the company master by one load at the start and    *)
(* one at 08:00 every day.  The replay tool is a process of its own that   *)
(* publishes the last documents again.                                     *)
(*                                                                         *)
(* A day begins at 08:00.  What is begun on a day is over before the next. *)
(***************************************************************************)
EXTENDS Integers, Sequences, FiniteSets, Functions

CONSTANTS
    News,               \* per place in the order of _id: the documents that may be inserted there
    Companies,
    Listing,            \* CompanyMaster at first: the exchanges on which a company is Active
    Concurrency,        \* maxConcurrency
    MaxEvents,          \* bound on failures, repeated events, master updates, replays and stops
    MaxDays             \* bound on the days

Docs == 1..Len(News)
Exchanges == {"NSE", "BSE"}
None == "none"
Unread == "unread"

\* The goroutines of the watcher and the loop of the replay tool both handle documents.
Callers == {"watcher", "replay"}
Loads == {"startup", "daily"}

ASSUME IngestionAssumption ==
    /\ Len(News) \in Nat
    /\ \A d \in Docs : \A n \in News[d] : n.company \in Companies \union {None} /\ n.age \in Int
    /\ Listing \in [Companies -> SUBSET Exchanges]
    /\ Concurrency \in Nat \ {0}
    /\ MaxEvents \in Nat /\ MaxDays \in Nat

VARIABLES
    master,     \* CompanyMaster: the exchanges on which a company's status is Active
    cache,      \* Redis: the exchange of a company, and the day it was written
    day,
    service,    \* whether Run reads the stream, its context is cancelled, or the process is down
    collection, \* the news collection, in the order of _id
    stream,     \* events of the open change stream
    opened,     \* how many it had when the stream was opened
    processed,  \* processedIDs, in the order of their times
    held,       \* documents that passed the checks and wait for the semaphore
    sem,        \* tokens in the semaphore
    task,       \* per caller and document: the next step, and the exchange it has found
    load,       \* per load and company: not read, read with an exchange or none, or "done"
    due,        \* the load of 08:00 is still to begin
    replaying,  \* documents the replay tool has still to handle
    sent,       \* messages of the watcher per document, since its ID was last cleaned up
    age,        \* for how many days the master had not shown the exchange of the last message
    lost,       \* documents dropped because of a failure, a stop or the company's status
    listed,     \* the last day on which the master gave a company an exchange
    events      \* counts towards MaxEvents

redis == <<master, cache, listed>>
work == <<processed, held, sem, task, replaying, sent, age, lost>>
vars == <<redis, work, events, day, service, collection, opened, stream, load, due>>

Idle == [pc |-> "idle", exchange |-> None]
Done == [c \in Companies |-> "done"]

TypeOK ==
    /\ master \in [Companies -> SUBSET Exchanges]
    /\ cache \in [Companies -> [exchange : Exchanges \union {None}, day : 0..MaxDays]]
    /\ day \in 0..MaxDays
    /\ service \in {"running", "cancelled", "down"}
    /\ Len(collection) <= Len(News) /\ \A d \in DOMAIN collection : collection[d] \in News[d]
    /\ opened \in 0..Len(collection)
    /\ {stream, processed, replaying} \subseteq Seq(Docs) /\ IsInjective(processed)
    /\ held \subseteq Docs /\ Cardinality(held) <= 1
    /\ sem \in 0..Concurrency
    /\ task \in [Callers \X Docs -> [pc : {"idle", "lookup", "fetch", "cache", "publish"},
                                     exchange : Exchanges \union {None}]]
    /\ load \in [Loads -> [Companies -> Exchanges \union {None, Unread, "done"}]]
    /\ due \in BOOLEAN /\ lost \subseteq Docs
    /\ listed \in [Companies \X Exchanges -> -3..MaxDays]
    /\ events \in 0..MaxEvents

-----------------------------------------------------------------------------
(***************************************************************************)
(* Documents and companies                                                 *)
(***************************************************************************)

ISTOffset == 330
MaxAge == 24 * 60
ClockSkew == 10

\* dt_tm holds the Indian clock as if it were UTC: read as IST the news is older
\* by the offset.  Ages are in minutes at the time of the insert.
ValidateNews(d) ==
    LET n == collection[d] IN
    /\ n.dated
    /\ -ClockSkew <= n.age + ISTOffset /\ n.age + ISTOffset <= MaxAge
    /\ ~n.duplicate
    /\ n.source # "TelegramBrokerReport"
    /\ n.score /\ n.summary
    /\ n.company # None

\* A company whose document is missing is active nowhere.
Exchange(active) ==
    CASE "NSE" \in active -> "NSE"
      [] "NSE" \notin active /\ "BSE" \in active -> "BSE"
      [] OTHER -> None

\* Variant: a TTL of 49 hours.
TTLDaysLonger == 4

\* A TTL of 25 hours: a key that was written on a day may lapse from the next one
\* on, and has lapsed before the third.
TTLDays == 3

Get(c) == cache[c].exchange
Set(c, x) == cache' = [cache EXCEPT ![c] = [exchange |-> x, day |-> day]]

Init ==
    /\ master = Listing
    /\ cache = [c \in Companies |-> [exchange |-> None, day |-> 0]]
    /\ day = 0 /\ service = "running"
    /\ collection = << >> /\ opened = 0 /\ stream = << >> /\ processed = << >> /\ replaying = << >>
    /\ held = {} /\ sem = 0 /\ lost = {}
    /\ task = [k \in Callers \X Docs |-> Idle]
    /\ load = [l \in Loads |-> IF l = "startup" THEN [c \in Companies |-> Unread] ELSE Done]
    /\ due = FALSE
    /\ sent = [d \in Docs |-> 0] /\ age = 0
    /\ listed = [k \in Companies \X Exchanges |-> IF Exchange(master[k[1]]) = k[2] THEN 0 ELSE -3]
    /\ events = 0

\* The environment may do only so much.
Event == events < MaxEvents /\ events' = events + 1

-----------------------------------------------------------------------------
(***************************************************************************)
(* The environment                                                         *)
(***************************************************************************)

\* A document is inserted.  Run opens the stream without a resume token, so it
\* has the documents inserted from then on.
Insert ==
    /\ Len(collection) < Len(News)
    /\ \E n \in News[Len(collection) + 1] : collection' = Append(collection, n)
    /\ stream' = IF service = "running" THEN Append(stream, Len(collection')) ELSE stream
    /\ UNCHANGED <<redis, work, events, day, service, opened, load, due>>

\* The driver resumes a broken stream and shows an event again.
Redeliver(d) ==
    /\ service = "running" /\ d \in opened + 1..Len(collection) /\ d \notin Range(stream)
    /\ Event
    /\ stream' = Append(stream, d)
    /\ UNCHANGED <<redis, work, day, service, collection, opened, load, due>>

UpdateMaster(c, active) ==
    /\ Event /\ active # master[c]
    /\ master' = [master EXCEPT ![c] = active]
    /\ listed' = [k \in DOMAIN listed |-> IF k = <<c, Exchange(active)>> THEN day ELSE listed[k]]
    /\ UNCHANGED <<cache, work, day, service, collection, opened, stream, load, due>>

Expire(c) ==
    /\ Get(c) # None /\ cache[c].day < day
    /\ cache' = [cache EXCEPT ![c] = [exchange |-> None, day |-> 0]]
    /\ UNCHANGED <<master, listed, work, events, day, service, collection, opened, stream, load, due>>

\* 08:00.  Keys of three days ago are gone, and a running process has a load to do.
NewDay ==
    /\ day < MaxDays /\ ~due
    /\ \A k \in DOMAIN task : task[k].pc = "idle"
    /\ \A l \in Loads : load[l] = Done
    /\ held = {} /\ stream = << >> /\ replaying = << >>
    /\ day' = day + 1
    /\ cache' = [c \in Companies |->
          IF cache[c].day + TTLDays <= day' THEN [exchange |-> None, day |-> 0] ELSE cache[c]]
    /\ listed' = [k \in DOMAIN listed |-> IF Exchange(master[k[1]]) = k[2] THEN day' ELSE listed[k]]
    /\ due' = (service # "down")
    /\ UNCHANGED <<master, work, events, service, collection, opened, stream, load>>

-----------------------------------------------------------------------------
(***************************************************************************)
(* Run: the loop over the change stream                                    *)
(***************************************************************************)

isDuplicate(d) == d \in Range(processed)

\* Variant: the ID is not kept.
MarkNothing(d) == UNCHANGED processed

\* A document is marked as processed before it is validated.
Mark(d) == processed' = Append(processed, d)

Receive ==
    /\ service = "running" /\ stream # << >> /\ held = {}
    /\ LET d == Head(stream) IN
       IF ~collection[d].decodes \/ isDuplicate(d)
       THEN UNCHANGED <<processed, held>>
       ELSE /\ Mark(d)
            /\ held' = IF ValidateNews(d) THEN {d} ELSE {}
    /\ stream' = Tail(stream)
    /\ UNCHANGED <<redis, sem, task, replaying, sent, age, lost, events, day, service, collection, opened,
                   load, due>>

Acquire(d) ==
    /\ service = "running" /\ d \in held /\ sem < Concurrency
    /\ sem' = sem + 1 /\ held' = {}
    /\ task' = [task EXCEPT ![<<"watcher", d>>] = [Idle EXCEPT !.pc = "lookup"]]
    /\ UNCHANGED <<redis, processed, replaying, sent, age, lost, events, day, service, collection, opened,
                   stream, load, due>>

\* The IDs of the last hour stay.  A document is handled in less.
cleanupOldProcessedIDs(n) ==
    /\ service = "running" /\ n \in 1..Len(processed)
    /\ \A i \in 1..n : processed[i] \notin held /\ task[<<"watcher", processed[i]>>].pc = "idle"
    /\ processed' = SubSeq(processed, n + 1, Len(processed))
    /\ sent' = [d \in Docs |-> IF \E i \in 1..n : processed[i] = d THEN 0 ELSE sent[d]]
    /\ UNCHANGED <<redis, held, sem, task, replaying, age, lost, events, day, service, collection, opened, stream,
                   load, due>>

\* Run returns, with an error of the stream or after a signal, and does not wait for
\* its goroutines; their context is cancelled.  main never calls Run again.
CancelRun ==
    /\ service = "running" /\ Event
    /\ service' = "cancelled"
    /\ lost' = lost \union Range(stream) \union held
    /\ stream' = << >> /\ held' = {}
    /\ UNCHANGED <<redis, processed, sem, task, replaying, sent, age, day, collection, opened, load,
                   due>>

\* The process ends, 15 seconds after the signal or by a crash.
Exit ==
    /\ service # "down" /\ Event
    /\ service' = "down"
    /\ lost' = lost \union Range(stream) \union held
                    \union {d \in Docs : task[<<"watcher", d>>].pc # "idle"}
    /\ task' = [k \in DOMAIN task |-> IF k[1] = "watcher" THEN Idle ELSE task[k]]
    /\ stream' = << >> /\ held' = {} /\ processed' = << >> /\ sem' = 0
    /\ load' = [l \in Loads |-> Done] /\ due' = FALSE
    /\ UNCHANGED <<redis, replaying, sent, age, day, collection, opened>>

\* main: the stream starts with the next insert, and the load of the start begins.
Start ==
    /\ service = "down"
    /\ service' = "running" /\ opened' = Len(collection)
    /\ load' = [load EXCEPT !["startup"] = [c \in Companies |-> Unread]]
    /\ UNCHANGED <<redis, work, events, day, collection, stream, due>>

-----------------------------------------------------------------------------
(***************************************************************************)
(* enrichAndPublish of both callers                                        *)
(***************************************************************************)

\* Variant: the goroutine keeps its place.
EndHolding(k) ==
    /\ task' = [task EXCEPT ![k] = Idle]
    /\ replaying' = IF k[1] = "replay" THEN Tail(replaying) ELSE replaying
    /\ UNCHANGED sem

\* The goroutine ends and frees its place; the replay tool goes on to the next document.
End(k) ==
    /\ task' = [task EXCEPT ![k] = Idle]
    /\ sem' = IF k[1] = "watcher" THEN sem - 1 ELSE sem
    /\ replaying' = IF k[1] = "replay" THEN Tail(replaying) ELSE replaying

Drop(k) == End(k) /\ lost' = IF k[1] = "watcher" THEN lost \union {k[2]} ELSE lost

Goto(k, pc, x) ==
    /\ task' = [task EXCEPT ![k] = [pc |-> pc, exchange |-> x]]
    /\ UNCHANGED <<sem, replaying, lost>>

CompanyOf(k) == collection[k[2]].company

\* A call fails; one of a cancelled context may.
CallFails(k) ==
    \/ Event
    \/ k[1] = "watcher" /\ service = "cancelled" /\ UNCHANGED events

\* GetCompanyDetails: what Redis holds is used as it is.
Lookup(k) ==
    /\ task[k].pc = "lookup"
    /\ \/ /\ Get(CompanyOf(k)) # None
          /\ Goto(k, "publish", Get(CompanyOf(k)))
          /\ UNCHANGED events
       \/ /\ Get(CompanyOf(k)) = None
          /\ Goto(k, "fetch", None)
          /\ UNCHANGED events
       \/ CallFails(k) /\ Drop(k)
    /\ UNCHANGED <<redis, processed, held, sent, age, day, service, collection, opened,
                   stream, load, due>>

\* fetchAndCacheCompanyDetails: an error counts as a company that is not there.
Fetch(k) ==
    /\ task[k].pc = "fetch"
    /\ LET x == Exchange(master[CompanyOf(k)]) IN
       \/ x # None /\ Goto(k, "cache", x) /\ UNCHANGED events
       \/ x = None /\ Drop(k) /\ UNCHANGED events
       \/ CallFails(k) /\ Drop(k)
    /\ UNCHANGED <<redis, processed, held, sent, age, day, service, collection, opened,
                   stream, load, due>>

\* An error of Set is logged only.
CacheDetails(k) ==
    /\ task[k].pc = "cache"
    /\ Goto(k, "publish", task[k].exchange)
    /\ \/ Set(CompanyOf(k), task[k].exchange) /\ UNCHANGED events
       \/ CallFails(k) /\ UNCHANGED cache
    /\ UNCHANGED <<master, listed, processed, held, sent, age, day, service,
                   collection, opened, stream, load, due>>

Written(k) ==
    /\ sent' = IF k[1] = "watcher" THEN [sent EXCEPT ![k[2]] = @ + 1] ELSE sent
    /\ age' = day - listed[<<CompanyOf(k), task[k].exchange>>]

\* The writer may fail before or after the broker has the message; the copies it makes
\* when the broker's answer is lost are not told apart.
Publish(k) ==
    /\ task[k].pc = "publish"
    /\ \/ Written(k) /\ End(k) /\ UNCHANGED <<lost, events>>
       \/ CallFails(k) /\ Drop(k) /\ UNCHANGED <<sent, age>>
       \/ CallFails(k) /\ Written(k) /\ End(k) /\ UNCHANGED lost
    /\ UNCHANGED <<redis, processed, held, day, service, collection, opened, stream, load, due>>

\* replay -n: the last n documents, the newest first.  One that does not decode ends
\* the tool before it publishes anything.
Replay(n) ==
    /\ replaying = << >> /\ n \in DOMAIN collection /\ Event
    /\ LET last == Len(collection) IN
       replaying' = IF \A d \in last - n + 1..last : collection[d].decodes
                    THEN [i \in 1..n |-> last + 1 - i] ELSE << >>
    /\ UNCHANGED <<redis, processed, held, sem, task, sent, age, lost, day,
                   service, collection, opened, stream, load, due>>

\* The tool validates only that there is a company, and remembers nothing.
ReplayNext ==
    /\ replaying # << >> /\ task[<<"replay", Head(replaying)>>].pc = "idle"
    /\ LET d == Head(replaying) IN
       IF collection[d].company = None
       THEN replaying' = Tail(replaying) /\ UNCHANGED task
       ELSE /\ task' = [task EXCEPT ![<<"replay", d>>] = [Idle EXCEPT !.pc = "lookup"]]
            /\ UNCHANGED replaying
    /\ UNCHANGED <<redis, processed, held, sem, sent, age, lost, events, day, service, collection, opened, stream, load,
                   due>>

-----------------------------------------------------------------------------
(***************************************************************************)
(* LoadCompanyMasterData                                                   *)
(***************************************************************************)

\* The loop of StartScheduler wakes up.
BeginDaily ==
    /\ due /\ due' = FALSE
    /\ load' = [load EXCEPT !["daily"] = [c \in Companies |-> Unread]]
    /\ UNCHANGED <<redis, work, events, day, service, collection, opened, stream>>

\* The cursor fetches a batch and the loop works through it.
FetchBatch(l, batch) ==
    /\ batch # {} /\ \A c \in batch : load[l][c] = Unread
    /\ \A c \in Companies : load[l][c] \in {Unread, "done"}
    /\ load' = [load EXCEPT ![l] = [c \in Companies |->
          IF c \in batch THEN Exchange(master[c]) ELSE @[c]]]
    /\ UNCHANGED <<redis, work, events, day, service, collection, opened, stream, due>>

\* An inactive company is skipped: its key stays as it is.
LoadCompany(l, c) ==
    /\ load[l][c] \in Exchanges \union {None}
    /\ load' = [load EXCEPT ![l][c] = "done"]
    /\ \/ load[l][c] # None /\ Set(c, load[l][c]) /\ UNCHANGED events
       \/ load[l][c] # None /\ Event /\ UNCHANGED cache
       \/ load[l][c] = None /\ UNCHANGED <<cache, events>>
    /\ UNCHANGED <<master, listed, work, day, service, collection, opened, stream, due>>

\* Find fails, or the cursor ends early, which nobody asks.
LoadFails(l) ==
    /\ load[l] # Done /\ \A c \in Companies : load[l][c] \in {Unread, "done"}
    /\ Event
    /\ load' = [load EXCEPT ![l] = Done]
    /\ UNCHANGED <<redis, work, day, service, collection, opened, stream, due>>

-----------------------------------------------------------------------------
Step(k) == Lookup(k) \/ Fetch(k) \/ CacheDetails(k) \/ Publish(k)

Next ==
    \/ Insert \/ \E d \in Docs : Redeliver(d) \/ Acquire(d)
    \/ \E c \in Companies : Expire(c) \/ \E active \in SUBSET Exchanges : UpdateMaster(c, active)
    \/ NewDay \/ Receive \/ CancelRun \/ Exit \/ Start
    \/ \E n \in Docs : cleanupOldProcessedIDs(n) \/ Replay(n)
    \/ \E k \in Callers \X Docs : Step(k)
    \/ ReplayNext \/ BeginDaily
    \/ \E l \in Loads : \/ \E batch \in SUBSET Companies : FetchBatch(l, batch)
                        \/ \E c \in Companies : LoadCompany(l, c)
                        \/ LoadFails(l)

Spec == Init /\ [][Next]_vars

\* The loop of Run and each of its goroutines go on: every call of theirs returns.
FairSpec ==
    /\ Spec
    /\ WF_vars(Receive \/ \E d \in Docs : Acquire(d))
    /\ \A d \in Docs : WF_vars(Step(<<"watcher", d>>))

-----------------------------------------------------------------------------
(***************************************************************************)
(* Properties                                                              *)
(***************************************************************************)

\* mongo_watcher.go: a valid document that the stream shows is published, unless a call
\* failed, Run was stopped or its company is active nowhere: no early return of a
\* goroutine keeps its place in the semaphore, and no skipped document stops the loop.
NewsPublished ==
    \A d \in Docs : (d \in Range(stream) /\ collection[d].decodes /\ ValidateNews(d))
                        ~> (sent[d] > 0 \/ d \in lost)

\* mongo_watcher.go, processedIDs: however often the stream shows a document, the watcher
\* publishes it once for as long as its ID is remembered.
NewsOnce == \A d \in Docs : sent[d] <= 1

\* redis_manager.go: the exchange that a message names was the company's in the master
\* not earlier than the day before yesterday, whichever of the loads, lazy fetches and
\* replays wrote the key, failed, or overwrote a newer one.
DetailsRecent == age <= 2
==============================================================================
