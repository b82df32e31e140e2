------------------------- MODULE NewsIngestionProofs -------------------------
(***************************************************************************)
(* For every number of documents, companies, places of the semaphore and   *)
(* failures, the watcher publishes a document once while it remembers its  *)
(* ID, and the exchange that a message names is at most two days old.      *)
(*                                                                         *)
(* NewsOnce is not inductive: a document must have no second way to the    *)
(* topic.  The strengthening Inv says that a document is waiting, in work  *)
(* or sent, and only one of these, and that the loop then still has its    *)
(* ID, or the stream was opened after it and cannot show it.  DetailsInv   *)
(* does the same for DetailsRecent: it is stated before its lemmas.        *)
(***************************************************************************)
EXTENDS NewsIngestion, TLAPS

Documents == UNION {News[d] : d \in Docs}

Types ==
    /\ collection \in Seq(Documents) /\ opened \in Nat
    /\ stream \in Seq(Docs) /\ processed \in Seq(Docs)
    /\ held \subseteq Docs
    /\ sent \in [Docs -> Nat]
    /\ task = [k \in Callers \X Docs |-> task[k]]

InWork(d) == task[<<"watcher", d>>].pc # "idle"
Taken(d) == sent[d] > 0 \/ d \in held \/ InWork(d)

\* A document is waiting, in work or sent, one of them and once.
OneWay ==
    \A d \in Docs : /\ sent[d] <= 1
                    /\ sent[d] > 0 => d \notin held /\ ~InWork(d)
                    /\ d \in held => ~InWork(d)

\* The loop remembers what it has taken, or the stream is younger.
Remembered ==
    service = "running" =>
        \A d \in Docs : Taken(d) => \/ d \in Range(processed)
                                    \/ d \notin Range(stream) /\ d <= opened

\* Documents have numbers of the collection.
Numbered ==
    /\ opened <= Len(collection)
    /\ \A d \in Docs : Taken(d) \/ d \in Range(stream) => d <= Len(collection)

\* A process that does not read the stream has nothing of it; one that is down has nothing.
Stopped ==
    /\ service # "running" => stream = << >> /\ held = {}
    /\ service = "down" => \A d \in Docs : ~InWork(d)

Inv == Types /\ OneWay /\ Remembered /\ Numbered /\ Stopped

-----------------------------------------------------------------------------
(***************************************************************************)
(* Sequences                                                               *)
(***************************************************************************)

\* Appending adds one element to those of a sequence (markAsProcessed, the stream).
LEMMA RangeAppend ==
    ASSUME NEW S, NEW s \in Seq(S), NEW e \in S
    PROVE  Append(s, e) \in Seq(S) /\ Range(Append(s, e)) = Range(s) \union {e}
<1>1. /\ Append(s, e) \in Seq(S) /\ DOMAIN Append(s, e) = 1..Len(s) + 1
      /\ Append(s, e)[Len(s) + 1] = e /\ \A i \in 1..Len(s) : Append(s, e)[i] = s[i]
  OBVIOUS
<1>2. DOMAIN s = 1..Len(s) /\ Len(s) \in Nat
  OBVIOUS
<1>3. ASSUME NEW x \in Range(Append(s, e)) PROVE x \in Range(s) \union {e}
  <2>1. PICK i \in 1..Len(s) + 1 : Append(s, e)[i] = x
    BY <1>1, <1>3 DEF Range
  <2>2. CASE i = Len(s) + 1
    BY <1>1, <2>1, <2>2
  <2>3. CASE i \in 1..Len(s)
    BY <1>1, <1>2, <2>1, <2>3 DEF Range
  <2>. QED
    BY <1>2, <2>2, <2>3
<1>4. ASSUME NEW x \in Range(s) \union {e} PROVE x \in Range(Append(s, e))
  <2>1. CASE x = e
    BY <1>1, <1>2, <2>1 DEF Range
  <2>2. CASE x \in Range(s)
    <3>1. PICK i \in 1..Len(s) : s[i] = x
      BY <1>2, <2>2 DEF Range
    <3>2. i \in 1..Len(s) + 1
      BY <1>2
    <3>. QED
      BY <1>1, <3>1, <3>2 DEF Range
  <2>. QED
    BY <1>4, <2>1, <2>2
<1>. QED
  BY <1>1, <1>3, <1>4

\* The stream shows its head and keeps the rest.
LEMMA RangeTail ==
    ASSUME NEW S, NEW s \in Seq(S), s # << >>
    PROVE  /\ Head(s) \in S /\ Head(s) \in Range(s)
           /\ Tail(s) \in Seq(S) /\ Range(Tail(s)) \subseteq Range(s)
BY DEF Range

\* What a cleanup does not remove stays (cleanupOldProcessedIDs).
LEMMA RangeSuffix ==
    ASSUME NEW S, NEW s \in Seq(S), NEW n \in 1..Len(s), NEW e \in Range(s),
           \A i \in 1..n : s[i] # e
    PROVE  e \in Range(SubSeq(s, n + 1, Len(s)))
<1>1. PICK j \in 1..Len(s) : s[j] = e
  BY DEF Range
<1>2. j \in n + 1..Len(s)
  BY <1>1
<1>3. /\ j - n \in 1..Len(SubSeq(s, n + 1, Len(s)))
      /\ SubSeq(s, n + 1, Len(s))[j - n] = e
  BY <1>1, <1>2
<1>4. DOMAIN SubSeq(s, n + 1, Len(s)) = 1..Len(SubSeq(s, n + 1, Len(s)))
  OBVIOUS
<1>. QED
  BY <1>3, <1>4 DEF Range

-----------------------------------------------------------------------------
(***************************************************************************)
(* The invariant                                                           *)
(***************************************************************************)

\* The service starts with an empty stream and no documents.
LEMMA InitInv == Init => Inv
<1>. SUFFICES ASSUME Init PROVE Inv
  OBVIOUS
<1>1. Types
  <2>1. << >> \in Seq(Documents) /\ << >> \in Seq(Docs)
    OBVIOUS
  <2>. QED
    BY <2>1 DEF Init, Types
<1>2. \A d \in Docs : sent[d] = 0 /\ d \notin held /\ ~InWork(d)
  BY DEF Init, InWork, Idle, Callers
<1>3. Range(stream) = {} /\ Len(collection) = 0
  BY DEF Init, Range
<1>. QED
  BY <1>1, <1>2, <1>3 DEF Init, Inv, OneWay, Remembered, Numbered, Stopped, Taken

\* What the actions of the loads, of Redis, of the clock and of the replay tool's start
\* leave alone is all that the invariant speaks of.
watched == <<collection, opened, stream, processed, held, sent, service>>

\* A step that leaves the loop alone and puts no document of the watcher to work.
LEMMA QuietStep ==
    ASSUME Inv, UNCHANGED watched, Types',
           \A d \in Docs : InWork(d)' => InWork(d)
    PROVE  Inv'
BY DEF Inv, watched, OneWay, Remembered, Numbered, Stopped, Taken

\* enrichAndPublish goes on without publishing, or returns.
LEMMA WorkStep ==
    ASSUME Inv, UNCHANGED watched, NEW k \in Callers \X Docs, task[k].pc # "idle",
           NEW t, task' = [task EXCEPT ![k] = t]
    PROVE  Inv'
<1>1. Types'
  BY DEF Inv, Types, watched
<1>2. \A d \in Docs : InWork(d)' => InWork(d)
  BY DEF Inv, Types, InWork, Callers
<1>. QED
  BY <1>1, <1>2, QuietStep


\* enrichAndPublish goes on or returns without a message, by whatever way.
LEMMA CallStep ==
    ASSUME Inv, NEW k \in Callers \X Docs, Lookup(k) \/ Fetch(k) \/ CacheDetails(k)
    PROVE  Inv'
<1>1. task[k].pc # "idle" /\ UNCHANGED watched
  BY DEF Lookup, Fetch, CacheDetails, watched
<1>2. \E t : task' = [task EXCEPT ![k] = t]
  BY DEF Lookup, Fetch, CacheDetails, Goto, Drop, End
<1>. QED
  BY <1>1, <1>2, WorkStep

\* A message is written once, and the goroutine that wrote it ends.
LEMMA PublishStep ==
    ASSUME Inv, NEW k \in Callers \X Docs, Publish(k)
    PROVE  Inv'
<1>1. /\ task[k].pc # "idle" /\ task' = [task EXCEPT ![k] = Idle]
      /\ UNCHANGED <<collection, opened, stream, processed, held, service>>
  BY DEF Publish, Drop, End
<1>2. CASE UNCHANGED sent
  BY <1>1, <1>2, WorkStep DEF watched
<1>3. CASE k[1] = "watcher" /\ sent' = [sent EXCEPT ![k[2]] = @ + 1]
  <2>. DEFINE e == k[2]
  <2>1. e \in Docs /\ k = <<"watcher", e>> /\ InWork(e)
    BY <1>1, <1>3 DEF InWork, Callers
  <2>2. Types'
    <3>1. sent' \in [Docs -> Nat]
      BY <1>3, <2>1 DEF Inv, Types
    <3>2. task' = [j \in Callers \X Docs |-> task'[j]]
      BY <1>1 DEF Inv, Types
    <3>. QED
      BY <1>1, <3>1, <3>2 DEF Inv, Types
  <2>3. ~InWork(e)' /\ \A d \in Docs \ {e} : InWork(d)' = InWork(d)
    BY <1>1, <2>1 DEF Inv, Types, InWork, Idle, Callers
  <2>4. sent[e] = 0 /\ e \notin held
    BY <2>1 DEF Inv, Types, OneWay
  <2>5. sent'[e] = 1 /\ \A d \in Docs \ {e} : sent'[d] = sent[d]
    BY <1>3, <2>1, <2>4 DEF Inv, Types
  <2>6. \A d \in Docs : Taken(d)' => Taken(d)
    BY <1>1, <2>1, <2>3, <2>5 DEF Taken
  <2>7. OneWay'
    BY <1>1, <2>1, <2>3, <2>4, <2>5 DEF Inv, OneWay
  <2>8. Remembered' /\ Numbered'
    BY <1>1, <2>6 DEF Inv, Remembered, Numbered
  <2>9. Stopped'
    BY <1>1, <2>3 DEF Inv, Stopped
  <2>. QED
    BY <2>2, <2>7, <2>8, <2>9 DEF Inv
<1>4. UNCHANGED sent \/ (k[1] = "watcher" /\ sent' = [sent EXCEPT ![k[2]] = @ + 1])
  BY DEF Publish, Written
<1>. QED
  BY <1>2, <1>3, <1>4

\* The loop takes a document only if it does not remember it.
LEMMA ReceiveStep == ASSUME Inv, Receive PROVE Inv'
<1>. DEFINE e == Head(stream)
<1>1. /\ service = "running" /\ stream # << >> /\ held = {}
      /\ stream' = Tail(stream)
      /\ UNCHANGED <<collection, opened, sent, task, service>>
  BY DEF Receive
<1>2. e \in Docs /\ e \in Range(stream) /\ stream' \in Seq(Docs) /\ Range(stream') \subseteq Range(stream)
  BY <1>1, RangeTail DEF Inv, Types
<1>3. \A d \in Docs : InWork(d)' = InWork(d)
  BY <1>1 DEF InWork
<1>4. CASE UNCHANGED <<processed, held>>
  BY <1>1, <1>2, <1>3, <1>4 DEF Inv, Types, OneWay, Remembered, Numbered, Stopped, Taken
<1>5. CASE /\ e \notin Range(processed) /\ processed' = Append(processed, e)
           /\ held' = {} \/ held' = {e}
  <2>1. processed' \in Seq(Docs) /\ Range(processed') = Range(processed) \union {e}
    BY <1>2, <1>5, RangeAppend DEF Inv, Types
  <2>2. ~Taken(e)
    BY <1>1, <1>2, <1>5 DEF Inv, Remembered
  <2>3. Types'
    BY <1>1, <1>2, <1>5, <2>1 DEF Inv, Types
  <2>4. OneWay'
    BY <1>1, <1>2, <1>3, <1>5, <2>2 DEF Inv, Types, OneWay, Taken
  <2>5. Remembered'
    BY <1>1, <1>2, <1>3, <1>5, <2>1 DEF Inv, Remembered, Taken
  <2>6. Numbered'
    BY <1>1, <1>2, <1>3, <1>5 DEF Inv, Numbered, Taken
  <2>7. Stopped'
    BY <1>1 DEF Stopped
  <2>. QED
    BY <2>3, <2>4, <2>5, <2>6, <2>7 DEF Inv
<1>. QED
  BY <1>4, <1>5 DEF Receive, Mark, isDuplicate


\* A waiting document gets its goroutine.
LEMMA AcquireStep == ASSUME Inv, NEW e \in Docs, Acquire(e) PROVE Inv'
<1>1. /\ service = "running" /\ e \in held /\ held' = {}
      /\ task' = [task EXCEPT ![<<"watcher", e>>] = [Idle EXCEPT !.pc = "lookup"]]
      /\ UNCHANGED <<collection, opened, stream, processed, sent, service>>
  BY DEF Acquire
<1>2. Types'
  BY <1>1 DEF Inv, Types
<1>3. \A d \in Docs \ {e} : InWork(d)' = InWork(d)
  BY <1>1 DEF Inv, Types, InWork, Callers
<1>4. \A d \in Docs : Taken(d)' => Taken(d)
  <2>1. Taken(e)
    BY <1>1 DEF Taken
  <2>2. \A d \in Docs \ {e} : Taken(d)' => Taken(d)
    BY <1>1, <1>3 DEF Taken
  <2>. QED
    BY <2>1, <2>2
<1>5. OneWay'
  <2>1. sent[e] = 0
    BY <1>1 DEF Inv, Types, OneWay
  <2>. QED
    BY <1>1, <1>3, <2>1 DEF Inv, OneWay
<1>6. Remembered' /\ Numbered' /\ Stopped'
  BY <1>1, <1>4 DEF Inv, Remembered, Numbered, Stopped
<1>. QED
  BY <1>2, <1>5, <1>6 DEF Inv

\* A new document has a number that nothing has yet.
LEMMA InsertStep == ASSUME Inv, Insert PROVE Inv'
<1>. DEFINE e == Len(collection) + 1
<1>1. /\ e \in Docs /\ collection' \in Seq(Documents) /\ Len(collection') = e
      /\ Len(collection) \in Nat
  <2>1. PICK n \in News[e] : collection' = Append(collection, n)
    BY DEF Insert
  <2>2. Len(collection) \in Nat /\ e \in Docs
    BY IngestionAssumption DEF Insert, Inv, Types, Docs
  <2>3. n \in Documents
    BY <2>2 DEF Documents
  <2>. QED
    BY <2>1, <2>2, <2>3 DEF Inv, Types
<1>2. UNCHANGED <<opened, processed, held, sent, task, service>>
  BY DEF Insert, work
<1>3. \A d \in Docs : InWork(d)' = InWork(d) /\ Taken(d)' = Taken(d)
  BY <1>2 DEF InWork, Taken
<1>4. /\ stream' \in Seq(Docs) /\ Range(stream') \subseteq Range(stream) \union {e}
      /\ service # "running" => UNCHANGED stream
  BY <1>1, RangeAppend DEF Insert, Inv, Types
<1>5. ~Taken(e) /\ opened < e
  BY <1>1 DEF Inv, Types, Numbered
<1>6. Types' /\ OneWay' /\ Stopped'
  BY <1>1, <1>2, <1>3, <1>4 DEF Inv, Types, OneWay, Stopped
<1>7. Remembered'
  BY <1>2, <1>3, <1>4, <1>5 DEF Inv, Remembered
<1>8. Numbered'
  BY <1>1, <1>2, <1>3, <1>4 DEF Inv, Types, Numbered, Docs
<1>. QED
  BY <1>6, <1>7, <1>8 DEF Inv

\* An event that is shown again is younger than the stream, so its ID is remembered.
LEMMA RedeliverStep == ASSUME Inv, NEW e \in Docs, Redeliver(e) PROVE Inv'
<1>1. /\ service = "running" /\ e \in opened + 1..Len(collection) /\ stream' = Append(stream, e)
      /\ UNCHANGED <<collection, opened, processed, held, sent, task, service>>
  BY DEF Redeliver, work
<1>2. stream' \in Seq(Docs) /\ Range(stream') = Range(stream) \union {e}
  BY <1>1, RangeAppend DEF Inv, Types
<1>3. \A d \in Docs : InWork(d)' = InWork(d) /\ Taken(d)' = Taken(d)
  BY <1>1 DEF InWork, Taken
<1>4. ~(e <= opened) /\ e <= Len(collection)
  BY <1>1 DEF Inv, Types, Docs
<1>5. Types' /\ OneWay' /\ Stopped'
  BY <1>1, <1>2, <1>3 DEF Inv, Types, OneWay, Stopped
<1>6. Remembered' /\ Numbered'
  BY <1>1, <1>2, <1>3, <1>4 DEF Inv, Remembered, Numbered
<1>. QED
  BY <1>5, <1>6 DEF Inv

\* What a cleanup forgets is neither waiting nor in work, and may be published again.
LEMMA CleanupStep == ASSUME Inv, NEW n \in Docs, cleanupOldProcessedIDs(n) PROVE Inv'
<1>1. /\ service = "running" /\ n \in 1..Len(processed)
      /\ \A i \in 1..n : processed[i] \notin held /\ task[<<"watcher", processed[i]>>].pc = "idle"
      /\ processed' = SubSeq(processed, n + 1, Len(processed))
      /\ sent' = [d \in Docs |-> IF \E i \in 1..n : processed[i] = d THEN 0 ELSE sent[d]]
      /\ UNCHANGED <<collection, opened, stream, held, task, service>>
  BY DEF cleanupOldProcessedIDs
<1>2. \A d \in Docs : InWork(d)' = InWork(d)
  BY <1>1 DEF InWork
<1>3. \A d \in Docs : sent'[d] = 0 \/ sent'[d] = sent[d]
  BY <1>1
<1>4. Types'
  <2>1. processed' \in Seq(Docs)
    BY <1>1 DEF Inv, Types
  <2>2. sent' \in [Docs -> Nat]
    BY <1>1 DEF Inv, Types
  <2>. QED
    BY <1>1, <2>1, <2>2 DEF Inv, Types
<1>5. ASSUME NEW d \in Docs, Taken(d)'
      PROVE  Taken(d) /\ (d \in Range(processed) => d \in Range(processed'))
  <2>1. Taken(d)
    BY <1>1, <1>2, <1>3, <1>5 DEF Inv, Types, Taken
  <2>2. \A i \in 1..n : processed[i] # d
    BY <1>1, <1>2, <1>5 DEF Taken, InWork
  <2>. QED
    BY <1>1, <2>1, <2>2, RangeSuffix DEF Inv, Types
<1>6. OneWay'
  BY <1>1, <1>2, <1>3 DEF Inv, Types, OneWay
<1>7. Remembered' /\ Numbered' /\ Stopped'
  BY <1>1, <1>2, <1>5 DEF Inv, Remembered, Numbered, Stopped
<1>. QED
  BY <1>4, <1>6, <1>7 DEF Inv

\* Run returns: the stream and what waits are gone.
LEMMA CancelStep == ASSUME Inv, CancelRun PROVE Inv'
<1>1. /\ service' = "cancelled" /\ stream' = << >> /\ held' = {}
      /\ UNCHANGED <<collection, opened, processed, sent, task>>
  BY DEF CancelRun
<1>2. \A d \in Docs : InWork(d)' = InWork(d)
  BY <1>1 DEF InWork
<1>3. stream' \in Seq(Docs) /\ Range(stream') = {}
  BY <1>1 DEF Range
<1>. QED
  BY <1>1, <1>2, <1>3 DEF Inv, Types, OneWay, Remembered, Numbered, Stopped, Taken

\* The process ends: only messages are left.
LEMMA ExitStep == ASSUME Inv, Exit PROVE Inv'
<1>1. /\ service' = "down" /\ stream' = << >> /\ held' = {} /\ processed' = << >>
      /\ task' = [k \in DOMAIN task |-> IF k[1] = "watcher" THEN Idle ELSE task[k]]
      /\ UNCHANGED <<collection, opened, sent>>
  BY DEF Exit
<1>2. DOMAIN task = Callers \X Docs
  BY DEF Inv, Types
<1>3. \A d \in Docs : ~InWork(d)'
  BY <1>1, <1>2 DEF InWork, Idle, Callers
<1>4. task' = [k \in Callers \X Docs |-> task'[k]]
  BY <1>1, <1>2
<1>5. stream' \in Seq(Docs) /\ processed' \in Seq(Docs) /\ Range(stream') = {}
  BY <1>1 DEF Range
<1>. QED
  BY <1>1, <1>3, <1>4, <1>5 DEF Inv, Types, OneWay, Remembered, Numbered, Stopped, Taken

\* The stream of a new process is younger than all documents.
LEMMA StartStep == ASSUME Inv, Start PROVE Inv'
<1>1. /\ service = "down" /\ service' = "running" /\ opened' = Len(collection)
      /\ UNCHANGED <<collection, stream, processed, held, sent, task>>
  BY DEF Start, work
<1>2. stream = << >> /\ held = {} /\ Range(stream') = {}
  BY <1>1 DEF Inv, Stopped, Range
<1>3. \A d \in Docs : InWork(d)' = InWork(d) /\ Taken(d)' = Taken(d)
  BY <1>1 DEF InWork, Taken
<1>4. Types' /\ OneWay'
  BY <1>1, <1>3 DEF Inv, Types, OneWay
<1>5. Remembered' /\ Numbered' /\ Stopped'
  BY <1>1, <1>2, <1>3 DEF Inv, Types, Remembered, Numbered, Stopped
<1>. QED
  BY <1>4, <1>5 DEF Inv

\* The replay tool has goroutines of its own.
LEMMA ReplayStep == ASSUME Inv, ReplayNext \/ \E n \in Docs : Replay(n) PROVE Inv'
<1>1. UNCHANGED watched
  BY DEF ReplayNext, Replay, watched
<1>2. UNCHANGED task \/ \E e : task' = [task EXCEPT ![<<"replay", e>>] = [Idle EXCEPT !.pc = "lookup"]]
  BY DEF ReplayNext, Replay
<1>3. Types' /\ \A d \in Docs : InWork(d)' = InWork(d)
  BY <1>1, <1>2 DEF Inv, Types, InWork, Callers, watched
<1>. QED
  BY <1>1, <1>3, QuietStep

\* The clock, Redis, the master and the loads.
Elsewhere ==
    \/ \E c \in Companies : Expire(c) \/ \E active \in SUBSET Exchanges : UpdateMaster(c, active)
    \/ NewDay \/ BeginDaily
    \/ \E l \in Loads : \/ \E batch \in SUBSET Companies : FetchBatch(l, batch)
                        \/ \E c \in Companies : LoadCompany(l, c)
                        \/ LoadFails(l)

\* No load, key or update of the master is a way to the topic of its own.
LEMMA ElsewhereStep == ASSUME Inv, Elsewhere PROVE Inv'
<1>1. UNCHANGED <<watched, task>>
  BY DEF Elsewhere, Expire, UpdateMaster, NewDay, BeginDaily, FetchBatch, LoadCompany, LoadFails, work, watched
<1>. QED
  BY <1>1, QuietStep DEF Inv, Types, InWork, watched

\* Every step keeps the invariant.
LEMMA NextInv == Inv /\ [Next]_vars => Inv'
<1>. SUFFICES ASSUME Inv, [Next]_vars PROVE Inv'
  OBVIOUS
<1>1. CASE UNCHANGED vars
  BY <1>1, QuietStep DEF vars, work, watched, Inv, Types, InWork
<1>2. CASE Insert
  BY <1>2, InsertStep
<1>3. ASSUME NEW d \in Docs, Redeliver(d) \/ Acquire(d) PROVE Inv'
  BY <1>3, RedeliverStep, AcquireStep
<1>4. CASE Receive
  BY <1>4, ReceiveStep
<1>5. CASE CancelRun \/ Exit \/ Start
  BY <1>5, CancelStep, ExitStep, StartStep
<1>6. ASSUME NEW n \in Docs, cleanupOldProcessedIDs(n) PROVE Inv'
  BY <1>6, CleanupStep
<1>7. ASSUME NEW k \in Callers \X Docs, Step(k) PROVE Inv'
  BY <1>7, CallStep, PublishStep DEF Step
<1>8. CASE ReplayNext \/ \E n \in Docs : Replay(n)
  BY <1>8, ReplayStep
<1>9. CASE Elsewhere
  BY <1>9, ElsewhereStep
<1>. QED
  BY <1>1, <1>2, <1>3, <1>4, <1>5, <1>6, <1>7, <1>8, <1>9 DEF Next, Elsewhere

(***************************************************************************)
(* However many documents, goroutines, repeated events, failed calls,      *)
(* replays and restarts there are, the watcher publishes a document once   *)
(* while its ID is in processedIDs.                                        *)
(***************************************************************************)
THEOREM PublishedOnce == Spec => []NewsOnce
<1>1. Inv => NewsOnce
  BY DEF Inv, OneWay, NewsOnce
<1>. QED
  BY <1>1, InitInv, NextInv, PTL DEF Spec

-----------------------------------------------------------------------------
(***************************************************************************)
(* How old the details of a company may be.  DetailsRecent speaks of the   *)
(* message that was written last; DetailsInv follows an exchange from the  *)
(* master to it.  What a load or a lazy fetch has read was in the master   *)
(* on the same day, since both are over before the next.  So a key of      *)
(* Redis was in the master on the day it was written or later, and lapses  *)
(* before the third day after; and what a goroutine takes from it is       *)
(* published on the day it is taken.                                       *)
(***************************************************************************)
CacheRecords == [exchange : Exchanges \union {None}, day : Nat]
LoadStates == Exchanges \union {None, Unread, "done"}

DetailTypes ==
    /\ day \in Nat /\ age \in Int
    /\ master \in [Companies -> SUBSET Exchanges]
    /\ cache \in [Companies -> CacheRecords]
    /\ load \in [Loads -> [Companies -> LoadStates]]
    /\ listed \in [Companies \X Exchanges -> Int]
    /\ replaying \in Seq(Nat)
    /\ Len(collection) <= Len(News)

\* The master gave the company c the exchange x on day d or later.
Given(c, x, d) == x \in Exchanges /\ listed[<<c, x>>] >= d

NoneAhead == \A k \in Companies \X Exchanges : listed[k] <= day
MasterNow ==
    \A c \in Companies : Exchange(master[c]) # None => Given(c, Exchange(master[c]), day)
CacheRecent ==
    \A c \in Companies : cache[c].exchange # None =>
        Given(c, cache[c].exchange, cache[c].day) /\ cache[c].day + 2 >= day
LoadNow == \A l \in Loads : \A c \in Companies :
    load[l][c] \in Exchanges => Given(c, load[l][c], day)
Known(d) == d \in 1..Len(collection) /\ collection[d].company \in Companies
TaskRecent ==
    \A k \in Callers \X Docs :
        /\ task[k].pc # "idle" => Known(k[2])
        /\ task[k].pc = "cache" => Given(CompanyOf(k), task[k].exchange, day)
        /\ task[k].pc = "publish" => Given(CompanyOf(k), task[k].exchange, day - 2)
HeldKnown == \A d \in held : Known(d)
ReplayInOrder ==
    /\ \A d \in Range(replaying) : d \in 1..Len(collection)
    /\ \A d \in Docs : task[<<"replay", d>>].pc # "idle" =>
           replaying # << >> /\ d = Head(replaying)

DetailsInv ==
    /\ DetailTypes /\ NoneAhead /\ MasterNow /\ CacheRecent /\ LoadNow
    /\ TaskRecent /\ HeldKnown /\ ReplayInOrder /\ DetailsRecent

\* An exchange or none is what determineExchange returns.
LEMMA ExchangeType ==
    ASSUME NEW active
    PROVE  Exchange(active) \in Exchanges \union {None}
  BY DEF Exchange, Exchanges

\* None, and the marks of a load, are no exchanges.
LEMMA NoExchange == None \notin Exchanges /\ Unread \notin Exchanges /\ "done" \notin Exchanges
  BY DEF None, Unread, Exchanges

\* What the master has given it has given.
LEMMA GivenKept ==
    ASSUME DetailTypes, NEW c \in Companies, NEW x, NEW d \in Int, Given(c, x, d),
           \A k \in Companies \X Exchanges : listed'[k] \in Int /\ listed'[k] >= listed[k]
    PROVE  Given(c, x, d)'
<1>1. x \in Exchanges /\ <<c, x>> \in Companies \X Exchanges /\ listed[<<c, x>>] >= d
  BY DEF Given
<1>2. listed[<<c, x>>] \in Int
  BY <1>1 DEF DetailTypes
<1>3. listed'[<<c, x>>] >= d
  BY <1>1, <1>2
<1>. QED
  BY <1>1, <1>3 DEF Given

\* A document of the collection has a company or none.
LEMMA CompanyType ==
    ASSUME Inv, NEW d \in 1..Len(collection), collection[d].company # None
    PROVE  Known(d)
<1>1. collection[d] \in Documents
  BY DEF Inv, Types
<1>2. PICK e \in Docs : collection[d] \in News[e]
  BY <1>1 DEF Documents
<1>. QED
  BY <1>2, IngestionAssumption DEF Known

-----------------------------------------------------------------------------
(***************************************************************************)
(* The master, the clock, the loads and Redis keep DetailsInv.             *)
(***************************************************************************)

\* The service starts with an empty cache, and the master as it is.
LEMMA DetailsInit == Init => DetailsInv
<1>. SUFFICES ASSUME Init PROVE DetailsInv
  OBVIOUS
<1>1. DetailTypes
  <2>1. master \in [Companies -> SUBSET Exchanges] /\ day = 0 /\ age = 0 /\ replaying = << >>
    BY IngestionAssumption DEF Init
  <2>2. cache \in [Companies -> CacheRecords]
    BY DEF Init, CacheRecords
  <2>3. load \in [Loads -> [Companies -> LoadStates]]
    BY DEF Init, Done, LoadStates
  <2>4. listed \in [Companies \X Exchanges -> Int]
    BY DEF Init
  <2>5. Len(collection) <= Len(News)
    <3>1. collection = << >> /\ Len(News) \in Nat
      BY IngestionAssumption DEF Init
    <3>2. Len(<< >>) = 0
      OBVIOUS
    <3>. QED
      BY <3>1, <3>2
  <2>. QED
    BY <2>1, <2>2, <2>3, <2>4, <2>5 DEF DetailTypes
<1>2. NoneAhead /\ MasterNow
  <2>1. /\ day = 0
        /\ listed = [k \in Companies \X Exchanges |-> IF Exchange(master[k[1]]) = k[2] THEN 0 ELSE -3]
    BY DEF Init
  <2>2. NoneAhead
    BY <2>1 DEF NoneAhead
  <2>3. MasterNow
    <3>. SUFFICES ASSUME NEW c \in Companies, Exchange(master[c]) # None
                  PROVE  Given(c, Exchange(master[c]), day)
      BY DEF MasterNow
    <3>1. PICK x \in Exchanges : x = Exchange(master[c])
      BY ExchangeType
    <3>2. <<c, x>> \in Companies \X Exchanges /\ listed[<<c, x>>] = 0
      BY <2>1, <3>1
    <3>. QED
      BY <2>1, <3>1, <3>2 DEF Given
  <2>. QED
    BY <2>2, <2>3
<1>3. CacheRecent /\ LoadNow
  BY NoExchange DEF Init, CacheRecent, LoadNow, Done
<1>4. TaskRecent /\ HeldKnown /\ ReplayInOrder /\ DetailsRecent
  <2>1. \A k \in Callers \X Docs : task[k].pc = "idle"
    BY DEF Init, Idle
  <2>2. \A d \in Docs : <<"replay", d>> \in Callers \X Docs
    BY DEF Callers
  <2>3. Range(replaying) = {} /\ held = {} /\ age = 0
    BY DEF Init, Range
  <2>. QED
    BY <2>1, <2>2, <2>3 DEF TaskRecent, HeldKnown, ReplayInOrder, DetailsRecent
<1>. QED
  BY <1>1, <1>2, <1>3, <1>4 DEF DetailsInv

\* Steps that change neither the documents nor who handles them.
LEMMA SameTasks ==
    ASSUME DetailsInv, UNCHANGED <<collection, held, task, replaying, age, day>>,
           \A k \in Companies \X Exchanges : listed'[k] \in Int /\ listed'[k] >= listed[k]
    PROVE  TaskRecent' /\ HeldKnown' /\ ReplayInOrder' /\ DetailsRecent'
<1>1. HeldKnown' /\ ReplayInOrder' /\ DetailsRecent'
  BY DEF DetailsInv, HeldKnown, Known, ReplayInOrder, DetailsRecent
<1>2. TaskRecent'
  <2>. SUFFICES ASSUME NEW k \in Callers \X Docs
                PROVE  /\ task'[k].pc # "idle" => Known(k[2])'
                       /\ task'[k].pc = "cache" => Given(CompanyOf(k), task[k].exchange, day)'
                       /\ task'[k].pc = "publish" => Given(CompanyOf(k), task[k].exchange, day - 2)'
    BY DEF TaskRecent
  <2>1. day \in Int /\ day - 2 \in Int /\ DetailTypes /\ CompanyOf(k)' = CompanyOf(k)
    BY DEF DetailsInv, DetailTypes, CompanyOf
  <2>2. task[k].pc # "idle" => Known(k[2]) /\ CompanyOf(k) \in Companies
    BY DEF DetailsInv, TaskRecent, Known, CompanyOf
  <2>3. ASSUME task[k].pc = "cache" PROVE Given(CompanyOf(k), task[k].exchange, day)'
    <3>1. PICK c \in Companies, x \in Exchanges, d \in Int :
             c = CompanyOf(k) /\ x = task[k].exchange /\ d = day /\ Given(c, x, d)
      BY <2>1, <2>2, <2>3 DEF DetailsInv, TaskRecent, Given
    <3>2. Given(c, x, d)'
      BY <2>1, <3>1, GivenKept
    <3>. QED
      BY <2>1, <3>1, <3>2 DEF Given
  <2>4. ASSUME task[k].pc = "publish" PROVE Given(CompanyOf(k), task[k].exchange, day - 2)'
    <3>1. PICK c \in Companies, x \in Exchanges, d \in Int :
             c = CompanyOf(k) /\ x = task[k].exchange /\ d = day - 2 /\ Given(c, x, d)
      BY <2>1, <2>2, <2>4 DEF DetailsInv, TaskRecent, Given
    <3>2. Given(c, x, d)'
      BY <2>1, <3>1, GivenKept
    <3>. QED
      BY <2>1, <3>1, <3>2 DEF Given
  <2>. QED
    BY <2>2, <2>3, <2>4 DEF Known
<1>. QED
  BY <1>1, <1>2

\* A change of the master is seen on the day it is made.
LEMMA UpdateDetails ==
    ASSUME DetailsInv, NEW c \in Companies, NEW active \in SUBSET Exchanges,
           UpdateMaster(c, active)
    PROVE  DetailsInv'
<1>1. /\ master' = [master EXCEPT ![c] = active]
      /\ listed' = [k \in DOMAIN listed |-> IF k = <<c, Exchange(active)>> THEN day ELSE listed[k]]
      /\ UNCHANGED <<cache, day, load, age, collection, held, task, replaying>>
  BY DEF UpdateMaster, work
<1>2. DetailTypes /\ NoneAhead /\ day \in Nat
  BY DEF DetailsInv, DetailTypes
<1>3. /\ listed' \in [Companies \X Exchanges -> Int]
      /\ \A k \in Companies \X Exchanges :
            /\ listed'[k] \in Int /\ listed'[k] >= listed[k] /\ listed'[k] <= day
            /\ k = <<c, Exchange(active)>> => listed'[k] = day
  BY <1>1, <1>2 DEF DetailTypes, NoneAhead
<1>4. DetailTypes' /\ NoneAhead'
  <2>1. master' \in [Companies -> SUBSET Exchanges]
    BY <1>1, <1>2 DEF DetailTypes
  <2>. QED
    BY <1>1, <1>2, <1>3, <2>1 DEF DetailTypes, NoneAhead
<1>5. MasterNow'
  <2>. SUFFICES ASSUME NEW b \in Companies, Exchange(master'[b]) # None
                PROVE  Given(b, Exchange(master[b]), day)'
    BY DEF MasterNow
  <2>1. PICK x \in Exchanges : x = Exchange(master'[b])
    BY ExchangeType
  <2>2. <<b, x>> \in Companies \X Exchanges
    BY <2>1
  <2>3. listed'[<<b, x>>] >= day
    <3>1. CASE b = c
      <4>1. x = Exchange(active)
        BY <1>1, <1>2, <2>1, <3>1 DEF DetailTypes
      <4>. QED
        BY <1>2, <1>3, <2>2, <3>1, <4>1
    <3>2. CASE b # c
      <4>1. master'[b] = master[b]
        BY <1>1, <1>2, <3>2 DEF DetailTypes
      <4>2. listed[<<b, x>>] >= day
        BY <2>1, <4>1, NoExchange DEF DetailsInv, MasterNow, Given
      <4>3. listed[<<b, x>>] \in Int
        BY <1>2, <2>2 DEF DetailTypes
      <4>. QED
        BY <1>2, <1>3, <2>2, <4>2, <4>3
    <3>. QED
      BY <3>1, <3>2
  <2>. QED
    BY <1>1, <2>1, <2>3 DEF Given
<1>6. CacheRecent'
  <2>. SUFFICES ASSUME NEW b \in Companies, cache[b].exchange # None
                PROVE  Given(b, cache[b].exchange, cache[b].day)' /\ cache[b].day + 2 >= day
    BY <1>1 DEF CacheRecent
  <2>1. cache[b].day \in Int
    BY <1>2 DEF DetailTypes, CacheRecords
  <2>2. PICK x \in Exchanges, d \in Int : x = cache[b].exchange /\ d = cache[b].day /\ Given(b, x, d)
    BY <2>1 DEF DetailsInv, CacheRecent, Given
  <2>3. Given(b, x, d)'
    BY <1>2, <1>3, <2>2, GivenKept
  <2>. QED
    BY <1>1, <2>2, <2>3 DEF DetailsInv, CacheRecent, Given
<1>7. LoadNow'
  <2>. SUFFICES ASSUME NEW l \in Loads, NEW b \in Companies, load[l][b] \in Exchanges
                PROVE  Given(b, load[l][b], day)'
    BY <1>1 DEF LoadNow
  <2>1. PICK x \in Exchanges, d \in Int : x = load[l][b] /\ d = day /\ Given(b, x, d)
    BY <1>2 DEF DetailsInv, LoadNow, Given
  <2>2. Given(b, x, d)'
    BY <1>2, <1>3, <2>1, GivenKept
  <2>. QED
    BY <1>1, <2>1, <2>2 DEF Given
<1>. QED
  BY <1>1, <1>3, <1>4, <1>5, <1>6, <1>7, SameTasks DEF DetailsInv

\* 08:00: nothing is under way, and the keys of three days ago are gone.
LEMMA DayDetails == ASSUME Inv, DetailsInv, NewDay PROVE DetailsInv'
<1>1. /\ \A k \in DOMAIN task : task[k].pc = "idle"
      /\ \A l \in Loads : load[l] = Done
      /\ day' = day + 1 /\ held = {} /\ replaying = << >>
      /\ cache' = [c \in Companies |->
            IF cache[c].day + TTLDays <= day' THEN [exchange |-> None, day |-> 0] ELSE cache[c]]
      /\ listed' = [k \in DOMAIN listed |-> IF Exchange(master[k[1]]) = k[2] THEN day' ELSE listed[k]]
      /\ UNCHANGED <<master, load, age, collection, held, task, replaying>>
  BY DEF NewDay, work
<1>2. DetailTypes /\ NoneAhead /\ day \in Nat /\ day' \in Nat
  BY <1>1 DEF DetailsInv, DetailTypes
<1>3. /\ listed' \in [Companies \X Exchanges -> Int]
      /\ \A k \in Companies \X Exchanges :
            /\ listed'[k] \in Int /\ listed'[k] >= listed[k] /\ listed'[k] <= day'
            /\ Exchange(master[k[1]]) = k[2] => listed'[k] = day'
  BY <1>1, <1>2 DEF DetailTypes, NoneAhead
<1>4. cache' \in [Companies -> CacheRecords]
  <2>1. [exchange |-> None, day |-> 0] \in CacheRecords
    BY DEF CacheRecords
  <2>. QED
    BY <1>1, <1>2, <2>1 DEF DetailTypes
<1>5. DetailTypes' /\ NoneAhead'
  BY <1>1, <1>2, <1>3, <1>4 DEF DetailTypes, NoneAhead
<1>6. MasterNow'
  <2>. SUFFICES ASSUME NEW b \in Companies, Exchange(master[b]) # None
                PROVE  Given(b, Exchange(master[b]), day)'
    BY <1>1 DEF MasterNow
  <2>1. PICK x \in Exchanges : x = Exchange(master[b])
    BY ExchangeType
  <2>2. listed'[<<b, x>>] = day'
    BY <1>3, <2>1
  <2>. QED
    BY <1>1, <1>2, <2>1, <2>2 DEF Given
<1>7. CacheRecent'
  <2>. SUFFICES ASSUME NEW b \in Companies, cache'[b].exchange # None
                PROVE  Given(b, cache[b].exchange, cache[b].day)' /\ cache'[b].day + 2 >= day'
    BY DEF CacheRecent
  <2>1. cache'[b] = cache[b] /\ ~(cache[b].day + 3 <= day')
    BY <1>1 DEF TTLDays
  <2>2. cache[b].day \in Int
    BY <1>2 DEF DetailTypes, CacheRecords
  <2>3. PICK x \in Exchanges, d \in Int : x = cache[b].exchange /\ d = cache[b].day /\ Given(b, x, d)
    BY <2>1, <2>2 DEF DetailsInv, CacheRecent, Given
  <2>4. Given(b, x, d)'
    BY <1>2, <1>3, <2>3, GivenKept
  <2>5. cache'[b].day + 2 >= day'
    BY <1>2, <2>1, <2>2
  <2>. QED
    BY <2>1, <2>3, <2>4, <2>5 DEF Given
<1>8. LoadNow'
  BY <1>1, NoExchange DEF LoadNow, Done
<1>9. TaskRecent' /\ HeldKnown' /\ ReplayInOrder' /\ DetailsRecent'
  <2>1. \A k \in Callers \X Docs : task'[k].pc = "idle"
    BY <1>1 DEF Inv, Types
  <2>2. ReplayInOrder'
    BY <1>1 DEF DetailsInv, ReplayInOrder
  <2>. QED
    BY <1>1, <2>1, <2>2 DEF TaskRecent, HeldKnown, DetailsInv, DetailsRecent
<1>. QED
  BY <1>5, <1>6, <1>7, <1>8, <1>9 DEF DetailsInv

\* Steps of the loads and of Redis.
LEMMA LoadStep ==
    ASSUME DetailsInv,
           UNCHANGED <<master, listed, day, age, collection, held, task, replaying>>,
           cache' \in [Companies -> CacheRecords],
           load' \in [Loads -> [Companies -> LoadStates]],
           CacheRecent', LoadNow'
    PROVE  DetailsInv'
<1>1. DetailTypes' /\ NoneAhead' /\ MasterNow'
  BY DEF DetailsInv, DetailTypes, NoneAhead, MasterNow, Given
<1>2. \A k \in Companies \X Exchanges : listed'[k] \in Int /\ listed'[k] >= listed[k]
  BY DEF DetailsInv, DetailTypes
<1>3. TaskRecent' /\ HeldKnown' /\ ReplayInOrder' /\ DetailsRecent'
  BY <1>2, SameTasks
<1>. QED
  BY <1>1, <1>3 DEF DetailsInv

\* A key lapses.
LEMMA ExpireDetails == ASSUME DetailsInv, NEW c \in Companies, Expire(c) PROVE DetailsInv'
<1>1. /\ cache' = [cache EXCEPT ![c] = [exchange |-> None, day |-> 0]]
      /\ UNCHANGED <<master, listed, day, age, load, collection, held, task, replaying>>
  BY DEF Expire, work
<1>2. /\ cache \in [Companies -> CacheRecords] /\ load \in [Loads -> [Companies -> LoadStates]]
      /\ [exchange |-> None, day |-> 0] \in CacheRecords
  BY DEF DetailsInv, DetailTypes, CacheRecords
<1>3. cache' \in [Companies -> CacheRecords]
  BY <1>1, <1>2
<1>4. CacheRecent'
  <2>. SUFFICES ASSUME NEW b \in Companies, cache'[b].exchange # None
                PROVE  (Given(b, cache[b].exchange, cache[b].day) /\ cache[b].day + 2 >= day)'
    BY DEF CacheRecent
  <2>1. cache'[b] = cache[b]
    BY <1>1, <1>2
  <2>. QED
    BY <1>1, <2>1 DEF DetailsInv, CacheRecent, Given
<1>5. LoadNow'
  BY <1>1 DEF DetailsInv, LoadNow, Given
<1>. QED
  BY <1>1, <1>2, <1>3, <1>4, <1>5, LoadStep

\* A load that begins, or ends, or is forgotten with its process has read nothing.
LEMMA NothingRead ==
    ASSUME DetailsInv,
           UNCHANGED <<master, listed, cache, day, age, collection, held, task, replaying>>,
           load' \in [Loads -> [Companies -> LoadStates]],
           \A l \in Loads : \A c \in Companies :
               load'[l][c] \in Exchanges => load'[l][c] = load[l][c]
    PROVE  DetailsInv'
<1>1. CacheRecent' /\ LoadNow'
  BY DEF DetailsInv, CacheRecent, LoadNow, Given
<1>2. cache' \in [Companies -> CacheRecords]
  BY DEF DetailsInv, DetailTypes
<1>. QED
  BY <1>1, <1>2, LoadStep

\* The loads begin with nothing read and end with nothing to do.
LEMMA LoadEndsDetails ==
    ASSUME DetailsInv, BeginDaily \/ Start \/ \E l \in Loads : LoadFails(l)
    PROVE  DetailsInv'
<1>1. UNCHANGED <<master, listed, cache, day, age, collection, held, task, replaying>>
  BY DEF BeginDaily, Start, LoadFails, work, redis
<1>2. PICK l \in Loads, f \in {Done, [c \in Companies |-> Unread]} : load' = [load EXCEPT ![l] = f]
  BY DEF BeginDaily, Start, LoadFails, Loads
<1>3. load \in [Loads -> [Companies -> LoadStates]] /\ f \in [Companies -> LoadStates]
  BY DEF DetailsInv, DetailTypes, Done, LoadStates
<1>4. load' \in [Loads -> [Companies -> LoadStates]]
  BY <1>2, <1>3
<1>5. \A c \in Companies : f[c] \notin Exchanges
  BY <1>2, NoExchange DEF Done
<1>6. ASSUME NEW m \in Loads, NEW c \in Companies, load'[m][c] \in Exchanges
      PROVE  load'[m][c] = load[m][c]
  BY <1>2, <1>3, <1>5, <1>6
<1>. QED
  BY <1>1, <1>4, <1>6, NothingRead

\* A batch is read from the master as it is.
LEMMA BatchDetails ==
    ASSUME DetailsInv, NEW l \in Loads, NEW batch \in SUBSET Companies, FetchBatch(l, batch)
    PROVE  DetailsInv'
<1>. DEFINE f == [c \in Companies |-> IF c \in batch THEN Exchange(master[c]) ELSE load[l][c]]
<1>1. /\ load' = [load EXCEPT ![l] = f]
      /\ UNCHANGED <<master, listed, cache, day, age, collection, held, task, replaying>>
  BY DEF FetchBatch, work, redis
<1>2. /\ cache \in [Companies -> CacheRecords] /\ load \in [Loads -> [Companies -> LoadStates]]
      /\ f \in [Companies -> LoadStates]
  BY ExchangeType DEF DetailsInv, DetailTypes, LoadStates
<1>3. \A c \in Companies : f[c] \in Exchanges => Given(c, f[c], day)
  <2>. SUFFICES ASSUME NEW c \in Companies, f[c] \in Exchanges PROVE Given(c, f[c], day)
    OBVIOUS
  <2>1. CASE c \in batch
    <3>1. f[c] = Exchange(master[c])
      BY <2>1
    <3>. QED
      BY <3>1, NoExchange DEF DetailsInv, MasterNow
  <2>2. CASE c \notin batch
    <3>1. f[c] = load[l][c]
      BY <2>2
    <3>. QED
      BY <3>1 DEF DetailsInv, LoadNow
  <2>. QED
    BY <2>1, <2>2
<1>. HIDE DEF f
<1>4. load' \in [Loads -> [Companies -> LoadStates]]
  BY <1>1, <1>2
<1>5. LoadNow'
  <2>. SUFFICES ASSUME NEW m \in Loads, NEW c \in Companies, load'[m][c] \in Exchanges
                PROVE  Given(c, load[m][c], day)'
    BY DEF LoadNow
  <2>1. load'[m][c] = IF m = l THEN f[c] ELSE load[m][c]
    BY <1>1, <1>2
  <2>2. PICK x : x = load'[m][c]
    OBVIOUS
  <2>3. Given(c, x, day)
    BY <1>3, <2>1, <2>2 DEF DetailsInv, LoadNow
  <2>. QED
    BY <1>1, <2>2, <2>3 DEF Given
<1>6. CacheRecent'
  BY <1>1 DEF DetailsInv, CacheRecent, Given
<1>. QED
  BY <1>1, <1>2, <1>4, <1>5, <1>6, LoadStep

\* What is written to Redis was in the master today.
LEMMA SetRecent ==
    ASSUME DetailsInv, NEW c \in Companies, NEW x \in Exchanges, Given(c, x, day), Set(c, x),
           UNCHANGED <<listed, day>>
    PROVE  cache' \in [Companies -> CacheRecords] /\ CacheRecent'
<1>. DEFINE r == [exchange |-> x, day |-> day]
<1>1. cache' = [cache EXCEPT ![c] = r]
  BY DEF Set
<1>2. cache \in [Companies -> CacheRecords] /\ r \in CacheRecords /\ day \in Nat
  BY DEF DetailsInv, DetailTypes, CacheRecords
<1>3. cache' \in [Companies -> CacheRecords]
  BY <1>1, <1>2
<1>4. CacheRecent'
  <2>. SUFFICES ASSUME NEW b \in Companies, cache'[b].exchange # None
                PROVE  (Given(b, cache[b].exchange, cache[b].day) /\ cache[b].day + 2 >= day)'
    BY DEF CacheRecent
  <2>1. CASE b = c
    <3>1. cache'[b].exchange = x /\ cache'[b].day = day
      BY <1>1, <1>2, <2>1
    <3>. QED
      BY <1>2, <2>1, <3>1 DEF Given
  <2>2. CASE b # c
    <3>1. cache'[b] = cache[b]
      BY <1>1, <1>2, <2>2
    <3>. QED
      BY <3>1 DEF DetailsInv, CacheRecent, Given
  <2>. QED
    BY <2>1, <2>2
<1>. QED
  BY <1>3, <1>4

\* A load writes what it has read, on the same day.
LEMMA LoadDetails ==
    ASSUME DetailsInv, NEW l \in Loads, NEW c \in Companies, LoadCompany(l, c)
    PROVE  DetailsInv'
<1>1. /\ load[l][c] \in Exchanges \union {None}
      /\ load' = [load EXCEPT ![l][c] = "done"]
      /\ UNCHANGED cache \/ (load[l][c] \in Exchanges /\ Set(c, load[l][c]))
      /\ UNCHANGED <<master, listed, day, age, collection, held, task, replaying>>
  BY DEF LoadCompany, work
<1>2. load \in [Loads -> [Companies -> LoadStates]] /\ cache \in [Companies -> CacheRecords]
  BY DEF DetailsInv, DetailTypes
<1>3. load' \in [Loads -> [Companies -> LoadStates]]
  BY <1>1, <1>2 DEF LoadStates
<1>4. LoadNow'
  <2>. SUFFICES ASSUME NEW m \in Loads, NEW b \in Companies, load'[m][b] \in Exchanges
                PROVE  Given(b, load[m][b], day)'
    BY DEF LoadNow
  <2>1. load'[m][b] = load[m][b]
    BY <1>1, <1>2, NoExchange
  <2>. QED
    BY <1>1, <2>1 DEF DetailsInv, LoadNow, Given
<1>5. cache' \in [Companies -> CacheRecords] /\ CacheRecent'
  <2>1. CASE UNCHANGED cache
    BY <1>1, <1>2, <2>1 DEF DetailsInv, CacheRecent, Given
  <2>2. CASE load[l][c] \in Exchanges /\ Set(c, load[l][c])
    <3>1. Given(c, load[l][c], day)
      BY <2>2 DEF DetailsInv, LoadNow
    <3>. QED
      BY <1>1, <2>2, <3>1, SetRecent
  <2>. QED
    BY <1>1, <2>1, <2>2
<1>. QED
  BY <1>1, <1>3, <1>4, <1>5, LoadStep

-----------------------------------------------------------------------------
(***************************************************************************)
(* The documents and the goroutines keep DetailsInv.                       *)
(***************************************************************************)

\* A step of the loop, of a goroutine or of the replay tool leaves the master, the loads
\* and the clock alone.
LEMMA DocumentStep ==
    ASSUME DetailsInv, UNCHANGED <<master, listed, day, load>>,
           age' \in Int, replaying' \in Seq(Nat), Len(collection') <= Len(News),
           cache' \in [Companies -> CacheRecords], CacheRecent',
           TaskRecent', HeldKnown', ReplayInOrder', DetailsRecent'
    PROVE  DetailsInv'
<1>1. DetailTypes' /\ NoneAhead' /\ MasterNow'
  BY DEF DetailsInv, DetailTypes, NoneAhead, MasterNow, Given
<1>2. LoadNow'
  BY DEF DetailsInv, LoadNow, Given
<1>. QED
  BY <1>1, <1>2 DEF DetailsInv

\* Steps of the loop that put nothing to work.
LEMMA LoopStep ==
    ASSUME DetailsInv,
           UNCHANGED <<master, listed, cache, day, load, age, replaying, collection, task>>,
           HeldKnown'
    PROVE  DetailsInv'
<1>1. age' \in Int /\ replaying' \in Seq(Nat) /\ cache' \in [Companies -> CacheRecords]
  BY DEF DetailsInv, DetailTypes
<1>2. CacheRecent' /\ ReplayInOrder' /\ DetailsRecent'
  BY DEF DetailsInv, CacheRecent, Given, ReplayInOrder, DetailsRecent
<1>3. TaskRecent'
  BY DEF DetailsInv, TaskRecent, Known, Given, CompanyOf
<1>. QED
  BY <1>1, <1>2, <1>3, DocumentStep DEF DetailsInv, DetailTypes

\* The collection only grows.
LEMMA InsertDetails == ASSUME Inv, DetailsInv, Insert PROVE DetailsInv'
<1>1. /\ UNCHANGED <<master, listed, cache, day, load, age, replaying, held, task>>
      /\ \E n \in News[Len(collection) + 1] : collection' = Append(collection, n)
  BY DEF Insert, work, redis
<1>2. /\ Len(collection') \in Nat /\ Len(collection) \in Nat /\ Len(collection') >= Len(collection)
      /\ \A d \in 1..Len(collection) : collection'[d] = collection[d]
  BY <1>1 DEF Inv, Types
<1>3. \A d : Known(d) => Known(d)' /\ collection'[d] = collection[d]
  BY <1>2 DEF Known
<1>4. age' \in Int /\ replaying' \in Seq(Nat) /\ cache' \in [Companies -> CacheRecords]
  BY <1>1 DEF DetailsInv, DetailTypes
<1>5. CacheRecent' /\ DetailsRecent' /\ HeldKnown'
  BY <1>1, <1>3 DEF DetailsInv, CacheRecent, Given, DetailsRecent, HeldKnown
<1>6. ReplayInOrder'
  BY <1>1, <1>2 DEF DetailsInv, ReplayInOrder
<1>7. TaskRecent'
  <2>. SUFFICES ASSUME NEW k \in Callers \X Docs, task[k].pc # "idle"
                PROVE  /\ Known(k[2])'
                       /\ task[k].pc = "cache" => Given(CompanyOf(k), task[k].exchange, day)'
                       /\ task[k].pc = "publish" => Given(CompanyOf(k), task[k].exchange, day - 2)'
    BY <1>1 DEF TaskRecent
  <2>1. Known(k[2]) /\ Known(k[2])' /\ CompanyOf(k)' = CompanyOf(k)
    BY <1>3 DEF DetailsInv, TaskRecent, CompanyOf
  <2>. QED
    BY <1>1, <2>1 DEF DetailsInv, TaskRecent, Given
<1>8. Len(collection') <= Len(News)
  BY IngestionAssumption DEF Insert, Inv, Types
<1>. QED
  BY <1>1, <1>4, <1>5, <1>6, <1>7, <1>8, DocumentStep

\* The loop holds a document only if it has a company.
LEMMA ReceiveDetails == ASSUME Inv, DetailsInv, Receive PROVE DetailsInv'
<1>0. PICK e : e = Head(stream)
  OBVIOUS
<1>1. /\ stream # << >> /\ held = {}
      /\ UNCHANGED <<master, listed, cache, day, load, age, replaying, collection, task>>
  BY DEF Receive, redis
<1>2. e \in Docs /\ e \in Range(stream)
  BY <1>0, <1>1, RangeTail DEF Inv, Types
<1>3. e \in 1..Len(collection)
  BY <1>2 DEF Inv, Types, Numbered, Docs
<1>4. held' = {} \/ (held' = {e} /\ collection[e].company # None)
  BY <1>0, <1>1 DEF Receive, Mark, ValidateNews
<1>5. HeldKnown'
  <2>1. ASSUME collection[e].company # None PROVE Known(e)'
    BY <1>1, <1>3, <2>1, CompanyType DEF Known
  <2>. QED
    BY <1>4, <2>1 DEF HeldKnown
<1>. QED
  BY <1>1, <1>5, LoopStep

\* Events, the IDs of the loop and its end are no part of DetailsInv.
LEMMA LoopDetails ==
    ASSUME DetailsInv, \/ CancelRun \/ \E n \in Docs : cleanupOldProcessedIDs(n)
                       \/ \E d \in Docs : Redeliver(d)
    PROVE  DetailsInv'
<1>1. /\ UNCHANGED <<master, listed, cache, day, load, age, replaying, collection, task>>
      /\ held' \in {held, {}}
  BY DEF CancelRun, cleanupOldProcessedIDs, Redeliver, work, redis
<1>2. HeldKnown'
  BY <1>1 DEF DetailsInv, HeldKnown, Known
<1>. QED
  BY <1>1, <1>2, LoopStep

\* A goroutine begins, goes on or ends with a document it knows and an exchange that is
\* recent.
LEMMA GoroutineStep ==
    ASSUME Inv, DetailsInv, NEW k \in Callers \X Docs, NEW t, task' = [task EXCEPT ![k] = t],
           UNCHANGED <<master, listed, day, load, collection>>,
           age' \in Int, age' <= 2, held' \subseteq held,
           cache' \in [Companies -> CacheRecords], CacheRecent',
           replaying' \in Seq(Nat), ReplayInOrder',
           t.pc # "idle" => Known(k[2]),
           t.pc = "cache" => Given(CompanyOf(k), t.exchange, day),
           t.pc = "publish" => Given(CompanyOf(k), t.exchange, day - 2)
    PROVE  DetailsInv'
<1>1. \A j \in Callers \X Docs : task'[j] = IF j = k THEN t ELSE task[j]
  BY DEF Inv, Types
<1>2. HeldKnown' /\ DetailsRecent'
  BY DEF DetailsInv, HeldKnown, Known, DetailsRecent
<1>3. TaskRecent'
  <2>. SUFFICES ASSUME NEW j \in Callers \X Docs
                PROVE  /\ task'[j].pc # "idle" => Known(j[2])'
                       /\ task'[j].pc = "cache" => Given(CompanyOf(j), task[j].exchange, day)'
                       /\ task'[j].pc = "publish" => Given(CompanyOf(j), task[j].exchange, day - 2)'
    BY DEF TaskRecent
  <2>1. CASE j = k
    <3>1. task'[j] = t
      BY <1>1, <2>1
    <3>. QED
      BY <2>1, <3>1 DEF Known, Given, CompanyOf
  <2>2. CASE j # k
    <3>1. task'[j] = task[j]
      BY <1>1, <2>2
    <3>. QED
      BY <3>1 DEF DetailsInv, TaskRecent, Known, Given, CompanyOf
  <2>. QED
    BY <2>1, <2>2
<1>4. Len(collection') <= Len(News)
  BY DEF DetailsInv, DetailTypes
<1>. QED
  BY <1>2, <1>3, <1>4, DocumentStep

\* Redis, the age and the list of the replay tool stay as they are.
LEMMA GoesOn ==
    ASSUME Inv, DetailsInv, NEW k \in Callers \X Docs, NEW t, task' = [task EXCEPT ![k] = t],
           UNCHANGED <<collection, replaying>>, task[k].pc # "idle" \/ k[1] # "replay"
    PROVE  replaying' \in Seq(Nat) /\ ReplayInOrder'
<1>1. replaying' \in Seq(Nat)
  BY DEF DetailsInv, DetailTypes
<1>2. \A j \in Callers \X Docs : task'[j] = IF j = k THEN t ELSE task[j]
  BY DEF Inv, Types
<1>3. ASSUME NEW d \in Docs, task'[<<"replay", d>>].pc # "idle" PROVE replaying' # << >> /\ d = Head(replaying')
  <2>1. <<"replay", d>> \in Callers \X Docs
    BY DEF Callers
  <2>2. task[<<"replay", d>>].pc # "idle"
    BY <1>2, <1>3, <2>1
  <2>. QED
    BY <2>2 DEF DetailsInv, ReplayInOrder
<1>4. \A d \in Range(replaying') : d \in 1..Len(collection')
  BY DEF DetailsInv, ReplayInOrder
<1>. QED
  BY <1>1, <1>3, <1>4 DEF ReplayInOrder

\* The replay tool handles one document at a time.
LEMMA GoesToNext ==
    ASSUME Inv, DetailsInv, NEW k \in Callers \X Docs, task[k].pc # "idle", End(k),
           UNCHANGED collection
    PROVE  replaying' \in Seq(Nat) /\ ReplayInOrder' /\ task' = [task EXCEPT ![k] = Idle]
<1>1. task' = [task EXCEPT ![k] = Idle]
  BY DEF End
<1>2. CASE k[1] = "watcher"
  <2>1. UNCHANGED replaying /\ k[1] # "replay"
    BY <1>2 DEF End
  <2>2. PICK t : t = Idle
    OBVIOUS
  <2>. QED
    BY <1>1, <2>1, <2>2, GoesOn
<1>3. CASE k[1] = "replay"
  <2>1. k[2] \in Docs /\ k = <<"replay", k[2]>> /\ replaying' = Tail(replaying)
    BY <1>3 DEF End
  <2>2. replaying # << >> /\ k[2] = Head(replaying)
    BY <2>1 DEF DetailsInv, ReplayInOrder
  <2>3. replaying' \in Seq(Nat) /\ Range(replaying') \subseteq Range(replaying)
    BY <2>1, <2>2, RangeTail DEF DetailsInv, DetailTypes
  <2>4. ASSUME NEW d \in Docs PROVE task'[<<"replay", d>>].pc = "idle"
    <3>1. <<"replay", d>> \in Callers \X Docs
      BY DEF Callers
    <3>2. CASE d = k[2]
      BY <1>1, <2>1, <3>1, <3>2 DEF Inv, Types, Idle
    <3>3. CASE d # k[2]
      <4>1. task[<<"replay", d>>].pc = "idle"
        BY <2>2, <3>3 DEF DetailsInv, ReplayInOrder
      <4>2. <<"replay", d>> # k
        BY <2>1, <3>3
      <4>. QED
        BY <1>1, <3>1, <4>1, <4>2 DEF Inv, Types
    <3>. QED
      BY <3>2, <3>3
  <2>5. ReplayInOrder'
    BY <2>3, <2>4 DEF DetailsInv, ReplayInOrder
  <2>. QED
    BY <1>1, <2>3, <2>5
<1>. QED
  BY <1>2, <1>3 DEF Callers

\* A waiting document gets its goroutine.
LEMMA AcquireDetails == ASSUME Inv, DetailsInv, NEW e \in Docs, Acquire(e) PROVE DetailsInv'
<1>1. PICK k \in Callers \X Docs : k = <<"watcher", e>>
  BY DEF Callers
<1>. DEFINE t == [Idle EXCEPT !.pc = "lookup"]
<1>2. /\ task' = [task EXCEPT ![k] = t] /\ e \in held /\ held' = {}
      /\ UNCHANGED <<master, listed, day, load, collection, cache, age, replaying>>
  BY <1>1 DEF Acquire, redis
<1>3. t.pc = "lookup" /\ Known(k[2]) /\ k[1] = "watcher"
  BY <1>1, <1>2 DEF Idle, DetailsInv, HeldKnown
<1>4. /\ age' \in Int /\ age' <= 2 /\ cache' \in [Companies -> CacheRecords] /\ CacheRecent'
  BY <1>2 DEF DetailsInv, DetailTypes, DetailsRecent, CacheRecent, Given
<1>5. replaying' \in Seq(Nat) /\ ReplayInOrder'
  BY <1>2, <1>3, GoesOn
<1>. QED
  BY <1>2, <1>3, <1>4, <1>5, GoroutineStep

\* enrichAndPublish returns.
LEMMA EndDetails ==
    ASSUME Inv, DetailsInv, NEW k \in Callers \X Docs, task[k].pc # "idle", End(k),
           UNCHANGED <<master, listed, day, load, collection, cache, held>>, age' \in Int, age' <= 2
    PROVE  DetailsInv'
<1>1. replaying' \in Seq(Nat) /\ ReplayInOrder' /\ task' = [task EXCEPT ![k] = Idle]
  BY GoesToNext
<1>2. cache' \in [Companies -> CacheRecords] /\ CacheRecent'
  BY DEF DetailsInv, DetailTypes, CacheRecent, Given
<1>3. PICK t : t = Idle
  OBVIOUS
<1>4. t.pc = "idle"
  BY <1>3 DEF Idle
<1>. QED
  BY <1>1, <1>2, <1>3, <1>4, GoroutineStep

\* What Redis or the master gives is recent.
LEMMA LookupDetails ==
    ASSUME Inv, DetailsInv, NEW k \in Callers \X Docs, Lookup(k) \/ Fetch(k)
    PROVE  DetailsInv'
<1>1. /\ task[k].pc # "idle"
      /\ UNCHANGED <<master, listed, day, load, collection, cache, held, age>>
  BY DEF Lookup, Fetch, redis
<1>2. age' \in Int /\ age' <= 2 /\ cache' \in [Companies -> CacheRecords] /\ CacheRecent'
  BY <1>1 DEF DetailsInv, DetailTypes, DetailsRecent, CacheRecent, Given
<1>3. Known(k[2]) /\ CompanyOf(k) \in Companies /\ day \in Nat
  BY <1>1 DEF DetailsInv, DetailTypes, TaskRecent, Known, CompanyOf
<1>4. CASE Drop(k)
  BY <1>1, <1>2, <1>4, EndDetails DEF Drop
<1>5. ASSUME NEW pc, NEW x, Goto(k, pc, x), pc \in {"publish", "fetch", "cache"},
             pc = "cache" => Given(CompanyOf(k), x, day),
             pc = "publish" => Given(CompanyOf(k), x, day - 2)
      PROVE  DetailsInv'
  <2>1. PICK t : t = [pc |-> pc, exchange |-> x]
    OBVIOUS
  <2>2. task' = [task EXCEPT ![k] = t] /\ UNCHANGED replaying /\ t.pc = pc /\ t.exchange = x
    BY <1>5, <2>1 DEF Goto
  <2>3. replaying' \in Seq(Nat) /\ ReplayInOrder'
    BY <1>1, <2>2, GoesOn
  <2>. QED
    BY <1>1, <1>2, <1>3, <1>5, <2>2, <2>3, GoroutineStep
<1>6. CASE Get(CompanyOf(k)) # None /\ Goto(k, "publish", Get(CompanyOf(k)))
  <2>1. PICK c \in Companies : c = CompanyOf(k)
    BY <1>3
  <2>2. /\ Given(c, cache[c].exchange, cache[c].day) /\ cache[c].day + 2 >= day
        /\ cache[c].day \in Int
    BY <1>6, <2>1 DEF DetailsInv, DetailTypes, CacheRecords, CacheRecent, Get
  <2>3. <<c, cache[c].exchange>> \in Companies \X Exchanges
    BY <2>2 DEF Given
  <2>4. listed[<<c, cache[c].exchange>>] \in Int
    BY <2>3 DEF DetailsInv, DetailTypes
  <2>5. Given(CompanyOf(k), Get(CompanyOf(k)), day - 2)
    BY <1>3, <2>1, <2>2, <2>4 DEF Given, Get
  <2>. QED
    BY <1>5, <1>6, <2>5
<1>7. CASE Goto(k, "fetch", None)
  BY <1>5, <1>7
<1>8. CASE Exchange(master[CompanyOf(k)]) # None /\ Goto(k, "cache", Exchange(master[CompanyOf(k)]))
  <2>1. Given(CompanyOf(k), Exchange(master[CompanyOf(k)]), day)
    BY <1>3, <1>8 DEF DetailsInv, MasterNow
  <2>. QED
    BY <1>5, <1>8, <2>1
<1>. QED
  BY <1>4, <1>6, <1>7, <1>8 DEF Lookup, Fetch

\* What was fetched is written and used on the same day.
LEMMA CacheDetailsKept ==
    ASSUME Inv, DetailsInv, NEW k \in Callers \X Docs, CacheDetails(k)
    PROVE  DetailsInv'
<1>1. /\ task[k].pc = "cache" /\ Goto(k, "publish", task[k].exchange)
      /\ UNCHANGED cache \/ Set(CompanyOf(k), task[k].exchange)
      /\ UNCHANGED <<master, listed, day, load, collection, held, age>>
  BY DEF CacheDetails
<1>2. PICK c \in Companies, x \in Exchanges :
         c = CompanyOf(k) /\ x = task[k].exchange /\ Given(c, x, day)
  BY <1>1 DEF DetailsInv, TaskRecent, Known, CompanyOf, Given
<1>3. cache' \in [Companies -> CacheRecords] /\ CacheRecent'
  <2>1. CASE UNCHANGED cache
    BY <1>1, <2>1 DEF DetailsInv, DetailTypes, CacheRecent, Given
  <2>2. CASE Set(CompanyOf(k), task[k].exchange)
    BY <1>1, <1>2, <2>2, SetRecent
  <2>. QED
    BY <1>1, <2>1, <2>2
<1>4. PICK t : t = [pc |-> "publish", exchange |-> x]
  OBVIOUS
<1>5. task' = [task EXCEPT ![k] = t] /\ UNCHANGED replaying /\ t.pc = "publish" /\ t.exchange = x
  BY <1>1, <1>2, <1>4 DEF Goto
<1>6. replaying' \in Seq(Nat) /\ ReplayInOrder'
  BY <1>1, <1>5, GoesOn
<1>7. age' \in Int /\ age' <= 2 /\ Known(k[2])
  BY <1>1 DEF DetailsInv, DetailTypes, DetailsRecent, TaskRecent
<1>8. Given(CompanyOf(k), t.exchange, day - 2)
  <2>1. listed[<<c, x>>] \in Int /\ day \in Nat
    BY DEF DetailsInv, DetailTypes
  <2>. QED
    BY <1>2, <1>5, <2>1 DEF Given
<1>. QED
  BY <1>1, <1>3, <1>5, <1>6, <1>7, <1>8, GoroutineStep

\* What is published is recent.
LEMMA PublishDetails ==
    ASSUME Inv, DetailsInv, NEW k \in Callers \X Docs, Publish(k)
    PROVE  DetailsInv'
<1>1. /\ task[k].pc = "publish" /\ End(k) /\ (UNCHANGED age \/ Written(k))
      /\ UNCHANGED <<master, listed, day, load, collection, cache, held>>
  BY DEF Publish, Drop, redis
<1>2. PICK c \in Companies, x \in Exchanges :
         c = CompanyOf(k) /\ x = task[k].exchange /\ Given(c, x, day - 2)
  BY <1>1 DEF DetailsInv, TaskRecent, Known, CompanyOf, Given
<1>3. listed[<<c, x>>] \in Int /\ day \in Nat /\ listed[<<c, x>>] >= day - 2
  BY <1>2 DEF DetailsInv, DetailTypes, Given
<1>4. age' \in Int /\ age' <= 2
  <2>1. CASE UNCHANGED age
    BY <2>1 DEF DetailsInv, DetailTypes, DetailsRecent
  <2>2. CASE Written(k)
    <3>1. age' = day - listed[<<c, x>>]
      BY <1>2, <2>2 DEF Written
    <3>. QED
      BY <1>3, <3>1
  <2>. QED
    BY <1>1, <2>1, <2>2
<1>. QED
  BY <1>1, <1>4, EndDetails

\* The process ends: its loads and goroutines are gone.
LEMMA ExitDetails == ASSUME Inv, DetailsInv, Exit PROVE DetailsInv'
<1>1. /\ task' = [k \in DOMAIN task |-> IF k[1] = "watcher" THEN Idle ELSE task[k]]
      /\ held' = {} /\ load' = [l \in Loads |-> Done]
      /\ UNCHANGED <<master, listed, cache, replaying, age, day, collection>>
  BY DEF Exit, redis
<1>2. \A k \in Callers \X Docs : task'[k] = IF k[1] = "watcher" THEN Idle ELSE task[k]
  BY <1>1 DEF Inv, Types
<1>3. /\ DetailTypes' /\ NoneAhead' /\ MasterNow' /\ CacheRecent' /\ DetailsRecent' /\ HeldKnown'
  <2>1. load' \in [Loads -> [Companies -> LoadStates]]
    BY <1>1 DEF Done, LoadStates
  <2>2. DetailTypes'
    BY <1>1, <2>1 DEF DetailsInv, DetailTypes
  <2>. QED
    BY <1>1, <2>2 DEF DetailsInv, NoneAhead, MasterNow, CacheRecent, Given, DetailsRecent, HeldKnown
<1>4. LoadNow'
  BY <1>1, NoExchange DEF LoadNow, Done
<1>5. TaskRecent'
  <2>. SUFFICES ASSUME NEW k \in Callers \X Docs, task'[k].pc # "idle"
                PROVE  /\ Known(k[2])'
                       /\ task'[k].pc = "cache" => Given(CompanyOf(k), task[k].exchange, day)'
                       /\ task'[k].pc = "publish" => Given(CompanyOf(k), task[k].exchange, day - 2)'
    BY DEF TaskRecent
  <2>1. task'[k] = task[k]
    BY <1>2 DEF Idle
  <2>. QED
    BY <1>1, <2>1 DEF DetailsInv, TaskRecent, Known, Given, CompanyOf
<1>6. ReplayInOrder'
  <2>1. \A d \in Docs : task'[<<"replay", d>>] = task[<<"replay", d>>]
    BY <1>2 DEF Callers
  <2>. QED
    BY <1>1, <2>1 DEF DetailsInv, ReplayInOrder
<1>. QED
  BY <1>3, <1>4, <1>5, <1>6 DEF DetailsInv

\* The replay tool begins.
LEMMA ReplayDetails == ASSUME Inv, DetailsInv, NEW n \in Docs, Replay(n) PROVE DetailsInv'
<1>. DEFINE last == Len(collection)
            list == [i \in 1..n |-> last + 1 - i]
<1>1. /\ replaying = << >> /\ n \in DOMAIN collection
      /\ replaying' = list \/ replaying' = << >>
      /\ UNCHANGED <<master, listed, cache, day, load, age, held, collection, task>>
  BY DEF Replay, redis
<1>2. last \in Nat /\ n \in 1..last
  BY <1>1 DEF Inv, Types
<1>3. list \in Seq(Nat) /\ \A d \in Range(list) : d \in 1..last
  <2>1. list \in [1..n -> 1..last]
    BY <1>2
  <2>2. list \in Seq(1..last) /\ DOMAIN list = 1..n
    BY <1>2, <2>1
  <2>3. list \in Seq(Nat)
    BY <1>2, <2>1
  <2>. QED
    BY <2>1, <2>2, <2>3 DEF Range
<1>. HIDE DEF list
<1>4. replaying' \in Seq(Nat) /\ \A d \in Range(replaying') : d \in 1..last
  <2>1. CASE replaying' = list
    BY <1>3, <2>1
  <2>2. CASE replaying' = << >>
    <3>1. << >> \in Seq(Nat) /\ Range(<< >>) = {}
      BY DEF Range
    <3>. QED
      BY <2>2, <3>1
  <2>. QED
    BY <1>1, <2>1, <2>2
<1>5. \A d \in Docs : task'[<<"replay", d>>].pc = "idle"
  BY <1>1 DEF DetailsInv, ReplayInOrder
<1>6. ReplayInOrder'
  BY <1>1, <1>4, <1>5 DEF ReplayInOrder
<1>7. age' \in Int /\ cache' \in [Companies -> CacheRecords] /\ CacheRecent' /\ HeldKnown' /\ DetailsRecent'
  BY <1>1 DEF DetailsInv, DetailTypes, CacheRecent, Given, HeldKnown, Known, DetailsRecent
<1>8. TaskRecent'
  BY <1>1 DEF DetailsInv, TaskRecent, Known, Given, CompanyOf
<1>. QED
  BY <1>1, <1>4, <1>6, <1>7, <1>8, DocumentStep DEF DetailsInv, DetailTypes

\* The replay tool takes its next document, or skips it.
LEMMA ReplayNextDetails == ASSUME Inv, DetailsInv, ReplayNext PROVE DetailsInv'
<1>1. PICK e : e = Head(replaying)
  OBVIOUS
<1>2. /\ replaying # << >> /\ task[<<"replay", e>>].pc = "idle"
      /\ \/ replaying' = Tail(replaying) /\ UNCHANGED task
         \/ /\ collection[e].company # None /\ UNCHANGED replaying
            /\ task' = [task EXCEPT ![<<"replay", e>>] = [Idle EXCEPT !.pc = "lookup"]]
      /\ UNCHANGED <<master, listed, cache, day, load, age, held, collection>>
  BY <1>1 DEF ReplayNext, redis
<1>3. replaying \in Seq(Nat) /\ e \in Range(replaying) /\ e \in 1..Len(collection)
  <2>1. replaying \in Seq(Nat)
    BY DEF DetailsInv, DetailTypes
  <2>2. e \in Range(replaying)
    BY <1>1, <1>2, <2>1, RangeTail
  <2>. QED
    BY <2>1, <2>2 DEF DetailsInv, ReplayInOrder
<1>4. age' \in Int /\ age' <= 2 /\ cache' \in [Companies -> CacheRecords] /\ CacheRecent'
  BY <1>2 DEF DetailsInv, DetailTypes, DetailsRecent, CacheRecent, Given
<1>5. \A d \in Docs : task[<<"replay", d>>].pc = "idle"
  BY <1>1, <1>2 DEF DetailsInv, ReplayInOrder
<1>6. CASE replaying' = Tail(replaying) /\ UNCHANGED task
  <2>1. replaying' \in Seq(Nat) /\ Range(replaying') \subseteq Range(replaying)
    BY <1>2, <1>3, <1>6, RangeTail
  <2>2. ReplayInOrder'
    BY <1>2, <1>5, <1>6, <2>1 DEF DetailsInv, ReplayInOrder
  <2>3. TaskRecent' /\ HeldKnown' /\ DetailsRecent'
    BY <1>2, <1>6 DEF DetailsInv, TaskRecent, HeldKnown, Known, Given, CompanyOf, DetailsRecent
  <2>. QED
    BY <1>2, <1>4, <2>1, <2>2, <2>3, DocumentStep DEF DetailsInv, DetailTypes
<1>7. CASE /\ collection[e].company # None /\ UNCHANGED replaying
           /\ task' = [task EXCEPT ![<<"replay", e>>] = [Idle EXCEPT !.pc = "lookup"]]
  <2>1. e \in Docs /\ <<"replay", e>> \in Callers \X Docs
    <3>1. Len(collection) \in Nat /\ Len(collection) <= Len(News) /\ Len(News) \in Nat
      BY IngestionAssumption DEF Inv, Types, DetailsInv, DetailTypes
    <3>. QED
      BY <1>3, <3>1 DEF Docs, Callers
  <2>2. Known(e)
    BY <1>3, <1>7, CompanyType
  <2>3. PICK t : t = [Idle EXCEPT !.pc = "lookup"]
    OBVIOUS
  <2>4. t.pc = "lookup" /\ task' = [task EXCEPT ![<<"replay", e>>] = t]
    BY <1>7, <2>3 DEF Idle
  <2>5. replaying' \in Seq(Nat) /\ ReplayInOrder'
    <3>1. \A d \in Docs : d # e => task'[<<"replay", d>>] = task[<<"replay", d>>]
      BY <2>1, <2>4 DEF Inv, Types, Callers
    <3>. QED
      BY <1>1, <1>2, <1>3, <1>5, <1>7, <3>1 DEF DetailsInv, ReplayInOrder
  <2>6. PICK k \in Callers \X Docs : k = <<"replay", e>>
    BY <2>1
  <2>. QED
    BY <1>2, <1>4, <2>2, <2>4, <2>5, <2>6, GoroutineStep
<1>. QED
  BY <1>2, <1>6, <1>7

\* Every step keeps DetailsInv.
LEMMA DetailsStep == Inv /\ DetailsInv /\ [Next]_vars => DetailsInv'
<1>. SUFFICES ASSUME Inv, DetailsInv, [Next]_vars PROVE DetailsInv'
  OBVIOUS
<1>1. CASE UNCHANGED vars
  <2>1. UNCHANGED <<master, listed, cache, day, load, age, replaying, collection, task, held>>
    BY <1>1 DEF vars, work, redis
  <2>2. HeldKnown'
    BY <2>1 DEF DetailsInv, HeldKnown, Known
  <2>. QED
    BY <2>1, <2>2, LoopStep
<1>2. CASE Insert \/ NewDay \/ Receive \/ Exit \/ ReplayNext
  BY <1>2, InsertDetails, DayDetails, ReceiveDetails, ExitDetails, ReplayNextDetails
<1>3. CASE CancelRun \/ Start \/ BeginDaily
  BY <1>3, LoopDetails, LoadEndsDetails
<1>4. ASSUME NEW d \in Docs, Redeliver(d) \/ Acquire(d) PROVE DetailsInv'
  BY <1>4, LoopDetails, AcquireDetails
<1>5. ASSUME NEW c \in Companies,
             Expire(c) \/ \E active \in SUBSET Exchanges : UpdateMaster(c, active)
      PROVE  DetailsInv'
  BY <1>5, ExpireDetails, UpdateDetails
<1>6. ASSUME NEW n \in Docs, cleanupOldProcessedIDs(n) \/ Replay(n) PROVE DetailsInv'
  BY <1>6, LoopDetails, ReplayDetails
<1>7. ASSUME NEW k \in Callers \X Docs, Step(k) PROVE DetailsInv'
  BY <1>7, LookupDetails, CacheDetailsKept, PublishDetails DEF Step
<1>8. ASSUME NEW l \in Loads, \/ \E batch \in SUBSET Companies : FetchBatch(l, batch)
                              \/ \E c \in Companies : LoadCompany(l, c)
                              \/ LoadFails(l)
      PROVE  DetailsInv'
  BY <1>8, BatchDetails, LoadDetails, LoadEndsDetails
<1>. QED
  BY <1>1, <1>2, <1>3, <1>4, <1>5, <1>6, <1>7, <1>8 DEF Next

(***************************************************************************)
(* However the loads, the lazy fetches, the replays, the updates of the    *)
(* master, the lapses of keys and the failures interleave, the exchange    *)
(* of a message was the company's in the master not earlier than the day   *)
(* before yesterday.                                                       *)
(***************************************************************************)
THEOREM DetailsAreRecent == Spec => []DetailsRecent
<1>1. DetailsInv => DetailsRecent
  BY DEF DetailsInv
<1>. QED
  BY <1>1, InitInv, NextInv, DetailsInit, DetailsStep, PTL DEF Spec

=============================================================================
