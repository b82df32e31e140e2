-------------------------- MODULE ConfigPipeline --------------------------
(***************************************************************************)
(* The path of a strategy from the user-config database to the rules       *)
(* engine:                                                                 *)
(*                                                                         *)
(*   strategies row --(one transaction)--> execution_outbox row            *)
(*     --(OutboxWorker)--> Kafka partition --(ConfigConsumer)--> store     *)
(*                                                                         *)
(* and the bootstrap of the engine, which reads the active rows page by    *)
(* page over gRPC and loads them before the consumer starts.               *)
(*                                                                         *)
(* Payloads are abstracted to the version they carry.  The writer of       *)
(* user-config balances by bytes (kafka.LeastBytes), not by key, so a      *)
(* message may land in any partition.                                      *)
(***************************************************************************)
EXTENDS ConfigStore, Sequences, SequencesExt

CONSTANTS
    Partitions,     \* partitions of user-config-events
    AmountBased,    \* strategies sized by amount: their quantity is 0
    PageSize,       \* rows of a GetAllActiveStrategies page (500)
    BatchSize,      \* outbox rows read at once (50)
    Overlap,        \* outbox rows a transaction's created_at may precede
    Operations,     \* what the users and the schedulers do in this instance
    MaxTx,          \* bound: transactions
    MaxFaults,      \* bound: failed Kafka or database calls of the worker
    MaxRestarts     \* bound: restarts of the engine

ASSUME PipelineAssumption ==
    /\ AmountBased \subseteq Strategies
    /\ PageSize \in Nat \ {0} /\ BatchSize \in Nat \ {0}
    /\ {Overlap, MaxTx, MaxFaults, MaxRestarts} \subseteq Nat

VARIABLES
    version,      \* strategies.version, 0 = no row
    deletedAt,    \* version given by the first Delete, 0 = deleted_at IS NULL
    recent,       \* the active rows ordered by updated_at DESC
    pending,      \* execution_outbox rows with processed = false, by created_at
    batch,        \* the rows processOutbox is working on, <<>> = waiting for a tick
    sent,         \* how many rows of the batch were published
    failed,       \* an error ended the batch
    topic,        \* per partition: the messages after the committed offset
    pos,          \* per partition: how many of them this process has consumed
    engine,       \* "loading" (bootstrap) or "live"
    fetched,      \* versions returned by the pages read so far
    offset,       \* the page token
    published,    \* history: outbox rows <<s, v>> whose message reached Kafka
    tx, faults, restarts

dbVars == <<version, deletedAt, recent, pending>>
workerVars == <<batch, sent, failed, published>>
kafkaVars == <<topic, pos>>
engineVars == <<engine, fetched, offset>>
bounds == <<tx, faults, restarts>>
vars == <<storeVars, dbVars, workerVars, kafkaVars, engineVars, bounds>>

Kinds == {"CREATED", "UPDATED", "ACTIVATED", "DEACTIVATED", "DELETED"}
Row(kind, s, v) == [kind |-> kind, s |-> s, v |-> v]
Message(type, s, v) == [type |-> type, s |-> s, v |-> v]

Rows == [kind : Kinds, s : Strategies, v : Nat]
Messages == [type : {"CONFIG_CREATED", "CONFIG_UPDATED", "CONFIG_PAUSED", "CONFIG_DELETED"},
             s : Strategies, v : Nat]

TypeOK ==
    /\ StoreTypeOK
    /\ version \in [Strategies -> Nat]
    /\ deletedAt \in [Strategies -> Nat]
    /\ recent \in Seq(Strategies)
    /\ pending \in Seq(Rows) /\ batch \in Seq(Rows)
    /\ sent \in 0..Len(batch) /\ failed \in BOOLEAN
    /\ topic \in [Partitions -> Seq(Messages)]
    /\ pos \in [Partitions -> Nat] /\ \A p \in Partitions : pos[p] <= Len(topic[p])
    /\ engine \in {"loading", "live"}
    /\ fetched \in [Strategies -> Nat] /\ offset \in Nat
    /\ published \subseteq Strategies \X Nat
    /\ tx \in 0..MaxTx /\ faults \in 0..MaxFaults /\ restarts \in 0..MaxRestarts

\* A fresh system: the engine has loaded the empty database.
Init ==
    /\ StoreInit
    /\ version = Empty /\ deletedAt = Empty
    /\ recent = <<>> /\ pending = <<>>
    /\ batch = <<>> /\ sent = 0 /\ failed = FALSE /\ published = {}
    /\ topic = [p \in Partitions |-> <<>>]
    /\ pos = [p \in Partitions |-> 0]
    /\ engine = "live" /\ fetched = Empty /\ offset = 0
    /\ tx = 0 /\ faults = 0 /\ restarts = 0

-----------------------------------------------------------------------------
(***************************************************************************)
(* Transactions of user-config.  Each changes the row and inserts one      *)
(* outbox row per changed strategy.  created_at is NOW(), the start of the *)
(* transaction: of two that overlap, the one that waits for the row lock   *)
(* gets the later version and may have the earlier created_at.  No         *)
(* transaction on a strategy starts before the strategy was created.       *)
(***************************************************************************)
Without(seq, S) ==
    LET Kept[i \in 0..Len(seq)] ==
            IF i = 0 THEN <<>>
            ELSE IF seq[i] \in S THEN Kept[i - 1] ELSE Append(Kept[i - 1], seq[i])
    IN  Kept[Len(seq)]

Insert(rows) ==
    \E back \in 0..Overlap :
        LET k == Len(pending) - back IN
        /\ k >= 0
        /\ \A i \in k + 1..Len(pending) :
              pending[i].kind = "CREATED" => \A r \in Range(rows) : r.s # pending[i].s
        /\ pending' = SubSeq(pending, 1, k) \o rows \o SubSeq(pending, k + 1, Len(pending))

Transaction(op) ==
    /\ op \in Operations
    /\ tx < MaxTx
    /\ tx' = tx + 1
    /\ UNCHANGED <<storeVars, workerVars, kafkaVars, engineVars, faults, restarts>>

Exists(s) == version[s] # 0 /\ deletedAt[s] = 0

Create(s, activateImmediately) ==
    /\ Transaction(IF activateImmediately THEN "create" ELSE "create inactive")
    /\ version[s] = 0
    /\ version' = [version EXCEPT ![s] = 1]
    /\ recent' = IF activateImmediately THEN <<s>> \o recent ELSE recent
    /\ Insert(<<Row("CREATED", s, 1)>>)
    /\ UNCHANGED deletedAt

\* The optimistic lock of Update fails for all but one of the writers that
\* read the same version; the transaction below is the one that succeeds.
Update(s) ==
    LET on == s \in Range(recent) IN
    /\ Transaction(IF on THEN "update" ELSE "update inactive")
    /\ Exists(s)
    /\ version' = [version EXCEPT ![s] = @ + 1]
    /\ recent' = IF on THEN <<s>> \o Without(recent, {s}) ELSE recent
    /\ Insert(<<Row("UPDATED", s, version'[s])>>)
    /\ UNCHANGED deletedAt

Activate(s) ==
    /\ Transaction("activate")
    /\ Exists(s)
    /\ version' = [version EXCEPT ![s] = @ + 1]
    /\ recent' = <<s>> \o Without(recent, {s})
    /\ Insert(<<Row("ACTIVATED", s, version'[s])>>)
    /\ UNCHANGED deletedAt

Deactivate(s) ==
    /\ Transaction("deactivate")
    /\ Exists(s)
    /\ version' = [version EXCEPT ![s] = @ + 1]
    /\ recent' = Without(recent, {s})
    /\ Insert(<<Row("DEACTIVATED", s, version'[s])>>)
    /\ UNCHANGED deletedAt

\* The end-of-day jobs: the active rows of a trading mode, or those with a
\* given square-off time, in one transaction.
DeactivateActive(S) ==
    /\ Transaction("end of day")
    /\ S # {} /\ S \subseteq Range(recent)
    /\ version' = [s \in Strategies |-> IF s \in S THEN version[s] + 1 ELSE version[s]]
    /\ recent' = Without(recent, S)
    /\ Insert(SetToSeq({Row("DEACTIVATED", s, version'[s]) : s \in S}))
    /\ UNCHANGED deletedAt

\* Faulty variant: the row stays active.
DeleteKeepsActive(s) ==
    /\ Transaction("delete")
    /\ version[s] # 0
    /\ version' = [version EXCEPT ![s] = @ + 1]
    /\ deletedAt' = [deletedAt EXCEPT ![s] = IF @ = 0 THEN version[s] + 1 ELSE @]
    /\ Insert(<<Row("DELETED", s, version'[s])>>)
    /\ UNCHANGED recent

\* There is no "deleted_at IS NULL" in the statement: Delete can be repeated.
Delete(s) ==
    /\ Transaction("delete")
    /\ version[s] # 0
    /\ version' = [version EXCEPT ![s] = @ + 1]
    /\ deletedAt' = [deletedAt EXCEPT ![s] = IF @ = 0 THEN version[s] + 1 ELSE @]
    /\ recent' = Without(recent, {s})
    /\ Insert(<<Row("DELETED", s, version'[s])>>)

UserConfig ==
    \/ \E s \in Strategies, on \in BOOLEAN : Create(s, on)
    \/ \E s \in Strategies : Update(s) \/ Activate(s) \/ Deactivate(s) \/ Delete(s)
    \/ \E S \in SUBSET Strategies : DeactivateActive(S)

-----------------------------------------------------------------------------
(***************************************************************************)
(* The outbox worker                                                       *)
(***************************************************************************)

ListPending ==
    /\ batch = <<>> /\ pending # <<>>
    /\ batch' = SubSeq(pending, 1, IF Len(pending) < BatchSize THEN Len(pending) ELSE BatchSize)
    /\ sent' = 0 /\ failed' = FALSE
    /\ UNCHANGED <<storeVars, dbVars, published, kafkaVars, engineVars, bounds>>

\* Faulty variant: an update is published with the version it replaced.
ToKafkaOldVersion(row) ==
    CASE row.kind = "CREATED"     -> Message("CONFIG_CREATED", row.s, row.v)
      [] row.kind = "UPDATED"     -> Message("CONFIG_UPDATED", row.s, row.v - 1)
      [] row.kind = "DELETED"     -> Message("CONFIG_DELETED", row.s, row.v)
      [] row.kind = "ACTIVATED"   -> Message("CONFIG_UPDATED", row.s, version[row.s])
      [] row.kind = "DEACTIVATED" -> Message("CONFIG_PAUSED", row.s, row.v)

\* The Kafka event of an outbox row.  ACTIVATED re-reads the strategy and
\* carries the version the row has by now.
ToKafka(row) ==
    CASE row.kind = "CREATED"     -> Message("CONFIG_CREATED", row.s, row.v)
      [] row.kind = "UPDATED"     -> Message("CONFIG_UPDATED", row.s, row.v)
      [] row.kind = "DELETED"     -> Message("CONFIG_DELETED", row.s, row.v)
      [] row.kind = "ACTIVATED"   -> Message("CONFIG_UPDATED", row.s, version[row.s])
      [] row.kind = "DEACTIVATED" -> Message("CONFIG_PAUSED", row.s, row.v)

\* GetByID does not find a deleted strategy, so the row cannot be translated.
Untranslatable(row) == row.kind = "ACTIVATED" /\ deletedAt[row.s] # 0

Working == batch # <<>> /\ ~failed /\ sent < Len(batch)

Append1(row) ==
    \E p \in Partitions :
        /\ topic' = [topic EXCEPT ![p] = Append(@, ToKafka(row))]
        /\ published' = published \union {<<row.s, row.v>>}

Publish ==
    /\ Working
    /\ ~Untranslatable(batch[sent + 1])
    /\ Append1(batch[sent + 1])
    /\ sent' = sent + 1
    /\ UNCHANGED <<storeVars, dbVars, batch, failed, pos, engineVars, bounds>>

\* The 5 s write context ends: the broker may or may not have the message.
PublishFails ==
    /\ Working
    /\ ~Untranslatable(batch[sent + 1])
    /\ faults < MaxFaults
    /\ faults' = faults + 1
    /\ failed' = TRUE
    /\ \/ Append1(batch[sent + 1])
       \/ UNCHANGED <<topic, published>>
    /\ UNCHANGED <<storeVars, dbVars, batch, sent, pos, engineVars, tx, restarts>>

TranslateFails ==
    /\ Working
    /\ Untranslatable(batch[sent + 1])
    /\ failed' = TRUE
    /\ UNCHANGED <<storeVars, dbVars, batch, sent, published, kafkaVars, engineVars, bounds>>

\* Faulty variant: a batch that met an error is never given up.
DoneWhenComplete == batch # <<>> /\ sent = Len(batch)

\* After the batch or after an error: what was published is marked processed.
Done == batch # <<>> /\ (failed \/ sent = Len(batch))

\* Faulty variant: the whole batch is marked, published or not.
MarkBatchProcessed ==
    /\ Done
    /\ pending' = Without(pending, Range(batch))
    /\ batch' = <<>> /\ sent' = 0 /\ failed' = FALSE
    /\ UNCHANGED <<storeVars, version, deletedAt, recent, published, kafkaVars, engineVars, bounds>>

MarkProcessed ==
    /\ Done
    /\ pending' = Without(pending, {batch[i] : i \in 1..sent})
    /\ batch' = <<>> /\ sent' = 0 /\ failed' = FALSE
    /\ UNCHANGED <<storeVars, version, deletedAt, recent, published, kafkaVars, engineVars, bounds>>

\* The UPDATE fails, or user-config stops anywhere in the batch: the rows
\* stay pending and are published again.
Abandon ==
    /\ batch # <<>>
    /\ faults < MaxFaults
    /\ faults' = faults + 1
    /\ batch' = <<>> /\ sent' = 0 /\ failed' = FALSE
    /\ UNCHANGED <<storeVars, dbVars, published, kafkaVars, engineVars, tx, restarts>>

OutboxWorker ==
    ListPending \/ Publish \/ PublishFails \/ TranslateFails \/ MarkProcessed \/ Abandon

-----------------------------------------------------------------------------
(***************************************************************************)
(* The rules engine                                                        *)
(***************************************************************************)

Page == SubSeq(recent, offset + 1,
               IF Len(recent) < offset + PageSize THEN Len(recent) ELSE offset + PageSize)

\* What the pages returned so far, this one included.
WithPage == [s \in Strategies |-> IF s \in Range(Page) THEN version[s] ELSE fetched[s]]

\* validateStrategyConfig rejects quantity <= 0.
Valid(loaded) == [s \in Strategies |-> IF s \in AmountBased THEN 0 ELSE loaded[s]]

FetchPage ==
    /\ engine = "loading"
    /\ Len(Page) = PageSize
    /\ fetched' = WithPage
    /\ offset' = offset + PageSize
    /\ UNCHANGED <<storeVars, dbVars, workerVars, kafkaVars, engine, bounds>>

\* A short page ends the fetch.  Run refuses to start when everything it
\* fetched was invalid; pm2 starts the process again.
FetchLastPage ==
    /\ engine = "loading"
    /\ Len(Page) < PageSize
    /\ \/ /\ WithPage # Empty /\ Valid(WithPage) = Empty
          /\ UNCHANGED <<storeVars, engine>>
       \/ /\ WithPage = Empty \/ Valid(WithPage) # Empty
          /\ BulkLoad(Valid(WithPage))
          /\ engine' = "live"
    /\ fetched' = Empty /\ offset' = 0
    /\ UNCHANGED <<dbVars, workerVars, kafkaVars, bounds>>

\* config_consumer.go Start: the stored copy is compared first, and Active is
\* set whatever the payload says.
Handle(m) ==
    \/ /\ m.type \in {"CONFIG_CREATED", "CONFIG_UPDATED"}
       /\ \/ /\ StoredVersion(m.s) < m.v
             /\ ApplyUpsert(m.s, m.v, TRUE)
          \/ /\ StoredVersion(m.s) >= m.v
             /\ UNCHANGED storeVars
    \/ m.type = "CONFIG_PAUSED" /\ ApplyPause(m.s, m.v)
    \/ m.type = "CONFIG_DELETED" /\ ApplyDelete(m.s, m.v)

Consume(p) ==
    /\ engine = "live"
    /\ pos[p] < Len(topic[p])
    /\ Handle(topic[p][pos[p] + 1])
    /\ pos' = [pos EXCEPT ![p] = @ + 1]
    /\ UNCHANGED <<dbVars, workerVars, topic, engineVars, bounds>>

\* CommitInterval 1 s: offsets reach the broker some time after the handler.
CommitOffsets(p) ==
    /\ pos[p] > 0
    /\ topic' = [topic EXCEPT ![p] = SubSeq(@, pos[p] + 1, Len(@))]
    /\ pos' = [pos EXCEPT ![p] = 0]
    /\ UNCHANGED <<storeVars, dbVars, workerVars, engineVars, bounds>>

\* The process ends, in the bootstrap or later, and starts again.
RestartEngine ==
    /\ restarts < MaxRestarts
    /\ restarts' = restarts + 1
    /\ NewStore
    /\ pos' = [p \in Partitions |-> 0]
    /\ engine' = "loading" /\ fetched' = Empty /\ offset' = 0
    /\ UNCHANGED <<dbVars, workerVars, topic, tx, faults>>

RulesEngine ==
    \/ FetchPage
    \/ FetchLastPage
    \/ \E p \in Partitions : Consume(p) \/ CommitOffsets(p)
    \/ RestartEngine

-----------------------------------------------------------------------------
Next == UserConfig \/ OutboxWorker \/ RulesEngine

(***************************************************************************)
(* The worker is driven by a ticker and the consumer by a loop: whatever   *)
(* they can do, they do.  Nothing is assumed of users, faults or restarts. *)
(***************************************************************************)
Fairness ==
    /\ WF_vars(ListPending \/ Publish \/ TranslateFails \/ MarkProcessed)
    /\ WF_vars(FetchPage \/ FetchLastPage)
    /\ \A p \in Partitions : WF_vars(Consume(p)) /\ WF_vars(CommitOffsets(p))

Spec == Init /\ [][Next]_vars
FairSpec == Spec /\ Fairness

-----------------------------------------------------------------------------
(***************************************************************************)
(* Properties                                                              *)
(***************************************************************************)

(***************************************************************************)
(* The outbox loses nothing: a change that was committed is still pending  *)
(* or its message is in Kafka, whatever failed or was abandoned, and       *)
(* whatever rows were inserted while a batch was in progress.              *)
(***************************************************************************)
NoChangeLost ==
    \A s \in Strategies : \A v \in 1..version[s] :
        <<s, v>> \in published \/ \E i \in 1..Len(pending) : pending[i].s = s /\ pending[i].v = v

\* Nothing is on the way to the engine.
Drained ==
    /\ engine = "live" /\ pending = <<>>
    /\ \A p \in Partitions : pos[p] = Len(topic[p])

(***************************************************************************)
(* Once everything was delivered, in whatever order, an active row of the  *)
(* database is active in the store at the row's version.                   *)
(***************************************************************************)
ActiveRowsServed ==
    Drained => \A s \in Range(recent) : active[s] = version[s]

(***************************************************************************)
(* Once everything was delivered, a deleted strategy is gone.  (store.go:  *)
(* "This prevents out-of-order delivery resurrecting deleted strategies.") *)
(***************************************************************************)
DeletedRowsGone ==
    Drained => \A s \in Strategies : deletedAt[s] # 0 => active[s] = 0 /\ paused[s] = 0

(***************************************************************************)
(* Once everything was delivered, a row that is not active triggers no     *)
(* trade: it is not in the active map.                                     *)
(***************************************************************************)
InactiveRowsIdle ==
    Drained => \A s \in Strategies \ Range(recent) : active[s] = 0

(***************************************************************************)
(* The store never goes back to an older copy of a strategy, unless the    *)
(* process restarts or the strategy is deleted.                            *)
(***************************************************************************)
StoredNeverRegresses ==
    [][\A s \in Strategies :
          \/ restarts' # restarts
          \/ tombstones'[s] # 0
          \/ IF active'[s] # 0 THEN active'[s] >= StoredVersion(s)
                               ELSE paused'[s] >= StoredVersion(s)]_vars

\* An ACTIVATED row whose strategy was deleted is first in the outbox.
Poisoned == pending # <<>> /\ Untranslatable(Head(pending))

(***************************************************************************)
(* The outbox empties once the users stop, however many calls failed,      *)
(* unless it is blocked by an ACTIVATED row of a deleted strategy.         *)
(***************************************************************************)
OutboxDrainsOrBlocks == <>[](pending = <<>> \/ Poisoned)

(***************************************************************************)
(* The outbox empties once the users stop.  (outbox_worker.go: "return     *)
(* error so the outer loop retries later".)                                *)
(***************************************************************************)
OutboxDrains == <>[](pending = <<>>)

(***************************************************************************)
(* The database, the outbox, Kafka and the bootstrap deliver no more than  *)
(* ConfigDelivery allows, so what is proved of the store there for every   *)
(* number of strategies and versions holds of the store here.              *)
(***************************************************************************)
Delivery == INSTANCE ConfigDelivery WITH issued <- version, MaxVersion <- MaxTx
ImplementsDelivery == Delivery!Spec

=============================================================================
