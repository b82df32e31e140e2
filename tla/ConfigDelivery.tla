-------------------------- MODULE ConfigDelivery --------------------------
(***************************************************************************)
(* What the strategy store of the rules engine may rely on, and no more:   *)
(* user-config numbers the changes of a strategy 1, 2, 3, ...; a strategy  *)
(* that was deleted is changed by further deletes only; an event carries   *)
(* the version of its change; and events arrive late, out of order, more   *)
(* than once or not at all (Kafka spreads them over partitions, the outbox *)
(* retries, the offset commit lags).  ConfigPipeline shows that the        *)
(* database, the outbox, Kafka and the bootstrap together deliver no more  *)
(* than this.                                                              *)
(***************************************************************************)
EXTENDS ConfigStore

CONSTANT MaxVersion   \* bound on the versions issued for one strategy

ASSUME MaxVersionAssumption == MaxVersion \in Nat

VARIABLES
    issued,      \* strategy_configs.version: the last version issued, 0 = no row
    deletedAt    \* version of the first delete, 0 = not deleted

contractVars == <<issued, deletedAt>>
vars == <<active, paused, versions, tombstones, issued, deletedAt>>

TypeOK ==
    /\ StoreTypeOK
    /\ issued \in [Strategies -> Nat]
    /\ deletedAt \in [Strategies -> Nat]

Init ==
    /\ StoreInit
    /\ issued = Empty
    /\ deletedAt = Empty

-----------------------------------------------------------------------------
(***************************************************************************)
(* user-config                                                             *)
(***************************************************************************)

\* A transaction changes one strategy, or (the end-of-day job) several.
Write(S) ==
    /\ \A s \in S : deletedAt[s] = 0 /\ issued[s] < MaxVersion
    /\ issued' = [s \in Strategies |-> IF s \in S THEN issued[s] + 1 ELSE issued[s]]
    /\ UNCHANGED <<deletedAt, storeVars>>

\* Delete has no "deleted_at IS NULL" guard: it can be repeated.
Delete(s) ==
    /\ issued[s] # 0 /\ issued[s] < MaxVersion
    /\ issued' = [issued EXCEPT ![s] = @ + 1]
    /\ deletedAt' = [deletedAt EXCEPT ![s] = IF @ = 0 THEN issued[s] + 1 ELSE @]
    /\ UNCHANGED storeVars

-----------------------------------------------------------------------------
(***************************************************************************)
(* Delivery to the config consumer of the engine                           *)
(***************************************************************************)

\* v is the version of a change made before s was deleted.
LiveVersion(s, v) ==
    /\ v \in 1..issued[s]
    /\ deletedAt[s] = 0 \/ v < deletedAt[s]

\* v is the version of a delete.
DeleteVersion(s, v) ==
    /\ v \in 1..issued[s]
    /\ deletedAt[s] # 0 /\ v >= deletedAt[s]

\* CONFIG_CREATED, CONFIG_UPDATED: the consumer compares with the stored copy.
HandleUpsert(s, v, isActive) ==
    \/ /\ StoredVersion(s) < v
       /\ ApplyUpsert(s, v, isActive)
    \/ /\ StoredVersion(s) >= v
       /\ UNCHANGED storeVars

Deliver(s, v) ==
    /\ \/ /\ LiveVersion(s, v)
          /\ \/ \E isActive \in BOOLEAN : HandleUpsert(s, v, isActive)
             \/ ApplyPause(s, v)
             \/ ApplyResume(s, v)
       \/ /\ DeleteVersion(s, v)
          /\ ApplyDelete(s, v)
    /\ UNCHANGED contractVars

-----------------------------------------------------------------------------
(***************************************************************************)
(* Engine restart                                                          *)
(***************************************************************************)

Restart ==
    /\ NewStore
    /\ UNCHANGED contractVars

\* The bootstrap loads versions that were read from the database before.
Bootstrap(loaded) ==
    /\ \A s \in Strategies : loaded[s] # 0 => LiveVersion(s, loaded[s])
    /\ active = Empty /\ paused = Empty /\ versions = Empty /\ tombstones = Empty
    /\ BulkLoad(loaded)
    /\ UNCHANGED contractVars

Next ==
    \/ \E S \in SUBSET Strategies : Write(S)
    \/ \E s \in Strategies : Delete(s)
    \/ \E s \in Strategies : \E v \in 1..issued[s] : Deliver(s, v)
    \/ Restart
    \/ \E loaded \in [Strategies -> 0..MaxVersion] : Bootstrap(loaded)

Spec == Init /\ [][Next]_vars

-----------------------------------------------------------------------------
(***************************************************************************)
(* Properties                                                              *)
(***************************************************************************)

(***************************************************************************)
(* The store never holds a version that user-config has not issued, nor    *)
(* one issued after the delete: what the engine trades on was a row of the *)
(* database at some moment.                                                *)
(***************************************************************************)
OnlyIssued ==
    \A s \in Strategies :
        \A v \in {active[s], paused[s]} : v # 0 => LiveVersion(s, v)

(***************************************************************************)
(* The writer's two version maps agree with the order of the versions: a   *)
(* strategy without tombstone was last touched before its delete, one with *)
(* a tombstone was last touched by that delete.  The comparisons of the    *)
(* upsert, pause and resume paths are sufficient because of this.          *)
(***************************************************************************)
VersionOrder ==
    \A s \in Strategies :
        /\ tombstones[s] = 0 /\ versions[s] # 0 => LiveVersion(s, versions[s])
        /\ tombstones[s] # 0 =>
              /\ versions[s] = tombstones[s]
              /\ DeleteVersion(s, tombstones[s])
=============================================================================
