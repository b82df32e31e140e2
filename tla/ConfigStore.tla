---------------------------- MODULE ConfigStore ----------------------------
(***************************************************************************)
(* The in-memory strategy store of the rules engine                        *)
(* (services/rules-engine/internal/configstore): the active and the paused *)
(* map of the published snapshot, and the writer's two version maps.       *)
(*                                                                         *)
(* A map from strategy to stored version is a function whose value 0 means *)
(* "no entry": the versions user-config issues start at 1, so the lookups  *)
(* `if last, ok := m[k]; ok && version <= last` are plain comparisons.     *)
(* ConfigStore.mu makes every operation atomic; readers load one immutable *)
(* Snapshot, so a reader sees the state between two operations.            *)
(***************************************************************************)
EXTENDS Naturals

CONSTANT Strategies   \* strategy identifiers (the user is part of the key)

VARIABLES
    active,       \* Snapshot.ByUser[..].Active : version of the stored strategy
    paused,       \* Snapshot.ByUser[..].Paused : version of the stored strategy
    versions,     \* Writer.versions   : last applied version
    tombstones    \* Writer.tombstones : version of the last applied delete

storeVars == <<active, paused, versions, tombstones>>

Empty == [s \in Strategies |-> 0]

StoreTypeOK ==
    /\ active \in [Strategies -> Nat]
    /\ paused \in [Strategies -> Nat]
    /\ versions \in [Strategies -> Nat]
    /\ tombstones \in [Strategies -> Nat]

StoreInit ==
    /\ active = Empty
    /\ paused = Empty
    /\ versions = Empty
    /\ tombstones = Empty

-----------------------------------------------------------------------------
(***************************************************************************)
(* Reads                                                                   *)
(***************************************************************************)

\* GetStrategy: the version of the stored strategy, active map first.
StoredVersion(s) == IF active[s] # 0 THEN active[s] ELSE paused[s]

\* Faulty variant: the version check is missing.
StaleTombstoneOnly(s, v) == v <= tombstones[s]

\* Tombstone check and monotonic version check, shared by three operations.
Stale(s, v) == v <= tombstones[s] \/ v <= versions[s]

-----------------------------------------------------------------------------
(***************************************************************************)
(* Writes                                                                  *)
(***************************************************************************)

\* An upsert puts the strategy in the active map, whatever map it was in.
ApplyUpsert(s, v, isActive) ==
    \/ /\ isActive /\ ~Stale(s, v)
       /\ active' = [active EXCEPT ![s] = v]
       /\ paused' = [paused EXCEPT ![s] = 0]
       /\ versions' = [versions EXCEPT ![s] = v]
       /\ UNCHANGED tombstones
    \/ /\ ~isActive \/ Stale(s, v)
       /\ UNCHANGED storeVars

\* Faulty variant: the paused copy is not written.
ApplyPauseForgets(s, v) ==
    \/ /\ ~Stale(s, v) /\ active[s] # 0
       /\ active' = [active EXCEPT ![s] = 0]
       /\ versions' = [versions EXCEPT ![s] = v]
       /\ UNCHANGED <<paused, tombstones>>
    \/ /\ Stale(s, v) \/ active[s] = 0
       /\ UNCHANGED storeVars

\* A pause keeps the stored strategy, its Version field included.
ApplyPause(s, v) ==
    \/ /\ ~Stale(s, v) /\ active[s] # 0
       /\ paused' = [paused EXCEPT ![s] = active[s]]
       /\ active' = [active EXCEPT ![s] = 0]
       /\ versions' = [versions EXCEPT ![s] = v]
       /\ UNCHANGED tombstones
    \/ /\ Stale(s, v) \/ active[s] = 0
       /\ UNCHANGED storeVars

\* A resume stamps the version of the event on the stored strategy.
ApplyResume(s, v) ==
    \/ /\ ~Stale(s, v) /\ paused[s] # 0
       /\ active' = [active EXCEPT ![s] = v]
       /\ paused' = [paused EXCEPT ![s] = 0]
       /\ versions' = [versions EXCEPT ![s] = v]
       /\ UNCHANGED tombstones
    \/ /\ Stale(s, v) \/ paused[s] = 0
       /\ UNCHANGED storeVars

\* Faulty variant: only the active map is cleared.
ApplyDeleteKeepsPaused(s, v) ==
    \/ /\ v > tombstones[s]
       /\ tombstones' = [tombstones EXCEPT ![s] = v]
       /\ versions' = [versions EXCEPT ![s] = v]
       /\ active' = [active EXCEPT ![s] = 0]
       /\ UNCHANGED paused
    \/ /\ v <= tombstones[s]
       /\ UNCHANGED storeVars

\* A delete is compared with earlier deletes only, never with versions.
ApplyDelete(s, v) ==
    \/ /\ v > tombstones[s]
       /\ tombstones' = [tombstones EXCEPT ![s] = v]
       /\ versions' = [versions EXCEPT ![s] = v]
       /\ active' = [active EXCEPT ![s] = 0]
       /\ paused' = [paused EXCEPT ![s] = 0]
    \/ /\ v <= tombstones[s]
       /\ UNCHANGED storeVars

\* BulkLoad replaces the snapshot and leaves the version maps as they are.
BulkLoad(loaded) ==
    /\ active' = loaded
    /\ paused' = Empty
    /\ UNCHANGED <<versions, tombstones>>

\* A new process starts with NewStore and NewWriter: every map is empty.
NewStore ==
    /\ active' = Empty
    /\ paused' = Empty
    /\ versions' = Empty
    /\ tombstones' = Empty

-----------------------------------------------------------------------------
(***************************************************************************)
(* Properties                                                              *)
(***************************************************************************)

(***************************************************************************)
(* Once a delete reached the store, no late, reordered or repeated event   *)
(* brings the strategy back (store.go: the tombstone checks).              *)
(***************************************************************************)
DeletedStaysDeleted ==
    \A s \in Strategies : tombstones[s] # 0 => active[s] = 0 /\ paused[s] = 0

(***************************************************************************)
(* A strategy is active or paused, never both: GetStrategy, which looks in *)
(* the active map first, cannot hide a second copy.                        *)
(***************************************************************************)
OneCopy ==
    \A s \in Strategies : active[s] = 0 \/ paused[s] = 0

(***************************************************************************)
(* While a process lives, the versions map never goes back, although       *)
(* ApplyDelete assigns it without comparing: a delete always carries a     *)
(* later version than every other event of its strategy.                   *)
(***************************************************************************)
VersionsMonotone ==
    [][NewStore \/ \A s \in Strategies : versions'[s] >= versions[s]]_storeVars
=============================================================================
