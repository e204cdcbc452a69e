----------------------------- MODULE ModelCache -----------------------------
(***************************************************************************)
(* The checkpoint cache of a worker (modelCache in                         *)
(* internal/worker/agent.go): files and manifests in the cache directory,  *)
(* the LRU index of entries, the warm markers a heartbeat advertises and   *)
(* the per-model singleflight of cold loads.  Executors of the LLM pool    *)
(* run ensureCheckpoint concurrently; index sections run under modelCache  *)
(* .mu, file operations outside it, one action each.                       *)
(***************************************************************************)
EXTENDS Integers, FiniteSets, Sequences, SequencesExt, FiniteSetsExt

CONSTANTS CacheModels,
          ModelSize,    \* ModelSize[m]: bytes of the checkpoint of m
          CacheBytes,   \* ModelCacheCapacityBytes
          CacheUsers,   \* goroutines of the LLM pool
          CacheFaults   \* whether task timeouts, file errors and restarts happen

ASSUME CacheAssumption ==
    /\ IsFiniteSet(CacheModels) /\ ModelSize \in [CacheModels -> Nat] /\ CacheBytes \in Nat
    /\ CacheUsers \subseteq Nat \ {0} /\ CacheFaults \in BOOLEAN

VARIABLES
    ckFiles,      \* models whose checkpoint file exists
    ckManifests,  \* models whose manifest file exists
    lru,          \* the entries, most recently used first
    usedBytes,
    warm,         \* modelCache.models
    inflight,     \* inflight[m]: the executor that loads m, or 0
    user          \* user[e]: step and model of executor e, and whether it is still in has

cacheVars == <<ckFiles, ckManifests, lru, usedBytes, warm, inflight, user>>

Idle == [pc |-> "idle", model |-> "none", probing |-> FALSE]
Entries == Range(lru)
Bytes(S) == FoldSet(LAMBDA m, n : n + ModelSize[m], 0, S)

\* The list without the element of m.
Less(s, m) == IF m \in Range(s) THEN RemoveAt(s, CHOOSE i \in DOMAIN s : s[i] = m) ELSE s

-----------------------------------------------------------------------------
\* Index operations, under modelCache.mu.  idx is the record of lru, used, warm.
Index == [lru |-> lru, used |-> usedBytes, warm |-> warm]

SetIndex(idx) == lru' = idx.lru /\ usedBytes' = idx.used /\ warm' = idx.warm

putEntryLocked(idx, m) ==
    [lru  |-> <<m>> \o Less(idx.lru, m),
     used |-> IF m \in Range(idx.lru) THEN idx.used ELSE idx.used + ModelSize[m],
     warm |-> idx.warm \union {m}]

removeElementLocked(idx, m) ==
    [lru |-> Less(idx.lru, m), used |-> idx.used - ModelSize[m], warm |-> idx.warm \ {m}]

\* The entries evictForLocked removes for a checkpoint of n bytes: the shortest
\* suffix of the LRU list that makes room.
Victims(n) ==
    CHOOSE s \in Suffixes(lru) :
        /\ usedBytes - Bytes(Range(s)) + n <= CacheBytes \/ Len(s) = Len(lru)
        /\ \A t \in Suffixes(lru) :
               Len(t) < Len(s) => usedBytes - Bytes(Range(t)) + n > CacheBytes

RemoveAll(idx, s) == FoldLeft(removeElementLocked, idx, s)

\* The index built from checkpoints in the order of their access times.
loadCheckpointManifests(s) == FoldLeft(putEntryLocked, [lru |-> <<>>, used |-> 0, warm |-> {}], s)

-----------------------------------------------------------------------------
At(e, pc) == user[e].pc = pc
Model(e) == user[e].model
Goto(e, pc) == user' = [user EXCEPT ![e].pc = pc]

\* cachedCheckpoint reports a hit or a miss to has or to ensureCheckpoint.
Answer(e, pc) ==
    user' = [user EXCEPT ![e] = [pc |-> IF user[e].probing THEN "look" ELSE pc,
                                 model |-> Model(e), probing |-> FALSE]]

\* runLLMExecutor asks has first and calls ensureCheckpoint next.
BeginModel(e, m) ==
    /\ user[e] = Idle
    /\ user' = [user EXCEPT ![e] = [pc |-> "look", model |-> m, probing |-> TRUE]]
    /\ UNCHANGED <<ckFiles, ckManifests, lru, usedBytes, warm, inflight>>

\* cachedCheckpoint, the section under the lock: an entry whose file exists is
\* refreshed, one whose file is gone is dropped.
LookupEntry(e) ==
    /\ At(e, "look")
    /\ \/ /\ Model(e) \in Entries \intersect ckFiles
          /\ SetIndex(putEntryLocked(Index, Model(e)))
          /\ Goto(e, "touch")
       \/ /\ Model(e) \in Entries \ ckFiles
          /\ SetIndex(removeElementLocked(Index, Model(e)))
          /\ Goto(e, "stat")
       \/ /\ Model(e) \notin Entries
          /\ Goto(e, "stat")
          /\ UNCHANGED <<lru, usedBytes, warm>>
    /\ UNCHANGED <<ckFiles, ckManifests, inflight>>

StatPath(e) ==
    /\ At(e, "stat")
    /\ IF Model(e) \in ckFiles THEN Goto(e, "discover") ELSE Answer(e, "call")
    /\ UNCHANGED <<ckFiles, ckManifests, lru, usedBytes, warm, inflight>>

\* A file found by its path enters the index without eviction.
DiscoverFile(e) ==
    /\ At(e, "discover")
    /\ SetIndex(putEntryLocked(Index, Model(e)))
    /\ Goto(e, "touch")
    /\ UNCHANGED <<ckFiles, ckManifests, inflight>>

\* writeCheckpointManifest of a hit; its error is ignored.
TouchManifest(e) ==
    /\ At(e, "touch")
    /\ \/ ckManifests' = ckManifests \union {Model(e)}
       \/ CacheFaults /\ UNCHANGED ckManifests
    /\ Answer(e, "read")
    /\ UNCHANGED <<ckFiles, lru, usedBytes, warm, inflight>>

\* readCheckpoint of a hit: it fails when the file was evicted meanwhile; either
\* way ensureCheckpoint returns.
ReadHit(e) ==
    /\ At(e, "read")
    /\ user' = [user EXCEPT ![e] = Idle]
    /\ UNCHANGED <<ckFiles, ckManifests, lru, usedBytes, warm, inflight>>

loadCallForKey(e) ==
    /\ At(e, "call")
    /\ \/ /\ inflight[Model(e)] # 0
          /\ Goto(e, "wait")
          /\ UNCHANGED inflight
       \/ /\ inflight[Model(e)] = 0
          /\ inflight' = [inflight EXCEPT ![Model(e)] = e]
          /\ Goto(e, "load")
    /\ UNCHANGED <<ckFiles, ckManifests, lru, usedBytes, warm>>

\* A waiter's task times out.
WaitCancelled(e) ==
    /\ CacheFaults /\ At(e, "wait")
    /\ user' = [user EXCEPT ![e] = Idle]
    /\ UNCHANGED <<ckFiles, ckManifests, lru, usedBytes, warm, inflight>>

\* Mutant: an oversize checkpoint returns without finishing its call.
OversizeReturns(e) ==
    /\ At(e, "load")
    /\ IF ModelSize[Model(e)] > CacheBytes THEN user' = [user EXCEPT ![e] = Idle] ELSE Goto(e, "copy")
    /\ UNCHANGED <<ckFiles, ckManifests, lru, usedBytes, warm, inflight>>

\* loadCheckpoint up to the copy: a missing source or an oversize checkpoint is
\* an error.
BeginLoad(e) ==
    /\ At(e, "load")
    /\ \/ ModelSize[Model(e)] <= CacheBytes /\ Goto(e, "copy")
       \/ (ModelSize[Model(e)] > CacheBytes \/ CacheFaults) /\ Goto(e, "failed")
    /\ UNCHANGED <<ckFiles, ckManifests, lru, usedBytes, warm, inflight>>

\* copyCheckpoint: the temporary file is renamed to the checkpoint, or removed.
copyCheckpoint(e) ==
    /\ At(e, "copy")
    /\ \/ ckFiles' = ckFiles \union {Model(e)} /\ Goto(e, "verify")
       \/ CacheFaults /\ Goto(e, "failed") /\ UNCHANGED ckFiles
    /\ UNCHANGED <<ckManifests, lru, usedBytes, warm, inflight>>

\* readCheckpoint of the copied file: it fails on a timeout or when the file has
\* been evicted, and leaves the file where it is.
readCheckpoint(e) ==
    /\ At(e, "verify")
    /\ \/ Model(e) \in ckFiles /\ Goto(e, "manifest")
       \/ (Model(e) \notin ckFiles \/ CacheFaults) /\ Goto(e, "failed")
    /\ UNCHANGED <<ckFiles, ckManifests, lru, usedBytes, warm, inflight>>

writeCheckpointManifest(e) ==
    /\ At(e, "manifest")
    /\ \/ ckManifests' = ckManifests \union {Model(e)} /\ Goto(e, "insert")
       \/ CacheFaults /\ Goto(e, "failed") /\ UNCHANGED ckManifests
    /\ UNCHANGED <<ckFiles, lru, usedBytes, warm, inflight>>

\* evictForLocked and putEntryLocked in one critical section.
InsertEntry(e) ==
    /\ At(e, "insert")
    /\ LET gone == Victims(ModelSize[Model(e)]) IN
       /\ SetIndex(putEntryLocked(RemoveAll(Index, gone), Model(e)))
       /\ ckFiles' = ckFiles \ Range(gone) /\ ckManifests' = ckManifests \ Range(gone)
    /\ Goto(e, "loaded")
    /\ UNCHANGED inflight

\* A victim's file cannot be removed: the evictions so far stay, the load fails.
EvictionFails(e) ==
    /\ CacheFaults /\ At(e, "insert")
    /\ \E gone \in Suffixes(lru) :
       /\ Len(gone) < Len(Victims(ModelSize[Model(e)]))
       /\ SetIndex(RemoveAll(Index, gone))
       /\ ckFiles' = ckFiles \ Range(gone) /\ ckManifests' = ckManifests \ Range(gone)
    /\ Goto(e, "failed")
    /\ UNCHANGED inflight

\* finishLoadCall: waiters of a failed load return its error, the others look again.
finishLoadCall(e) ==
    /\ At(e, "loaded") \/ At(e, "failed")
    /\ inflight' = [inflight EXCEPT ![Model(e)] = 0]
    /\ user' = [x \in CacheUsers |->
                  CASE x = e -> Idle
                    [] x # e /\ At(x, "wait") /\ Model(x) = Model(e) ->
                         IF At(e, "failed") THEN Idle ELSE [user[x] EXCEPT !.pc = "look"]
                    [] OTHER -> user[x]]
    /\ UNCHANGED <<ckFiles, ckManifests, lru, usedBytes, warm>>

\* The worker restarts: newModelCache indexes the manifests whose file exists, in
\* the order of their access times, and evicts nothing.
RestartCache ==
    /\ CacheFaults
    /\ \E s \in SetToSeqs(ckManifests \intersect ckFiles) : SetIndex(loadCheckpointManifests(s))
    /\ inflight' = [m \in CacheModels |-> 0]
    /\ user' = [e \in CacheUsers |-> Idle]
    /\ UNCHANGED <<ckFiles, ckManifests>>

CacheInit ==
    /\ ckFiles = {} /\ ckManifests = {} /\ lru = <<>> /\ usedBytes = 0 /\ warm = {}
    /\ inflight = [m \in CacheModels |-> 0]
    /\ user = [e \in CacheUsers |-> Idle]

CacheStep(e) ==
    \/ \E m \in CacheModels : BeginModel(e, m)
    \/ LookupEntry(e) \/ StatPath(e) \/ DiscoverFile(e) \/ TouchManifest(e) \/ ReadHit(e)
    \/ loadCallForKey(e) \/ WaitCancelled(e) \/ BeginLoad(e) \/ copyCheckpoint(e)
    \/ readCheckpoint(e) \/ writeCheckpointManifest(e) \/ InsertEntry(e) \/ EvictionFails(e)
    \/ finishLoadCall(e)

CacheNext == RestartCache \/ \E e \in CacheUsers : CacheStep(e)
CacheSpec == CacheInit /\ [][CacheNext]_cacheVars

-----------------------------------------------------------------------------
Loading == {"load", "copy", "verify", "manifest", "insert", "loaded", "failed"}

\* The checkpoint of a model is copied by one executor at a time: two copies would
\* write the same temporary file (loadCallForKey, copyCheckpoint).
OneCopy ==
    \A e, x \in CacheUsers :
        At(e, "copy") /\ At(x, "copy") /\ Model(e) = Model(x) => e = x

\* Whoever waits for a load waits for an executor that is still loading that
\* model, so every waiter is released (ensureCheckpoint, finishLoadCall).
WaiterHasProducer ==
    \A e \in CacheUsers : At(e, "wait") =>
        \E x \in CacheUsers : Model(x) = Model(e) /\ user[x].pc \in Loading /\ inflight[Model(e)] = x

\* The byte count the eviction relies on is the size of the indexed entries,
\* whichever of discovery, load, eviction and restart came last (putEntryLocked,
\* removeElementLocked).
UsedExact == usedBytes = Bytes(Entries)

\* The models a heartbeat advertises are those of the index (snapshotEntries).
AdvertisedIndexed == warm = Entries

\* The cache under concurrent loads, evictions, file errors, timeouts and restarts: one
\* load of a model at a time, nobody waits for a load that is not going on, and byte
\* count and markers follow the index (ensureCheckpoint).
CacheConsistent == OneCopy /\ WaiterHasProducer /\ UsedExact /\ AdvertisedIndexed
=============================================================================
