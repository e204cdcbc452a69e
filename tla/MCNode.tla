------------------------------- MODULE MCNode -------------------------------
(* What surrounds the control plane: the worker with its model cache, the  *)
(* metadata stores, the objects, the event streams and the record format.  *)
(* They share no state: unit says which one a behaviour follows; the       *)
(* others keep their initial state.                                        *)
EXTENDS WorkerAgent, ModelCache, Materializer, TaskIndex, WorkerStore,
        StoreConformance, LocalObjects, S3Objects, EventStream, RecordCodec

VARIABLE unit
vars == <<unit, workerVars, cacheVars, matVars, idxVars, storeVars, cfVars, objVars,
          s3Vars, evVars, codecVars>>

Tasks == {[id |-> "t1", pool |-> "task", runs |-> "f", inline |-> FALSE],
          [id |-> "t2", pool |-> "task", runs |-> "f", inline |-> TRUE],
          [id |-> "t3", pool |-> "actor", runs |-> "A", inline |-> FALSE],
          [id |-> "t4", pool |-> "llm", runs |-> "m", inline |-> FALSE]}

Sizes == [m \in CacheModels |-> CASE m = "a" -> 1 [] m = "b" -> 2 [] OTHER -> 3]

Lengths == {<<1, 0, 0, 0>>, <<1, 1, 0, 1>>, <<1, 0, 1, 2>>}
RecordFormats == {[version |-> 1, typ |-> "ieee"], [version |-> 2, typ |-> "crc32c"],
                  [version |-> 2, typ |-> "xxh3"], [version |-> 2, typ |-> "none"]}

\* A part that is not followed has one initial state.
Init ==
    /\ unit \in {"agent", "cache", "materializer", "index", "workers", "conformance",
                 "local", "s3", "events", "codec"}
    /\ AgentInit /\ CacheInit /\ MatInit /\ IdxInit /\ StoreInit /\ CfInit
    /\ ObjInit /\ S3Init /\ EvInit /\ CodecInit
    /\ unit # "materializer" => matMode = "async"
    /\ unit # "local" => final = [h \in ObjHashes |-> "absent"]

Next ==
    \/ /\ unit = "agent" /\ AgentNext
       /\ UNCHANGED <<unit, cacheVars, matVars, idxVars, storeVars, cfVars, objVars,
                      s3Vars, evVars, codecVars>>
    \/ /\ unit = "cache" /\ CacheNext
       /\ UNCHANGED <<unit, workerVars, matVars, idxVars, storeVars, cfVars, objVars,
                      s3Vars, evVars, codecVars>>
    \/ /\ unit = "materializer" /\ MatNext
       /\ UNCHANGED <<unit, workerVars, cacheVars, idxVars, storeVars, cfVars,
                      objVars, s3Vars, evVars, codecVars>>
    \/ /\ unit = "index" /\ IdxNext
       /\ UNCHANGED <<unit, workerVars, cacheVars, matVars, storeVars, cfVars,
                      objVars, s3Vars, evVars, codecVars>>
    \/ /\ unit = "workers" /\ StoreNext
       /\ UNCHANGED <<unit, workerVars, cacheVars, matVars, idxVars, cfVars, objVars,
                      s3Vars, evVars, codecVars>>
    \/ /\ unit = "conformance" /\ CfNext
       /\ UNCHANGED <<unit, workerVars, cacheVars, matVars, idxVars, storeVars,
                      objVars, s3Vars, evVars, codecVars>>
    \/ /\ unit = "local" /\ ObjNext
       /\ UNCHANGED <<unit, workerVars, cacheVars, matVars, idxVars, storeVars,
                      cfVars, s3Vars, evVars, codecVars>>
    \/ /\ unit = "s3" /\ S3Next
       /\ UNCHANGED <<unit, workerVars, cacheVars, matVars, idxVars, storeVars,
                      cfVars, objVars, evVars, codecVars>>
    \/ /\ unit = "events" /\ EvNext
       /\ UNCHANGED <<unit, workerVars, cacheVars, matVars, idxVars, storeVars,
                      cfVars, objVars, s3Vars, codecVars>>
    \/ /\ unit = "codec" /\ CodecNext
       /\ UNCHANGED <<unit, workerVars, cacheVars, matVars, idxVars, storeVars,
                      cfVars, objVars, s3Vars, evVars>>

Spec == Init /\ [][Next]_vars
=============================================================================
