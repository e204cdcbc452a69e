----------------------------- MODULE WorkerStore -----------------------------
(***************************************************************************)
(* The worker records of the in-memory metadata (workerStoreV2, internal/  *)
(* metadata/memory_v2.go): a map of records created with double-checked    *)
(* locking, whose counters are atomics changed outside every lock.         *)
(*                                                                         *)
(* The callers are those of internal/control: registration and heartbeat   *)
(* of a worker, the increment of a lease and the decrement of a completed  *)
(* or expired one, each from a goroutine of its own.                       *)
(***************************************************************************)
EXTENDS Integers, FiniteSets

CONSTANTS StoreWorkers, StoreClients,
          MaxLeases      \* bound: increments of all workers

ASSUME StoreAssumption == IsFiniteSet(StoreWorkers) /\ IsFiniteSet(StoreClients)

VARIABLES
    record,     \* record[w]: the record the map holds, 0 if none
    load,       \* load[r]: runningTasks of record r
    records,    \* records made so far
    call,       \* call[c]: step of a goroutine
    onWorker    \* onWorker[w]: leases whose increment took effect, less the ended ones

storeVars == <<record, load, records, call, onWorker>>

CallOps == {"upsert", "heartbeat", "increment", "decrement"}
Idling == [pc |-> "rest"]
MaxRecords == Cardinality(StoreClients) + Cardinality(StoreWorkers)

InDecrement(w) ==
    Cardinality({c \in StoreClients : call[c].pc # "rest" /\ call[c].op = "decrement" /\ call[c].w = w})

\* A lease ends once, after its increment returned.
MayCall(op, w) ==
    /\ op = "increment" =>
         Cardinality({c \in StoreClients : call[c].pc # "rest" /\ call[c].op = "increment"})
            + onWorker[w] < MaxLeases
    /\ op = "decrement" => onWorker[w] > InDecrement(w)

\* getOrCreate: the look-up under the read lock (record for a decrement, which returns
\* when there is none).
LookUp(c) ==
    /\ call[c].pc = "rest"
    /\ \E op \in CallOps, w \in StoreWorkers :
       /\ MayCall(op, w)
       /\ call' = [call EXCEPT ![c] =
            IF record[w] # 0 THEN [pc |-> op, op |-> op, w |-> w, r |-> record[w], existed |-> TRUE]
            ELSE IF op = "decrement" THEN Idling
            ELSE [pc |-> "create", op |-> op, w |-> w, r |-> 0, existed |-> FALSE]]
    /\ UNCHANGED <<record, load, records, onWorker>>

\* Mutant: the map is not looked up again under the write lock.
CreateUnchecked(c) ==
    /\ call[c].pc = "create"
    /\ record' = [record EXCEPT ![call[c].w] = records + 1]
    /\ records' = records + 1
    /\ call' = [call EXCEPT ![c].pc = call[c].op, ![c].r = records + 1]
    /\ UNCHANGED <<load, onWorker>>

\* getOrCreate: the second look-up and the creation, under the write lock.
CreateRecord(c) ==
    /\ call[c].pc = "create"
    /\ IF record[call[c].w] # 0
       THEN /\ call' = [call EXCEPT ![c].pc = call[c].op, ![c].r = record[call[c].w], ![c].existed = TRUE]
            /\ UNCHANGED <<record, records>>
       ELSE /\ record' = [record EXCEPT ![call[c].w] = records + 1]
            /\ records' = records + 1
            /\ call' = [call EXCEPT ![c].pc = call[c].op, ![c].r = records + 1]
    /\ UNCHANGED <<load, onWorker>>

\* The call that made the record seeds its load; a registration brings none.
upsert(c) ==
    /\ call[c].pc = "upsert"
    /\ load' = IF call[c].existed THEN load ELSE [load EXCEPT ![call[c].r] = 0]
    /\ call' = [call EXCEPT ![c] = Idling]
    /\ UNCHANGED <<record, records, onWorker>>

\* Liveness and the cached models, never the load.
heartbeat(c) ==
    /\ call[c].pc = "heartbeat"
    /\ call' = [call EXCEPT ![c] = Idling]
    /\ UNCHANGED <<record, load, records, onWorker>>

incrementLoad(c) ==
    /\ call[c].pc = "increment"
    /\ load' = [load EXCEPT ![call[c].r] = @ + 1]
    /\ onWorker' = [onWorker EXCEPT ![call[c].w] = @ + 1]
    /\ call' = [call EXCEPT ![c] = Idling]
    /\ UNCHANGED <<record, records>>

\* decrementLoad reads the counter; zero stays zero.
LoadCurrent(c) ==
    /\ call[c].pc = "decrement"
    /\ IF load[call[c].r] = 0
       THEN /\ call' = [call EXCEPT ![c] = Idling]
            /\ onWorker' = [onWorker EXCEPT ![call[c].w] = @ - 1]
       ELSE /\ call' = [call EXCEPT ![c] = [pc |-> "cas", op |-> "decrement", w |-> call[c].w, r |-> call[c].r,
                                            existed |-> TRUE, current |-> load[call[c].r]]]
            /\ UNCHANGED onWorker
    /\ UNCHANGED <<record, load, records>>

\* The swap fails and is tried again when another call came between.
CompareAndSwap(c) ==
    /\ call[c].pc = "cas"
    /\ IF load[call[c].r] = call[c].current
       THEN /\ load' = [load EXCEPT ![call[c].r] = @ - 1]
            /\ onWorker' = [onWorker EXCEPT ![call[c].w] = @ - 1]
            /\ call' = [call EXCEPT ![c] = Idling]
       ELSE /\ call' = [call EXCEPT ![c] = [pc |-> "decrement", op |-> "decrement", w |-> call[c].w,
                                            r |-> call[c].r, existed |-> TRUE]]
            /\ UNCHANGED <<load, onWorker>>
    /\ UNCHANGED <<record, records>>

StoreInit ==
    /\ record = [w \in StoreWorkers |-> 0]
    /\ load = [r \in 1..MaxRecords |-> 0] /\ records = 0
    /\ call = [c \in StoreClients |-> Idling]
    /\ onWorker = [w \in StoreWorkers |-> 0]

StoreNext ==
    \E c \in StoreClients :
        \/ LookUp(c) \/ CreateRecord(c) \/ upsert(c) \/ heartbeat(c) \/ incrementLoad(c)
        \/ LoadCurrent(c) \/ CompareAndSwap(c)

StoreSpec == StoreInit /\ [][StoreNext]_storeVars

-----------------------------------------------------------------------------
\* Every goroutine works on the record the map holds, so no counter is split over two
\* records, however registrations, heartbeats and polls of a new worker race
\* (getOrCreate).
OneRecord ==
    \A c \in StoreClients : call[c].pc \notin {"rest", "create"} => call[c].r = record[call[c].w]

\* The load a worker shows is never more than the leases that are not yet ended, so no
\* decrement is lost and no capacity is blocked for ever (decrementLoad).
NoPhantomLoad ==
    \A w \in StoreWorkers : record[w] # 0 => load[record[w]] <= onWorker[w]

\* The load counter of a worker is one counter and loses no decrement (workerStoreV2).
LoadCounted == OneRecord /\ NoPhantomLoad
=============================================================================
