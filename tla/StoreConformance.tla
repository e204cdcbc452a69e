-------------------------- MODULE StoreConformance --------------------------
(***************************************************************************)
(* The two in-memory metadata stores side by side: MemoryStore             *)
(* (internal/metadata/memory.go), "a simple reference implementation and   *)
(* ... a compatibility baseline", and the sharded MemoryStoreV2            *)
(* (memory_v2.go) that replaces it.  Every call goes to both, one after    *)
(* the other; what V2 does between its locks is TaskIndex's and            *)
(* WorkerStore's subject.                                                  *)
(*                                                                         *)
(* A store operation is a function of the store and the arguments: it      *)
(* gives the store after the call and the answer.                          *)
(***************************************************************************)
EXTENDS Integers, FiniteSets

CONSTANTS CfTasks, CfKeys, CfWorkers,
          CfIds,          \* workflow and actor identifiers
          MaxAge,         \* the lease age both recoveries are called with
          MaxNow, MaxCalls  \* bounds

\* "" stands for no task, no document and no key.
ASSUME CfAssumption ==
    /\ "" \notin CfTasks \cup CfKeys \cup CfIds
    /\ MaxAge \in Nat /\ MaxNow \in Nat /\ MaxCalls \in Nat

VARIABLES legacy, v2, now, answers, calls
cfVars == <<legacy, v2, now, answers, calls>>

Nobody == [st |-> "none", worker |-> "", epoch |-> 0, upd |-> 0]
NoDoc == [key |-> "", version |-> 0]
Unknown == [cap |-> 0, load |-> 0, hb |-> 0, cached |-> "none"]
TerminalStatuses == {"SUCCEEDED", "FAILED"}
NewTask(now_) == [st |-> "QUEUED", worker |-> "", epoch |-> 0, upd |-> now_]
Gives(store, answer) == [store |-> store, answer |-> answer]
Fails(store) == Gives(store, "error")

-----------------------------------------------------------------------------
(* MemoryStore: one lock, scans. *)

LegacyCreateTask(s, t, k) ==
    IF k # "" /\ s.keys[k] # "" THEN Gives(s, s.tasks[s.keys[k]])
    ELSE Gives([s EXCEPT !.tasks[t] = NewTask(now), !.keys = IF k = "" THEN s.keys ELSE [s.keys EXCEPT ![k] = t]],
               NewTask(now))

LegacyLeaseTask(s, t, w) ==
    LET leased == [st |-> "RUNNING", worker |-> w, epoch |-> s.tasks[t].epoch + 1, upd |-> now]
    IN  CASE s.tasks[t] = Nobody      -> Fails(s)
          [] s.tasks[t].st \in TerminalStatuses  -> Gives(s, s.tasks[t])
          [] OTHER                    -> Gives([s EXCEPT !.tasks[t] = leased], leased)

LegacyValidateTaskLease(s, t, w, e) ==
    IF \/ s.tasks[t].st \in TerminalStatuses
       \/ s.tasks[t].st = "RUNNING" /\ s.tasks[t].worker = w /\ s.tasks[t].epoch = e
    THEN Gives(s, s.tasks[t]) ELSE Fails(s)

LegacyExpired(task) == task.st = "RUNNING" /\ now - task.upd >= MaxAge
Requeued(task) == [task EXCEPT !.st = "QUEUED", !.upd = now]

LegacyRequeueExpiredRunningTasks(s) ==
    LET old == {t \in CfTasks : LegacyExpired(s.tasks[t])}
    IN  Gives([s EXCEPT !.tasks = [t \in CfTasks |->
                  IF t \in old THEN [Requeued(s.tasks[t]) EXCEPT !.worker = ""] ELSE s.tasks[t]]],
              {<<t, Requeued(s.tasks[t])>> : t \in old})

LegacyRequeueTaskIfLeaseExpired(s, t, e) ==
    IF s.tasks[t].epoch = e /\ LegacyExpired(s.tasks[t])
    THEN Gives([s EXCEPT !.tasks[t] = [Requeued(s.tasks[t]) EXCEPT !.worker = ""]], <<Requeued(s.tasks[t]), TRUE>>)
    ELSE Gives(s, <<s.tasks[t], FALSE>>)

LegacyCompleteTask(s, t, w, e, st) ==
    LET done == [s.tasks[t] EXCEPT !.st = st, !.upd = now]
    IN  CASE s.tasks[t].st \in TerminalStatuses -> Gives(s, s.tasks[t])
          [] s.tasks[t].st = "RUNNING" /\ s.tasks[t].worker = w /\ s.tasks[t].epoch = e ->
                Gives([s EXCEPT !.tasks[t] = done], done)
          [] OTHER -> Fails(s)

LegacyUpsertWorker(s, w, cap) ==
    Gives([s EXCEPT !.workers[w] = [cap |-> cap, load |-> s.workers[w].load, hb |-> now, cached |-> "none"]], "ok")

\* A worker that was not known gets a record of capacity one.
Seen(worker) == [worker EXCEPT !.cap = IF @ = 0 THEN 1 ELSE @, !.hb = now]

\* A report of nil leaves the cache alone, an empty one clears it.
LegacyHeartbeat(s, w, report) ==
    LET seen == [Seen(s.workers[w]) EXCEPT !.cached = IF report = "nil" THEN @ ELSE report]
    IN  Gives([s EXCEPT !.workers[w] = seen], <<seen, s.workers[w] # Unknown>>)

LegacyIncrementWorkerLoad(s, w) ==
    Gives([s EXCEPT !.workers[w] = [Seen(s.workers[w]) EXCEPT !.load = @ + 1]], "ok")

LegacyDecrementWorkerLoad(s, w) ==
    Gives([s EXCEPT !.workers[w].load = IF @ > 0 THEN @ - 1 ELSE 0], "ok")

LegacyActiveWorkers(s) ==
    Gives(s, {<<w, s.workers[w]>> : w \in {x \in CfWorkers : s.workers[x] # Unknown /\ now - s.workers[x].hb <= MaxAge}})

LegacyCreateWorkflow(s, id, k) ==
    IF k # "" /\ s.docKeys[k] # "" THEN Gives(s, s.docs[s.docKeys[k]])
    ELSE Gives([s EXCEPT !.docs[id] = [key |-> k, version |-> 1],
                         !.docKeys = IF k = "" THEN s.docKeys ELSE [s.docKeys EXCEPT ![k] = id]], [key |-> k, version |-> 1])

\* The caller's function may refuse, before it changes anything.
LegacyUpdateWorkflow(s, id, ok) ==
    IF s.docs[id] = NoDoc \/ ~ok THEN Fails(s)
    ELSE Gives([s EXCEPT !.docs[id].version = @ + 1], s.docs[id].version + 1)

-----------------------------------------------------------------------------
(* MemoryStoreV2: shards, a heap of running leases, worker records. *)

V2create(s, t, k) ==
    LET plain == [s EXCEPT !.tasks[t] = NewTask(now), !.running = {d \in s.running : d.t # t}]
    IN  CASE k = "" -> Gives(plain, NewTask(now))
          [] k # "" /\ s.byIdem[k] # "" /\ s.tasks[s.byIdem[k]] # Nobody -> Gives(s, s.tasks[s.byIdem[k]])
          [] OTHER -> Gives([plain EXCEPT !.byIdem[k] = t], NewTask(now))

\* Mutant: the entry of the lease before stays in the heap.
TrackedKeepsOld(s, t, task) ==
    [s EXCEPT !.tasks[t] = task,
              !.running = s.running \cup
                  (IF task.st = "RUNNING" /\ task.epoch > 0 THEN {[t |-> t, upd |-> task.upd, epoch |-> task.epoch]} ELSE {})]

\* replaceTaskIndexes keeps the heap to the running leases.
Tracked(s, t, task) ==
    [s EXCEPT !.tasks[t] = task,
              !.running = {d \in s.running : d.t # t} \cup
                  (IF task.st = "RUNNING" /\ task.epoch > 0 THEN {[t |-> t, upd |-> task.upd, epoch |-> task.epoch]} ELSE {})]

V2lease(s, t, w) ==
    LET leased == [st |-> "RUNNING", worker |-> w, epoch |-> s.tasks[t].epoch + 1, upd |-> now]
    IN  CASE s.tasks[t] = Nobody     -> Fails(s)
          [] s.tasks[t].st \in TerminalStatuses -> Gives(s, s.tasks[t])
          [] OTHER                   -> Gives(Tracked(s, t, leased), leased)

validateLease(s, t, w, e) ==
    CASE s.tasks[t] = Nobody        -> Fails(s)
      [] s.tasks[t].st \in TerminalStatuses    -> Gives(s, s.tasks[t])
      [] s.tasks[t].st = "RUNNING" /\ s.tasks[t].worker = w /\ s.tasks[t].epoch = e -> Gives(s, s.tasks[t])
      [] OTHER                      -> Fails(s)

Stale(s, t, e) == s.tasks[t].st # "RUNNING" \/ s.tasks[t].epoch # e \/ now - s.tasks[t].upd < MaxAge

V2requeueTaskAt(s, t, e) ==
    IF Stale(s, t, e) THEN Gives(s, <<s.tasks[t], FALSE>>)
    ELSE Gives(Tracked(s, t, [Requeued(s.tasks[t]) EXCEPT !.worker = ""]), <<Requeued(s.tasks[t]), TRUE>>)

\* popRunningBefore, until it finds nothing: the heap entries that are old enough.
V2popRunningBefore(s) == {d \in s.running : d.upd <= now - MaxAge}

requeueExpiredRunning(s) ==
    LET popped == V2popRunningBefore(s)
        old == {d.t : d \in {x \in popped : ~Stale(s, x.t, x.epoch)}}
    IN  Gives([s EXCEPT !.running = s.running \ popped,
                        !.tasks = [t \in CfTasks |->
                            IF t \in old THEN [Requeued(s.tasks[t]) EXCEPT !.worker = ""] ELSE s.tasks[t]]],
              {<<t, Requeued(s.tasks[t])>> : t \in old})

V2complete(s, t, w, e, st) ==
    LET done == [s.tasks[t] EXCEPT !.st = st, !.upd = now]
    IN  CASE s.tasks[t].st \in TerminalStatuses -> Gives(s, s.tasks[t])
          [] s.tasks[t].st = "RUNNING" /\ s.tasks[t].worker = w /\ s.tasks[t].epoch = e ->
                Gives(Tracked(s, t, done), done)
          [] OTHER -> Fails(s)

V2getOrCreate(s, w) == IF s.records[w] = Unknown THEN [Unknown EXCEPT !.cap = 1] ELSE s.records[w]

V2upsert(s, w, cap) ==
    LET r == V2getOrCreate(s, w)
    IN  Gives([s EXCEPT !.records[w] = [cap |-> cap, load |-> r.load, hb |-> now, cached |-> "none"]], "ok")

V2heartbeat(s, w, report) ==
    LET r == [V2getOrCreate(s, w) EXCEPT !.hb = now, !.cached = IF report = "nil" THEN @ ELSE report]
    IN  Gives([s EXCEPT !.records[w] = r], <<r, s.records[w] # Unknown>>)

V2incrementLoad(s, w) ==
    LET r == V2getOrCreate(s, w) IN Gives([s EXCEPT !.records[w] = [r EXCEPT !.load = @ + 1, !.hb = now]], "ok")

V2decrementLoad(s, w) ==
    IF s.records[w].load = 0 THEN Gives(s, "ok") ELSE Gives([s EXCEPT !.records[w].load = @ - 1], "ok")

V2active(s) ==
    Gives(s, {<<w, s.records[w]>> : w \in {x \in CfWorkers : s.records[x] # Unknown /\ now - s.records[x].hb <= MaxAge}})

createWorkflow(s, id, k) ==
    IF k # "" /\ s.docByKey[k] # "" THEN Gives(s, s.docs[s.docByKey[k]])
    ELSE Gives([s EXCEPT !.docs[id] = [key |-> k, version |-> 1],
                         !.docByKey = IF k = "" THEN s.docByKey ELSE [s.docByKey EXCEPT ![k] = id]], [key |-> k, version |-> 1])

updateWorkflow(s, id, ok) ==
    IF s.docs[id] = NoDoc \/ ~ok THEN Fails(s)
    ELSE Gives([s EXCEPT !.docs[id] = [s.docs[id] EXCEPT !.version = @ + 1]], s.docs[id].version + 1)

-----------------------------------------------------------------------------
(* One call, made to both stores. *)
Both(l, n) ==
    /\ calls < MaxCalls
    /\ legacy' = l.store /\ v2' = n.store
    /\ answers' = <<l.answer, n.answer>>
    /\ calls' = calls + 1
    /\ UNCHANGED now

Epochs == 1..2
CallTasks ==
    \E t \in CfTasks :
        \/ \E k \in CfKeys \cup {""} : Both(LegacyCreateTask(legacy, t, k), V2create(v2, t, k))
        \/ \E w \in CfWorkers :
             \/ Both(LegacyLeaseTask(legacy, t, w), V2lease(v2, t, w))
             \/ \E e \in Epochs :
                  \/ Both(LegacyValidateTaskLease(legacy, t, w, e), validateLease(v2, t, w, e))
                  \/ \E st \in TerminalStatuses : Both(LegacyCompleteTask(legacy, t, w, e, st), V2complete(v2, t, w, e, st))
        \/ \E e \in Epochs : Both(LegacyRequeueTaskIfLeaseExpired(legacy, t, e), V2requeueTaskAt(v2, t, e))

CallRequeue == Both(LegacyRequeueExpiredRunningTasks(legacy), requeueExpiredRunning(v2))

CallWorkers ==
    \/ \E w \in CfWorkers :
         \/ \E cap \in 1..2 : Both(LegacyUpsertWorker(legacy, w, cap), V2upsert(v2, w, cap))
         \/ \E report \in {"nil", "none", "m"} : Both(LegacyHeartbeat(legacy, w, report), V2heartbeat(v2, w, report))
         \/ Both(LegacyIncrementWorkerLoad(legacy, w), V2incrementLoad(v2, w))
         \/ Both(LegacyDecrementWorkerLoad(legacy, w), V2decrementLoad(v2, w))
    \/ Both(LegacyActiveWorkers(legacy), V2active(v2))

CallDocs ==
    \E id \in CfIds :
        \/ \E k \in CfKeys \cup {""} : Both(LegacyCreateWorkflow(legacy, id, k), createWorkflow(v2, id, k))
        \/ \E ok \in BOOLEAN : Both(LegacyUpdateWorkflow(legacy, id, ok), updateWorkflow(v2, id, ok))

Later == now < MaxNow /\ now' = now + 1 /\ UNCHANGED <<legacy, v2, answers, calls>>

CfInit ==
    /\ legacy = [tasks |-> [t \in CfTasks |-> Nobody], keys |-> [k \in CfKeys |-> ""],
                 workers |-> [w \in CfWorkers |-> Unknown],
                 docs |-> [i \in CfIds |-> NoDoc], docKeys |-> [k \in CfKeys |-> ""]]
    /\ v2 = [tasks |-> [t \in CfTasks |-> Nobody], byIdem |-> [k \in CfKeys |-> ""], running |-> {},
             records |-> [w \in CfWorkers |-> Unknown],
             docs |-> [i \in CfIds |-> NoDoc], docByKey |-> [k \in CfKeys |-> ""]]
    /\ now = 1 /\ answers = <<"ok", "ok">> /\ calls = 0

CfNext == CallTasks \/ CallRequeue \/ CallWorkers \/ CallDocs \/ Later

CfSpec == CfInit /\ [][CfNext]_cfVars

-----------------------------------------------------------------------------
\* The sharded store is a drop-in replacement: whatever sequence of calls is made, both stores
\* give the same answers and list the same tasks and workers (memory.go:3-5, "a
\* compatibility baseline for the sharded V2 store").
StoresAgree ==
    /\ answers[1] = answers[2]
    /\ legacy.tasks = v2.tasks /\ legacy.workers = v2.records /\ legacy.docs = v2.docs

\* The heap that replaces the scan of all tasks holds each running lease and nothing else
\* (replaceTaskIndexes, popRunningBefore).
HeapHoldsRunning ==
    {<<d.t, d.upd, d.epoch>> : d \in v2.running}
        = {<<t, v2.tasks[t].upd, v2.tasks[t].epoch>> : t \in {x \in CfTasks : v2.tasks[x].st = "RUNNING"}}

\* The sharded store can replace the legacy one after any sequence of calls: equal
\* answers and contents now, and a heap that will answer the next recovery alike.
DropInReplacement == StoresAgree /\ HeapHoldsRunning
=============================================================================
