---------------------------- MODULE TaskLifecycle ----------------------------
(***************************************************************************)
(* The life of a task between the control plane and its workers            *)
(* (internal/control/service.go, hardening.go, bootstrap.go, the task part *)
(* of internal/metadata/memory_v2.go, executeTask of internal/worker).     *)
(*                                                                         *)
(* The control plane appends to the log first and changes its metadata     *)
(* second, with no lock across the two, so every append and every call of  *)
(* the metadata store is a step of its own here.  A section under queueMu  *)
(* is one step.  The scheduler is the FIFO queue (the default, schedulerV2 *)
(* unset).                                                                 *)
(*                                                                         *)
(* The stream task:<id> appears as the state its replay ends in, rep, and  *)
(* the idempotency keys it holds, keys: replay is a left fold of applyRaw  *)
(* over the records, so an append applies applyRaw to rep.                 *)
(***************************************************************************)
EXTENDS TaskReplay, Sequences, FiniteSets

CONSTANTS Tasks,        \* task ids; their order is the order of ListStreams
          Key,          \* Key[t]: the idempotency key of t's submission
          NoKey,        \* the empty idempotency key
          Target,       \* Target[t]: target worker of t, or NoWorker
          HighWatermark,\* queueHighWatermark, 0: no limit
          MaxEpoch,     \* bound: leases from this epoch on are never lost and never expire
          MaxFaults,    \* bound: lost messages, worker failures, failed appends
          MaxCrashes    \* bound: restarts of the control plane

ASSUME TasksAssumption == Tasks \subseteq Nat /\ IsFiniteSet(Tasks)
ASSUME TargetAssumption == Target \in [Tasks -> Workers \cup {NoWorker}]
ASSUME KeyAssumption == DOMAIN Key = Tasks
ASSUME BoundsAssumption == /\ HighWatermark \in Nat /\ MaxEpoch \in Nat
                           /\ MaxFaults \in Nat /\ MaxCrashes \in Nat

VARIABLES
    meta,    \* meta[t]: the task record of the metadata store
    queue,   \* Service.queue
    load,    \* load[w]: RunningTasks of worker w
    expired, \* running tasks whose UpdatedAtMs is older than redeliveryTimeout
    rep,     \* rep[t]: what replay makes of the stream task:t
    keys,    \* idempotency keys in the log
    sub,     \* sub[t]: where the SubmitTask call for t is
    told,    \* task ids returned to a submitter
    poll,    \* poll[w]: where the PollTask call of worker w is
    jobs,    \* leases a worker has been given, with the RPC each is in
    faults, crashes  \* how much of the bounds is used

vars == <<meta, queue, load, expired, rep, keys, sub, told, poll, jobs, faults, crashes>>
ctl == <<meta, queue, load, expired>>
durable == <<rep, keys>>

-----------------------------------------------------------------------------
NoTask == [status |-> "NONE", epoch |-> 0, worker |-> NoWorker]

TaskRecords == [status : Statuses \cup {"NONE"}, epoch : Nat,
                worker : Workers \cup {NoWorker}]

SubmitPCs == {"new", "append", "create", "enqueue", "done", "failed"}

\* todo: tasks whose TaskRedelivered is still to be appended, with the epoch
\* that was read; got: requeued tasks with the worker each was taken from.
PollPCs == {"idle", "append", "requeue", "enqueue", "lease"}
Polls == [pc : PollPCs, todo : SUBSET (Tasks \X Nat),
          got : Seq(Tasks \X (Workers \cup {NoWorker}))]
IdlePoll == [pc |-> "idle", todo |-> {}, got |-> <<>>]

\* A job is a lease (task, worker, epoch) handed out in incarnation inc.
\* seen: CompleteTask read the task as RUNNING at its start.
WorkerPCs == {"leased", "executing"}
CompletePCs == {"c_valid", "c_append", "c_late", "c_meta", "c_load"}
HandlerPCs == {"starting"} \cup CompletePCs
Jobs == [t : Tasks, w : Workers, e : Nat, inc : Nat, pc : WorkerPCs \cup HandlerPCs,
         seen : BOOLEAN, outcome : Outcomes \cup {"NONE"}]

ResultEvent(outcome) == IF outcome = "FAILED" THEN "TaskFailed" ELSE "TaskCompleted"

\* An append whose idempotency key is in the log returns the old record.
AppendLog(t, key, ev) ==
    IF key \in keys
    THEN UNCHANGED durable
    ELSE /\ rep' = [rep EXCEPT ![t] = applyRaw(@, ev)]
         /\ keys' = keys \cup {key}

\* The key of TaskRedelivered is a timestamp: no two are equal.
AppendUnkeyed(t, ev) ==
    /\ rep' = [rep EXCEPT ![t] = applyRaw(@, ev)]
    /\ UNCHANGED keys

\* Mutant: the key of TaskStarted leaves the lease epoch out.
StartedKeyNoEpoch(t, w, e) == <<t, "TaskStarted", w, 0>>

StartedKey(t, w, e) == <<t, "TaskStarted", w, e>>
TerminalKey(t, type, w, e) == <<t, type, w, e>>
SubmittedKey(t) == <<t, "TaskSubmitted", NoWorker, 0>>
LogKeys == Tasks \X EventTypes \X (Workers \cup {NoWorker}) \X Nat

Fault == faults < MaxFaults /\ faults' = faults + 1

\* The Run loop of a worker makes one call at a time, a poll or a completion;
\* StartTask comes from its executor goroutines.
LoopFree(w) ==
    /\ poll[w].pc = "idle"
    /\ \A j \in jobs : j.w = w => j.pc \notin CompletePCs

\* Mutant: the load is not kept from going below zero.
DecrementWorkerLoadUnclamped(w) == load' = [load EXCEPT ![w] = @ - 1]

DecrementWorkerLoad(w) == load' = [load EXCEPT ![w] = IF @ = 0 THEN 0 ELSE @ - 1]

-----------------------------------------------------------------------------
\* The task operations of the metadata store (one shard lock each).
leaseTask(m, w) ==
    IF isTerminalTaskStatus(m.status) THEN m
    ELSE [status |-> "RUNNING", epoch |-> m.epoch + 1, worker |-> w]

HoldsLease(m, w, e) ==
    m.status = "RUNNING" /\ m.worker = w /\ m.epoch = e /\ e # 0

\* ValidateTaskLease returns no error.
LeaseAccepted(m, w, e) == isTerminalTaskStatus(m.status) \/ HoldsLease(m, w, e)

\* Mutant: a finished task takes the outcome of a later completion.
completeTaskAgain(m, w, e, outcome) == [m EXCEPT !.status = outcome]

completeTask(m, w, e, outcome) ==
    IF isTerminalTaskStatus(m.status) THEN m ELSE [m EXCEPT !.status = outcome]

requeueTask(m) == [m EXCEPT !.status = "QUEUED", !.worker = NoWorker]

\* The task a submission's idempotency key already stands for, if any.
SameKey(t) == {u \in Tasks : Key[t] # NoKey /\ Key[u] = Key[t] /\ meta[u].status # "NONE"}

-----------------------------------------------------------------------------
Init ==
    /\ meta = [t \in Tasks |-> NoTask]
    /\ queue = <<>>
    /\ load = [w \in Workers |-> 0]
    /\ expired = {}
    /\ rep = [t \in Tasks |-> InitReplay]
    /\ keys = {}
    /\ sub = [t \in Tasks |-> "new"]
    /\ told = {}
    /\ poll = [w \in Workers |-> IdlePoll]
    /\ jobs = {}
    /\ faults = 0
    /\ crashes = 0

-----------------------------------------------------------------------------
\* SubmitTask: enqueueTaskWithMetadata, with t the new task id.

\* The key is looked up and the backlog is read; nothing is reserved.
SubmitDuplicate(t) ==
    /\ sub[t] = "new"
    /\ SameKey(t) # {}
    /\ sub' = [sub EXCEPT ![t] = "done"]
    /\ told' = told \cup SameKey(t)
    /\ UNCHANGED <<ctl, durable, poll, jobs, faults, crashes>>

SubmitAdmit(t) ==
    /\ sub[t] = "new"
    /\ SameKey(t) = {}
    /\ HighWatermark = 0 \/ Len(queue) < HighWatermark
    /\ sub' = [sub EXCEPT ![t] = "append"]
    /\ UNCHANGED <<ctl, durable, told, poll, jobs, faults, crashes>>

SubmitAppend(t) ==
    /\ sub[t] = "append"
    /\ AppendLog(t, SubmittedKey(t), Event("TaskSubmitted", 0, NoWorker))
    /\ \/ /\ sub' = [sub EXCEPT ![t] = "create"]
          /\ UNCHANGED faults
       \/ /\ sub' = [sub EXCEPT ![t] = "failed"]   \* written, reply lost
          /\ Fault
    /\ UNCHANGED <<ctl, told, poll, jobs, crashes>>

\* Mutant: CreateTask does not look the key up.
SubmitCreateBlind(t) ==
    /\ sub[t] = "create"
    /\ meta' = [meta EXCEPT ![t] = [NoTask EXCEPT !.status = "QUEUED"]]
    /\ sub' = [sub EXCEPT ![t] = "enqueue"]
    /\ UNCHANGED <<told, queue, load, expired, durable, poll, jobs, faults, crashes>>

\* CreateTask looks the key up again, under its own lock.
SubmitCreate(t) ==
    /\ sub[t] = "create"
    /\ IF SameKey(t) # {}
       THEN /\ sub' = [sub EXCEPT ![t] = "done"]
            /\ told' = told \cup SameKey(t)
            /\ UNCHANGED meta
       ELSE /\ meta' = [meta EXCEPT ![t] = [NoTask EXCEPT !.status = "QUEUED"]]
            /\ sub' = [sub EXCEPT ![t] = "enqueue"]
            /\ UNCHANGED told
    /\ UNCHANGED <<queue, load, expired, durable, poll, jobs, faults, crashes>>

SubmitEnqueue(t) ==
    /\ sub[t] = "enqueue"
    /\ queue' = Append(queue, t)
    /\ sub' = [sub EXCEPT ![t] = "done"]
    /\ told' = told \cup {t}
    /\ UNCHANGED <<meta, load, expired, durable, poll, jobs, faults, crashes>>

-----------------------------------------------------------------------------
\* PollTask: redeliverExpiredTasksLegacy, then pollTaskLegacy.

\* Time: a lease outlives redeliveryTimeout.
LeaseExpires(t) ==
    /\ meta[t].status = "RUNNING"
    /\ meta[t].epoch < MaxEpoch
    /\ t \notin expired
    /\ expired' = expired \cup {t}
    /\ UNCHANGED <<meta, queue, load, durable, sub, told, poll, jobs, faults, crashes>>

PollScan(w) ==
    /\ LoopFree(w)
    /\ poll' = [poll EXCEPT ![w] =
          IF expired = {} THEN [@ EXCEPT !.pc = "lease"]
          ELSE [@ EXCEPT !.pc = "append", !.todo = {<<t, meta[t].epoch>> : t \in expired}]]
    /\ UNCHANGED <<ctl, durable, sub, told, jobs, faults, crashes>>

\* One TaskRedelivered per expired task, carrying the epoch that was read.
PollAppend(w) ==
    /\ poll[w].pc = "append"
    /\ \E item \in poll[w].todo :
          /\ AppendUnkeyed(item[1], Event("TaskRedelivered", item[2], NoWorker))
          /\ \/ /\ poll' = [poll EXCEPT ![w].todo = @ \ {item},
                                        ![w].pc = IF poll[w].todo = {item} THEN "requeue" ELSE @]
                /\ UNCHANGED faults
             \/ /\ poll' = [poll EXCEPT ![w] = IdlePoll]   \* written, reply lost
                /\ Fault
    /\ UNCHANGED <<ctl, sub, told, jobs, crashes>>

\* requeueExpiredRunning looks for expired leases again, one task at a time: it
\* pops the deadline heap, then requeues under the shard lock.  Only other polls
\* read the heap, so the two are one step.
PollRequeue(w) ==
    /\ poll[w].pc = "requeue"
    /\ \E t \in expired :
          /\ meta' = [meta EXCEPT ![t] = requeueTask(@)]
          /\ expired' = expired \ {t}
          /\ poll' = [poll EXCEPT ![w].got = Append(@, <<t, meta[t].worker>>)]
    /\ UNCHANGED <<queue, load, durable, sub, told, jobs, faults, crashes>>

\* No expired lease is left.
PollRequeued(w) ==
    /\ poll[w].pc = "requeue"
    /\ expired = {}
    /\ poll' = [poll EXCEPT ![w].pc = "enqueue"]
    /\ UNCHANGED <<ctl, durable, sub, told, jobs, faults, crashes>>

\* Mutant: redelivery leaves the load of the worker it takes a task from.
RelievedNone(w, v) == 0

\* Under queueMu: the requeued tasks go to the tail, their workers are relieved.
Relieved(w, v) == Cardinality({i \in DOMAIN poll[w].got : poll[w].got[i][2] = v})

\* Mutant: requeued tasks are not put back in the queue.
PollEnqueueLost(w) ==
    /\ poll[w].pc = "enqueue"
    /\ poll' = [poll EXCEPT ![w].pc = "lease", ![w].got = <<>>]
    /\ UNCHANGED <<ctl, durable, sub, told, jobs, faults, crashes>>

PollEnqueue(w) ==
    /\ poll[w].pc = "enqueue"
    /\ queue' = queue \o [i \in DOMAIN poll[w].got |-> poll[w].got[i][1]]
    /\ load' = [v \in Workers |-> IF load[v] > Relieved(w, v) THEN load[v] - Relieved(w, v) ELSE 0]
    /\ poll' = [poll EXCEPT ![w].pc = "lease", ![w].got = <<>>]
    /\ UNCHANGED <<meta, expired, durable, sub, told, jobs, faults, crashes>>

\* canAssignTaskToWorker for a task that is neither an actor call nor an LLM call.
Assignable(w) == {i \in DOMAIN queue : Target[queue[i]] \in {NoWorker, w}}

RemoveIndex(q, i) == [k \in 1 .. Len(q) - 1 |-> IF k < i THEN q[k] ELSE q[k + 1]]

\* Under queueMu: the first assignable task is leased, counted and handed out.
PollLease(w) ==
    /\ poll[w].pc = "lease"
    /\ poll' = [poll EXCEPT ![w] = IdlePoll]
    /\ \E i \in Assignable(w) :
          LET t == queue[i]
              leased == leaseTask(meta[t], w)
          IN  /\ \A j \in Assignable(w) : i <= j
              /\ meta' = [meta EXCEPT ![t] = leased]
              /\ load' = IF meta[t].status = "QUEUED" THEN [load EXCEPT ![w] = @ + 1] ELSE load
              /\ queue' = RemoveIndex(queue, i)
              /\ jobs' = jobs \cup {[t |-> t, w |-> w, e |-> leased.epoch, inc |-> crashes,
                                     pc |-> "leased", seen |-> FALSE, outcome |-> "NONE"]}
    /\ UNCHANGED <<expired, durable, sub, told, faults, crashes>>

PollEmpty(w) ==
    /\ poll[w].pc = "lease"
    /\ Assignable(w) = {}
    /\ poll' = [poll EXCEPT ![w] = IdlePoll]
    /\ UNCHANGED <<ctl, durable, sub, told, jobs, faults, crashes>>

-----------------------------------------------------------------------------
\* executeTask of a worker: StartTask, run, CompleteTask.

MoveJob(j, pc) == jobs' = (jobs \ {j}) \cup {[j EXCEPT !.pc = pc]}
EndJob(j) == jobs' = jobs \ {j}

\* A job that still matters to the bounds: see MaxEpoch.
MayFail(j) == j.e < MaxEpoch

StartValidate(j) ==
    /\ j.pc = "leased"
    /\ \/ /\ isTerminalTaskStatus(meta[j.t].status)
          /\ MoveJob(j, "executing")
       \/ /\ HoldsLease(meta[j.t], j.w, j.e)
          /\ MoveJob(j, "starting")
       \/ /\ ~LeaseAccepted(meta[j.t], j.w, j.e)
          /\ EndJob(j)
    /\ UNCHANGED <<ctl, durable, sub, told, poll, faults, crashes>>

StartAppend(j) ==
    /\ j.pc = "starting"
    /\ AppendLog(j.t, StartedKey(j.t, j.w, j.e), Event("TaskStarted", j.e, j.w))
    /\ \/ /\ MoveJob(j, "executing")
          /\ UNCHANGED faults
       \/ /\ EndJob(j)              \* written, reply lost
          /\ MayFail(j)
          /\ Fault
    /\ UNCHANGED <<ctl, sub, told, poll, crashes>>

\* CompleteTask reads the task before it validates the lease.
CompleteRead(j) ==
    /\ j.pc = "executing"
    /\ LoopFree(j.w)
    /\ IF isTerminalTaskStatus(meta[j.t].status)
       THEN EndJob(j)
       ELSE \E outcome \in Outcomes :
               jobs' = (jobs \ {j}) \cup
                       {[j EXCEPT !.pc = "c_valid", !.outcome = outcome,
                                  !.seen = meta[j.t].status = "RUNNING"]}
    /\ UNCHANGED <<ctl, durable, sub, told, poll, faults, crashes>>

\* ValidateTaskLease also lets a task pass that another completion has finished
\* since the read: c_late.
CompleteValidate(j) ==
    /\ j.pc = "c_valid"
    /\ \/ /\ isTerminalTaskStatus(meta[j.t].status)
          /\ MoveJob(j, "c_late")
       \/ /\ HoldsLease(meta[j.t], j.w, j.e)
          /\ MoveJob(j, "c_append")
       \/ /\ ~LeaseAccepted(meta[j.t], j.w, j.e)
          /\ EndJob(j)
    /\ UNCHANGED <<ctl, durable, sub, told, poll, faults, crashes>>

\* The record names the lease of the validated task: the caller's own, or, in
\* c_late, the one that finished the task (a finished record does not change).
CompleteAppend(j) ==
    /\ j.pc \in {"c_append", "c_late"}
    /\ LET type == ResultEvent(j.outcome)
           late == j.pc = "c_late"
           w == IF late THEN meta[j.t].worker ELSE j.w
           e == IF late THEN meta[j.t].epoch ELSE j.e
       IN  AppendLog(j.t, TerminalKey(j.t, type, w, e), Event(type, e, w))
    /\ \/ /\ MoveJob(j, "c_meta")
          /\ UNCHANGED faults
       \/ /\ EndJob(j)              \* written, reply lost
          /\ MayFail(j)
          /\ Fault
    /\ UNCHANGED <<ctl, sub, told, poll, crashes>>

CompleteMeta(j) ==
    /\ j.pc = "c_meta"
    /\ IF LeaseAccepted(meta[j.t], j.w, j.e)
       THEN /\ meta' = [meta EXCEPT ![j.t] = completeTask(@, j.w, j.e, j.outcome)]
            /\ expired' = expired \ {j.t}
            /\ MoveJob(j, "c_load")
       ELSE /\ EndJob(j)
            /\ UNCHANGED <<meta, expired>>
    /\ UNCHANGED <<queue, load, durable, sub, told, poll, faults, crashes>>

CompleteLoad(j) ==
    /\ j.pc = "c_load"
    /\ IF j.seen THEN DecrementWorkerLoad(j.w) ELSE UNCHANGED load
    /\ EndJob(j)
    /\ UNCHANGED <<meta, queue, expired, durable, sub, told, poll, faults, crashes>>

-----------------------------------------------------------------------------
\* Failures.

\* A worker dies, a reply is lost, or an append fails without a record.
LoseJob(j) ==
    /\ j.pc \in WorkerPCs \cup {"starting", "c_append", "c_late"}
    /\ MayFail(j)
    /\ Fault
    /\ EndJob(j)
    /\ UNCHANGED <<ctl, durable, sub, told, poll, crashes>>

FailSubmit(t) ==
    /\ sub[t] = "append"
    /\ Fault
    /\ sub' = [sub EXCEPT ![t] = "failed"]
    /\ UNCHANGED <<ctl, durable, told, poll, jobs, crashes>>

FailRedeliver(w) ==
    /\ poll[w].pc = "append"
    /\ Fault
    /\ poll' = [poll EXCEPT ![w] = IdlePoll]
    /\ UNCHANGED <<ctl, durable, sub, told, jobs, crashes>>

\* bootstrapTasks visits the streams in order; CreateTask keeps the first
\* task of an idempotency key.
Restored(t) ==
    /\ rep[t].ok
    /\ \A u \in Tasks : ~(u < t /\ rep[u].ok /\ Key[t] # NoKey /\ Key[u] = Key[t])

RestoredMeta == [t \in Tasks |-> IF Restored(t) THEN finalTask(rep[t]) ELSE NoTask]

\* The sequences that list S in ascending order (there is one).
Ascending(S) ==
    {q \in [1 .. Cardinality(S) -> S] :
        /\ \A i, j \in DOMAIN q : i < j => q[i] < q[j]
        /\ \A t \in S : \E i \in DOMAIN q : q[i] = t}

\* The control plane dies with its metadata, queue and running handlers, and
\* restarts with BootstrapFromLog; what workers hold survives.
Restart ==
    /\ crashes < MaxCrashes
    /\ crashes' = crashes + 1
    /\ meta' = RestoredMeta
    /\ queue' \in Ascending({t \in Tasks : RestoredMeta[t].status = "QUEUED"})
    /\ load' = [w \in Workers |-> 0]
    /\ expired' = {}
    /\ sub' = [t \in Tasks |-> IF sub[t] \in {"append", "create", "enqueue"}
                               THEN "failed" ELSE sub[t]]
    /\ poll' = [w \in Workers |-> IdlePoll]
    /\ jobs' = {j \in jobs : j.pc \in WorkerPCs}
    /\ UNCHANGED <<durable, told, faults>>

-----------------------------------------------------------------------------
Submit(t) == SubmitDuplicate(t) \/ SubmitAdmit(t)
SubmitStep(t) == SubmitAppend(t) \/ SubmitCreate(t) \/ SubmitEnqueue(t)
PollStep(w) == \/ PollScan(w) \/ PollAppend(w) \/ PollRequeue(w) \/ PollRequeued(w)
               \/ PollEnqueue(w) \/ PollLease(w) \/ PollEmpty(w)
JobStep(j) == \/ StartValidate(j) \/ StartAppend(j) \/ CompleteRead(j)
              \/ CompleteValidate(j) \/ CompleteAppend(j) \/ CompleteMeta(j) \/ CompleteLoad(j)

Next ==
    \/ \E t \in Tasks : Submit(t) \/ SubmitStep(t) \/ FailSubmit(t) \/ LeaseExpires(t)
    \/ \E w \in Workers : PollStep(w) \/ FailRedeliver(w)
    \/ \E j \in jobs : JobStep(j) \/ LoseJob(j)
    \/ Restart

Spec == Init /\ [][Next]_vars

\* Handlers run on, workers keep polling and finish what they run, time passes.
\* Nothing is assumed of clients, failures or restarts.
Fairness ==
    /\ \A t \in Tasks : WF_vars(SubmitStep(t)) /\ WF_vars(LeaseExpires(t))
    /\ \A w \in Workers : WF_vars(PollStep(w))
    /\ \A t \in Tasks, w \in Workers :
          /\ WF_vars(\E j \in jobs : j.t = t /\ j.w = w /\ JobStep(j))
          /\ SF_vars(\E j \in jobs : j.t = t /\ j.w = w /\ CompleteRead(j))

FairSpec == Spec /\ Fairness

-----------------------------------------------------------------------------
(***************************************************************************)
(* Properties.                                                             *)
(***************************************************************************)

\* Every variable holds a value of its kind.
TypeOK ==
    /\ meta \in [Tasks -> TaskRecords]
    /\ queue \in Seq(Tasks)
    /\ load \in [Workers -> Nat]
    /\ expired \in SUBSET Tasks
    /\ rep \in [Tasks -> ReplayStates]
    /\ keys \in SUBSET LogKeys
    /\ sub \in [Tasks -> SubmitPCs]
    /\ told \in SUBSET Tasks
    /\ poll \in [Workers -> Polls]
    /\ jobs \in SUBSET Jobs
    /\ faults \in Nat
    /\ crashes \in Nat

\* A queued task is in the queue exactly once, or the one handler that will
\* put it there is still running; nothing else is ever in the queue.  So
\* pollTaskLegacy never meets an unknown, running or finished task, no task is
\* handed out twice for one enqueue, and none is forgotten.
InHand(t) ==
    \/ sub[t] = "enqueue"
    \/ \E w \in Workers : \E i \in DOMAIN poll[w].got : poll[w].got[i][1] = t

QueueExact ==
    /\ \A i, k \in DOMAIN queue : queue[i] = queue[k] => i = k
    /\ \A t \in Tasks :
          meta[t].status = "QUEUED" <=> (InHand(t) \/ \E i \in DOMAIN queue : queue[i] = t)

\* A finished task is not run again after a restart, unless replay has accepted a
\* TaskRedelivered of it: whatever the order of appends, metadata updates, late
\* completions and restarts, the log then holds an outcome that replay keeps.
FinishedOnce ==
    \A t \in Tasks : isTerminalTaskStatus(meta[t].status) =>
        isTerminalTaskStatus(rep[t].status) \/ rep[t].redelivered > 0

\* The outcome replay gives a task never changes, whatever late, duplicate or
\* stale records are appended after it.
ReplayOutcomeStable ==
    [][\A t \in Tasks : isTerminalTaskStatus(rep[t].status) => rep'[t] = rep[t]]_vars

\* While the control plane is up, a lease epoch never goes back and a reported
\* outcome never changes.
LeaseEpochMonotonic ==
    [][crashes' = crashes =>
         \A t \in Tasks :
            /\ meta'[t].epoch >= meta[t].epoch
            /\ isTerminalTaskStatus(meta[t].status) => meta'[t] = meta[t]]_vars

\* RunningTasks of a worker never counts more than the tasks it runs and the ones
\* whose handler is about to take them off: no load is left behind when a lease
\* expires, is completed late or is lost.
Running(w) == {t \in Tasks : meta[t].status = "RUNNING" /\ meta[t].worker = w}
Completing(w) == {j \in jobs : j.w = w /\ j.pc = "c_load" /\ j.seen}
Requeued(w) == UNION {{<<v, i>> : i \in {k \in DOMAIN poll[v].got : poll[v].got[k][2] = w}} :
                      v \in Workers}

NoLoadLeft ==
    \A w \in Workers :
        load[w] <= Cardinality(Running(w)) + Cardinality(Completing(w)) + Cardinality(Requeued(w))

\* An idempotency key names one task, however submissions with it race.
KeyNamesOneTask ==
    \A t, u \in Tasks :
        /\ meta[t].status # "NONE" /\ meta[u].status # "NONE"
        /\ Key[t] = Key[u] /\ Key[t] # NoKey
        => t = u

\* Every task whose submission was admitted and not failed reaches an outcome.
EveryTaskFinishes ==
    \A t \in Tasks : (t \in told /\ meta[t].status # "NONE") ~> isTerminalTaskStatus(meta[t].status)
=============================================================================
