# LogServe: TLA+ models, model checking and proofs

LogServe runs tasks, workflows and actors on workers. Everything it promises
rests on a log: the control plane appends an event to a stream first, changes
its metadata second, and rebuilds the metadata from the log after a restart.
This directory holds TLA+ models of that design as the Go code implements it,
TLC runs that check them on small instances, and TLAPS proofs.

## 1. The system

| Part | Source | State it keeps | Operations |
|---|---|---|---|
| Log store (`logd`) | `internal/logstore` | segment, index, retention and manifest files; index, numbers and idempotency map in memory | `Append`, `ReadEach`/`ReadRawEach`, `Trim`, `Compact`, `Open`, `Close` |
| Task control plane | `internal/control/service.go`, `hardening.go` | task queue, running handlers | `SubmitTask`, `PollTask` (with redelivery of expired leases), `StartTask`, `CompleteTask` |
| Task replay, bootstrap | `control/task_replay.go`, `bootstrap.go` | none; builds metadata from streams | `BootstrapFromLog`, `replayTaskMetadata` |
| Metadata store | `internal/metadata/memory_v2.go` (default), `memory.go`, `postgres.go` | tasks, workers, workflows, actors, functions and their indexes | one locked operation per call |
| Worker agent | `internal/worker/agent.go` | leases being executed, completions to send | poll, start, execute, complete in batches |
| Workflow runtime | `control/service.go`, `internal/workflow` | step states of a DAG | `SubmitWorkflow`, `scheduleReadySteps`, `completeWorkflowStep`, replay |
| Actor runtime | `control/actor.go`, `internal/actor`, `internal/actorlock` | owner, epoch, state version, mailbox | `CreateActor`, `CallActor`, `completeActorCall`, snapshots and trimming |
| Checkpoints | `control/checkpoint.go` | metadata snapshots with stream positions | `CreateMetadataCheckpoint`, tail replay at bootstrap |
| Scheduler v2 | `control/scheduler.go`, `scheduler_placement.go` | deques per kind of task, deadline heap, worker views, placement indexes | `Enqueue`, `Assign`, `TrackRunning`, `PopExpiredRunning`, `UpdateWorker`; optional replacement of the FIFO queue |
| LLM and functions | `control/llm.go`, `functions.go` | statistics per model and worker, registries, policy | eligibility of a worker for a request, `RegisterModel`, `SetSchedulingPolicy`, function registration |
| Materializer, PostgreSQL | `metadata/materializer.go`, `postgres.go` | channel, overflow and pending maps; rows | writes a snapshot of every changed row, at once or in batches; `Flush`, `Close` |
| Object store | `internal/objectstore` | content-addressed files or S3 objects | `Put`, `Get`, multipart uploads |
| Web API | `internal/webapi` | event subscriptions, sessions | HTTP handlers that make one control-plane call; event streams that poll |
| Others | rpcauth, observability, eventcodec, cmd, SDK, executor | none | translation and wiring |

How they interact. Clients and workers call the control plane over gRPC; every
handler runs in its own goroutine. A handler appends to a stream of the log
service (`task:<id>`, `wf:<id>`, `actor:<id>`), where an idempotency key
turns a repeated append into the old record, and then calls the metadata store,
which locks one shard per call. The FIFO queue has a mutex of its own. No lock
covers an append and the metadata change that follows it, so handlers
interleave between any two of these steps. Workers poll; a lease that is not
completed in time is redelivered by the next `PollTask` of any worker.

What is hard here: late completions racing redelivery and other completions;
records appended in an order no handler intended; an append whose reply is lost;
a restart that keeps the log and forgets the metadata; in the log store, crashes
between the file operations of compaction and of recovery itself, readers that
run without the lock, and failing writes. Around them: indexes and mirrors that are
brought up to date after the lock of what they copy was released (task indexes,
scheduler views, placement, PostgreSQL rows); a checkpoint that is taken while its
tables change; completions of actor commands outside the actor's lock; signals,
channels and singleflight loads that must not leave a waiter behind; uploads whose
reply is lost. `PROJECT.json` lists these hazards at their lines.

What makes each part correct:

* log store: what was acknowledged is stored until trimmed; numbers and keys are
  given once; the index is what recovery would rebuild; a read skips nothing;
* tasks: a finished task stays finished across restarts; a queued task is queued
  once; epochs fence old leases; accepted tasks finish;
* workflows: a step is attempted after its dependencies and no more often than it
  may; replay gives the state the metadata had; a result is never taken back; a
  workflow ends;
* actors: commands are applied once and in order; a snapshot and the records after
  it give the state, whatever was trimmed;
* checkpoints: checkpoint and tail give what a full replay gives;
* indexed scheduler: a queued task is in its deque or in one handler's hands, a
  running lease has a deadline or somebody who will settle it;
* placement: the indexes are what the views and statistics say; a request always
  has a worker that may take it;
* intake: a poll misses no task, the backlog is bounded, a key has one content;
* stores: indexes agree with records, the sharded store answers like the legacy
  one, the newest version of a row reaches PostgreSQL, refs name whole objects;
* worker: what is in flight is counted exactly, an actor runs one command at a
  time, a model is loaded once, the byte count of the cache is right.

## 2. Modules

| Module | Models | Notes |
|---|---|---|
| `TaskReplay` | `taskReplayState.applyRaw` | the replay state machine, as operators |
| `TaskLifecycle` | submit, poll, start, complete, redelivery, restart | extends `TaskReplay` |
| `MCTaskLifecycle` | constants for TLC | |
| `TaskLifecycleProofs` | theorems about `TaskLifecycle`: outcomes; queue, load, keys, epochs | |
| `FoldTheorems` | least numbers, steps, sums and the folds of the community modules | lemmas the proofs share |
| `SharedLog` | what the log service promises | abstract specification |
| `SharedLogProofs` | theorems about `SharedLog` | |
| `LogStore` | segments, indexes, compaction, recovery, reads | implements `SharedLog` |
| `LogStoreProofs` | theorems about `LogStore`, its refinement of `SharedLog`; about `RecordCodec` | |
| `MCLogStore` | instances of `LogStore` for TLC | |
| `WorkflowRuntime` | workflow steps, retries, completion, restart | tasks coarser than in `TaskLifecycle` |
| `WorkflowProofs` | theorems about `WorkflowRuntime` | |
| `MCWorkflow` | instances of `WorkflowRuntime` for TLC | |
| `ActorRuntime` | creation, ownership, mailbox, completion, snapshots, restart of one actor | |
| `MCActor` | instances of `ActorRuntime` | |
| `SchedulerV2` | `scheduler.go` and the handlers that use it | default queue: `TaskLifecycle` |
| `TaskIntake` | checks of a submission, backpressure, long poll | |
| `LlmPlacement` | `scheduler_placement.go`, eligibility and statistics of `llm.go` | |
| `WorkflowDag` | `workflow/model.go`: validation, Kahn's order, ready queue | |
| `Registry` | functions, models, scheduling policy and their replays | |
| `Checkpoint` | `checkpoint.go` | extends `TaskReplay` |
| `MCControl` | the six modules above, one per behaviour | |
| `SchedulerProofs`, `ControlProofs` | theorems about `SchedulerV2`; about `TaskIntake`, `Registry`, `LlmPlacement`, `WorkflowDag` and `Checkpoint` | |
| `WorkerAgent` | loop, pools and Python runners of a worker | extends `ActorLock` |
| `ActorLock` | `actorlock/table.go` | |
| `ModelCache` | checkpoint cache of a worker | |
| `Materializer` | `materializer.go`, the write paths of `postgres.go` | |
| `TaskIndex`, `WorkerStore` | task and worker records of `memory_v2.go`, lock by lock | |
| `StoreConformance` | `memory.go` and `memory_v2.go`, call by call | |
| `LocalObjects`, `S3Objects` | `objectstore` | S3 itself is external |
| `EventStream` | `webapi/handlers_events.go` | |
| `RecordCodec` | record format, decoders and recovery scan of `logstore` | |
| `MCNode` | the modules from `WorkerAgent` on, one per behaviour | |
| `NodeProofs` | theorems about every module from `WorkerAgent` on but `RecordCodec` | |

### TaskLifecycle

`meta`, `queue`, `load` and `expired` are the control plane's memory, lost in a
restart. The stream of a task is represented by `rep`, the state its replay ends
in, and by `keys`, the idempotency keys it holds; replay is a left fold over the
records, so an append is one application of `applyRaw`. `sub`, `poll` and `jobs`
say where each running call is. Each action is one append, one call of the
metadata store, or one section under `queueMu`:

| Handler | Actions |
|---|---|
| `SubmitTask` → `enqueueTaskWithMetadata` | `SubmitDuplicate`, `SubmitAdmit`, `SubmitAppend`, `SubmitCreate`, `SubmitEnqueue`, `FailSubmit` |
| `PollTask` → `redeliverExpiredTasksLegacy`, `pollTaskLegacy` | `PollScan`, `PollAppend`, `PollRequeue`, `PollRequeued`, `PollEnqueue`, `PollLease`, `PollEmpty`, `FailRedeliver` |
| `StartTask` | `StartValidate`, `StartAppend` |
| `CompleteTask` | `CompleteRead`, `CompleteValidate`, `CompleteAppend`, `CompleteMeta`, `CompleteLoad` |
| `BootstrapFromLog` | `Restart` |
| time, worker and network failures | `LeaseExpires`, `LoseJob` |

A poll of the code may take several tasks; here it takes one, and the worker
polls again, which is the same sequence of critical sections with more
interleavings. Payloads, resource requirements and result objects are left out.

### LogStore

The directory is `logs`, `idx`, `tmpLog`, `tmpIdx`, `ret` and `manifest`; the
other variables are the `Store`. `pc` says what the holder of `Store.mu` is
doing; operations are split wherever a crash leaves other files behind or a
reader can see the difference. A record is one unit long, so `SegCap` counts
records and an offset is a position; an index file is the number of records it
lists, which is what `validateIndexedSegmentCoverage` compares. `Torn` is a
record that was not written to its end. A crash loses no write that returned
(`FsyncPolicy` "always"); what a power failure does to unsynced renames is a
property of the file system and left out.

`ImplementsSharedLog` is the refinement: `recs` is the set of readable records in
the directory, `trim` the saved watermarks, and `next` the number recovery would
continue with. An append takes effect in the abstract log when its bytes are in
the file, whether or not the caller hears of it; a compaction is a `Drop` when
the last file holding a trimmed record goes; recovery and copying are stutters.

### WorkflowRuntime

One workflow: `wf` in the metadata, `log` as replay of its stream gives it, `keys`
as the idempotency keys in the stream. All changes are made under `workflowMu`;
`hold` says where its holder is between an append and the metadata change after
it, which is where a crash parts the two.

| Handler | Actions |
|---|---|
| `SubmitWorkflow` | `SubmitAppend`, `SubmitCreate`, then `scheduleReadySteps` |
| `scheduleReadySteps` | `ScheduleBegin`, `ScheduleSubmit`, `ScheduleCreate`, `ScheduleAppend`, `ScheduleMeta`, `ScheduleEnd` |
| `PollTask`, redelivery | `Lease`, `Redeliver` |
| `StartTask`, `markWorkflowStepStarted` | `Start`, `MarkStarted`, `MarkStartedMeta` |
| `CompleteTask` | `CompleteRead`, `CompleteTask` |
| `completeWorkflowStep`, `completeWorkflow`, `failWorkflow` | `CompleteStep`, `StepSucceeded`, `StepFailed`, `EndAppend`, `EndMeta` |
| `BootstrapFromLog` | `Restart`, then `scheduleReadySteps` before anything is served |
| failures | `HandlerFails`, `LoseJob` |

Tasks are those of `TaskLifecycle` in fewer steps: a completion is durable when the
metadata has it, so the race of the first hazard at `hardening.go:256` does not show
here. The task of a step's n-th attempt is `<<step, n>>`, as its idempotency key
says. The order in which ready steps are taken is left open (`WorkflowDag` has the
ready queue). Leases held at a restart are dropped, because every call for them is
refused. Failed appends write nothing; lost replies are not modelled in this module.
Arguments, results and their hashes do not show.

### ActorRuntime

`actor` is the metadata, `stream` and `first` the stream of the actor with its trim
watermark, `proc` the submissions and the creation, `threads` the workers and their
completions. `CreateAppend`, `CreateMeta` and `OwnerStep` are `CreateActor` and
`ensureActorOwner`; `SubmitLock`, `SubmitAppend`, `EnqueueCall`, `SubmitCount` are
`submitActorCommand`; `LeaseCommand`, `Redeliver` the mailbox part of polling;
`CompleteAccept` to `CompleteFinish` are `completeActorCall` with the snapshot and its
trim. The state of the actor is the sequence of commands applied to it, so "lost",
"twice" and "out of order" are visible.

### SchedulerV2 and LlmPlacement

In `SchedulerV2` a method of `Scheduler` is one step (it holds `mu`), and a handler a
sequence of them with the metadata calls in between: `PopExpiredRunning`, `Validate`,
`AppendRedelivered`, `Requeue`, `RequeueEnqueue` are
`redeliverExpiredTasksIndexed`, `Assign`, `LeaseTask`, `PollTracks` are
`pollTaskIndexed`, `CompleteMeta` and `CompleteRunning` the end of `CompleteTask`.
`AssignLocksTwice` is the callback that locks `mu` again (section 6).
`LlmPlacement` has the indexes as sets of `<<worker, score>>`, the statistics as
counts and weighted averages, and one action per call that changes a worker's view
or statistics. Latencies are two values; the averages are computed as in the code.

### TaskIntake, Registry, Checkpoint, WorkflowDag

`TaskIntake` splits `enqueueTaskWithMetadata` at its look-up, its admission, its
append, its creation, its queueing and its notification, and `PollTask` at the signal
it takes, the poll and the wait. `Registry` has the submission of functions part by
part under `functionsMu`, and the log-then-apply of models and policies.
`Checkpoint` follows one stream: handlers append and then update the tables, the loop
reads the last numbers, copies the table, and appends the checkpoint; a restart
applies checkpoint and tail, compared with a full replay. The fence that
`taskReplayState` raises at a redelivery is no field of `metadata.Task`, so rows and
checkpoints lack it (`Row`). `SameState` therefore lets the checkpoint of a task know
two things more than the stream: a lease that was granted in the metadata only, and the
outcome of an epoch whose start the whole stream fences (`StartFenced`: a lease that was
not in the log when its task was redelivered is granted again after a restart).
`WorkflowDag` runs the
counters of `RuntimeDAG` for every definition of three steps over a set of dependency
lists, cycles and repeated entries included.

### Worker: WorkerAgent, ActorLock, ModelCache

The loop is `PollLoop`, `CollectResults`, `HeartbeatTick` and `CancelContext`; each
executor goroutine takes a job, claims the lease, looks up the function, runs it and
reports. A runner knows which functions its subprocess has compiled; it answers,
breaks, or is killed by a timeout. `ActorLock` is used through its two halves, entry
and mutex. `ModelCache` has the files, the index and the singleflight map; an action
is one section under the cache's mutex or one file operation.

### Stores: Materializer, TaskIndex, WorkerStore, StoreConformance

`Materializer` has rows with revisions; a mutation, its version, its channel send or
overflow, the goroutine's merges, batches, failed transactions, `Flush` and `Close`
are separate actions. `TaskIndex` takes a mutation of `taskStoreV2` apart into record,
indexes and heap, with callers as `internal/control` makes them. `WorkerStore` has the
double-checked creation of a record and the compare-and-swap loop of its counter.
`StoreConformance` defines each operation of both stores as a function from store and
arguments to store and answer, and makes every call on both.

### Objects, events, records

`LocalObjects` publishes by rename and loses unsynced directory entries when power
goes. `S3Objects` lets every request be refused or carried out with its reply lost.
`EventStream` is the cursor and the suppression of equal frames. `RecordCodec` has a
segment as cells (two of header, one of extension, one per byte of the body), both
decoders and `recoverSegment` over damaged tails; checksums have no collisions.

## 3. Runs

| Run | Instance | States | Shows |
|---|---|---|---|
| `task` | 2 submissions with one key, watermark 1, 2 workers, 1 failure, 1 restart, 2 lease epochs, within `Bounded` | 2.3 M | `QueueExact`, `FinishedOnce`, `NoLoadLeft`, `KeyNamesOneTask`, `ReplayOutcomeStable`, `LeaseEpochMonotonic`, `TypeOK` |
| `task_liveness` | 1 task, 1 worker, 1 failure, 1 restart, 3 epochs, fairness | | `EveryTaskFinishes` |
| `log` | 2 streams, 1 key, 5 records, segments of 2, 2 stops, 1 reader in batches of 2, within `Bounded` | 0.6 M | `AckedStored`, `IndexExact`, `ReadComplete`, `ImplementsSharedLog` |
| `workflow` | chain of 2 steps with 2 attempts and 2 leases, 2 workers, 1 failure, 1 restart | 2.4 M | `AttemptsJustified` (`DepsFirst`, `RetryLimit`), `ViewDurable`, `SucceededForever` |
| `workflow_ends` | join of 3 steps, two with 2 attempts, fairness | | `WorkflowEnds` |
| `actor` | 2 commands, 2 workers, 2 ownership epochs, 2 leases, snapshot after 2 commands, up to a restart | 1.0 M | `AckedReplayed`, `StateInOrder`, `ReplayMatches` |
| `control` | the six parts below | 2.1 M | 9 properties |
| `node` | the ten parts below | 1.0 M | 12 properties |
| `log_copy_crash` | 5 records, 2 crashes, copying | | `AckedStored` fails |
| `log_write_fail` | 1 failed file operation | | `AckedStored` fails |
| `workflow_stuck` | chain of 2 steps, 1 worker, 1 restart, fairness | | `WorkflowEnds` fails |
| `actor_snapshot_loss` | 2 commands, a snapshot after each | | `AckedReplayed` fails |

`control` and `node` check parts that share no variable. Their product would multiply
states and show nothing more, so an initial choice (`unit`) picks the part a
behaviour follows, and the other parts keep one initial state. What a part asks of
the others (the log, the metadata, the callers) is in its own module. A property of a
part is the conjunction of the named invariants in parentheses, each stated and
commented in the module.

| Part of `control` | Instance | Properties |
|---|---|---|
| scheduler | 2 tasks in every mix of LLM, general, targeted and actor queues, 2 workers, 2 epochs, 1 fault, two policies | `UnfinishedFindable` (`QueuedFindable`, `RunningTracked`), `RedeliveredEpoch` |
| intake | 2 submitters, 3 submissions, 1 key with 2 contents, watermark 1 or 2, 1 poller, 1 administrator, restarts | `NoLostWakeup`, `ChecksHold` (`BacklogBounded`, `OneContentPerKey`, `ConfigReplayed`) |
| placement | 2 workers of 1 slot, 1 model, 2 requests, latencies 10 and 300, three policies, restart | `ScoresExact` (`PlacementExact`, `StatsOfLog`), `SomeoneEligible` |
| graph | 3 steps, dependency lists with cycles and repetitions, 2 attempts | `GraphExact` (`TopologicalOrder`, `ReadyExact`) |
| registry | 2 submissions of up to 2 parts, 1 function, 1 model, 1 policy change, restarts | `RegistriesDurable` (`AcceptedRuns`, `PolicyReplayed`) |
| checkpoint | 4 records of one of four kinds, 2 checkpoints of which 1 is kept, restarts | `CheckpointPlusTail` |

| Part of `node` | Instance | Properties |
|---|---|---|
| agent, locks | capacity 2, 1 Python, 2 actor and 1 LLM executor, 4 tasks, end after 3 | `WorkAccounted` (`InFlightExact`, `NothingLeftAtClose`), `HashOnlyRuns`, `ActorsSerial` (`ActorSerial`, `TableExact`) |
| cache | 2 executors, models of size 1, 2 and 3 in a cache of 2, faults and restarts | `CacheConsistent` (`OneCopy`, `WaiterHasProducer`, `UsedExact`, `AdvertisedIndexed`) |
| materializer | 2 rows, 2 writers, 3 mutations, channel and batches of 1, both modes | `RowsPersisted` (`NewestKept`, `FlushDurable`, `RowWhole`) |
| task index | 2 tasks, 2 goroutines, 2 leases, a lister | `IndexesFaithful` (`TaskIndexExact`, `ListComplete`) |
| worker records | 1 worker, 3 goroutines, 2 leases | `LoadCounted` (`OneRecord`, `NoPhantomLoad`) |
| conformance | 2 tasks, 1 key, 1 worker, 1 document, 5 calls | `DropInReplacement` (`StoresAgree`, `HeapHoldsRunning`) |
| local objects | 2 objects of 2 chunks, 2 writers, 4 calls, 1 power loss | `ObjectsPublished` (`RefReadable`, `NoTempLeft`) |
| S3 | sizes 1, 3 and 4 with parts of 2, 2 writers, 5 calls | `ObjectsStored` (`ObjectWhole`, `NoOrphanUpload`, `ReadWhole`) |
| events | 4 records, reads of 2, 3 changes of 2 values | `ClientCurrent` (`RecordsOnce`, `ScreenCurrent`) |
| records | 2 records of 3 shapes and 4 formats, 2 damages | `RecordsReadBack` (`RecoveredExact`, `ReadersAgree`) |

Why the bounds are enough for the cases that matter: two lease epochs give an
expired lease, its successor and a late completion of the first; leases from
`MaxEpoch` on neither expire nor get lost, which only keeps the state space
finite. Two workers are what it takes for a poll to redeliver the other's lease.
`Bounded` of `MCTaskLifecycle` leaves out the product of it all: one submission meets
both workers, the failure and the restart; two submissions meet both workers without
them, and one worker's leases with them.
With segments of two records, three records seal a segment that is partly or
fully trimmed, and five give two such segments; two streams share each segment.
`MaxStops` 2 interrupts recovery and recovers again. `Bounded` of `MCLogStore` allows
two stops after four appends or one after five: with a fifth record and a second stop
the reserved segment id is used again and `log_copy_crash` finds a record lost. At
these limits records have no keys, and with five one stream is trimmed: keys with two
stops are met with three records, trims of both streams with four. It
also keeps the reader to one stream without keys and without a stop, since a reader
knows one stream and is gone after a stop. `MaxSeg` only limits how many segments are
ever made. In `workflow` a step with two attempts and two leases of
each task gives late starts and late reports of an earlier attempt; the step after
it shows what was scheduled on their strength. `workflow_ends` lets no lease
expire, for a late start can stop a workflow (section 6). In `actor` two commands are
a predecessor and a successor; no command is redelivered while its completion is
being handled, and behaviours end with the restart (section 6 says what lies
beyond). In the materializer a channel and batches of one make overflow and a second
batch happen with three mutations; in S3 a part of two units gives single uploads,
full parts and a short last part; in the record format chunks of two cells give bodies
below, at and above a chunk. Administrators and policy setters are one each: two at
once can append in one order and apply in the other (`hardening.go:17`, `llm.go:77`).
Workers in the safety runs and streams in the log runs are symmetric: nothing orders
them.

The task runs check for deadlock: a worker always polls. The others do not: a store
that nobody calls, a workflow that has ended and clients that have made all their
calls may stop.

Fairness (`FairSpec`). Handlers that have begun go on (`WF` of the submit, poll
and job steps): they are goroutines that wait only for calls that return. Time
passes, so an unfinished lease expires. A worker's `Run` loop polls until it is
shut down. `SF` of `CompleteRead` says that a worker whose loop alternates
between polls and completions gets to send each completion: `flushCompletions`
runs in the same loop as the poll. Nothing is assumed of clients, of failures or
of restarts. For workflows, `SF` of `ScheduleBegin` and of the steps of a job says
that a goroutine waiting for `workflowMu` gets it: Go's `Mutex` hands itself over
to a waiter that has starved for a millisecond.

## 4. Proofs

Each theorem holds for every value of the constants that satisfies the named
assumptions of its module: any number of tasks, workers, streams, attempts, leases,
faults and restarts. `PROJECT.json` lists the theorems; 35 of the 40 properties the
runs check are among them. An invariant that a proof needs was checked by TLC on the
instance of the run before it was proved.

| Module | Theorems about the runs' properties | Inductive invariant |
|---|---|---|
| `TaskLifecycleProofs` | `TypeOK`, `FinishedOnce`, `ReplayOutcomeStable`, `QueueExact`, `NoLoadLeft`, `KeyNamesOneTask`, `LeaseEpochMonotonic` | `IInv`; `QInv`, `LInv`, `CInv` |
| `SharedLogProofs` | `LogGuarantees` (abstract log) | `IInv` |
| `LogStoreProofs` | `AckedStored`, `IndexExact`, `ReadComplete`, `ImplementsSharedLog`, `RecordsReadBack` | `StoreInv`, `ReadInv`; `CodecInv` |
| `WorkflowProofs` | `AttemptsJustified`, `ViewDurable`, `SucceededForever` | `WInv` |
| `SchedulerProofs` | `UnfinishedFindable`, `RedeliveredEpoch` | `SchedInv` |
| `ControlProofs` | `NoLostWakeup`, `ChecksHold`, `RegistriesDurable`, `ScoresExact`, `SomeoneEligible`, `GraphExact`, `CheckpointPlusTail` | `IntakeInv`, `RegInv`, `LlmInv`, `DagInv`, `CkInv` |
| `NodeProofs` | `WorkAccounted`, `HashOnlyRuns`, `ActorsSerial`, `IndexesFaithful`, `LoadCounted`, `ObjectsPublished`, `ObjectsStored`, `DropInReplacement`, `ClientCurrent`, `RowsPersisted`, `CacheConsistent` | `AgentInv`, `LockInv`, `IdxInv`, `StoreInv`, `ObjInv`, `S3Inv`, `CfInv`, `EvInv`, `MatInv`, `LoadInv` and `DirInv` |

### Tasks

`FinishedOnce` relates metadata and log, which are changed in different steps,
so it is not inductive. `IInv` adds what is true in between. `FreshTasks`: a task
that is still being submitted has left no trace but its own submission, so
`TaskSubmitted` is never appended to a stream that has moved on. `KnownTasks`:
queues and polls hold tasks the metadata has. `EpochsAhead`: the metadata is
never behind the epochs replay has seen. `OpenTasks`: as long as replay
holds a task open (no outcome, no redelivery), every job that passed `StartTask`
is of an epoch replay has seen start, every completion in the log is of an older
epoch, and the metadata is not finished. The proof has one lemma per group of
actions (`SubmitInv`, `PollInv`, `JobInv`, `RestartInv`), and rests on lemmas on
what each kind of record does to a replay state. In `TypeCorrect` the part that is
not routine is that `RunningTasks` never goes below zero.

`QueueExact` needs `OnePlace` (a task is in the queue or in one hand, never in two:
one submission, or one position of one poll's list) and `GotHeld` (a poll holds
requeued tasks only until it has put them in the queue). `NoLoadLeft` counts: the proof follows
each decrement to the running lease, completion or requeue that pays for it, and
`CInv` says that a worker's loop is in one call at a time, and that a completion whose
lease is still current has read the task as running, so that it will pay.

### Log store

`log_copy_crash` (section 6) shows that a crash inside the copying of segments can cost
an acknowledged record later on, so the theorems are about `CalmSpec`: every behaviour of
`Spec`, crashes at every other step and inside recovery included, except a crash between
the plan of a copying compaction and its last rename. `LogWithoutCopies` is about `Spec`
itself, for a store that only deletes whole segments (`CopyPartial` false). Failed
writes (`FaultNext`) are in neither; `log_write_fail` shows what they do.

`StoreInv` is built in layers. `FilesOK` is about the directory alone: only the last
record of the last segment can be torn (`TornLast`), an index file lists no more than its
segment holds (`IdxBound`), what a manifest plans to delete is trimmed (`DelTrimmed`), a
copy holds the live records of its original in their order (`CopyState`), files left by
an earlier compaction are harmless (`Leftover`), and no record is in two segments of
`View` (`Unique`): until the index moves to the copies a record counts in the old
segment, afterwards in the new one. `TypesB`, `ActiveOK` and `IndexOK` say that the index
in memory lists exactly the records of `View`, but for one that is being written.
`Numbers`, `NoGap` and `AckedStored` are what callers are promised. Every step is one of
four kinds for the stored records: `Same`, one `Appended`, trimmed ones `Dropped`, or a
watermark `Trimmed`; the refinement of `SharedLog` follows from that classification.
`ReadInv` relates a reader to the store it left: what it has delivered, what its batch
still holds and what lies behind the batch are together every live record of its range,
although the segments it has chosen may have been copied and removed since.

`CodecInv` is about the cells of one segment. Records that were written whole stand one
behind the other from the first cell on; the scan of `recoverSegment` has found a prefix
of them and stands where the next begins; what a crash or damage left behind the last one
does not decode. From that, both decoders read the same record at every place the scan
accepts, and the chunks of a body, joined, are the body.

### Workflows

`WInv` has eight parts. `Submitted` and `Idle` say what exists before a
submission and between handlers; `StreamExact` ties the idempotency keys in the
stream to the replayed steps; `Views` says how far the metadata may be behind the
stream, by the step the holder of `workflowMu` is in; `Retries` and `Holder` say what a
handler that waits for the lock, or has it, already made durable. `DepsFirst` is then
inductive because a success is never taken back; `SucceededForever` uses `Views`,
since a restart replaces the metadata by the replayed stream.

`RetryLimit` is what the code keeps: attempt n+1 exists only if some attempt up to n
was reported FAILED. That attempt n itself was is false: `completeWorkflowStep` does not
ask whether the reporting task is the current attempt, so a late FAILED of attempt 1
also ends attempt 2 and attempt 3 is scheduled (`service.go:1204`; three attempts are
needed to see it). The proof of the sharper form failed exactly there.

### Indexed scheduler

`SchedInv` says of every task where it is: in its deque exactly once while it is queued
(`Deques`, `Places`), or with one poll (`HoldersExact`), tracked with its current epoch
and deadline (`LeasesExact`), or with one redelivery whose popped lease is still the
current one (`PoppedExact`). `TaskAt` restates this task by task, and `OneTaskMoves`
reduces a step to the task it moves. A
by-product is that no entry of a deque is ever stale: the check in `Assign` that skips
entries whose task is no longer queued never finds one (`Deques`, `FrontIsFirst`).

### Intake and registries

`NoLostWakeup` follows a signal from the poller that took it before it looked to the
submission that closes it after it queued (`EmptySeen`). `OneContentPerKey` needs that
every answer is of a stored task (`AnswersStored`); `BacklogBounded` counts the
admitted submissions that have not queued yet (`BacklogRoom`). These hold with any
number of submitters and administrators (`SubmissionChecksHold`), and `AcceptedRuns`
with any number of policy setters. That limits and policy in force are the ones a
restart restores is proved under the explicit hypotheses `OneAdministrator` and
`OnePolicySetter`: no lock spans append and effect, and two calls at once can append in
one order and apply in the other (`hardening.go:17`, `llm.go:77`). TLC checks them with
one of each.

### Placement and the step graph

`PlacementExact` says that incremental updates leave the indexes as a rebuild from views
and statistics would make them; the proof shows for every call that the entries it takes out and puts in are
those whose score its change touches (`Affected`). `StatsOfLog` needs that statistics do not depend on the
order in which the replay takes the streams: `Follows` says what counts and averages are
after any set of the records. `SomeoneEligible` needs `LoadCounts`, a worker's load is the
number of requests it runs, and `Numbered`, so that a request still queued is in nobody's
load.

`GraphExact` is about Kahn's algorithm and the ready queue for a definition of any number
of steps with any dependency lists. The queue of `topologicalStepDefinitions` holds, once
each, exactly the steps whose dependencies have all been taken; if it ends early, the
steps it lacks form a cycle, and a definition with a cycle is rejected by the search,
because a path that grows by one unvisited step at a time must close. While the graph
runs, `remaining` is the number of entries of unfinished dependencies (`Counted`,
repetitions in the list included), and every step that may run is in the ready queue or
has run (`AllReady`).

### Checkpoints

`CheckpointPlusTail` compares two replays of one stream. Neither is computed by an
induction over the log: `CkInv` follows both side by side as the stream grows by one record
(`ReplayAppend`). For workflows, actors and LLM statistics the row is the replay up to the
record a handler has not applied yet (`RowCurrent`), and replaying records a row already
has changes nothing but the statistics, which is why `fit` is stricter for them. For
tasks the two replays may differ, and three relations say by how much: `TaskBase` (the
shape of the stream and of the lease a handler works for, in every state), `TaskSound` (how
far row and full replay may be apart) and `TaskKept` (the replay from the checkpoint lies
between the full replay and the row). A checkpoint that has read its
sequence numbers and not yet copied the table is followed for every row the table may
still come to hold (`Tracks`, `MayBecome`), so the copy, whenever it is made, is one
of them. A restart makes the restored row the current one.

The attempt to prove this of an earlier form of the model failed: there a row kept the
redelivery fence, which `metadata.Task` has no field for. The model now follows the code,
and `StartFenced` is the difference between the two replays that this brings to light.

### Worker and stores

`InFlightExact` is nearly inductive; `AgentInv` adds the phases of the loop. For
`HashOnlyRuns` the invariant is that what the runner believes compiled is compiled in
the subprocess it serves. `LockInv` counts the goroutines that refer to a table entry
(`TableCounts`), from which an entry is never dropped under a user, and adds that an
executor with a command of an actor owns that actor's mutex. `IdxInv` says how far
indexes and heap may be behind the record by the step of the one mutator that has it
(`OneMutator`, `IndexesTrail`, `HeapTrails`). `StoreInv` keeps record numbers distinct
and pairs each unit of load with an open lease. `ObjInv` and `S3Inv` say what a call
under way knows (`PutsKnow`, `PutsTrack`) and, for S3, that upload ids are unique.

`Alike` is a relation between the legacy and the sharded store under which every call
gives the same answer and leaves `Alike` stores: equal records and key indexes, and a set
of leases that holds exactly the running tasks with their current epoch and time. `EvInv` keeps the cursor just
past what the client has. `MatInv` follows the newest accepted version of a row
through channel, overflow, pending map and table (`Kept`); merging a drained channel is a fold, and the proof
takes it delta by delta. In the cache, `LoadInv` says that a singleflight entry names the
one executor that loads, from which no waiter is left behind; `DirInv` that entries are distinct, that
their sizes add up to `usedBytes`, and that evicting the shortest suffix that makes room
keeps both.

### Folds

Several operators are folds (`FoldLeft`, `FoldFunctionOnSet`). The induction theorems of
the library take an operator as a parameter and cannot be used, and the community modules
define a fold by `CHOOSE`, which proves nothing until the chosen function is known to exist.
`FoldTheorems` shows that it does, with induction stated over sets of numbers (`LeastNat`,
`StepsTo`) and over subsets of a finite set (`SubsetsByPick`). A proof then reasons about
the values the fold goes through, as it would about the states of a loop.

### Assumptions

Bounds are natural numbers, sets that are counted are finite, names of different kinds
differ (`NoTask`, `NoKey`, pools of executors), and tables given as constants have the
domains they are used on. A torn record is no record (`TornAssumption`), `""` is the name of no
task, key or document (`CfAssumption`), numbers of workers and executors start at 1, the
steps of a definition are numbered from 1, and some value can be shown
(`EvAssumption`). Records of the old format have the old checksum
and chunks are not empty (`CodecAssumption`), and at least one checkpoint is kept
(`CkAssumption`). `WorkerAgent` assumes that a task of the actor pool names an
actor, which is how `Dispatch` chooses the pool. TLC evaluates all of them.

### Only model-checked

* `EveryTaskFinishes`, `WorkflowEnds`: liveness under fairness is outside TLAPS.
* `StateInOrder`, `AckedReplayed`, `ReplayMatches` of `ActorRuntime` hold within the
  bounds of their run and not for every value of the constants: a snapshot after every command
  (`actor_snapshot_loss`), a redelivery while a completion is handled, or a restart
  that restores commands without numbers (section 6) break them. A theorem would have to
  assume these away.
* Also by TLC only: `LogStore` beyond `CalmSpec`, as far as the `log` run goes.

## 5. What a next step would be

The models are complete up to section 7 and 35 of 40 properties are proved. Two of the
others are liveness. What is left is `StateInOrder`, `AckedReplayed` and `ReplayMatches` of
`ActorRuntime`, with the restrictions of their run as hypotheses, and better with the three
faults of section 6 that make these necessary repaired.

Proofs and model checking read one precedence differently: TLAPS takes
`SUBSET S \ T` as `SUBSET (S \ T)`, TLC as `(SUBSET S) \ T`. The modules write the
parentheses.

## 6. Where the code and its comments disagree

Each of these is a run that ends in a counterexample; `PROJECT.json` quotes the
comment it contradicts.

* `log_copy_crash`. A crash inside a copying compaction leaves its manifest, and
  recovery undoes the copy without removing it. The segment id it reserved is used
  by a later roll, and the `Open` after that takes that segment for the finished
  copy and deletes the old one. (A copy cancelled by `Close` ends the same way.)
* `log_write_fail`. After a partial write that failed, the store appends behind the
  torn bytes; recovery cuts them off together with acknowledged records.
* `workflow_stuck`. After a restart between `TaskCompleted` and `StepSucceeded` the
  step waits for a task that is finished, and every call for that task returns
  before it reaches `completeWorkflowStep`.
* `actor_snapshot_loss`. The next command can be leased, applied and acknowledged
  between the metadata update of a command and the append of its snapshot; the trim
  then removes the record of that next command, and a restart loses it.

The models reach more that no run is spent on:

* `TaskRedelivered` can be appended between the validation of a completion and its
  append: the metadata finishes the task, replay sees the redelivery first and runs
  it again (`service.go:796`, `hardening.go:256`);
* a command of an actor that is redelivered while its completion is handled can be
  completed twice, and the second update takes the count and the state back
  (`actor.go:348`; `actor` with `MaxStalls` 1);
* a restart restores queued commands of an actor without their numbers, and they can
  be applied in another order (`task_replay.go:91`);
* a redelivered command goes to the back of its deque in the indexed scheduler; the
  front is out of turn and the actor's deque is blocked (`hardening.go:332`);
* under `PREDICTED_LATENCY` the check that `Assign` calls locks `Scheduler.mu` again
  (`AssignLocksTwice`, `llm.go:341`), and the scheduler stands still;
* a checkpoint can count a record whose handler has not reached the table yet; the
  tail begins after it and the restored metadata lacks it (`checkpoint.go:85`);
* an `Enqueue` that races `Close` puts its delta where nobody reads it
  (`materializer.go:158`);
* a second writer of an object answers before the first has synced the directory
  (`local.go:95`);
* the version of a row's delta is taken after the change, outside its lock, so two
  mutations can be written in the other order (`postgres.go:549`);
* a failed creation of the bucket is remembered for good (`s3.go:190`), and so is a
  Python subprocess that ended without a timeout (`agent.go:1256`);
* submissions refused because of a slow append stay refused until something else
  appends (`service.go:943`);
* a retry that arrives after its record was trimmed and compacted is appended again
  (`compaction.go:583`; `docs/architecture.md:48` states it);
* an append of `StepSucceeded` may be written and its reply lost (`service.go:1227`):
  failed appends of `WorkflowRuntime` write nothing, so this one is not reached;
* a lease that expired before `TaskStarted` leaves a redelivered epoch in the
  stream that the restored task does not carry; after a restart the epoch is handed
  out again and replay ignores its outcome;
* a read has chosen entries in a segment it has not opened; compaction copies and
  removes it, and the read fails;
* a late `markWorkflowStepStarted` sets a step that was freed for a retry to STARTED
  again, and nothing schedules it;
* a second report of a failed first attempt counts against the second attempt.

`FinishedOnce` is what remains true of the task runs: an outcome can be lost only
when replay has accepted a redelivery. The model also reaches a directory that
no `Open` accepts (state `"stuck"`: recovery interrupted after a finished copy);
see the hazard at `store.go:1146` (log store).

## 7. Not modelled

* PostgreSQL and S3 are external; the models have what the code sends them and what
  may come of it. Columns and migrations do not show.
* The web API beside its event streams translates one HTTP request to one
  control-plane call; sessions, roles and gRPC tokens are checks without protocol
  state. Request signing and the path checks of object refs are string work.
* `args.go` resolves arguments of a step from results; `eventcodec` and the binary
  lifecycle codec encode records field by field. The models carry the fields.
* The HTTP exchange with Ollama: `WorkerAgent` has the call and its outcome.
* Logging, profiling, flag parsing and server wiring, the command-line client, the
  Python SDK and executor, generated code: no state of their own.

`PROJECT.json` gives the status of every part.
