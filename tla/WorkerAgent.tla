---------------------------- MODULE WorkerAgent -----------------------------
(***************************************************************************)
(* One worker process (internal/worker/agent.go, function_cache.go): the   *)
(* main loop that polls, dispatches and reports, the three pools of        *)
(* executor goroutines with their bounded channels, and the Python         *)
(* subprocess of each Python executor with the functions it has loaded.    *)
(* The control plane is the environment: a poll returns any leases within  *)
(* the asked number, the same task again after its lease ended.            *)
(***************************************************************************)
EXTENDS ActorLock, Sequences, SequencesExt

CONSTANTS TaskExecutors, LlmExecutors,   \* the actor executors are LockUsers
          Capacity,
          MaxTasks,                      \* Config.MaxTasks, or 0
          AgentTasks,                    \* tasks; each names its pool and what it runs
          MaxDispatched                  \* bound: tasks dispatched

\* A task of the actor pool runs actor t.runs, one of the Python pool the function
\* with that hash (inline: its source comes with the task), one of the LLM pool
\* that model.
ASSUME AgentAssumption ==
    /\ Capacity \in Nat \ {0} /\ MaxTasks \in Nat /\ MaxDispatched \in Nat
    /\ \A t \in AgentTasks : /\ t.pool \in {"task", "actor", "llm"} /\ t.inline \in BOOLEAN
                             /\ t.pool = "actor" => t.runs \in LockActors
    /\ IsFiniteSet(TaskExecutors) /\ IsFiniteSet(LlmExecutors)
    /\ TaskExecutors \cap LockUsers = {} /\ LlmExecutors \cap (TaskExecutors \union LockUsers) = {}

Executors == TaskExecutors \union LockUsers \union LlmExecutors
Runners == TaskExecutors \union LockUsers
PoolNames == {"task", "actor", "llm"}
PoolOf(x) == IF x \in TaskExecutors THEN "task" ELSE IF x \in LockUsers THEN "actor" ELSE "llm"

VARIABLES
    loop,        \* "running", "closing" after MaxTasks, "cancelled" with the context
    inFlight, dispatched, completed,
    timer,       \* whether the poll timer is armed
    queue,       \* queue[p]: the channel of pool p
    results,     \* the results channel: whether each carries a completion
    exec,        \* exec[x]: step and task of executor x, outcome of its execution
    runner,      \* runner[x]: whether its subprocess serves, knownFunctions, and the
                 \* functions the subprocess has compiled
    sources,     \* FunctionCache.entries
    agentModels, \* warm models of the worker and those it last advertised
    eventLog     \* LLM events appended, by task

agentVars == <<loop, inFlight, dispatched, completed, timer, queue, results, exec, runner,
               sources, agentModels, eventLog>>
workerVars == <<agentVars, lockVars>>

NoTask == [id |-> "none", pool |-> "none", runs |-> "none", inline |-> FALSE]
AtRest == [pc |-> "rest", task |-> NoTask, done |-> FALSE]
NewRunner == [serves |-> TRUE, known |-> {}, compiled |-> {}]
LlmEvents == <<"ModelLoadStarted", "ModelLoaded", "LLMCompleted">>

AgentInit ==
    /\ LockInit
    /\ loop = "running" /\ inFlight = 0 /\ dispatched = 0 /\ completed = 0 /\ timer = TRUE
    /\ queue = [p \in PoolNames |-> <<>>] /\ results = <<>>
    /\ exec = [x \in Executors |-> AtRest]
    /\ runner = [x \in Runners |-> NewRunner]
    /\ sources = {}
    /\ agentModels = [warm |-> {}, told |-> {}]
    /\ eventLog = {}

-----------------------------------------------------------------------------
(* The main loop. *)

MayDispatch(n) == inFlight + n <= Capacity /\ (MaxTasks = 0 \/ dispatched + n <= MaxTasks)

\* What one poll can return for pool p; the channels of the pools are independent, so
\* only the order within a pool matters.
PoolTasks(p) == {t \in AgentTasks : t.pool = p}
Batches(p) == UNION {[1..n -> PoolTasks(p)] : n \in 0..Capacity}

\* One poll: guards, PollTask, and the dispatch of what it returned.  A failed or
\* empty poll dispatches nothing; every path arms the timer again.
PollLoop ==
    /\ loop = "running" /\ timer
    /\ \E calls \in Batches("task"), commands \in Batches("actor"), prompts \in Batches("llm") :
       LET n == Len(calls) + Len(commands) + Len(prompts) IN
       /\ n = 0 \/ MayDispatch(n)
       /\ dispatched + n <= MaxDispatched
       /\ queue' = [queue EXCEPT !["task"] = @ \o calls, !["actor"] = @ \o commands, !["llm"] = @ \o prompts]
       /\ inFlight' = inFlight + n
       /\ dispatched' = dispatched + n
    /\ timer' = TRUE
    /\ UNCHANGED <<loop, completed, results, exec, runner, sources, agentModels, eventLog>>

\* Mutant: one result is taken, and the rest of the channel dropped with it.
CollectCountsOne ==
    /\ loop = "running" /\ results # <<>>
    /\ inFlight' = inFlight - 1
    /\ completed' = completed + 1
    /\ results' = <<>>
    /\ loop' = IF MaxTasks > 0 /\ completed' >= MaxTasks THEN "closing" ELSE loop
    /\ UNCHANGED <<dispatched, timer, queue, exec, runner, sources, agentModels, eventLog>>

\* A result wakes the loop: collectWorkerResult, drainWorkerResults and
\* flushCompletions.  The batch may be lost or partly rejected; it is not sent
\* again.
CollectResults ==
    /\ loop = "running" /\ results # <<>>
    /\ inFlight' = inFlight - Len(results)
    /\ completed' = completed + Len(results)
    /\ results' = <<>>
    /\ loop' = IF MaxTasks > 0 /\ completed' >= MaxTasks THEN "closing" ELSE loop
    /\ timer' = TRUE
    /\ UNCHANGED <<dispatched, queue, exec, runner, sources, agentModels, eventLog>>

\* The heartbeat tick: snapshotEntries is what the control plane hears of.
HeartbeatTick ==
    /\ loop = "running"
    /\ agentModels' = [agentModels EXCEPT !.told = agentModels.warm]
    /\ UNCHANGED <<loop, inFlight, dispatched, completed, timer, queue, results, exec, runner,
                   sources, eventLog>>

CancelContext ==
    /\ loop = "running"
    /\ loop' = "cancelled"
    /\ UNCHANGED <<inFlight, dispatched, completed, timer, queue, results, exec, runner, sources,
                   agentModels, eventLog>>

-----------------------------------------------------------------------------
(* Executor goroutines. *)

Enter(x, pc) == exec' = [exec EXCEPT ![x].pc = pc]
\* The execution is over, with a completion to report unless StartTask refused.
Executed(x, completion) ==
    exec' = [exec EXCEPT ![x] = [pc |-> IF x \in LockUsers THEN "unlock" ELSE "finish",
                                 task |-> exec[x].task, done |-> completion]]
LoopKept == UNCHANGED <<loop, inFlight, dispatched, completed, timer>>

\* runPythonWorker and runLLMWorker take a job; a cancelled context ends them even
\* with jobs in the channel.
TakeJob(x) ==
    /\ exec[x].pc = "rest" /\ loop # "cancelled" /\ queue[PoolOf(x)] # <<>>
    /\ exec' = [exec EXCEPT ![x] = [pc |-> IF x \in LockUsers THEN "ref" ELSE "start",
                                    task |-> Head(queue[PoolOf(x)]), done |-> FALSE]]
    /\ queue' = [queue EXCEPT ![PoolOf(x)] = Tail(@)]
    /\ LoopKept /\ UNCHANGED <<results, runner, sources, agentModels, eventLog, lockVars>>

StopExecutor(x) ==
    /\ exec[x].pc = "rest"
    /\ loop = "cancelled" \/ (loop = "closing" /\ queue[PoolOf(x)] = <<>>)
    /\ Enter(x, "gone")
    /\ LoopKept /\ UNCHANGED <<queue, results, runner, sources, agentModels, eventLog, lockVars>>

lockActor(x) ==
    /\ \/ exec[x].pc = "ref" /\ RefEntry(x, exec[x].task.runs) /\ Enter(x, "lock")
       \/ exec[x].pc = "lock" /\ TakeMutex(x) /\ Enter(x, "start")
    /\ LoopKept /\ UNCHANGED <<queue, results, runner, sources, agentModels, eventLog>>

unlockActor(x) ==
    /\ \/ exec[x].pc = "unlock" /\ ReleaseMutex(x) /\ Enter(x, "unref")
       \/ exec[x].pc = "unref" /\ UnrefEntry(x, exec[x].task.runs) /\ Enter(x, "finish")
    /\ LoopKept /\ UNCHANGED <<queue, results, runner, sources, agentModels, eventLog>>

\* StartTask claims the lease epoch; an error ends the job without a completion.
ClaimLease(x) ==
    /\ exec[x].pc = "start"
    /\ Enter(x, "run") \/ Executed(x, FALSE)
    /\ LoopKept /\ UNCHANGED <<queue, results, runner, sources, agentModels, eventLog, lockVars>>

\* SourceForTask: inline source or source fetched by reference is cached when its
\* hash agrees; otherwise the job fails.
SourceForTask(x) ==
    /\ exec[x].pc = "run" /\ x \in TaskExecutors
    /\ exec[x].task.runs \notin runner[x].known
    /\ \/ sources' = sources \union {exec[x].task.runs} /\ Enter(x, "call")
       \/ exec[x].task.runs \notin sources /\ Executed(x, TRUE) /\ UNCHANGED sources
    /\ LoopKept /\ UNCHANGED <<queue, results, runner, agentModels, eventLog, lockVars>>

\* The runner has the function: the request carries the hash and whatever source
\* the task brought inline.
KnownFunction(x) ==
    /\ exec[x].pc = "run" /\ x \in TaskExecutors
    /\ exec[x].task.runs \in runner[x].known
    /\ Enter(x, "call")
    /\ LoopKept /\ UNCHANGED <<queue, results, runner, sources, agentModels, eventLog, lockVars>>

\* An actor request always carries the source of its class.
runActorExecutor(x) ==
    /\ exec[x].pc = "run" /\ x \in LockUsers
    /\ Enter(x, "call")
    /\ LoopKept /\ UNCHANGED <<queue, results, runner, sources, agentModels, eventLog, lockVars>>

\* Whether the request carries source: inline, or found because the hash is unknown.
HasSource(x) == exec[x].task.inline \/ exec[x].task.runs \notin runner[x].known

\* The subprocess can run the request: it has the code or is sent it.
Runnable(x) == x \in LockUsers \/ HasSource(x) \/ exec[x].task.runs \in runner[x].compiled

\* A request is written to the subprocess and Execute waits for one response.
CallRunner(x) == exec[x].pc = "call"

\* A decoded response: ok or the text of an error.
Replies(x) == {ok \in BOOLEAN : ok => Runnable(x)}

\* Execute returns a response: the function ran or raised.  Code is compiled
\* before it runs; the hash is remembered only after a success that carried source.
RunnerReplies(x) ==
    /\ CallRunner(x) /\ runner[x].serves
    /\ \E ok \in Replies(x) :
       LET new == IF x \in TaskExecutors /\ Runnable(x) THEN {exec[x].task.runs} ELSE {} IN
       runner' = [runner EXCEPT ![x].compiled = @ \union new,
                                   ![x].known = @ \union IF ok /\ HasSource(x) THEN new ELSE {}]
    /\ Executed(x, TRUE)
    /\ LoopKept /\ UNCHANGED <<queue, results, sources, agentModels, eventLog, lockVars>>

\* The subprocess exits, or its reply exceeds the frame limit: an error that is not
\* a timeout, and no restart.  Every later request on the stream fails as well.
RunnerBreaks(x) ==
    /\ CallRunner(x)
    /\ runner' = [runner EXCEPT ![x].serves = FALSE]
    /\ Executed(x, TRUE)
    /\ LoopKept /\ UNCHANGED <<queue, results, sources, agentModels, eventLog, lockVars>>

\* Mutant: the functions of the killed subprocess are still taken for known.
RestartKeepsKnown(x) ==
    /\ CallRunner(x)
    /\ runner' = [runner EXCEPT ![x] = [NewRunner EXCEPT !.known = runner[x].known]]
    /\ Executed(x, TRUE)
    /\ LoopKept /\ UNCHANGED <<queue, results, sources, agentModels, eventLog, lockVars>>

\* The task's deadline passes: readResponseLocked kills the subprocess and Restart
\* replaces it; when that fails the runner keeps closed pipes.
TimeoutRestarts(x) ==
    /\ CallRunner(x)
    /\ \/ runner' = [runner EXCEPT ![x] = NewRunner]
       \/ runner' = [runner EXCEPT ![x].serves = FALSE]
    /\ Executed(x, TRUE)
    /\ LoopKept /\ UNCHANGED <<queue, results, sources, agentModels, eventLog, lockVars>>

\* runLLMExecutor: up to n of its events are appended (an append of an event the
\* task already has changes nothing), the model becomes warm before ModelLoaded and
\* a cold load is advertised at once.
runLLMExecutor(x) ==
    /\ exec[x].pc = "run" /\ x \in LlmExecutors
    /\ \E n \in 0..3, loaded \in BOOLEAN :
       /\ n >= 2 => loaded
       /\ loaded => n >= 1
       /\ eventLog' = eventLog \union {<<exec[x].task.id, LlmEvents[i]>> : i \in 1..n}
       /\ agentModels' =
            IF loaded /\ exec[x].task.runs \notin agentModels.warm
            THEN LET held == agentModels.warm \union {exec[x].task.runs} IN [warm |-> held, told |-> held]
            ELSE agentModels
    /\ Executed(x, TRUE)
    /\ LoopKept /\ UNCHANGED <<queue, results, runner, sources, lockVars>>

\* finish: the result waits for room in the channel, or is dropped on cancellation.
Finish(x) ==
    /\ exec[x].pc = "finish"
    /\ \/ Len(results) < Capacity /\ results' = Append(results, exec[x].done)
       \/ loop = "cancelled" /\ UNCHANGED results
    /\ exec' = [exec EXCEPT ![x] = AtRest]
    /\ LoopKept /\ UNCHANGED <<queue, runner, sources, agentModels, eventLog, lockVars>>

ExecutorStep(x) ==
    \/ TakeJob(x) \/ StopExecutor(x) \/ ClaimLease(x) \/ SourceForTask(x) \/ KnownFunction(x)
    \/ runLLMExecutor(x)  \/ Finish(x)

RunnerStep(x) == RunnerReplies(x) \/ RunnerBreaks(x) \/ TimeoutRestarts(x)

MainStep ==
    /\ PollLoop \/ CollectResults \/ HeartbeatTick \/ CancelContext
    /\ UNCHANGED lockVars

AgentNext ==
    \/ MainStep
    \/ \E x \in Executors : ExecutorStep(x)
    \/ \E x \in Runners : RunnerStep(x)
    \/ \E x \in LockUsers : lockActor(x) \/ runActorExecutor(x) \/ unlockActor(x)

AgentSpec == AgentInit /\ [][AgentNext]_workerVars

-----------------------------------------------------------------------------
Busy == {x \in Executors : exec[x].pc \notin {"rest", "gone"}}
Queued == Len(queue["task"]) + Len(queue["actor"]) + Len(queue["llm"])

\* The loop's count of local work is what the channels and the executors hold, so
\* no channel can be full when the loop or an executor sends to it (Run, Dispatch,
\* finish).
InFlightExact ==
    loop # "cancelled" => inFlight = Queued + Cardinality(Busy) + Len(results) /\ inFlight <= Capacity

\* When MaxTasks ends the loop no job is left: Close waits for goroutines whose
\* results nobody would read any more (Run, Close).
NothingLeftAtClose == loop = "closing" => Busy = {} /\ Queued = 0 /\ results = <<>>

\* A request sent without source names a function the subprocess has compiled,
\* across timeouts, restarts and failing functions (runPythonExecutor, Restart).
HashOnlyRuns ==
    \A x \in TaskExecutors : exec[x].pc = "call" /\ runner[x].serves => Runnable(x)

\* Two commands of one actor never execute at the same time on a worker, even
\* when a redelivered command meets its first delivery (runPythonWorker, lockActor).
ActorSerial ==
    \A x, y \in LockUsers :
        /\ exec[x].pc \in {"start", "run", "call", "unlock"}
        /\ exec[y].pc \in {"start", "run", "call", "unlock"}
        /\ exec[x].task.runs = exec[y].task.runs
        => x = y

\* Work is accounted for while the loop runs and none is left when it ends (Run).
WorkAccounted == InFlightExact /\ NothingLeftAtClose

\* One command of an actor at a time, with a lock table that forgets an actor neither
\* early nor late (lockActor, Table.Lock).
ActorsSerial == ActorSerial /\ TableExact
=============================================================================
