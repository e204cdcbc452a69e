--------------------------- MODULE WorkflowRuntime ---------------------------
(***************************************************************************)
(* One workflow between its log stream, the metadata and the tasks of its  *)
(* steps (scheduleReadySteps, markWorkflowStepStarted,                     *)
(* completeWorkflowStep of internal/control/service.go, internal/workflow, *)
(* the workflow part of internal/control/bootstrap.go).                    *)
(*                                                                         *)
(* What a handler does under workflowMu is split where a crash or a failed *)
(* append can part the log from the metadata; hold says where the holder   *)
(* is.  The stream is the state its replay ends in, log, and its keys.     *)
(*                                                                         *)
(* Tasks are those of TaskLifecycle, coarser: a completion is durable when *)
(* the metadata has it, and a lease that was taken away is refused.  The   *)
(* task of a step's n-th attempt is <<step, n>>, what its idempotency key  *)
(* says.  A task restored as finished may be handed to a worker once more; *)
(* its calls then return before they change anything.  Arguments, results  *)
(* and hashes do not show, nor does the order of the ready queue.          *)
(***************************************************************************)
EXTENDS Naturals, FiniteSets

CONSTANTS Steps,        \* step ids
          Deps,         \* Deps[s]: the steps s depends on
          MaxAttempts,  \* MaxAttempts[s]: StepMaxAttempts
          Workers,
          NoTask,       \* the empty task id
          MaxLeases,    \* bound: leases of a task of each step
          MaxFaults,    \* bound: refused appends, lost calls
          MaxCrashes    \* bound: restarts of the control plane

ASSUME WorkflowAssumption ==
    /\ Deps \in [Steps -> SUBSET Steps]
    /\ MaxAttempts \in [Steps -> Nat \ {0}]
    /\ NoTask \notin Steps \X Nat
    /\ MaxLeases \in [Steps -> Nat]
    /\ MaxFaults \in Nat /\ MaxCrashes \in Nat

VARIABLES
    wf,       \* the workflow in the metadata
    log,      \* the workflow that replay of its stream gives
    keys,     \* idempotency keys in the stream
    task,     \* task[t]: the task in the metadata: its status and its last lease
    tlog,     \* tlog[t]: the status that replay of its stream gives
    queue,    \* tasks that wait for a worker
    jobs,     \* leases that workers hold, with the call each is in
    hold,     \* what the holder of workflowMu does
    pending,  \* handlers that are about to call scheduleReadySteps
    sub,      \* where SubmitWorkflow is
    faults, crashes

vars == <<wf, log, keys, task, tlog, queue, jobs, hold, pending, sub, faults, crashes>>
stream == <<log, keys>>
work == <<task, tlog, queue>>
bounds == <<faults, crashes>>

-----------------------------------------------------------------------------
\* One more attempt than is allowed, for RetryLimit to speak of.
Tasks == UNION {{<<s, n>> : n \in 1 .. MaxAttempts[s] + 1} : s \in Steps}
Outcomes == {"SUCCEEDED", "FAILED"}
StepStates == [status : {"SCHEDULED", "STARTED"} \cup Outcomes, attempts : Nat,
               task : Tasks \cup {NoTask}]
Workflows == [status : {"NONE", "RUNNING", "COMPLETED", "FAILED"}, steps : [Steps -> StepStates]]

NewStep == [status |-> "SCHEDULED", attempts |-> 0, task |-> NoTask]
NoWorkflow == [status |-> "NONE", steps |-> [s \in Steps |-> NewStep]]
NewState == [NoWorkflow EXCEPT !.status = "RUNNING"]

SetStepScheduled(w, t) ==
    [w EXCEPT !.steps[t[1]] = [status |-> "SCHEDULED", attempts |-> t[2], task |-> t]]

SetStepStarted(w, t) ==
    IF w.steps[t[1]].status = "SUCCEEDED" THEN w
    ELSE [w EXCEPT !.steps[t[1]].status = "STARTED", !.steps[t[1]].task = t]

SetStepSucceeded(w, t) ==
    [w EXCEPT !.steps[t[1]].status = "SUCCEEDED", !.steps[t[1]].task = t]

SetStepFailed(w, t, retry) ==
    [w EXCEPT !.steps[t[1]].status = IF retry THEN "SCHEDULED" ELSE "FAILED",
              !.steps[t[1]].task = IF retry THEN NoTask ELSE t]

AllStepsSucceeded(w) == \A s \in Steps : w.steps[s].status = "SUCCEEDED"

stepReady(w, s) ==
    /\ \A d \in Deps[s] : w.steps[d].status = "SUCCEEDED"
    /\ w.steps[s].status = "SCHEDULED"
    /\ w.steps[s].task = NoTask

\* Mutant: the last attempt may be retried.
RetryableOnceMore(w, s) == w.steps[s].attempts <= MaxAttempts[s]

Retryable(w, s) == w.steps[s].attempts < MaxAttempts[s]

\* An append whose key is in the stream returns the old record.
AppendLog(key, replayed) ==
    IF key \in keys THEN UNCHANGED stream
    ELSE log' = replayed /\ keys' = keys \cup {key}

Free == [pc |-> "free", t |-> NoTask, boot |-> FALSE]
Serving == ~hold.boot
Finished(t) == task[t].status \in Outcomes
NoRecord == [status |-> "NONE", lease |-> 0]

JobPCs == {"leased", "starting", "marking", "running", "completing", "report"}
Jobs == [t : Tasks, w : Workers, lease : Nat, pc : JobPCs, out : Outcomes \cup {"NONE"}]
Move(j, pc) == jobs' = (jobs \ {j}) \cup {[j EXCEPT !.pc = pc]}
End(j) == jobs' = jobs \ {j}

Init ==
    /\ wf = NoWorkflow /\ log = NoWorkflow /\ keys = {}
    /\ task = [t \in Tasks |-> NoRecord]
    /\ tlog = [t \in Tasks |-> "NONE"]
    /\ queue = {} /\ jobs = {} /\ hold = Free
    /\ pending = 0 /\ sub = "new" /\ faults = 0 /\ crashes = 0

-----------------------------------------------------------------------------
\* SubmitWorkflow
SubmitAppend ==
    /\ sub = "new"
    /\ sub' = "create"
    /\ AppendLog(<<"started">>, NewState)
    /\ UNCHANGED <<wf, work, jobs, hold, pending, bounds>>

SubmitCreate ==
    /\ sub = "create"
    /\ sub' = "done"
    /\ wf' = NewState
    /\ pending' = pending + 1
    /\ UNCHANGED <<stream, work, jobs, hold, bounds>>

-----------------------------------------------------------------------------
\* scheduleReadySteps
ScheduleBegin ==
    /\ hold = Free /\ pending > 0
    /\ pending' = pending - 1
    /\ hold' = [hold EXCEPT !.pc = "sched"]
    /\ UNCHANGED <<wf, stream, work, jobs, sub, bounds>>

Ready == {s \in Steps : wf.status = "RUNNING" /\ stepReady(wf, s)}

ScheduleEnd ==
    /\ hold.pc = "sched" /\ Ready = {}
    /\ hold' = Free
    /\ UNCHANGED <<wf, stream, work, jobs, pending, sub, bounds>>

\* enqueueTask: a task with this key is returned as it is; else it is submitted.
ScheduleSubmit ==
    /\ hold.pc = "sched"
    /\ \E s \in Ready :
          LET t == <<s, wf.steps[s].attempts + 1>>
          IN  IF task[t] # NoRecord
              THEN /\ hold' = [hold EXCEPT !.pc = "enqueued", !.t = t]
                   /\ UNCHANGED tlog
              ELSE /\ hold' = [hold EXCEPT !.pc = "submitted", !.t = t]
                   /\ tlog' = [tlog EXCEPT ![t] = "QUEUED"]
    /\ UNCHANGED <<wf, stream, task, queue, jobs, pending, sub, bounds>>

ScheduleCreate ==
    /\ hold.pc = "submitted"
    /\ task' = [task EXCEPT ![hold.t].status = "QUEUED"]
    /\ queue' = queue \cup {hold.t}
    /\ hold' = [hold EXCEPT !.pc = "enqueued"]
    /\ UNCHANGED <<wf, stream, tlog, jobs, pending, sub, bounds>>

ScheduleAppend ==
    /\ hold.pc = "enqueued"
    /\ AppendLog(<<"scheduled", hold.t>>, SetStepScheduled(log, hold.t))
    /\ hold' = [hold EXCEPT !.pc = "scheduled"]
    /\ UNCHANGED <<wf, work, jobs, pending, sub, bounds>>

ScheduleMeta ==
    /\ hold.pc = "scheduled"
    /\ wf' = SetStepScheduled(wf, hold.t)
    /\ hold' = [hold EXCEPT !.pc = "sched", !.t = NoTask]
    /\ UNCHANGED <<stream, work, jobs, pending, sub, bounds>>

-----------------------------------------------------------------------------
\* Leases, and StartTask.
Lease(t, w) ==
    /\ Serving /\ t \in queue
    /\ queue' = queue \ {t}
    /\ IF Finished(t) THEN UNCHANGED <<task, jobs>>
       ELSE /\ task' = [task EXCEPT ![t] = [status |-> "RUNNING", lease |-> @.lease + 1]]
            /\ jobs' = jobs \cup {[t |-> t, w |-> w, lease |-> task[t].lease + 1,
                                   pc |-> "leased", out |-> "NONE"]}
    /\ UNCHANGED <<wf, stream, tlog, hold, pending, sub, bounds>>

Redeliver(t) ==
    /\ Serving /\ task[t].status = "RUNNING" /\ task[t].lease < MaxLeases[t[1]]
    /\ task' = [task EXCEPT ![t].status = "QUEUED"]
    /\ queue' = queue \cup {t}
    /\ UNCHANGED <<wf, stream, tlog, jobs, hold, pending, sub, bounds>>

Holds(j) == task[j.t] = [status |-> "RUNNING", lease |-> j.lease]

Start(j) ==
    /\ Serving /\ j.pc = "leased"
    /\ IF Finished(j.t) THEN Move(j, "running")
       ELSE IF Holds(j) THEN Move(j, "starting") ELSE End(j)
    /\ UNCHANGED <<wf, stream, work, hold, pending, sub, bounds>>

\* markWorkflowStepStarted
MarkStarted(j) ==
    /\ hold = Free /\ j.pc = "starting"
    /\ IF wf.steps[j.t[1]].status \in Outcomes
       THEN /\ Move(j, "running")
            /\ UNCHANGED <<stream, hold>>
       ELSE /\ AppendLog(<<"started", j.t, j.w>>, SetStepStarted(log, j.t))
            /\ hold' = [hold EXCEPT !.pc = "started", !.t = j.t]
            /\ Move(j, "marking")
    /\ UNCHANGED <<wf, work, pending, sub, bounds>>

MarkStartedMeta ==
    /\ hold.pc = "started"
    /\ wf' = SetStepStarted(wf, hold.t)
    /\ jobs' = {[j EXCEPT !.pc = IF @ = "marking" THEN "running" ELSE @] : j \in jobs}
    /\ hold' = Free
    /\ UNCHANGED <<stream, work, pending, sub, bounds>>

-----------------------------------------------------------------------------
\* CompleteTask: the task is read, and completed in a later step.
CompleteRead(j, out) ==
    /\ Serving /\ j.pc = "running"
    /\ IF Finished(j.t) THEN End(j)
       ELSE jobs' = (jobs \ {j}) \cup {[j EXCEPT !.pc = "completing", !.out = out]}
    /\ UNCHANGED <<wf, stream, work, hold, pending, sub, bounds>>

\* A finished task keeps its outcome; the caller goes on with its own.
CompleteTask(j) ==
    /\ Serving /\ j.pc = "completing"
    /\ IF Holds(j)
       THEN /\ task' = [task EXCEPT ![j.t].status = j.out]
            /\ tlog' = [tlog EXCEPT ![j.t] = j.out]
            /\ Move(j, "report")
       ELSE /\ IF Finished(j.t) THEN Move(j, "report") ELSE End(j)
            /\ UNCHANGED <<task, tlog>>
    /\ UNCHANGED <<wf, stream, queue, hold, pending, sub, bounds>>

\* Mutant: a step that has succeeded takes a late report.
CompleteStepAgain(j) ==
    /\ hold = Free /\ j.pc = "report"
    /\ End(j)
    /\ \/ /\ j.out = "SUCCEEDED"
          /\ AppendLog(<<"succeeded", j.t[1]>>, SetStepSucceeded(log, j.t))
          /\ hold' = [hold EXCEPT !.pc = "succeeded", !.t = j.t]
       \/ /\ j.out = "FAILED"
          /\ AppendLog(<<"failed", j.t>>, SetStepFailed(log, j.t, FALSE))
          /\ hold' = [hold EXCEPT !.pc = "failed", !.t = j.t]
    /\ UNCHANGED <<wf, work, pending, sub, bounds>>

\* completeWorkflowStep: the step's record first.
CompleteStep(j) ==
    /\ hold = Free /\ j.pc = "report"
    /\ End(j)
    /\ LET s == j.t[1]
       IN  \/ /\ wf.steps[s].status = "SUCCEEDED"
              /\ UNCHANGED <<stream, hold>>
           \/ /\ wf.steps[s].status # "SUCCEEDED" /\ j.out = "SUCCEEDED"
              /\ AppendLog(<<"succeeded", s>>, SetStepSucceeded(log, j.t))
              /\ hold' = [hold EXCEPT !.pc = "succeeded", !.t = j.t]
           \/ /\ wf.steps[s].status # "SUCCEEDED" /\ j.out = "FAILED"
              /\ AppendLog(<<"failed", j.t>>, SetStepFailed(log, j.t, FALSE))
              /\ hold' = [hold EXCEPT !.pc = "failed", !.t = j.t]
    /\ UNCHANGED <<wf, work, pending, sub, bounds>>

\* Mutant: nobody schedules the steps that a success makes ready.
StepSucceededQuiet ==
    /\ hold.pc = "succeeded"
    /\ wf' = SetStepSucceeded(wf, hold.t)
    /\ hold' = IF AllStepsSucceeded(wf') THEN [hold EXCEPT !.pc = "complete"] ELSE Free
    /\ UNCHANGED <<stream, work, jobs, pending, sub, bounds>>

StepSucceeded ==
    /\ hold.pc = "succeeded"
    /\ wf' = SetStepSucceeded(wf, hold.t)
    /\ IF AllStepsSucceeded(wf')
       THEN hold' = [hold EXCEPT !.pc = "complete"] /\ UNCHANGED pending
       ELSE hold' = Free /\ pending' = pending + 1
    /\ UNCHANGED <<stream, work, jobs, sub, bounds>>

StepFailed ==
    /\ hold.pc = "failed"
    /\ wf' = SetStepFailed(wf, hold.t, Retryable(wf, hold.t[1]))
    /\ IF Retryable(wf, hold.t[1])
       THEN hold' = Free /\ pending' = pending + 1
       ELSE hold' = [hold EXCEPT !.pc = "fail"] /\ UNCHANGED pending
    /\ UNCHANGED <<stream, work, jobs, sub, bounds>>

\* Mutant: a failed workflow is not recorded.
EndAppendUnlogged ==
    /\ hold.pc \in {"complete", "fail"}
    /\ \/ /\ hold.pc = "complete"
          /\ AppendLog(<<"completed">>, [log EXCEPT !.status = "COMPLETED"])
          /\ hold' = [hold EXCEPT !.pc = "completed"]
       \/ /\ hold.pc = "fail"
          /\ UNCHANGED stream
          /\ hold' = [hold EXCEPT !.pc = "ended"]
    /\ UNCHANGED <<wf, work, jobs, pending, sub, bounds>>

\* completeWorkflow and failWorkflow
EndAppend ==
    /\ hold.pc \in {"complete", "fail"}
    /\ \/ /\ hold.pc = "complete"
          /\ AppendLog(<<"completed">>, [log EXCEPT !.status = "COMPLETED"])
          /\ hold' = [hold EXCEPT !.pc = "completed"]
       \/ /\ hold.pc = "fail"
          /\ AppendLog(<<"failed">>, [log EXCEPT !.status = "FAILED"])
          /\ hold' = [hold EXCEPT !.pc = "ended"]
    /\ UNCHANGED <<wf, work, jobs, pending, sub, bounds>>

EndMeta ==
    /\ hold.pc \in {"completed", "ended"}
    /\ wf' = [wf EXCEPT !.status = IF hold.pc = "completed" THEN "COMPLETED" ELSE "FAILED"]
    /\ hold' = Free
    /\ UNCHANGED <<stream, work, jobs, pending, sub, bounds>>

-----------------------------------------------------------------------------
\* Failures and restarts.

Fault == faults < MaxFaults /\ faults' = faults + 1

\* An append fails and nothing is written, or the backlog refuses the task: the
\* handler gives up.
HandlerFails ==
    /\ Serving /\ hold.pc \in {"sched", "enqueued", "complete", "fail"}
    /\ hold.pc = "sched" => Ready # {}
    /\ Fault
    /\ hold' = Free
    /\ UNCHANGED <<wf, stream, work, jobs, pending, sub, crashes>>

\* A worker dies, a call of it is lost, or the append that its call makes fails.
LoseJob(j) ==
    /\ Serving /\ j.pc # "marking"
    /\ Fault
    /\ End(j)
    /\ UNCHANGED <<wf, stream, work, hold, pending, sub, crashes>>

\* prepareRetryableFailedSteps
Prepared(w) ==
    IF w.status # "RUNNING" THEN w
    ELSE [w EXCEPT !.steps = [s \in Steps |->
             IF w.steps[s].status = "FAILED" /\ Retryable(w, s)
             THEN [w.steps[s] EXCEPT !.status = "SCHEDULED", !.task = NoTask]
             ELSE w.steps[s]]]

\* restoreWorkflowTasks puts the tasks of open steps into the queue again.
Restored(w) ==
    {w.steps[s].task : s \in {s \in Steps : /\ w.status = "RUNNING"
                                            /\ w.steps[s].task # NoTask
                                            /\ w.steps[s].status \in {"SCHEDULED", "STARTED"}}}

\* BootstrapFromLog: tasks first, then the workflow, whose ready steps are scheduled
\* before the control plane serves.  What a worker still holds will be refused.
Restart ==
    /\ sub # "new"
    /\ crashes < MaxCrashes
    /\ crashes' = crashes + 1
    /\ task' = [t \in Tasks |-> [status |-> tlog[t], lease |-> 0]]
    /\ wf' = Prepared(log)
    /\ queue' = {t \in Tasks : tlog[t] = "QUEUED"} \cup Restored(wf')
    /\ hold' = IF wf'.status = "RUNNING" THEN [Free EXCEPT !.pc = "sched", !.boot = TRUE] ELSE Free
    /\ jobs' = {} /\ pending' = 0 /\ sub' = "done"
    /\ UNCHANGED <<stream, tlog, faults>>

-----------------------------------------------------------------------------
HolderStep == \/ ScheduleEnd \/ ScheduleSubmit \/ ScheduleCreate \/ ScheduleAppend \/ ScheduleMeta
              \/ MarkStartedMeta \/ StepSucceeded \/ StepFailed \/ EndAppend \/ EndMeta
JobStep(j) == \/ Start(j) \/ MarkStarted(j) \/ CompleteTask(j) \/ CompleteStep(j)
              \/ \E out \in Outcomes : CompleteRead(j, out)

Next ==
    \/ SubmitAppend \/ SubmitCreate
    \/ ScheduleBegin
    \/ HolderStep
    \/ \E t \in Tasks : Redeliver(t) \/ \E w \in Workers : Lease(t, w)
    \/ \E j \in jobs : JobStep(j) \/ LoseJob(j)
    \/ HandlerFails
    \/ Restart

Spec == Init /\ [][Next]_vars

\* The job of the l-th lease of task t.
JobOf(t, l) == \E j \in jobs : j.t = t /\ j.lease = l /\ JobStep(j)

\* A handler goes on, and gets workflowMu in the end (Go's Mutex starves nobody);
\* workers poll, and a lease that is not completed expires.
Fairness ==
    /\ WF_vars(SubmitCreate)
    /\ WF_vars(HolderStep)
    /\ SF_vars(ScheduleBegin)
    /\ \A t \in Tasks :
          /\ WF_vars(Redeliver(t))
          /\ WF_vars(\E w \in Workers : Lease(t, w))
          /\ \A l \in 1 .. MaxLeases[t[1]] : SF_vars(JobOf(t, l))

FairSpec == Spec /\ Fairness

-----------------------------------------------------------------------------
(***************************************************************************)
(* Properties.                                                             *)
(***************************************************************************)

HoldPCs == {"free", "sched", "submitted", "enqueued", "scheduled", "started", "succeeded",
            "failed", "complete", "fail", "completed", "ended"}

\* Every variable holds a value of its kind.
TypeOK ==
    /\ wf \in Workflows /\ log \in Workflows
    /\ task \in [Tasks -> [status : {"NONE", "QUEUED", "RUNNING"} \cup Outcomes, lease : Nat]]
    /\ tlog \in [Tasks -> {"NONE", "QUEUED"} \cup Outcomes]
    /\ queue \subseteq Tasks
    /\ jobs \subseteq Jobs
    /\ hold \in [pc : HoldPCs, t : Tasks \cup {NoTask}, boot : BOOLEAN]
    /\ pending \in Nat /\ sub \in {"new", "create", "done"}
    /\ faults \in Nat /\ crashes \in Nat

\* The task of a step is submitted only when the results it is computed from are
\* durable: the stream says that every dependency has succeeded, and goes on saying so.
DepsFirst ==
    \A t \in Tasks : tlog[t] # "NONE" =>
        \A d \in Deps[t[1]] : log.steps[d].status = "SUCCEEDED"

\* When workflowMu is free, a restart would find what the metadata show: the status
\* of the workflow, the steps that have succeeded and the attempts that were made.
ViewDurable ==
    hold = Free /\ sub = "done" =>
        /\ wf.status = log.status
        /\ \A s \in Steps :
              /\ wf.steps[s].attempts = log.steps[s].attempts
              /\ wf.steps[s].status = "SUCCEEDED" <=> log.steps[s].status = "SUCCEEDED"

\* A step is not attempted more often than its definition allows, and again only
\* after a failure of an earlier attempt is in the stream: neither repeated reports nor
\* restarts make an attempt of their own.  The failure need not be that of the attempt
\* before: completeWorkflowStep does not ask which attempt a report is of, so a late
\* report of one attempt also ends the next.
RetryLimit ==
    \A t \in Tasks : tlog[t] # "NONE" =>
        /\ t[2] <= MaxAttempts[t[1]]
        /\ t[2] > 1 => \E n \in 1 .. t[2] - 1 : <<"failed", <<t[1], n>>>> \in keys

\* Every task of a step was submitted on the strength of durable records: results of the
\* dependencies, and the failure of an earlier attempt (scheduleReadySteps).
AttemptsJustified == DepsFirst /\ RetryLimit

\* A result is not taken back, by a late report, a retry or a restart.
SucceededForever ==
    [][\A s \in Steps : wf.steps[s].status = "SUCCEEDED" => wf'.steps[s].status = "SUCCEEDED"]_vars

Ended == wf.status \in {"COMPLETED", "FAILED"}

\* A workflow that was accepted ends.  With workers that finish what they lease and
\* no restart this holds; "bootstrapWorkflows restores workflows and reschedules
\* runnable steps" (bootstrap.go) promises it after a restart too, where it does not.
WorkflowEnds == sub # "new" ~> Ended
=============================================================================
