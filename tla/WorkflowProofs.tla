--------------------------- MODULE WorkflowProofs ---------------------------
(***************************************************************************)
(* Proofs about WorkflowRuntime, for any graph of steps, any number of     *)
(* attempts, leases, workers, refused appends, lost calls and restarts.    *)
(***************************************************************************)
EXTENDS WorkflowRuntime, TLAPS

-----------------------------------------------------------------------------
(***************************************************************************)
(* The inductive invariant.                                                *)
(***************************************************************************)

\* Where the holder of workflowMu is at work on hold.t.
WithTask == HoldPCs \ {"free", "sched"}

\* Before the workflow is in the metadata nothing but its start has happened.
Idle ==
    /\ sub # "done" =>
          /\ wf = NoWorkflow /\ hold = Free /\ pending = 0 /\ jobs = {} /\ queue = {}
          /\ \A t \in Tasks : task[t] = NoRecord /\ tlog[t] = "NONE"
    /\ sub = "new" => log = NoWorkflow /\ keys = {}
    /\ sub = "create" => log = NewState /\ keys = {<<"started">>}

\* Whatever queues, runs, reports or records a task, the task was submitted, and at
\* most one attempt ahead of the stream.
Submitted ==
    /\ \A t \in queue : tlog[t] # "NONE"
    /\ \A t \in Tasks : task[t] # NoRecord => tlog[t] # "NONE"
    /\ \A j \in jobs : tlog[j.t] # "NONE" /\ (j.pc \in {"completing", "report"} => j.out \in Outcomes)
    /\ hold.pc \in WithTask => hold.t \in Tasks /\ tlog[hold.t] # "NONE"
    /\ \A s \in Steps : log.steps[s].task # NoTask => tlog[log.steps[s].task] # "NONE"
    /\ \A t \in Tasks : tlog[t] # "NONE" => t[2] <= log.steps[t[1]].attempts + 1

\* An attempt up to the n-th has failed, if there was one.
FailedBefore(s, n) == n >= 1 => \E m \in 1 .. n : <<"failed", <<s, m>>>> \in keys

\* What the records in the stream say of the state their replay gives.
StreamExact ==
    /\ \A t \in Tasks : <<"scheduled", t>> \in keys => t[2] <= log.steps[t[1]].attempts
    /\ \A s \in Steps : <<"succeeded", s>> \in keys => log.steps[s].status = "SUCCEEDED"
    /\ <<"completed">> \in keys => log.status = "COMPLETED"
    /\ <<"failed">> \in keys => log.status \in {"FAILED", "COMPLETED"}
    /\ log.status = "COMPLETED" => AllStepsSucceeded(log)
    /\ \A s \in Steps : log.steps[s].task = NoTask =>
          log.steps[s].status = "SCHEDULED" /\ log.steps[s].attempts = 0
    /\ \A s \in Steps : log.steps[s].status = "FAILED" => FailedBefore(s, log.steps[s].attempts)

\* The metadata differ from the stream only in what the holder of workflowMu has
\* appended and not yet applied.
Views ==
    sub = "done" =>
        /\ hold.pc \notin {"completed", "ended"} => wf.status = log.status
        /\ \A s \in Steps :
              /\ ~(hold.pc = "scheduled" /\ hold.t[1] = s) =>
                    wf.steps[s].attempts = log.steps[s].attempts
              /\ ~(hold.pc = "succeeded" /\ hold.t[1] = s) =>
                    (wf.steps[s].status = "SUCCEEDED" <=> log.steps[s].status = "SUCCEEDED")

\* A step that waits to be scheduled has an attempt left, and one that failed unless
\* this is its first.
Retries ==
    \A s \in Steps :
        /\ wf.steps[s].attempts <= MaxAttempts[s]
        /\ wf.steps[s].status = "SCHEDULED" /\ wf.steps[s].task = NoTask =>
              wf.steps[s].attempts < MaxAttempts[s] /\ FailedBefore(s, wf.steps[s].attempts)

\* What the holder has done so far.
Holder ==
    /\ hold.pc \in {"submitted", "enqueued", "scheduled"} =>
          /\ wf.steps[hold.t[1]].status = "SCHEDULED" /\ wf.steps[hold.t[1]].task = NoTask
          /\ hold.t[2] = wf.steps[hold.t[1]].attempts + 1
    /\ hold.pc = "scheduled" =>
          log.steps[hold.t[1]] = [status |-> "SCHEDULED", attempts |-> hold.t[2], task |-> hold.t]
    /\ hold.pc = "succeeded" => log.steps[hold.t[1]].status = "SUCCEEDED"
    /\ hold.pc = "failed" => <<"failed", hold.t>> \in keys
    /\ hold.pc \in {"failed", "fail", "ended"} => wf.steps[hold.t[1]].status # "SUCCEEDED"
    /\ hold.pc = "complete" => AllStepsSucceeded(wf)
    /\ hold.pc = "completed" => log.status = "COMPLETED"
    /\ hold.pc = "ended" => log.status = "FAILED"

WInv == /\ TypeOK /\ Idle /\ Submitted /\ StreamExact /\ Views /\ Retries /\ Holder
        /\ AttemptsJustified

-----------------------------------------------------------------------------
(***************************************************************************)
(* Tasks, keys and the updates of a workflow.                              *)
(***************************************************************************)

\* A task is a step and the number of an attempt.
LEMMA TaskShape ==
    /\ \A t \in Tasks : /\ t[1] \in Steps /\ t[2] \in 1 .. MaxAttempts[t[1]] + 1
                        /\ t = <<t[1], t[2]>> /\ t # NoTask
    /\ \A s \in Steps : \A n \in 1 .. MaxAttempts[s] + 1 : <<s, n>> \in Tasks
<1>1. ASSUME NEW t \in Tasks
      PROVE  /\ t[1] \in Steps /\ t[2] \in 1 .. MaxAttempts[t[1]] + 1
             /\ t = <<t[1], t[2]>> /\ t # NoTask
  <2>1. PICK s \in Steps : t \in {<<s, n>> : n \in 1 .. MaxAttempts[s] + 1}
    BY DEF Tasks
  <2>2. PICK n \in 1 .. MaxAttempts[s] + 1 : t = <<s, n>>
    BY <2>1
  <2>3. MaxAttempts[s] \in Nat /\ n \in Nat
    BY <2>2, WorkflowAssumption
  <2>4. t \in Steps \X Nat
    BY <2>2, <2>3
  <2> QED  BY <2>2, <2>4, WorkflowAssumption
<1>2. ASSUME NEW s \in Steps, NEW n \in 1 .. MaxAttempts[s] + 1 PROVE <<s, n>> \in Tasks
  BY DEF Tasks
<1> QED  BY <1>1, <1>2

\* Records of different kinds have different idempotency keys.
LEMMA KeyKinds ==
    \A x, y, z :
        /\ <<"scheduled", x>> # <<"succeeded", y>> /\ <<"scheduled", x>> # <<"failed", y>>
        /\ <<"succeeded", x>> # <<"failed", y>>
        /\ <<"started", x, z>> # <<"scheduled", y>> /\ <<"started", x, z>> # <<"succeeded", y>>
        /\ <<"completed">> # <<"failed">>
        /\ <<"completed">> # <<"scheduled", y>> /\ <<"completed">> # <<"succeeded", y>>
        /\ <<"completed">> # <<"failed", y>> /\ <<"completed">> # <<"started", x, z>>
        /\ <<"failed">> # <<"scheduled", y>> /\ <<"failed">> # <<"succeeded", y>>
        /\ <<"failed">> # <<"failed", y>> /\ <<"failed">> # <<"started", x, z>>
        /\ <<"started">> # <<"scheduled", y>> /\ <<"started">> # <<"succeeded", y>>
        /\ <<"started">> # <<"failed">> /\ <<"started">> # <<"completed">>
<1>1. \A a : DOMAIN <<a>> = {1}
  OBVIOUS
<1>2. \A a, b : DOMAIN <<a, b>> = {1, 2}
  OBVIOUS
<1>3. \A a, b, c : DOMAIN <<a, b, c>> = {1, 2, 3}
  OBVIOUS
<1>4. {1} # {1, 2} /\ {1} # {1, 2, 3} /\ {1, 2} # {1, 2, 3}
  OBVIOUS
<1> QED  BY <1>1, <1>2, <1>3, <1>4

\* v is w with step s set to r.
StepSet(w, v, s, r) ==
    /\ v \in Workflows /\ v.status = w.status /\ v.steps[s] = r
    /\ \A u \in Steps : u # s => v.steps[u] = w.steps[u]

LEMMA StepUpdates ==
    ASSUME NEW w \in Workflows, NEW t \in Tasks
    PROVE  /\ StepSet(w, SetStepScheduled(w, t), t[1], [status |-> "SCHEDULED", attempts |-> t[2], task |-> t])
           /\ StepSet(w, SetStepSucceeded(w, t), t[1],
                      [status |-> "SUCCEEDED", attempts |-> w.steps[t[1]].attempts, task |-> t])
           /\ StepSet(w, SetStepFailed(w, t, FALSE), t[1],
                      [status |-> "FAILED", attempts |-> w.steps[t[1]].attempts, task |-> t])
           /\ StepSet(w, SetStepFailed(w, t, TRUE), t[1],
                      [status |-> "SCHEDULED", attempts |-> w.steps[t[1]].attempts, task |-> NoTask])
           /\ w.steps[t[1]].status = "SUCCEEDED" => SetStepStarted(w, t) = w
           /\ w.steps[t[1]].status # "SUCCEEDED" =>
                 StepSet(w, SetStepStarted(w, t), t[1],
                         [status |-> "STARTED", attempts |-> w.steps[t[1]].attempts, task |-> t])
<1>1. t[1] \in Steps /\ t[2] \in Nat
  <2>1. t[1] \in Steps /\ t[2] \in 1 .. MaxAttempts[t[1]] + 1
    BY TaskShape
  <2> QED  BY <2>1, WorkflowAssumption
<1>2. w.steps[t[1]] \in StepStates /\ w.steps \in [Steps -> StepStates]
  BY <1>1 DEF Workflows
<1> USE DEF Workflows, StepStates, Outcomes, StepSet
<1>3. StepSet(w, SetStepScheduled(w, t), t[1], [status |-> "SCHEDULED", attempts |-> t[2], task |-> t])
  BY <1>1, <1>2 DEF SetStepScheduled
<1>4. StepSet(w, SetStepSucceeded(w, t), t[1],
              [status |-> "SUCCEEDED", attempts |-> w.steps[t[1]].attempts, task |-> t])
  BY <1>1, <1>2 DEF SetStepSucceeded
<1>5. StepSet(w, SetStepFailed(w, t, FALSE), t[1],
              [status |-> "FAILED", attempts |-> w.steps[t[1]].attempts, task |-> t])
  BY <1>1, <1>2 DEF SetStepFailed
<1>6. StepSet(w, SetStepFailed(w, t, TRUE), t[1],
              [status |-> "SCHEDULED", attempts |-> w.steps[t[1]].attempts, task |-> NoTask])
  BY <1>1, <1>2 DEF SetStepFailed
<1>7. w.steps[t[1]].status # "SUCCEEDED" =>
         StepSet(w, SetStepStarted(w, t), t[1],
                 [status |-> "STARTED", attempts |-> w.steps[t[1]].attempts, task |-> t])
  BY <1>1, <1>2 DEF SetStepStarted
<1>8. w.steps[t[1]].status = "SUCCEEDED" => SetStepStarted(w, t) = w
  BY DEF SetStepStarted
<1> QED  BY <1>3, <1>4, <1>5, <1>6, <1>7, <1>8

-----------------------------------------------------------------------------
(***************************************************************************)
(* Every step keeps the invariant.                                         *)
(***************************************************************************)

USE DEF AttemptsJustified

\* Steps that change only what workers do.
LEMMA QuietStep ==
    ASSUME WInv, UNCHANGED <<wf, log, keys, task, tlog, queue, hold, sub>>,
           jobs' \subseteq Jobs, pending' \in Nat, faults' \in Nat, crashes' \in Nat,
           sub # "done" => jobs' = {} /\ pending' = 0,
           \A j \in jobs' : tlog[j.t] # "NONE" /\ (j.pc \in {"completing", "report"} => j.out \in Outcomes)
    PROVE  WInv'
<1>1. TypeOK'
  BY DEF WInv, TypeOK
<1>2. Idle' /\ Submitted' /\ Views' /\ Retries' /\ Holder'
  BY DEF WInv, Idle, Submitted, Views, Retries, Holder, FailedBefore, AllStepsSucceeded
<1>3. StreamExact'
  BY DEF WInv, StreamExact, FailedBefore, AllStepsSucceeded
<1>4. AttemptsJustified'
  BY DEF WInv, DepsFirst, RetryLimit
<1> QED  BY <1>1, <1>2, <1>3, <1>4 DEF WInv

\* The holder begins, or stops where stream and metadata agree.
LEMMA ReleaseStep ==
    ASSUME WInv, UNCHANGED <<wf, log, keys, task, tlog, queue, jobs, sub>>,
           hold.pc \notin {"scheduled", "succeeded", "completed", "ended"},
           hold'.pc \in {"free", "sched"},
           hold' \in [pc : HoldPCs, t : Tasks \cup {NoTask}, boot : BOOLEAN],
           sub = "done", pending' \in Nat, faults' \in Nat, crashes' \in Nat
    PROVE  WInv'
<1>1. TypeOK'
  BY DEF WInv, TypeOK
<1>2. Idle' /\ Submitted' /\ Retries' /\ Holder'
  BY DEF WInv, Idle, Submitted, Retries, Holder, FailedBefore, WithTask
<1>3. StreamExact' /\ Views'
  BY DEF WInv, StreamExact, Views, FailedBefore, AllStepsSucceeded
<1>4. AttemptsJustified'
  BY DEF WInv, DepsFirst, RetryLimit
<1> QED  BY <1>1, <1>2, <1>3, <1>4 DEF WInv

\* What moving or ending a job does to jobs.
LEMMA JobsAfter ==
    ASSUME TypeOK, NEW j \in jobs, NEW pc \in JobPCs, Move(j, pc) \/ End(j)
    PROVE  /\ jobs' \subseteq Jobs
           /\ \A k \in jobs' : k \in jobs \/ (k.t = j.t /\ k.pc = pc /\ k.out = j.out)
<1> DEFINE moved == [j EXCEPT !.pc = pc]
<1>1. j \in Jobs
  BY DEF TypeOK
<1>2. moved \in Jobs /\ moved.t = j.t /\ moved.pc = pc /\ moved.out = j.out
  BY <1>1 DEF Jobs
<1>3. \A k \in jobs' : k \in jobs \/ k = moved
  BY DEF Move, End
<1> HIDE DEF moved
<1> QED  BY <1>2, <1>3 DEF TypeOK

\* Steps of workers and of the clock.
LEMMA JobQuiet ==
    ASSUME WInv, NEW j \in jobs,
           Start(j) \/ LoseJob(j) \/ \E out \in Outcomes : CompleteRead(j, out)
    PROVE  WInv'
<1> USE DEF stream, work, bounds
<1>0. TypeOK /\ j \in Jobs /\ sub = "done" /\ tlog[j.t] # "NONE"
  BY DEF WInv, TypeOK, Idle, Submitted
<1>1. UNCHANGED <<wf, log, keys, task, tlog, queue, hold, sub, pending>> /\ crashes' = crashes
  BY DEF Start, LoseJob, CompleteRead
<1>2. faults' \in Nat
  <2>1. faults' = faults \/ faults' = faults + 1
    BY DEF Start, LoseJob, CompleteRead, Fault
  <2> QED  BY <1>0, <2>1 DEF TypeOK
<1>3. /\ jobs' \subseteq Jobs
      /\ \A k \in jobs' : tlog[k.t] # "NONE" /\ (k.pc \in {"completing", "report"} => k.out \in Outcomes)
  <2>1. CASE Start(j) \/ LoseJob(j)
    <3>1. PICK pc \in JobPCs : (Move(j, pc) \/ End(j)) /\ pc \notin {"completing", "report"}
      BY <2>1 DEF Start, LoseJob, JobPCs
    <3> QED  BY <1>0, <3>1, JobsAfter DEF WInv, Submitted
  <2>2. ASSUME NEW out \in Outcomes, CompleteRead(j, out)
        PROVE  /\ jobs' \subseteq Jobs
               /\ \A k \in jobs' : tlog[k.t] # "NONE" /\ (k.pc \in {"completing", "report"} => k.out \in Outcomes)
    <3> DEFINE moved == [j EXCEPT !.pc = "completing", !.out = out]
    <3>1. moved \in Jobs /\ moved.t = j.t /\ moved.out = out
      BY <1>0 DEF Jobs, JobPCs
    <3>2. \A k \in jobs' : k \in jobs \/ k = moved
      BY <2>2 DEF CompleteRead, End
    <3> HIDE DEF moved
    <3> QED  BY <1>0, <3>1, <3>2 DEF WInv, Submitted, TypeOK
  <2> QED  BY <2>1, <2>2
<1> QED  BY <1>0, <1>1, <1>2, <1>3, QuietStep DEF TypeOK

\* SubmitWorkflow
LEMMA SubmitInv ==
    ASSUME WInv, SubmitAppend \/ SubmitCreate
    PROVE  WInv'
<1> USE DEF stream, work, bounds
<1>0. TypeOK /\ Idle
  BY DEF WInv
<1>1. NoWorkflow \in Workflows /\ NewState \in Workflows
  BY DEF NoWorkflow, NewState, NewStep, Workflows, StepStates
<1>2. /\ NewState.status = "RUNNING" /\ NoWorkflow.status = "NONE"
      /\ \A s \in Steps : NewState.steps[s] = NewStep /\ NoWorkflow.steps[s] = NewStep
  BY DEF NewState, NoWorkflow
<1>3. NewStep.status = "SCHEDULED" /\ NewStep.attempts = 0 /\ NewStep.task = NoTask
  BY DEF NewStep
<1>4. \A s \in Steps : MaxAttempts[s] \in Nat /\ MaxAttempts[s] > 0
  BY WorkflowAssumption
<1>5. hold = Free /\ Free.pc = "free"
  BY <1>0 DEF SubmitAppend, SubmitCreate, Idle, Free
<1>6. /\ jobs = {} /\ queue = {} /\ \A t \in Tasks : task[t] = NoRecord /\ tlog[t] = "NONE"
  BY <1>0 DEF SubmitAppend, SubmitCreate, Idle
<1>7. /\ UNCHANGED <<task, tlog, queue, jobs, hold, faults, crashes>>
      /\ log' = NewState /\ keys' = {<<"started">>}
      /\ \/ sub' = "create" /\ wf' = wf /\ wf = NoWorkflow /\ pending' = pending /\ pending = 0
         \/ sub' = "done" /\ wf' = NewState /\ pending' = pending + 1
  <2>1. CASE SubmitAppend
    BY <1>0, <2>1 DEF SubmitAppend, Idle, AppendLog
  <2>2. CASE SubmitCreate
    BY <1>0, <2>2 DEF SubmitCreate, Idle
  <2> QED  BY <2>1, <2>2
<1>8. TypeOK'
  BY <1>0, <1>1, <1>7 DEF TypeOK
<1>9. Idle'
  BY <1>5, <1>6, <1>7 DEF Idle
<1>10. Submitted'
  BY <1>2, <1>3, <1>5, <1>6, <1>7 DEF Submitted, WithTask
<1>11. StreamExact'
  BY <1>2, <1>3, <1>7, KeyKinds DEF StreamExact
<1>12. Views'
  BY <1>2, <1>7 DEF Views
<1>13. Retries'
  BY <1>2, <1>3, <1>4, <1>7 DEF Retries, FailedBefore
<1>14. Holder'
  BY <1>5, <1>7 DEF Holder
<1>15. AttemptsJustified'
  BY <1>6, <1>7 DEF DepsFirst, RetryLimit
<1> QED  BY <1>8, <1>9, <1>10, <1>11, <1>12, <1>13, <1>14, <1>15 DEF WInv

\* scheduleReadySteps begins, ends, or gives up.
LEMMA ScheduleEnds ==
    ASSUME WInv, ScheduleBegin \/ ScheduleEnd \/ HandlerFails
    PROVE  WInv'
<1> USE DEF stream, work, bounds
<1>0. TypeOK /\ Idle
  BY DEF WInv
<1>1. UNCHANGED <<wf, log, keys, task, tlog, queue, jobs, sub>> /\ crashes' = crashes
  BY DEF ScheduleBegin, ScheduleEnd, HandlerFails
<1>2. faults' \in Nat /\ pending' \in Nat
  BY <1>0 DEF ScheduleBegin, ScheduleEnd, HandlerFails, Fault, TypeOK
<1>3. hold.pc \notin {"scheduled", "succeeded", "completed", "ended"}
  BY DEF ScheduleBegin, ScheduleEnd, HandlerFails, Free
<1>4. hold'.pc \in {"free", "sched"} /\ hold' \in [pc : HoldPCs, t : Tasks \cup {NoTask}, boot : BOOLEAN]
  <2>1. hold' = [hold EXCEPT !.pc = "sched"] \/ hold' = Free
    BY DEF ScheduleBegin, ScheduleEnd, HandlerFails
  <2>2. CASE hold' = [hold EXCEPT !.pc = "sched"]
    BY <1>0, <2>2 DEF HoldPCs, TypeOK
  <2>3. CASE hold' = Free
    BY <2>3 DEF Free, HoldPCs
  <2> QED  BY <2>1, <2>2, <2>3
<1>5. sub = "done"
  BY <1>0 DEF ScheduleBegin, ScheduleEnd, HandlerFails, Idle, Free
<1> QED  BY <1>0, <1>1, <1>2, <1>3, <1>4, <1>5, ReleaseStep DEF TypeOK

\* scheduleReadySteps: the task of a ready step is submitted.
LEMMA ScheduleSubmitInv ==
    ASSUME WInv, ScheduleSubmit
    PROVE  WInv'
<1> USE DEF stream, work, bounds
<1>0. TypeOK /\ Idle /\ Submitted /\ StreamExact /\ Views /\ Retries /\ Holder /\ AttemptsJustified
  BY DEF WInv
<1>1. hold.pc = "sched" /\ UNCHANGED <<wf, log, keys, task, queue, jobs, pending, sub, faults, crashes>>
  BY DEF ScheduleSubmit
<1>2. sub = "done"
  BY <1>0, <1>1 DEF Idle, Free
<1>3. PICK s \in Ready :
         LET t == <<s, wf.steps[s].attempts + 1>>
         IN  \/ task[t] # NoRecord /\ hold' = [hold EXCEPT !.pc = "enqueued", !.t = t] /\ tlog' = tlog
             \/ hold' = [hold EXCEPT !.pc = "submitted", !.t = t] /\ tlog' = [tlog EXCEPT ![t] = "QUEUED"]
  BY DEF ScheduleSubmit
<1> DEFINE n == wf.steps[s].attempts
           t == <<s, n + 1>>
<1>4. s \in Steps /\ wf.steps[s].status = "SCHEDULED" /\ wf.steps[s].task = NoTask
      /\ \A d \in Deps[s] : wf.steps[d].status = "SUCCEEDED"
  BY DEF Ready, stepReady
<1>5. n \in Nat /\ n < MaxAttempts[s] /\ MaxAttempts[s] \in Nat /\ FailedBefore(s, n) /\ log.steps[s].attempts = n
  BY <1>0, <1>1, <1>2, <1>4, WorkflowAssumption DEF TypeOK, Workflows, StepStates, Retries, Views
<1>6. t \in Tasks /\ t[1] = s /\ t[2] = n + 1
  BY <1>4, <1>5, TaskShape
<1> HIDE DEF n, t
<1>7. /\ hold' \in [pc : HoldPCs, t : Tasks \cup {NoTask}, boot : BOOLEAN]
      /\ hold'.t = t /\ hold'.pc \in {"enqueued", "submitted"}
  BY <1>0, <1>3, <1>6 DEF TypeOK, HoldPCs, n, t
<1>8. /\ tlog' \in [Tasks -> {"NONE", "QUEUED"} \cup Outcomes]
      /\ tlog'[t] # "NONE" /\ \A u \in Tasks : u # t => tlog'[u] = tlog[u]
  <2>1. CASE task[t] # NoRecord /\ tlog' = tlog
    BY <1>0, <1>6, <2>1 DEF TypeOK, Submitted
  <2>2. CASE tlog' = [tlog EXCEPT ![t] = "QUEUED"]
    BY <1>0, <1>6, <2>2 DEF TypeOK
  <2> QED  BY <1>3, <2>1, <2>2 DEF n, t
<1>9. TypeOK'
  BY <1>0, <1>1, <1>7, <1>8 DEF TypeOK
<1>10. Idle'
  BY <1>1, <1>2 DEF Idle
<1>11. \A u \in Tasks : tlog[u] # "NONE" => tlog'[u] # "NONE"
  BY <1>8
<1>12. Submitted'
  <2>1. \A u \in queue : tlog'[u] # "NONE"
    BY <1>0, <1>11 DEF Submitted, TypeOK
  <2>2. \A j \in jobs : tlog'[j.t] # "NONE" /\ (j.pc \in {"completing", "report"} => j.out \in Outcomes)
    BY <1>0, <1>11 DEF Submitted, TypeOK, Jobs
  <2>3. \A u \in Steps : log.steps[u].task # NoTask => tlog'[log.steps[u].task] # "NONE"
    BY <1>0, <1>11 DEF Submitted, TypeOK, Workflows, StepStates
  <2>4. \A u \in Tasks : tlog'[u] # "NONE" => u[2] <= log.steps[u[1]].attempts + 1
    BY <1>0, <1>5, <1>6, <1>8 DEF Submitted
  <2>5. \A u \in Tasks : task[u] # NoRecord => tlog'[u] # "NONE"
    BY <1>0, <1>11 DEF Submitted
  <2> QED  BY <1>1, <1>6, <1>7, <1>8, <2>1, <2>2, <2>3, <2>4, <2>5 DEF Submitted
<1>13. StreamExact' /\ Retries'
  BY <1>0, <1>1 DEF StreamExact, Retries, FailedBefore, AllStepsSucceeded
<1>14. Views'
  BY <1>0, <1>1, <1>7 DEF Views
<1>15. Holder'
  BY <1>1, <1>4, <1>6, <1>7 DEF Holder, n
<1>16. AttemptsJustified'
  <2>1. \A d \in Deps[s] : log.steps[d].status = "SUCCEEDED"
    BY <1>0, <1>1, <1>2, <1>4, WorkflowAssumption DEF Views
  <2>2. DepsFirst'
    BY <1>0, <1>1, <1>6, <1>8, <2>1 DEF DepsFirst
  <2>3. n + 1 <= MaxAttempts[s] /\ (n + 1 > 1 => \E m \in 1 .. (n + 1) - 1 : <<"failed", <<s, m>>>> \in keys)
    BY <1>5 DEF FailedBefore
  <2>4. RetryLimit'
    BY <1>0, <1>1, <1>6, <1>8, <2>3 DEF RetryLimit
  <2> QED  BY <2>2, <2>4
<1> QED  BY <1>9, <1>10, <1>12, <1>13, <1>14, <1>15, <1>16 DEF WInv

\* Steps on the task side: the task gets its record, a lease, or a new place in the queue.
LEMMA TaskSideInv ==
    ASSUME WInv, ScheduleCreate \/ \E t \in Tasks : Redeliver(t) \/ \E w \in Workers : Lease(t, w)
    PROVE  WInv'
<1> USE DEF stream, work, bounds
<1>0. TypeOK /\ Idle /\ Submitted /\ StreamExact /\ Views /\ Retries /\ Holder /\ AttemptsJustified
  BY DEF WInv
<1>1. UNCHANGED <<wf, log, keys, tlog, pending, sub, faults, crashes>>
  BY DEF ScheduleCreate, Redeliver, Lease
<1>2. StreamExact' /\ Retries' /\ AttemptsJustified'
  BY <1>0, <1>1 DEF StreamExact, Retries, FailedBefore, AllStepsSucceeded, DepsFirst, RetryLimit
<1>3. ASSUME /\ task' \in [Tasks -> [status : {"NONE", "QUEUED", "RUNNING"} \cup Outcomes, lease : Nat]]
             /\ \A u \in Tasks : task'[u] # NoRecord => tlog[u] # "NONE"
             /\ queue' \subseteq Tasks /\ \A u \in queue' : tlog[u] # "NONE"
             /\ jobs' \subseteq Jobs
             /\ \A j \in jobs' : tlog[j.t] # "NONE" /\ (j.pc \in {"completing", "report"} => j.out \in Outcomes)
             /\ hold' = hold \/ (hold.pc = "submitted" /\ hold' = [hold EXCEPT !.pc = "enqueued"])
             /\ sub = "done"
      PROVE  WInv'
  <2>1. TypeOK'
    BY <1>0, <1>1, <1>3 DEF TypeOK, HoldPCs
  <2>2. Idle'
    BY <1>1, <1>3 DEF Idle
  <2>3. hold'.t = hold.t /\ (hold'.pc = hold.pc \/ (hold.pc = "submitted" /\ hold'.pc = "enqueued"))
    BY <1>0, <1>3 DEF TypeOK
  <2>4. Submitted'
    BY <1>0, <1>1, <1>3, <2>3 DEF Submitted, WithTask, HoldPCs
  <2>5. Views'
    BY <1>0, <1>1, <2>3 DEF Views
  <2>6. Holder'
    BY <1>0, <1>1, <2>3 DEF Holder, AllStepsSucceeded
  <2> QED  BY <1>2, <2>1, <2>2, <2>4, <2>5, <2>6 DEF WInv
<1>4. CASE ScheduleCreate
  <2>1. hold.pc = "submitted" /\ hold.t \in Tasks /\ tlog[hold.t] # "NONE" /\ sub = "done"
    BY <1>0, <1>4 DEF ScheduleCreate, Submitted, WithTask, HoldPCs, Idle, Free
  <2>2. /\ task' = [task EXCEPT ![hold.t].status = "QUEUED"] /\ queue' = queue \cup {hold.t}
        /\ hold' = [hold EXCEPT !.pc = "enqueued"] /\ jobs' = jobs
    BY <1>4 DEF ScheduleCreate
  <2>3. /\ task' \in [Tasks -> [status : {"NONE", "QUEUED", "RUNNING"} \cup Outcomes, lease : Nat]]
        /\ \A u \in Tasks : u # hold.t => task'[u] = task[u]
    BY <1>0, <2>1, <2>2 DEF TypeOK
  <2> QED  BY <1>0, <1>3, <2>1, <2>2, <2>3 DEF Submitted, TypeOK
<1>5. ASSUME NEW t \in Tasks, Redeliver(t) PROVE WInv'
  <2>1. /\ task' = [task EXCEPT ![t].status = "QUEUED"] /\ queue' = queue \cup {t}
        /\ hold' = hold /\ jobs' = jobs /\ task[t].status = "RUNNING"
    BY <1>5 DEF Redeliver
  <2>2. tlog[t] # "NONE" /\ sub = "done"
    BY <1>0, <2>1 DEF Submitted, Idle, NoRecord
  <2>3. /\ task' \in [Tasks -> [status : {"NONE", "QUEUED", "RUNNING"} \cup Outcomes, lease : Nat]]
        /\ \A u \in Tasks : u # t => task'[u] = task[u]
    BY <1>0, <2>1 DEF TypeOK
  <2> QED  BY <1>0, <1>3, <2>1, <2>2, <2>3 DEF Submitted, TypeOK
<1>6. ASSUME NEW t \in Tasks, NEW w \in Workers, Lease(t, w) PROVE WInv'
  <2>1. t \in queue /\ queue' = queue \ {t} /\ hold' = hold /\ tlog[t] # "NONE" /\ sub = "done"
    BY <1>0, <1>6 DEF Lease, Submitted, Idle
  <2>2. CASE task' = task /\ jobs' = jobs
    BY <1>0, <1>3, <2>1, <2>2 DEF Submitted, TypeOK
  <2>3. CASE /\ task' = [task EXCEPT ![t] = [status |-> "RUNNING", lease |-> @.lease + 1]]
             /\ jobs' = jobs \cup {[t |-> t, w |-> w, lease |-> task[t].lease + 1,
                                    pc |-> "leased", out |-> "NONE"]}
    <3> DEFINE k == [t |-> t, w |-> w, lease |-> task[t].lease + 1, pc |-> "leased", out |-> "NONE"]
    <3>1. task[t].lease + 1 \in Nat
      BY <1>0 DEF TypeOK
    <3>2. k \in Jobs /\ k.t = t /\ k.pc = "leased"
      BY <3>1 DEF Jobs, JobPCs
    <3>3. jobs' = jobs \cup {k}
      BY <2>3
    <3> HIDE DEF k
    <3>4. /\ task' \in [Tasks -> [status : {"NONE", "QUEUED", "RUNNING"} \cup Outcomes, lease : Nat]]
          /\ \A u \in Tasks : u # t => task'[u] = task[u]
      BY <1>0, <2>3, <3>1 DEF TypeOK
    <3> QED  BY <1>0, <1>3, <2>1, <3>2, <3>3, <3>4 DEF Submitted, TypeOK
  <2> QED  BY <1>6, <2>2, <2>3 DEF Lease
<1> QED  BY <1>4, <1>5, <1>6

\* A record of a submitted task is appended: replay sets its step to r, never back from
\* success and never to fewer attempts.
LEMMA StreamStep ==
    ASSUME TypeOK, Submitted, StreamExact, AttemptsJustified,
           NEW t \in Tasks, NEW r, NEW k, tlog[t] # "NONE", tlog' = tlog,
           log' \in Workflows, StepSet(log, log', t[1], r), keys' = keys \cup {k},
           r.task = t, r.attempts \in Nat, log.steps[t[1]].attempts <= r.attempts,
           r.status # "SUCCEEDED" => log.steps[t[1]].status # "SUCCEEDED",
           r.status = "FAILED" => FailedBefore(t[1], r.attempts)',
           k # <<"completed">>, k # <<"failed">>,
           \A u \in Tasks : k = <<"scheduled", u>> => u = t /\ t[2] <= r.attempts,
           \A u \in Steps : k = <<"succeeded", u>> => u = t[1] /\ r.status = "SUCCEEDED"
    PROVE  /\ StreamExact' /\ AttemptsJustified'
           /\ \A s \in Steps : log'.steps[s].task # NoTask => tlog[log'.steps[s].task] # "NONE"
           /\ \A u \in Tasks : tlog[u] # "NONE" => u[2] <= log'.steps[u[1]].attempts + 1
<1>1. t[1] \in Steps /\ \A u \in Tasks : u[1] \in Steps /\ u[2] \in Nat
  <2>1. \A u \in Tasks : u[1] \in Steps /\ u[2] \in 1 .. MaxAttempts[u[1]] + 1
    BY TaskShape
  <2> QED  BY <2>1, WorkflowAssumption
<1>2. /\ log'.status = log.status /\ log'.steps[t[1]] = r
      /\ \A s \in Steps : s # t[1] => log'.steps[s] = log.steps[s]
  BY DEF StepSet
<1>3. \A s \in Steps : log.steps[s].attempts \in Nat /\ log'.steps[s].attempts \in Nat
                       /\ log.steps[s].attempts <= log'.steps[s].attempts
  <2>1. \A s \in Steps : log.steps[s].attempts \in Nat
    BY DEF TypeOK, Workflows, StepStates
  <2> QED  BY <1>2, <2>1
<1>4. \A s \in Steps : log.steps[s].status = "SUCCEEDED" => log'.steps[s].status = "SUCCEEDED"
  BY <1>2
<1>5. \A s \in Steps, n \in Nat : FailedBefore(s, n) => FailedBefore(s, n)'
  BY DEF FailedBefore
<1>6. \A s \in Steps : log'.steps[s].task # NoTask => tlog[log'.steps[s].task] # "NONE"
  BY <1>2 DEF Submitted
<1>7. \A u \in Tasks : tlog[u] # "NONE" => u[2] <= log'.steps[u[1]].attempts + 1
  BY <1>1, <1>3 DEF Submitted
<1>8. AttemptsJustified'
  <2>1. DepsFirst'
    BY <1>1, <1>4, WorkflowAssumption DEF DepsFirst
  <2>2. RetryLimit'
    BY DEF RetryLimit
  <2> QED  BY <2>1, <2>2
<1>9. StreamExact'
  <2>1. \A u \in Tasks : <<"scheduled", u>> \in keys' => u[2] <= log'.steps[u[1]].attempts
    BY <1>1, <1>2, <1>3 DEF StreamExact
  <2>2. \A s \in Steps : <<"succeeded", s>> \in keys' => log'.steps[s].status = "SUCCEEDED"
    BY <1>2, <1>4 DEF StreamExact
  <2>3. /\ <<"completed">> \in keys' => log'.status = "COMPLETED"
        /\ <<"failed">> \in keys' => log'.status \in {"FAILED", "COMPLETED"}
    BY <1>2 DEF StreamExact
  <2>4. log'.status = "COMPLETED" => AllStepsSucceeded(log)'
    BY <1>2, <1>4 DEF StreamExact, AllStepsSucceeded
  <2>5. \A s \in Steps : log'.steps[s].task = NoTask => log'.steps[s].status = "SCHEDULED" /\ log'.steps[s].attempts = 0
    BY <1>2, TaskShape DEF StreamExact
  <2>6. \A s \in Steps : log'.steps[s].status = "FAILED" => FailedBefore(s, log.steps[s].attempts)'
    <3>1. ASSUME NEW s \in Steps, s # t[1], log'.steps[s].status = "FAILED" PROVE FailedBefore(s, log.steps[s].attempts)'
      <4>1. FailedBefore(s, log.steps[s].attempts)
        BY <1>2, <3>1 DEF StreamExact
      <4> QED  BY <1>2, <1>3, <3>1, <4>1 DEF FailedBefore
    <3>2. ASSUME log'.steps[t[1]].status = "FAILED" PROVE FailedBefore(t[1], log.steps[t[1]].attempts)'
      BY <1>2, <3>2 DEF FailedBefore
    <3> QED  BY <3>1, <3>2
  <2> QED  BY <2>1, <2>2, <2>3, <2>4, <2>5, <2>6 DEF StreamExact
<1> QED  BY <1>6, <1>7, <1>8, <1>9

\* scheduleReadySteps: StepScheduled is appended, for the first time.
LEMMA ScheduleAppendInv ==
    ASSUME WInv, ScheduleAppend
    PROVE  WInv'
<1> USE DEF stream, work, bounds
<1>0. TypeOK /\ Idle /\ Submitted /\ StreamExact /\ Views /\ Retries /\ Holder /\ AttemptsJustified
  BY DEF WInv
<1> DEFINE t == hold.t
           s == t[1]
           r == [status |-> "SCHEDULED", attempts |-> t[2], task |-> t]
           k == <<"scheduled", t>>
<1>1. /\ hold.pc = "enqueued" /\ hold' = [hold EXCEPT !.pc = "scheduled"]
      /\ AppendLog(k, SetStepScheduled(log, t))
      /\ UNCHANGED <<wf, task, tlog, queue, jobs, pending, sub, faults, crashes>>
  BY DEF ScheduleAppend
<1>2. sub = "done" /\ t \in Tasks /\ tlog[t] # "NONE"
  BY <1>0, <1>1 DEF Idle, Free, Submitted, WithTask, HoldPCs
<1>3. s \in Steps /\ t[2] \in Nat
  <2>1. s \in Steps /\ t[2] \in 1 .. MaxAttempts[s] + 1
    BY <1>2, TaskShape
  <2> QED  BY <2>1, WorkflowAssumption
<1>4. /\ wf.steps[s].status = "SCHEDULED" /\ wf.steps[s].task = NoTask
      /\ t[2] = wf.steps[s].attempts + 1 /\ wf.steps[s].attempts = log.steps[s].attempts
      /\ log.steps[s].status # "SUCCEEDED" /\ log.steps[s].attempts \in Nat
  BY <1>0, <1>1, <1>2, <1>3 DEF Holder, Views, TypeOK, Workflows, StepStates
<1>5. k \notin keys
  BY <1>0, <1>2, <1>4 DEF StreamExact
<1>6. log' = SetStepScheduled(log, t) /\ keys' = keys \cup {k}
  BY <1>1, <1>5 DEF AppendLog
<1>7. log' \in Workflows /\ StepSet(log, log', s, r)
  <2>1. StepSet(log, log', s, r)
    BY <1>0, <1>2, <1>6, StepUpdates DEF TypeOK
  <2> QED  BY <2>1 DEF StepSet
<1>8. hold'.pc = "scheduled" /\ hold'.t = t /\ hold' \in [pc : HoldPCs, t : Tasks \cup {NoTask}, boot : BOOLEAN]
  BY <1>0, <1>1 DEF TypeOK, HoldPCs
<1>9. /\ log'.status = log.status /\ log'.steps[s] = r
      /\ \A u \in Steps : u # s => log'.steps[u] = log.steps[u]
  BY <1>7 DEF StepSet
<1>10. r.task = t /\ r.attempts = t[2] /\ r.status = "SCHEDULED"
  OBVIOUS
<1>11. /\ k # <<"completed">> /\ k # <<"failed">>
       /\ \A u \in Tasks : k = <<"scheduled", u>> => u = t
       /\ \A u \in Steps : k # <<"succeeded", u>>
  BY KeyKinds
<1> HIDE DEF r, k
<1>12. /\ StreamExact' /\ AttemptsJustified'
       /\ \A u \in Steps : log'.steps[u].task # NoTask => tlog[log'.steps[u].task] # "NONE"
       /\ \A u \in Tasks : tlog[u] # "NONE" => u[2] <= log'.steps[u[1]].attempts + 1
  <2>1. /\ r.attempts \in Nat /\ log.steps[t[1]].attempts <= r.attempts /\ t[2] <= r.attempts
        /\ r.status # "SUCCEEDED" /\ r.status # "FAILED"
    BY <1>3, <1>4, <1>10
  <2>2. /\ \A u \in Tasks : k = <<"scheduled", u>> => u = t /\ t[2] <= r.attempts
        /\ \A u \in Steps : k = <<"succeeded", u>> => u = t[1] /\ r.status = "SUCCEEDED"
        /\ k # <<"completed">> /\ k # <<"failed">>
    BY <1>11, <2>1
  <2>3. tlog' = tlog /\ r.task = t /\ log.steps[t[1]].status # "SUCCEEDED"
    BY <1>1, <1>4, <1>10
  <2> HIDE DEF t
  <2> QED  BY <1>0, <1>2, <1>6, <1>7, <2>1, <2>2, <2>3, StreamStep
<1>13. TypeOK' /\ Idle'
  BY <1>0, <1>1, <1>2, <1>7, <1>8 DEF TypeOK, Idle
<1>14. Submitted'
  BY <1>0, <1>1, <1>2, <1>8, <1>12 DEF Submitted
<1>15. Views'
  BY <1>0, <1>1, <1>2, <1>4, <1>8, <1>9, <1>10 DEF Views
<1>16. Retries'
  BY <1>0, <1>1, <1>6 DEF Retries, FailedBefore
<1>17. Holder'
  BY <1>1, <1>4, <1>8, <1>9 DEF Holder, r
<1> QED  BY <1>12, <1>13, <1>14, <1>15, <1>16, <1>17 DEF WInv

\* markWorkflowStepStarted: StepStarted is appended unless the step has ended.
LEMMA MarkStartedInv ==
    ASSUME WInv, NEW j \in jobs, MarkStarted(j)
    PROVE  WInv'
<1> USE DEF stream, work, bounds
<1>0. TypeOK /\ Idle /\ Submitted /\ StreamExact /\ Views /\ Retries /\ Holder /\ AttemptsJustified
  BY DEF WInv
<1> DEFINE t == j.t
           s == t[1]
           k == <<"started", t, j.w>>
<1>1. sub = "done" /\ t \in Tasks /\ tlog[t] # "NONE" /\ hold = Free /\ hold.pc = "free"
  BY <1>0 DEF Idle, Submitted, TypeOK, Jobs, MarkStarted, Free
<1>2. UNCHANGED <<wf, task, tlog, queue, pending, sub, faults, crashes>>
  BY DEF MarkStarted
<1>3. /\ jobs' \subseteq Jobs
      /\ \A x \in jobs' : tlog[x.t] # "NONE" /\ (x.pc \in {"completing", "report"} => x.out \in Outcomes)
  <2>1. PICK pc \in JobPCs : Move(j, pc) /\ pc \notin {"completing", "report"}
    BY DEF MarkStarted, JobPCs
  <2> QED  BY <1>0, <1>1, <2>1, JobsAfter DEF Submitted
<1>4. CASE wf.steps[s].status \in Outcomes
  <2>1. UNCHANGED <<log, keys, hold>>
    BY <1>4 DEF MarkStarted
  <2> QED  BY <1>0, <1>1, <1>2, <1>3, <2>1, QuietStep DEF TypeOK
<1>5. CASE wf.steps[s].status \notin Outcomes
  <2>1. AppendLog(k, SetStepStarted(log, t)) /\ hold' = [hold EXCEPT !.pc = "started", !.t = t]
    BY <1>5 DEF MarkStarted
  <2>2. s \in Steps
    BY <1>1, TaskShape
  <2>3. log.steps[s].status # "SUCCEEDED" /\ log.steps[s].attempts \in Nat
    BY <1>0, <1>1, <1>5, <2>2 DEF Views, Outcomes, TypeOK, Workflows, StepStates
  <2>4. hold'.pc = "started" /\ hold'.t = t /\ hold' \in [pc : HoldPCs, t : Tasks \cup {NoTask}, boot : BOOLEAN]
    BY <1>0, <1>1, <2>1 DEF TypeOK, HoldPCs
  <2> DEFINE r == [status |-> "STARTED", attempts |-> log.steps[s].attempts, task |-> t]
  <2>5. r.task = t /\ r.attempts = log.steps[s].attempts /\ r.status = "STARTED"
    OBVIOUS
  <2>6. /\ k # <<"completed">> /\ k # <<"failed">>
        /\ \A u : k # <<"scheduled", u>> /\ k # <<"succeeded", u>>
    BY KeyKinds
  <2>7. StepSet(log, SetStepStarted(log, t), s, r) /\ SetStepStarted(log, t) \in Workflows
    BY <1>0, <1>1, <2>3, StepUpdates, ZenonT(30) DEF TypeOK, StepSet
  <2> HIDE DEF r, k
  <2>8. /\ log' \in Workflows /\ keys \subseteq keys'
        /\ StreamExact' /\ AttemptsJustified'
        /\ \A u \in Steps : log'.steps[u].task # NoTask => tlog[log'.steps[u].task] # "NONE"
        /\ \A u \in Tasks : tlog[u] # "NONE" => u[2] <= log'.steps[u[1]].attempts + 1
        /\ log'.status = log.status
        /\ \A u \in Steps : /\ log'.steps[u].attempts = log.steps[u].attempts
                            /\ log'.steps[u].status = "SUCCEEDED" <=> log.steps[u].status = "SUCCEEDED"
    <3>1. CASE k \in keys
      <4>1. log' = log /\ keys' = keys
        BY <2>1, <3>1 DEF AppendLog
      <4> QED  BY <1>0, <1>2, <4>1 DEF TypeOK, StreamExact, Submitted, DepsFirst, RetryLimit, FailedBefore, AllStepsSucceeded
    <3>2. CASE k \notin keys
      <4>1. log' = SetStepStarted(log, t) /\ keys' = keys \cup {k}
        BY <2>1, <3>2 DEF AppendLog
      <4>2. /\ StreamExact' /\ AttemptsJustified'
            /\ \A u \in Steps : log'.steps[u].task # NoTask => tlog[log'.steps[u].task] # "NONE"
            /\ \A u \in Tasks : tlog[u] # "NONE" => u[2] <= log'.steps[u[1]].attempts + 1
        BY <1>0, <1>1, <1>2, <2>3, <2>5, <2>6, <2>7, <4>1, StreamStep
      <4>3. log'.status = log.status /\ \A u \in Steps : log'.steps[u] = IF u = s THEN r ELSE log.steps[u]
        BY <2>7, <4>1 DEF StepSet
      <4> QED  BY <2>3, <2>5, <2>7, <4>1, <4>2, <4>3
    <3> QED  BY <3>1, <3>2
  <2>9. TypeOK' /\ Idle'
    BY <1>0, <1>1, <1>2, <1>3, <2>4, <2>8 DEF TypeOK, Idle
  <2>10. Submitted'
    BY <1>0, <1>1, <1>2, <1>3, <2>4, <2>8 DEF Submitted
  <2>11. Views'
    BY <1>0, <1>1, <1>2, <2>4, <2>8 DEF Views
  <2>12. Retries'
    BY <1>0, <1>2, <2>8 DEF Retries, FailedBefore
  <2>13. Holder'
    BY <2>4 DEF Holder
  <2> QED  BY <2>8, <2>9, <2>10, <2>11, <2>12, <2>13 DEF WInv
<1> QED  BY <1>4, <1>5

\* completeWorkflowStep: the outcome of a step that has not succeeded is appended.
LEMMA CompleteStepInv ==
    ASSUME WInv, NEW j \in jobs, CompleteStep(j)
    PROVE  WInv'
<1> USE DEF stream, work, bounds
<1>0. TypeOK /\ Idle /\ Submitted /\ StreamExact /\ Views /\ Retries /\ Holder /\ AttemptsJustified
  BY DEF WInv
<1> DEFINE t == j.t
           s == t[1]
           n == log.steps[s].attempts
<1>1. sub = "done" /\ t \in Tasks /\ tlog[t] # "NONE" /\ hold = Free /\ hold.pc = "free" /\ End(j)
  BY <1>0 DEF Idle, Submitted, TypeOK, Jobs, CompleteStep, Free
<1>2. UNCHANGED <<wf, task, tlog, queue, pending, sub, faults, crashes>>
  BY DEF CompleteStep
<1>3. /\ jobs' \subseteq Jobs
      /\ \A x \in jobs' : tlog[x.t] # "NONE" /\ (x.pc \in {"completing", "report"} => x.out \in Outcomes)
  BY <1>0, <1>1 DEF End, Submitted, TypeOK
<1>4. CASE UNCHANGED <<log, keys, hold>>
  BY <1>0, <1>1, <1>2, <1>3, <1>4, QuietStep DEF TypeOK
<1>5. s \in Steps /\ t = <<s, t[2]>> /\ t[2] \in Nat /\ t[2] >= 1
  <2>1. s \in Steps /\ t[2] \in 1 .. MaxAttempts[s] + 1 /\ t = <<s, t[2]>>
    BY <1>1, TaskShape
  <2> QED  BY <2>1, WorkflowAssumption
<1>6. n \in Nat /\ n = wf.steps[s].attempts /\ (log.steps[s].status = "SUCCEEDED" <=> wf.steps[s].status = "SUCCEEDED")
  BY <1>0, <1>1, <1>5 DEF Views, TypeOK, Workflows, StepStates
<1>7. ASSUME wf.steps[s].status # "SUCCEEDED", NEW k, NEW r, NEW pc \in {"succeeded", "failed"},
             AppendLog(k, log'), StepSet(log, log', s, r), k \notin keys,
             hold' = [hold EXCEPT !.pc = pc, !.t = t],
             r.task = t, r.attempts = n,
             \/ pc = "succeeded" /\ r.status = "SUCCEEDED" /\ k = <<"succeeded", s>>
             \/ pc = "failed" /\ r.status = "FAILED" /\ k = <<"failed", t>>
      PROVE  WInv'
  <2>1. keys' = keys \cup {k}
    BY <1>7 DEF AppendLog
  <2>2. /\ log' \in Workflows /\ log'.status = log.status /\ log'.steps[s] = r
        /\ \A u \in Steps : u # s => log'.steps[u] = log.steps[u]
    BY <1>7 DEF StepSet
  <2>3. hold'.pc = pc /\ hold'.t = t /\ hold' \in [pc : HoldPCs, t : Tasks \cup {NoTask}, boot : BOOLEAN]
    BY <1>0, <1>1, <1>7 DEF TypeOK, HoldPCs
  <2>4. r.status = "FAILED" => FailedBefore(s, r.attempts)'
    <3>1. SUFFICES ASSUME r.status = "FAILED", n >= 1
                   PROVE  \E m \in 1 .. n : <<"failed", <<s, m>>>> \in keys'
      BY <1>7 DEF FailedBefore
    <3>2. <<"failed", <<s, t[2]>>>> \in keys'
      BY <1>5, <1>7, <2>1, <3>1
    <3>3. CASE t[2] <= n
      <4>1. t[2] \in 1 .. n
        BY <1>5, <1>6, <3>3
      <4> QED  BY <3>2, <4>1
    <3>4. CASE t[2] > n
      <4>1. t[2] = n + 1 /\ t[2] > 1 /\ t[2] - 1 = n
        BY <1>0, <1>1, <1>5, <1>6, <3>1, <3>4 DEF Submitted
      <4>2. \E m \in 1 .. t[2] - 1 : <<"failed", <<s, m>>>> \in keys
        BY <1>0, <1>1, <4>1 DEF RetryLimit
      <4> QED  BY <2>1, <4>1, <4>2
    <3> QED  BY <1>5, <1>6, <3>3, <3>4
  <2>5. /\ k # <<"completed">> /\ k # <<"failed">>
        /\ \A u : k # <<"scheduled", u>>
        /\ \A u \in Steps : k = <<"succeeded", u>> => u = s /\ r.status = "SUCCEEDED"
    BY <1>7, KeyKinds
  <2>6. /\ StreamExact' /\ AttemptsJustified'
        /\ \A u \in Steps : log'.steps[u].task # NoTask => tlog[log'.steps[u].task] # "NONE"
        /\ \A u \in Tasks : tlog[u] # "NONE" => u[2] <= log'.steps[u[1]].attempts + 1
    BY <1>0, <1>1, <1>2, <1>6, <1>7, <2>1, <2>2, <2>4, <2>5, StreamStep
  <2>7. TypeOK' /\ Idle'
    BY <1>0, <1>1, <1>2, <1>3, <2>2, <2>3 DEF TypeOK, Idle
  <2>8. Submitted'
    BY <1>0, <1>1, <1>2, <1>3, <2>3, <2>6 DEF Submitted
  <2>9. Views'
    BY <1>0, <1>1, <1>2, <1>6, <1>7, <2>2, <2>3 DEF Views
  <2>10. Retries'
    BY <1>0, <1>2, <2>1 DEF Retries, FailedBefore
  <2>11. Holder'
    BY <1>2, <1>7, <2>1, <2>2, <2>3 DEF Holder
  <2> QED  BY <2>6, <2>7, <2>8, <2>9, <2>10, <2>11 DEF WInv
<1>8. CASE /\ wf.steps[s].status # "SUCCEEDED"
           /\ AppendLog(<<"succeeded", s>>, SetStepSucceeded(log, t))
           /\ hold' = [hold EXCEPT !.pc = "succeeded", !.t = t]
  <2> DEFINE r == [status |-> "SUCCEEDED", attempts |-> n, task |-> t]
  <2>1. <<"succeeded", s>> \notin keys
    BY <1>0, <1>5, <1>6, <1>8 DEF StreamExact
  <2>2. log' = SetStepSucceeded(log, t) /\ AppendLog(<<"succeeded", s>>, log')
    BY <1>8, <2>1 DEF AppendLog
  <2>3. StepSet(log, log', s, r)
    BY <1>0, <1>1, <2>2, StepUpdates DEF TypeOK
  <2>4. r.task = t /\ r.attempts = n /\ r.status = "SUCCEEDED"
    OBVIOUS
  <2> HIDE DEF r, n, s, t
  <2> QED  BY <1>7, <1>8, <2>1, <2>2, <2>3, <2>4, SMTT(30)
<1>9. CASE /\ wf.steps[s].status # "SUCCEEDED"
           /\ AppendLog(<<"failed", t>>, SetStepFailed(log, t, FALSE))
           /\ hold' = [hold EXCEPT !.pc = "failed", !.t = t]
  <2>1. CASE <<"failed", t>> \notin keys
    <3> DEFINE r == [status |-> "FAILED", attempts |-> n, task |-> t]
    <3>1. log' = SetStepFailed(log, t, FALSE) /\ AppendLog(<<"failed", t>>, log')
      BY <1>9, <2>1 DEF AppendLog
    <3>2. StepSet(log, log', s, r)
      BY <1>0, <1>1, <3>1, StepUpdates DEF TypeOK
    <3>3. r.task = t /\ r.attempts = n /\ r.status = "FAILED"
      OBVIOUS
    <3> HIDE DEF r
    <3> QED  BY <1>7, <1>9, <2>1, <3>1, <3>2, <3>3
  <2>2. CASE <<"failed", t>> \in keys
    <3>1. log' = log /\ keys' = keys
      BY <1>9, <2>2 DEF AppendLog
    <3>2. hold'.pc = "failed" /\ hold'.t = t /\ hold' \in [pc : HoldPCs, t : Tasks \cup {NoTask}, boot : BOOLEAN]
      BY <1>0, <1>1, <1>9 DEF TypeOK, HoldPCs
    <3>3. TypeOK' /\ Idle' /\ Submitted'
      BY <1>0, <1>1, <1>2, <1>3, <3>1, <3>2 DEF TypeOK, Idle, Submitted
    <3>4. StreamExact' /\ Retries' /\ AttemptsJustified'
      BY <1>0, <1>2, <3>1 DEF StreamExact, Retries, FailedBefore, AllStepsSucceeded, DepsFirst, RetryLimit
    <3>5. Views'
      BY <1>0, <1>1, <1>2, <3>1, <3>2 DEF Views
    <3>6. Holder'
      BY <1>2, <1>9, <2>2, <3>1, <3>2 DEF Holder
    <3> QED  BY <3>3, <3>4, <3>5, <3>6 DEF WInv
  <2> QED  BY <2>1, <2>2
<1> QED  BY <1>4, <1>8, <1>9 DEF CompleteStep

\* The holder applies to the metadata what it has appended.
LEMMA HolderMetaInv ==
    ASSUME WInv, ScheduleMeta \/ MarkStartedMeta \/ StepSucceeded \/ StepFailed
    PROVE  WInv'
<1> USE DEF stream, work, bounds
<1>0. TypeOK /\ Idle /\ Submitted /\ StreamExact /\ Views /\ Retries /\ Holder /\ AttemptsJustified
  BY DEF WInv
<1> DEFINE t == hold.t
           s == t[1]
           n == wf.steps[s].attempts
<1>1. hold.pc \in {"scheduled", "started", "succeeded", "failed"}
  BY DEF ScheduleMeta, MarkStartedMeta, StepSucceeded, StepFailed
<1>2. sub = "done" /\ t \in Tasks /\ tlog[t] # "NONE"
  BY <1>0, <1>1 DEF Idle, Free, Submitted, WithTask, HoldPCs
<1>3. s \in Steps /\ t[2] \in Nat /\ t[2] >= 1 /\ t = <<s, t[2]>> /\ t # NoTask /\ MaxAttempts[s] \in Nat
  <2>1. s \in Steps /\ t[2] \in 1 .. MaxAttempts[s] + 1 /\ t = <<s, t[2]>> /\ t # NoTask
    BY <1>2, TaskShape
  <2> QED  BY <2>1, WorkflowAssumption
<1>4. UNCHANGED <<log, keys, task, tlog, queue, sub, faults, crashes>>
  BY DEF ScheduleMeta, MarkStartedMeta, StepSucceeded, StepFailed
<1>5. StreamExact' /\ AttemptsJustified'
  BY <1>0, <1>4 DEF StreamExact, FailedBefore, AllStepsSucceeded, DepsFirst, RetryLimit
<1>6. n \in Nat /\ n <= MaxAttempts[s] /\ wf \in Workflows
  BY <1>0, <1>3 DEF TypeOK, Workflows, StepStates, Retries
<1>7. ASSUME NEW r, StepSet(wf, wf', s, r), r.attempts = log.steps[s].attempts, r.attempts <= MaxAttempts[s],
             r.status = "SUCCEEDED" <=> log.steps[s].status = "SUCCEEDED",
             r.status = "SCHEDULED" /\ r.task = NoTask => r.attempts < MaxAttempts[s] /\ FailedBefore(s, r.attempts),
             hold' \in [pc : HoldPCs, t : Tasks \cup {NoTask}, boot : BOOLEAN],
             hold'.pc \in {"free", "sched"} \/ (hold'.pc \in {"complete", "fail"} /\ hold'.t = t),
             hold'.pc = "complete" => AllStepsSucceeded(wf)',
             hold'.pc = "fail" => r.status # "SUCCEEDED",
             pending' \in Nat, jobs' \subseteq Jobs,
             \A j \in jobs' : tlog[j.t] # "NONE" /\ (j.pc \in {"completing", "report"} => j.out \in Outcomes)
      PROVE  WInv'
  <2>1. /\ wf' \in Workflows /\ wf'.status = wf.status /\ wf'.steps[s] = r
        /\ \A u \in Steps : u # s => wf'.steps[u] = wf.steps[u]
    BY <1>7 DEF StepSet
  <2>2. TypeOK' /\ Idle'
    BY <1>0, <1>2, <1>4, <1>7, <2>1 DEF TypeOK, Idle
  <2>3. Submitted'
    BY <1>0, <1>2, <1>4, <1>7 DEF Submitted, WithTask
  <2>4. Views'
    BY <1>0, <1>1, <1>2, <1>4, <1>7, <2>1 DEF Views
  <2>5. Retries'
    BY <1>0, <1>3, <1>4, <1>7, <2>1 DEF Retries, FailedBefore
  <2>6. Holder'
    BY <1>7, <2>1 DEF Holder
  <2> QED  BY <1>5, <2>2, <2>3, <2>4, <2>5, <2>6 DEF WInv
<1>8. ASSUME jobs' = jobs
      PROVE  /\ jobs' \subseteq Jobs
             /\ \A j \in jobs' : tlog[j.t] # "NONE" /\ (j.pc \in {"completing", "report"} => j.out \in Outcomes)
  BY <1>0, <1>8 DEF TypeOK, Submitted
<1>9. Free \in [pc : HoldPCs, t : Tasks \cup {NoTask}, boot : BOOLEAN] /\ Free.pc = "free"
  BY DEF Free, HoldPCs
<1>10. CASE ScheduleMeta
  <2> DEFINE r == [status |-> "SCHEDULED", attempts |-> t[2], task |-> t]
  <2>1. /\ hold.pc = "scheduled" /\ wf' = SetStepScheduled(wf, t) /\ jobs' = jobs /\ pending' = pending
        /\ hold' = [hold EXCEPT !.pc = "sched", !.t = NoTask]
    BY <1>10 DEF ScheduleMeta
  <2>2. StepSet(wf, wf', s, r)
    BY <1>2, <1>6, <2>1, StepUpdates
  <2>3. log.steps[s] = r /\ wf.steps[s].status = "SCHEDULED" /\ wf.steps[s].task = NoTask /\ t[2] = n + 1
    BY <1>0, <2>1 DEF Holder
  <2>4. r.task = t /\ r.attempts = t[2] /\ r.status = "SCHEDULED"
    OBVIOUS
  <2>5. n < MaxAttempts[s]
    BY <1>0, <1>3, <2>3 DEF Retries
  <2>6. hold'.pc = "sched" /\ hold' \in [pc : HoldPCs, t : Tasks \cup {NoTask}, boot : BOOLEAN]
    BY <1>0, <2>1 DEF TypeOK, HoldPCs
  <2> HIDE DEF r
  <2>7. r.attempts <= MaxAttempts[s]
    BY <1>3, <1>6, <2>3, <2>4, <2>5
  <2> QED  BY <1>0, <1>3, <1>7, <1>8, <2>1, <2>2, <2>3, <2>4, <2>6, <2>7 DEF TypeOK
<1>11. CASE MarkStartedMeta
  <2>1. /\ hold.pc = "started" /\ wf' = SetStepStarted(wf, t) /\ hold' = Free /\ pending' = pending
        /\ jobs' = {[j EXCEPT !.pc = IF @ = "marking" THEN "running" ELSE @] : j \in jobs}
    BY <1>11 DEF MarkStartedMeta
  <2>2. /\ n = log.steps[s].attempts
        /\ wf.steps[s].status = "SUCCEEDED" <=> log.steps[s].status = "SUCCEEDED"
    BY <1>0, <1>2, <1>3, <2>1 DEF Views
  <2>3. /\ jobs' \subseteq Jobs
        /\ \A k \in jobs' : tlog[k.t] # "NONE" /\ (k.pc \in {"completing", "report"} => k.out \in Outcomes)
    <3>1. ASSUME NEW k \in jobs'
          PROVE  \E j \in jobs : k \in Jobs /\ k.t = j.t /\ k.out = j.out /\ (k.pc = j.pc \/ k.pc = "running")
      <4>1. PICK j \in jobs : k = [j EXCEPT !.pc = IF @ = "marking" THEN "running" ELSE @]
        BY <2>1
      <4>2. j \in Jobs
        BY <1>0 DEF TypeOK
      <4> QED  BY <4>1, <4>2 DEF Jobs, JobPCs
    <3> QED  BY <1>0, <3>1 DEF Submitted
  <2>4. CASE wf.steps[s].status = "SUCCEEDED"
    <3>1. wf' = wf
      BY <1>2, <1>6, <2>1, <2>4, StepUpdates
    <3>2. StepSet(wf, wf', s, wf.steps[s])
      BY <1>6, <3>1 DEF StepSet
    <3> QED  BY <1>0, <1>6, <1>7, <1>9, <2>1, <2>2, <2>3, <2>4, <3>2 DEF TypeOK
  <2>5. CASE wf.steps[s].status # "SUCCEEDED"
    <3> DEFINE r == [status |-> "STARTED", attempts |-> n, task |-> t]
    <3>1. StepSet(wf, wf', s, r)
      BY <1>2, <1>6, <2>1, <2>5, StepUpdates
    <3>2. r.status = "STARTED" /\ r.attempts = n
      OBVIOUS
    <3> HIDE DEF r
    <3> QED  BY <1>0, <1>6, <1>7, <1>9, <2>1, <2>2, <2>3, <2>5, <3>1, <3>2 DEF TypeOK
  <2> QED  BY <2>4, <2>5
<1>12. CASE StepSucceeded
  <2> DEFINE r == [status |-> "SUCCEEDED", attempts |-> n, task |-> t]
  <2>1. /\ hold.pc = "succeeded" /\ wf' = SetStepSucceeded(wf, t) /\ jobs' = jobs
        /\ \/ AllStepsSucceeded(wf') /\ hold' = [hold EXCEPT !.pc = "complete"] /\ pending' = pending
           \/ hold' = Free /\ pending' = pending + 1
    BY <1>12 DEF StepSucceeded
  <2>2. StepSet(wf, wf', s, r)
    BY <1>2, <1>6, <2>1, StepUpdates
  <2>3. log.steps[s].status = "SUCCEEDED" /\ n = log.steps[s].attempts
    BY <1>0, <1>2, <1>3, <2>1 DEF Holder, Views
  <2>4. r.attempts = n /\ r.status = "SUCCEEDED"
    OBVIOUS
  <2>5. pending' \in Nat
    BY <1>0, <2>1 DEF TypeOK
  <2> HIDE DEF r
  <2>6. CASE AllStepsSucceeded(wf') /\ hold' = [hold EXCEPT !.pc = "complete"]
    <3>1. /\ hold'.pc = "complete" /\ hold'.t = t
          /\ hold' \in [pc : HoldPCs, t : Tasks \cup {NoTask}, boot : BOOLEAN]
      BY <1>0, <2>6 DEF TypeOK, HoldPCs
    <3>2. AllStepsSucceeded(wf)'
      BY <2>6 DEF AllStepsSucceeded
    <3> QED  BY <1>6, <1>7, <1>8, <2>1, <2>2, <2>3, <2>4, <2>5, <3>1, <3>2
  <2>7. CASE hold' = Free
    BY <1>6, <1>7, <1>8, <1>9, <2>1, <2>2, <2>3, <2>4, <2>5, <2>7
  <2> QED  BY <2>1, <2>6, <2>7
<1>13. CASE StepFailed
  <2> DEFINE retry == Retryable(wf, s)
  <2>1. /\ hold.pc = "failed" /\ wf' = SetStepFailed(wf, t, retry) /\ jobs' = jobs
        /\ IF retry THEN hold' = Free /\ pending' = pending + 1
                    ELSE hold' = [hold EXCEPT !.pc = "fail"] /\ pending' = pending
    BY <1>13 DEF StepFailed
  <2>2. /\ wf.steps[s].status # "SUCCEEDED" /\ log.steps[s].status # "SUCCEEDED" /\ n = log.steps[s].attempts
        /\ <<"failed", t>> \in keys
    BY <1>0, <1>2, <1>3, <2>1 DEF Holder, Views
  <2>3. retry \in BOOLEAN /\ (retry <=> n < MaxAttempts[s])
    BY <1>3, <1>6 DEF Retryable
  <2>4. pending' \in Nat
    BY <1>0, <2>1 DEF TypeOK
  <2>5. CASE retry
    <3> DEFINE r == [status |-> "SCHEDULED", attempts |-> n, task |-> NoTask]
    <3>1. wf' = SetStepFailed(wf, t, TRUE) /\ hold' = Free
      BY <2>1, <2>3, <2>5
    <3>2. StepSet(wf, wf', s, r)
      BY <1>2, <1>6, <3>1, StepUpdates
    <3>3. r.attempts = n /\ r.status = "SCHEDULED"
      OBVIOUS
    <3>4. FailedBefore(s, n)
      <4>1. SUFFICES ASSUME n >= 1 PROVE \E m \in 1 .. n : <<"failed", <<s, m>>>> \in keys
        BY DEF FailedBefore
      <4>2. CASE t[2] <= n
        <5>1. t[2] \in 1 .. n
          BY <1>3, <1>6, <4>2
        <5> QED  BY <1>3, <2>2, <5>1
      <4>3. CASE t[2] > n
        <5>1. t[2] = n + 1 /\ t[2] > 1 /\ t[2] - 1 = n
          BY <1>0, <1>2, <1>3, <1>6, <2>2, <4>1, <4>3 DEF Submitted
        <5> QED  BY <1>0, <1>2, <5>1 DEF RetryLimit
      <4> QED  BY <1>3, <1>6, <4>2, <4>3
    <3> HIDE DEF r
    <3> QED  BY <1>6, <1>7, <1>8, <1>9, <2>1, <2>2, <2>3, <2>4, <2>5, <3>1, <3>2, <3>3, <3>4
  <2>6. CASE ~retry
    <3> DEFINE r == [status |-> "FAILED", attempts |-> n, task |-> t]
    <3>1. wf' = SetStepFailed(wf, t, FALSE) /\ hold' = [hold EXCEPT !.pc = "fail"]
      BY <2>1, <2>3, <2>6
    <3>2. StepSet(wf, wf', s, r)
      BY <1>2, <1>6, <3>1, StepUpdates
    <3>3. r.attempts = n /\ r.status = "FAILED"
      OBVIOUS
    <3>4. hold'.pc = "fail" /\ hold'.t = t /\ hold' \in [pc : HoldPCs, t : Tasks \cup {NoTask}, boot : BOOLEAN]
      BY <1>0, <3>1 DEF TypeOK, HoldPCs
    <3> HIDE DEF r
    <3> QED  BY <1>6, <1>7, <1>8, <2>1, <2>2, <2>4, <3>2, <3>3, <3>4
  <2> QED  BY <2>5, <2>6
<1> QED  BY <1>10, <1>11, <1>12, <1>13

\* completeWorkflow and failWorkflow: the end is appended, then applied.
LEMMA EndInv ==
    ASSUME WInv, EndAppend \/ EndMeta
    PROVE  WInv'
<1> USE DEF stream, work, bounds
<1>0. TypeOK /\ Idle /\ Submitted /\ StreamExact /\ Views /\ Retries /\ Holder /\ AttemptsJustified
  BY DEF WInv
<1> DEFINE t == hold.t
           s == t[1]
<1>1. hold.pc \in {"complete", "fail", "completed", "ended"}
  BY DEF EndAppend, EndMeta
<1>2. sub = "done" /\ t \in Tasks /\ tlog[t] # "NONE" /\ s \in Steps
  <2>1. sub = "done" /\ t \in Tasks /\ tlog[t] # "NONE"
    BY <1>0, <1>1 DEF Idle, Free, Submitted, WithTask, HoldPCs
  <2> QED  BY <2>1, TaskShape
<1>3. UNCHANGED <<task, tlog, queue, jobs, pending, sub, faults, crashes>>
  BY DEF EndAppend, EndMeta
<1>4. CASE EndAppend
  <2>1. wf' = wf
    BY <1>4 DEF EndAppend
  <2>2. ASSUME NEW status \in {"COMPLETED", "FAILED"}, NEW k, NEW pc \in {"completed", "ended"},
               AppendLog(k, [log EXCEPT !.status = status]), hold' = [hold EXCEPT !.pc = pc],
               k \in keys => log.status = status,
               \/ /\ status = "COMPLETED" /\ pc = "completed" /\ k = <<"completed">> /\ AllStepsSucceeded(log)
               \/ /\ status = "FAILED" /\ pc = "ended" /\ k = <<"failed">> /\ log.steps[s].status # "SUCCEEDED"
                  /\ wf.steps[s].status # "SUCCEEDED"
        PROVE  WInv'
    <3>1. /\ log' \in Workflows /\ log'.status = status /\ log'.steps = log.steps
          /\ keys \subseteq keys' /\ \A x \in keys' : x \in keys \/ x = k
      <4>1. log \in Workflows
        BY <1>0 DEF TypeOK
      <4>2. CASE k \in keys
        <5>1. log' = log /\ keys' = keys
          BY <2>2, <4>2 DEF AppendLog
        <5> QED  BY <2>2, <4>1, <4>2, <5>1
      <4>3. CASE k \notin keys
        <5>1. log' = [log EXCEPT !.status = status] /\ keys' = keys \cup {k}
          BY <2>2, <4>3 DEF AppendLog
        <5> QED  BY <2>2, <4>1, <5>1 DEF Workflows
      <4> QED  BY <4>2, <4>3
    <3>2. hold'.pc = pc /\ hold'.t = t /\ hold' \in [pc : HoldPCs, t : Tasks \cup {NoTask}, boot : BOOLEAN]
      BY <1>0, <2>2 DEF TypeOK, HoldPCs
    <3>3. TypeOK' /\ Idle'
      BY <1>0, <1>2, <1>3, <2>1, <3>1, <3>2 DEF TypeOK, Idle
    <3>4. Submitted'
      BY <1>0, <1>2, <1>3, <3>1, <3>2 DEF Submitted
    <3>5. \A u \in Steps, n \in Nat : FailedBefore(u, n) => FailedBefore(u, n)'
      BY <3>1 DEF FailedBefore
    <3>6. StreamExact'
      <4>1. /\ \A u \in Tasks : <<"scheduled", u>> \in keys' => <<"scheduled", u>> \in keys
            /\ \A u \in Steps : <<"succeeded", u>> \in keys' => <<"succeeded", u>> \in keys
        BY <2>2, <3>1, KeyKinds
      <4>2. /\ <<"completed">> \in keys' => log'.status = "COMPLETED"
            /\ <<"failed">> \in keys' => log'.status \in {"FAILED", "COMPLETED"}
        <5>1. CASE status = "COMPLETED"
          BY <3>1, <5>1
        <5>2. CASE status = "FAILED"
          <6>1. <<"completed">> \notin keys
            BY <1>0, <1>2, <2>2, <5>2 DEF StreamExact, AllStepsSucceeded
          <6> QED  BY <2>2, <3>1, <5>2, <6>1, KeyKinds
        <5> QED  BY <5>1, <5>2
      <4>3. log'.status = "COMPLETED" => AllStepsSucceeded(log)'
        BY <2>2, <3>1 DEF AllStepsSucceeded
      <4>4. \A u \in Steps : log'.steps[u].status = "FAILED" => FailedBefore(u, log.steps[u].attempts)'
        BY <1>0, <3>1 DEF StreamExact, FailedBefore
      <4> QED  BY <1>0, <3>1, <4>1, <4>2, <4>3, <4>4 DEF StreamExact
    <3>7. Views'
      BY <1>0, <1>1, <1>2, <1>3, <2>1, <2>2, <3>1, <3>2 DEF Views
    <3>8. Retries'
      BY <1>0, <2>1, <3>1 DEF Retries, FailedBefore
    <3>9. Holder'
      BY <2>1, <2>2, <3>1, <3>2 DEF Holder
    <3>10. AttemptsJustified'
      BY <1>0, <1>3, <3>1 DEF DepsFirst, RetryLimit
    <3> QED  BY <3>3, <3>4, <3>6, <3>7, <3>8, <3>9, <3>10 DEF WInv
  <2>3. CASE hold.pc = "complete"
    <3>1. /\ AppendLog(<<"completed">>, [log EXCEPT !.status = "COMPLETED"])
          /\ hold' = [hold EXCEPT !.pc = "completed"]
      BY <1>4, <2>3 DEF EndAppend
    <3>2. AllStepsSucceeded(log)
      BY <1>0, <1>2, <2>3 DEF Holder, Views, AllStepsSucceeded
    <3>3. <<"completed">> \in keys => log.status = "COMPLETED"
      BY <1>0 DEF StreamExact
    <3> QED  BY <2>2, <3>1, <3>2, <3>3
  <2>4. CASE hold.pc = "fail"
    <3>1. /\ AppendLog(<<"failed">>, [log EXCEPT !.status = "FAILED"])
          /\ hold' = [hold EXCEPT !.pc = "ended"]
      BY <1>4, <2>4 DEF EndAppend
    <3>2. wf.steps[s].status # "SUCCEEDED" /\ log.steps[s].status # "SUCCEEDED"
      BY <1>0, <1>2, <2>4 DEF Holder, Views
    <3>3. <<"failed">> \in keys => log.status = "FAILED"
      BY <1>0, <1>2, <3>2 DEF StreamExact, AllStepsSucceeded
    <3> QED  BY <2>2, <3>1, <3>2, <3>3
  <2> QED  BY <1>4, <2>3, <2>4 DEF EndAppend
<1>5. CASE EndMeta
  <2>1. /\ log' = log /\ keys' = keys /\ hold' = Free
        /\ wf' = [wf EXCEPT !.status = IF hold.pc = "completed" THEN "COMPLETED" ELSE "FAILED"]
        /\ hold.pc \in {"completed", "ended"}
    BY <1>5 DEF EndMeta
  <2>2. wf' \in Workflows /\ wf'.steps = wf.steps /\ wf'.status = log.status
    BY <1>0, <2>1 DEF TypeOK, Workflows, Holder
  <2>3. Free \in [pc : HoldPCs, t : Tasks \cup {NoTask}, boot : BOOLEAN] /\ Free.pc = "free"
    BY DEF Free, HoldPCs
  <2>4. TypeOK' /\ Idle'
    BY <1>0, <1>2, <1>3, <2>1, <2>2, <2>3 DEF TypeOK, Idle
  <2>5. Submitted' /\ Retries' /\ Holder'
    BY <1>0, <1>3, <2>1, <2>2, <2>3 DEF Submitted, WithTask, Retries, FailedBefore, Holder
  <2>6. Views'
    BY <1>0, <1>2, <1>3, <2>1, <2>2, <2>3 DEF Views
  <2>7. StreamExact' /\ AttemptsJustified'
    BY <1>0, <1>3, <2>1 DEF StreamExact, FailedBefore, AllStepsSucceeded, DepsFirst, RetryLimit
  <2> QED  BY <2>4, <2>5, <2>6, <2>7 DEF WInv
<1> QED  BY <1>4, <1>5

\* CompleteTask: a submitted task stays submitted.
LEMMA CompleteTaskInv ==
    ASSUME WInv, NEW j \in jobs, CompleteTask(j)
    PROVE  WInv'
<1> USE DEF stream, work, bounds
<1>0. TypeOK /\ Idle /\ Submitted /\ StreamExact /\ Views /\ Retries /\ Holder /\ AttemptsJustified
  BY DEF WInv
<1>1. /\ UNCHANGED <<wf, log, keys, queue, hold, pending, sub, faults, crashes>> /\ j.pc = "completing"
      /\ sub = "done" /\ j.t \in Tasks /\ tlog[j.t] # "NONE" /\ j.out \in Outcomes
  BY <1>0 DEF CompleteTask, Idle, Submitted, TypeOK, Jobs
<1>2. jobs' \subseteq Jobs /\ \A k \in jobs' : k \in jobs \/ (k.t = j.t /\ k.out = j.out)
  <2>1. Move(j, "report") \/ End(j)
    BY DEF CompleteTask
  <2> QED  BY <1>0, <2>1, JobsAfter DEF JobPCs
<1>3. CASE task' = task /\ tlog' = tlog
  <2>1. \A k \in jobs' : tlog[k.t] # "NONE" /\ (k.pc \in {"completing", "report"} => k.out \in Outcomes)
    BY <1>0, <1>1, <1>2 DEF Submitted
  <2> QED  BY <1>0, <1>1, <1>2, <1>3, <2>1, QuietStep DEF TypeOK
<1>4. CASE task' = [task EXCEPT ![j.t].status = j.out] /\ tlog' = [tlog EXCEPT ![j.t] = j.out]
  <2>1. /\ tlog' \in [Tasks -> {"NONE", "QUEUED"} \cup Outcomes]
        /\ \A u \in Tasks : tlog'[u] # "NONE" <=> tlog[u] # "NONE"
    BY <1>0, <1>1, <1>4 DEF TypeOK, Outcomes
  <2>2. /\ task' \in [Tasks -> [status : {"NONE", "QUEUED", "RUNNING"} \cup Outcomes, lease : Nat]]
        /\ \A u \in Tasks : u # j.t => task'[u] = task[u]
    BY <1>0, <1>1, <1>4 DEF TypeOK
  <2>3. TypeOK' /\ Idle'
    BY <1>0, <1>1, <1>2, <2>1, <2>2 DEF TypeOK, Idle
  <2>4. Submitted'
    <3>1. \A u \in queue : tlog'[u] # "NONE"
      BY <1>0, <2>1 DEF Submitted, TypeOK
    <3>2. \A u \in Tasks : task'[u] # NoRecord => tlog'[u] # "NONE"
      BY <1>0, <1>1, <2>1, <2>2 DEF Submitted
    <3>3. \A k \in jobs' : tlog'[k.t] # "NONE" /\ (k.pc \in {"completing", "report"} => k.out \in Outcomes)
      BY <1>0, <1>1, <1>2, <2>1 DEF Submitted, TypeOK, Jobs
    <3>4. \A s \in Steps : log.steps[s].task # NoTask => tlog'[log.steps[s].task] # "NONE"
      BY <1>0, <2>1 DEF Submitted, TypeOK, Workflows, StepStates
    <3> QED  BY <1>0, <1>1, <2>1, <3>1, <3>2, <3>3, <3>4 DEF Submitted
  <2>5. StreamExact' /\ Views' /\ Retries' /\ Holder'
    BY <1>0, <1>1 DEF StreamExact, Views, Retries, Holder, FailedBefore, AllStepsSucceeded
  <2>6. AttemptsJustified'
    BY <1>0, <1>1, <2>1 DEF DepsFirst, RetryLimit
  <2> QED  BY <2>3, <2>4, <2>5, <2>6 DEF WInv
<1> QED  BY <1>3, <1>4 DEF CompleteTask

\* What a restart finds in the stream is what the metadata showed, but for what the
\* holder of workflowMu had appended.
LEMMA RestartInv ==
    ASSUME WInv, Restart
    PROVE  WInv'
<1> USE DEF stream, work, bounds
<1>0. TypeOK /\ Idle /\ Submitted /\ StreamExact /\ Views /\ Retries /\ Holder /\ AttemptsJustified
  BY DEF WInv
<1>1. /\ UNCHANGED <<log, keys, tlog, faults>> /\ crashes' = crashes + 1
      /\ task' = [t \in Tasks |-> [status |-> tlog[t], lease |-> 0]]
      /\ wf' = Prepared(log) /\ queue' = {t \in Tasks : tlog[t] = "QUEUED"} \cup Restored(wf')
      /\ hold' = IF wf'.status = "RUNNING" THEN [Free EXCEPT !.pc = "sched", !.boot = TRUE] ELSE Free
      /\ jobs' = {} /\ pending' = 0 /\ sub' = "done"
  BY DEF Restart
<1>2. log \in Workflows /\ \A s \in Steps : log.steps[s] \in StepStates
  BY <1>0 DEF TypeOK, Workflows
<1>3. /\ wf' \in Workflows /\ wf'.status = log.status
      /\ \A s \in Steps : \/ wf'.steps[s] = log.steps[s]
                          \/ /\ log.steps[s].status = "FAILED" /\ Retryable(log, s)
                             /\ wf'.steps[s] = [log.steps[s] EXCEPT !.status = "SCHEDULED", !.task = NoTask]
  <2>1. CASE log.status # "RUNNING"
    BY <1>1, <1>2, <2>1 DEF Prepared
  <2>2. CASE log.status = "RUNNING"
    <3> DEFINE new == [s \in Steps |-> IF log.steps[s].status = "FAILED" /\ Retryable(log, s)
                                       THEN [log.steps[s] EXCEPT !.status = "SCHEDULED", !.task = NoTask]
                                       ELSE log.steps[s]]
    <3>1. wf' = [log EXCEPT !.steps = new]
      BY <1>1, <2>2 DEF Prepared
    <3>2. new \in [Steps -> StepStates]
      <4>1. \A s \in Steps : [log.steps[s] EXCEPT !.status = "SCHEDULED", !.task = NoTask] \in StepStates
        BY <1>2 DEF StepStates
      <4> QED  BY <1>2, <4>1
    <3>3. \A s \in Steps : \/ new[s] = log.steps[s]
                           \/ /\ log.steps[s].status = "FAILED" /\ Retryable(log, s)
                              /\ new[s] = [log.steps[s] EXCEPT !.status = "SCHEDULED", !.task = NoTask]
      OBVIOUS
    <3> HIDE DEF new
    <3>4. wf' \in Workflows /\ wf'.status = log.status /\ wf'.steps = new
      BY <1>2, <3>1, <3>2 DEF Workflows
    <3> QED  BY <3>3, <3>4
  <2> QED  BY <2>1, <2>2
<1>4. ASSUME NEW s \in Steps
      PROVE  /\ wf'.steps[s].attempts = log.steps[s].attempts
             /\ wf'.steps[s].status = "SUCCEEDED" <=> log.steps[s].status = "SUCCEEDED"
             /\ wf'.steps[s].task # NoTask => wf'.steps[s].task = log.steps[s].task
  <2>1. log.steps[s] \in StepStates
    BY <1>2
  <2> QED  BY <1>3, <2>1 DEF StepStates
<1>5. \A s \in Steps : MaxAttempts[s] \in Nat /\ MaxAttempts[s] > 0
  BY WorkflowAssumption
<1>6. ASSUME NEW s \in Steps PROVE log.steps[s].attempts <= MaxAttempts[s] /\ log.steps[s].attempts \in Nat
  <2>0. log.steps[s].attempts \in Nat /\ wf.steps[s].attempts \in Nat
    BY <1>0 DEF TypeOK, Workflows, StepStates
  <2>1. CASE sub # "done"
    <3>1. log.steps[s].attempts = 0
      BY <1>0, <2>1 DEF Idle, NewState, NoWorkflow, NewStep, TypeOK
    <3> QED  BY <1>5, <3>1
  <2>2. CASE sub = "done" /\ ~(hold.pc = "scheduled" /\ hold.t[1] = s)
    BY <1>0, <2>0, <2>2 DEF Views, Retries
  <2>3. CASE sub = "done" /\ hold.pc = "scheduled" /\ hold.t[1] = s
    <3>1. /\ wf.steps[s].status = "SCHEDULED" /\ wf.steps[s].task = NoTask
          /\ hold.t[2] = wf.steps[s].attempts + 1 /\ log.steps[s].attempts = hold.t[2]
      BY <1>0, <2>3 DEF Holder
    <3>2. wf.steps[s].attempts < MaxAttempts[s]
      BY <1>0, <3>1 DEF Retries
    <3> QED  BY <1>5, <2>0, <3>1, <3>2
  <2> QED  BY <2>1, <2>2, <2>3
<1>7. /\ hold' \in [pc : HoldPCs, t : Tasks \cup {NoTask}, boot : BOOLEAN] /\ hold'.pc \in {"free", "sched"}
  BY <1>1 DEF Free, HoldPCs
<1>8. queue' \subseteq Tasks /\ \A t \in queue' : tlog[t] # "NONE"
  <2>1. ASSUME NEW t \in Restored(wf') PROVE t \in Tasks /\ tlog[t] # "NONE"
    <3>1. PICK s \in Steps : wf'.steps[s].task # NoTask /\ t = wf'.steps[s].task
      BY DEF Restored
    <3>2. t = log.steps[s].task /\ t # NoTask /\ log.steps[s].task \in Tasks \cup {NoTask}
      BY <1>2, <1>4, <3>1 DEF StepStates
    <3> QED  BY <1>0, <3>2 DEF Submitted
  <2> HIDE DEF Restored
  <2> QED  BY <1>1, <2>1
<1>9. TypeOK'
  <2>1. task' \in [Tasks -> [status : {"NONE", "QUEUED", "RUNNING"} \cup Outcomes, lease : Nat]]
    <3>1. \A t \in Tasks : tlog[t] \in {"NONE", "QUEUED"} \cup Outcomes
      BY <1>0 DEF TypeOK
    <3> QED  BY <1>1, <3>1
  <2>2. crashes' \in Nat
    BY <1>0, <1>1 DEF TypeOK
  <2> QED  BY <1>0, <1>1, <1>3, <1>7, <1>8, <2>1, <2>2 DEF TypeOK
<1>10. Idle'
  BY <1>1 DEF Idle
<1>11. Submitted'
  <2>1. \A t \in Tasks : task'[t] # NoRecord => tlog[t] # "NONE"
    BY <1>1 DEF NoRecord
  <2> QED  BY <1>0, <1>1, <1>7, <1>8, <2>1 DEF Submitted, WithTask
<1>12. StreamExact' /\ AttemptsJustified'
  BY <1>0, <1>1 DEF StreamExact, FailedBefore, AllStepsSucceeded, DepsFirst, RetryLimit
<1>13. Views'
  BY <1>1, <1>3, <1>4, <1>7 DEF Views
<1>14. Retries'
  <2>1. ASSUME NEW s \in Steps, wf'.steps[s].status = "SCHEDULED", wf'.steps[s].task = NoTask
        PROVE  log.steps[s].attempts < MaxAttempts[s] /\ FailedBefore(s, log.steps[s].attempts)
    <3>1. CASE wf'.steps[s] = log.steps[s]
      <4>1. log.steps[s].attempts = 0
        BY <1>0, <2>1, <3>1 DEF StreamExact
      <4> QED  BY <1>5, <4>1 DEF FailedBefore
    <3>2. CASE log.steps[s].status = "FAILED" /\ Retryable(log, s)
      BY <1>0, <3>2 DEF StreamExact, Retryable
    <3> QED  BY <1>3, <3>1, <3>2
  <2> QED  BY <1>1, <1>4, <1>6, <2>1 DEF Retries, FailedBefore
<1>15. Holder'
  BY <1>7 DEF Holder
<1> QED  BY <1>9, <1>10, <1>11, <1>12, <1>13, <1>14, <1>15 DEF WInv

LEMMA WInvInit == Init => WInv
<1> SUFFICES ASSUME Init PROVE WInv
  OBVIOUS
<1>1. NoWorkflow \in Workflows /\ \A s \in Steps : NoWorkflow.steps[s] = NewStep
  BY DEF NoWorkflow, NewStep, Workflows, StepStates
<1>2. NewStep.status = "SCHEDULED" /\ NewStep.attempts = 0 /\ NewStep.task = NoTask /\ NoWorkflow.status = "NONE"
  BY DEF NewStep, NoWorkflow
<1>3. hold = Free /\ Free.pc = "free" /\ Free \in [pc : HoldPCs, t : Tasks \cup {NoTask}, boot : BOOLEAN]
  BY DEF Init, Free, HoldPCs
<1>4. \A s \in Steps : MaxAttempts[s] \in Nat /\ MaxAttempts[s] > 0
  BY WorkflowAssumption
<1>5. TypeOK
  BY <1>1, <1>3 DEF Init, TypeOK, NoRecord
<1>6. Idle /\ Submitted
  BY <1>1, <1>2, <1>3 DEF Init, Idle, Submitted, WithTask
<1>7. StreamExact /\ Views
  BY <1>1, <1>2, <1>3 DEF Init, StreamExact, Views
<1>8. Retries /\ Holder
  BY <1>1, <1>2, <1>3, <1>4 DEF Init, Retries, Holder, FailedBefore
<1>9. AttemptsJustified
  BY DEF Init, DepsFirst, RetryLimit
<1> QED  BY <1>5, <1>6, <1>7, <1>8, <1>9 DEF WInv

LEMMA WInvStep == WInv /\ [Next]_vars => WInv'
<1> SUFFICES ASSUME WInv, [Next]_vars PROVE WInv'
  OBVIOUS
<1>1. CASE UNCHANGED vars
  <2>1. UNCHANGED <<wf, log, keys, task, tlog, queue, hold, sub, jobs, pending, faults, crashes>>
    BY <1>1 DEF vars
  <2> QED  BY <2>1, QuietStep DEF WInv, TypeOK, Idle, Submitted
<1>2. CASE Next
  BY <1>2, SubmitInv, ScheduleEnds, ScheduleSubmitInv, TaskSideInv, ScheduleAppendInv, MarkStartedInv,
     CompleteStepInv, HolderMetaInv, EndInv, CompleteTaskInv, RestartInv, JobQuiet
     DEF Next, HolderStep, JobStep
<1> QED  BY <1>1, <1>2

\* The invariant holds in every reachable state.
LEMMA WorkflowInvariance == Spec => []WInv
  BY WInvInit, WInvStep, PTL DEF Spec

\* Every variable of the workflow runtime keeps its kind; in particular no step is ever
\* handed a task id beyond its last attempt.
THEOREM WorkflowTypeCorrect == Spec => []TypeOK
<1>1. WInv => TypeOK
  BY DEF WInv
<1> QED  BY <1>1, WorkflowInvariance, PTL

\* For every graph of steps: a task is submitted only when the stream says that all its
\* dependencies have succeeded, no step has more attempts than its definition allows, and
\* an attempt after the first follows a recorded failure, through all races of
\* reports, refused appends and restarts (scheduleReadySteps, completeWorkflowStep,
\* prepareRetryableFailedSteps).
THEOREM AttemptsJustifiedHolds == Spec => []AttemptsJustified
<1>1. WInv => AttemptsJustified
  BY DEF WInv
<1> QED  BY <1>1, WorkflowInvariance, PTL

\* When workflowMu is free, replay of the stream gives the status, the attempts and the
\* successes that the metadata show: a crash at that point loses nothing a client has
\* been told (UpdateWorkflow after appendLog, bootstrapWorkflows).
THEOREM ViewDurableHolds == Spec => []ViewDurable
<1>1. WInv => ViewDurable
  BY SMTT(30) DEF WInv, Views, ViewDurable, Free
<1> QED  BY <1>1, WorkflowInvariance, PTL

\* A step that has succeeded stays so: no late report, retry or restart takes its result
\* back (SetStepScheduled, SetStepFailed and bootstrapWorkflows never meet such a step).
THEOREM SucceededForeverHolds == Spec => SucceededForever
<1>1. ASSUME WInv, [Next]_vars, NEW s \in Steps, wf.steps[s].status = "SUCCEEDED"
      PROVE  wf'.steps[s].status = "SUCCEEDED"
  <2>0. TypeOK /\ Idle /\ Submitted /\ Views /\ Holder /\ wf \in Workflows
    BY <1>1 DEF WInv, TypeOK
  <2>1. CASE wf' = wf
    BY <1>1, <2>1
  <2>2. sub = "done"
    BY <1>1, <2>0 DEF Idle, NoWorkflow, NewStep
  <2>3. CASE ScheduleMeta \/ MarkStartedMeta \/ StepSucceeded \/ StepFailed
    <3>1. hold.pc \in WithTask
      BY <2>3 DEF ScheduleMeta, MarkStartedMeta, StepSucceeded, StepFailed, WithTask, HoldPCs
    <3>2. hold.t \in Tasks
      BY <2>0, <3>1 DEF Submitted
    <3>3. CASE hold.t[1] # s
      <4>1. \A r : StepSet(wf, wf', hold.t[1], r) => wf'.steps[s] = wf.steps[s]
        BY <3>3 DEF StepSet
      <4>2. CASE ScheduleMeta
        BY <1>1, <2>0, <3>2, <4>1, <4>2, StepUpdates DEF ScheduleMeta
      <4>3. CASE MarkStartedMeta
        BY <1>1, <2>0, <3>2, <4>1, <4>3, StepUpdates DEF MarkStartedMeta
      <4>4. CASE StepSucceeded
        BY <1>1, <2>0, <3>2, <4>1, <4>4, StepUpdates DEF StepSucceeded
      <4>5. CASE StepFailed
        <5>1. Retryable(wf, hold.t[1]) \in BOOLEAN /\ wf' = SetStepFailed(wf, hold.t, Retryable(wf, hold.t[1]))
          BY <4>5 DEF StepFailed, Retryable
        <5>2. wf' = SetStepFailed(wf, hold.t, TRUE) \/ wf' = SetStepFailed(wf, hold.t, FALSE)
          BY <5>1
        <5>3. \E r : StepSet(wf, SetStepFailed(wf, hold.t, TRUE), hold.t[1], r)
          BY <2>0, <3>2, StepUpdates
        <5>4. \E r : StepSet(wf, SetStepFailed(wf, hold.t, FALSE), hold.t[1], r)
          BY <2>0, <3>2, StepUpdates
        <5> QED  BY <1>1, <4>1, <5>2, <5>3, <5>4
      <4> QED  BY <2>3, <4>2, <4>3, <4>4, <4>5
    <3>4. CASE hold.t[1] = s
      <4>1. ~ScheduleMeta /\ ~StepFailed
        BY <1>1, <2>0, <3>4 DEF Holder, ScheduleMeta, StepFailed
      <4>2. CASE MarkStartedMeta
        BY <1>1, <2>0, <3>2, <3>4, <4>2, StepUpdates DEF MarkStartedMeta
      <4>3. CASE StepSucceeded
        <5>1. wf' = SetStepSucceeded(wf, hold.t)
          BY <4>3 DEF StepSucceeded
        <5>2. StepSet(wf, wf', s, [status |-> "SUCCEEDED", attempts |-> wf.steps[s].attempts, task |-> hold.t])
          BY <2>0, <3>2, <3>4, <5>1, StepUpdates
        <5> QED  BY <5>2 DEF StepSet
      <4> QED  BY <2>3, <4>1, <4>2, <4>3
    <3> QED  BY <3>3, <3>4
  <2>4. CASE EndMeta
    BY <1>1, <2>0, <2>4 DEF EndMeta, Workflows
  <2>5. CASE Restart
    <3>1. log.steps[s].status = "SUCCEEDED"
      BY <1>1, <2>0, <2>2 DEF Views, Holder
    <3>2. wf' = Prepared(log) /\ log \in Workflows
      BY <2>0, <2>5 DEF Restart, TypeOK
    <3> QED  BY <3>1, <3>2 DEF Prepared, Workflows
  <2>6. CASE SubmitCreate
    BY <2>2, <2>6 DEF SubmitCreate
  <2> QED  BY <1>1, <2>1, <2>3, <2>4, <2>5, <2>6
           DEF Next, vars, HolderStep, JobStep, SubmitAppend, ScheduleBegin, ScheduleEnd, ScheduleSubmit,
               ScheduleCreate, ScheduleAppend, EndAppend, Redeliver, Lease, Start, MarkStarted,
               CompleteTask, CompleteStep, CompleteRead, LoseJob, HandlerFails
<1>2. WInv /\ [Next]_vars => [\A s \in Steps : wf.steps[s].status = "SUCCEEDED" => wf'.steps[s].status = "SUCCEEDED"]_vars
  BY <1>1
<1> QED  BY <1>2, WorkflowInvariance, PTL DEF Spec, SucceededForever
=============================================================================
