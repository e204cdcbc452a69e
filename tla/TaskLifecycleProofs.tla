------------------------- MODULE TaskLifecycleProofs -------------------------
(***************************************************************************)
(* Proofs about TaskLifecycle, for any number of tasks, workers, failures  *)
(* and restarts: one outcome per task, the metadata that follow the log,   *)
(* what idempotency keys name, how lease epochs move, where queued tasks   *)
(* are, and what the load counters count.                                  *)
(***************************************************************************)
EXTENDS TaskLifecycle, FiniteSetTheorems, SequenceTheorems, TLAPS

USE DEF isTerminalTaskStatus

-----------------------------------------------------------------------------
(***************************************************************************)
(* The inductive invariant.                                                *)
(***************************************************************************)

\* Replay has seen neither an outcome nor a redelivery.
Open(r) == ~isTerminalTaskStatus(r.status) /\ r.redelivered = 0

\* Nothing but its own submission has touched a task that is being submitted.
FreshTasks ==
    \A t \in Tasks : sub[t] \in {"new", "append", "create"} =>
        /\ meta[t] = NoTask
        /\ rep[t].status = "QUEUED" /\ rep[t].leaseEpoch = 0 /\ rep[t].redelivered = 0
        /\ sub[t] # "create" => ~rep[t].ok
        /\ \A k \in keys : k[1] = t => k[2] = "TaskSubmitted"
        /\ \A j \in jobs : j.t # t

\* The queue, the polls and the expired leases are about tasks the metadata has.
KnownTasks ==
    /\ \A i \in DOMAIN queue : meta[queue[i]].status # "NONE"
    /\ \A w \in Workers : \A item \in poll[w].todo :
          meta[item[1]].status # "NONE" /\ item[2] > 0
    /\ \A w \in Workers : \A i \in DOMAIN poll[w].got : meta[poll[w].got[i][1]].status # "NONE"
    /\ \A t \in Tasks : sub[t] = "enqueue" => meta[t].status # "NONE"
    /\ \A t \in expired : meta[t].status = "RUNNING"
    /\ \A t \in Tasks : meta[t].status = "RUNNING" => meta[t].epoch > 0

\* The metadata is never behind the log, and a TaskStarted in flight is of a
\* lease the metadata has given out.
EpochsAhead ==
    /\ \A t \in Tasks : meta[t].status # "NONE" => rep[t].leaseEpoch <= meta[t].epoch
    /\ \A j \in jobs : j.pc = "starting" =>
          meta[j.t].status # "NONE" /\ 0 < j.e /\ j.e <= meta[j.t].epoch

\* While t is open, every job that runs it was started in the log, and every
\* completion in the log or about to be applied is of an older lease.
OpenJob(t, j) ==
    /\ j.pc \in {"executing", "c_valid", "c_append", "c_meta"} =>
          0 < j.e /\ j.e <= rep[t].leaseEpoch
    /\ j.pc = "c_meta" => j.e < rep[t].leaseEpoch
    /\ j.pc # "c_late"

OpenKey(t, k) ==
    /\ k[2] = "TaskStarted" => 0 < k[4] /\ k[4] <= rep[t].leaseEpoch
    /\ k[2] \in {"TaskCompleted", "TaskFailed"} => k[4] < rep[t].leaseEpoch

OpenTasks ==
    \A t \in Tasks : Open(rep[t]) =>
        /\ ~isTerminalTaskStatus(meta[t].status)
        /\ rep[t].leaseEpoch > 0 => rep[t].status = "RUNNING"
        /\ \A j \in jobs : j.t = t => OpenJob(t, j)
        /\ \A k \in keys : k[1] = t => OpenKey(t, k)

\* A completion carries an outcome.
OutcomesSet == \A j \in jobs : j.pc \in CompletePCs => j.outcome \in Outcomes

IInv == TypeOK /\ FreshTasks /\ KnownTasks /\ EpochsAhead /\ OpenTasks

-----------------------------------------------------------------------------
(***************************************************************************)
(* Lemmas about replay.                                                    *)
(***************************************************************************)

\* applyRaw maps a replay state to a replay state.
LEMMA ApplyRawType ==
    ASSUME NEW r \in ReplayStates, NEW ev \in Events
    PROVE  applyRaw(r, ev) \in ReplayStates
<1> USE DEF ReplayStates, Events, Statuses, LiveStatuses, Outcomes
<1>1. CASE ev.type = "TaskSubmitted"
  BY <1>1 DEF applyRaw, ApplySubmitted
<1>2. CASE ev.type = "TaskStarted"
  BY <1>2 DEF applyRaw, ApplyStarted
<1>3. CASE ev.type = "TaskRedelivered"
  BY <1>3 DEF applyRaw, ApplyRedelivered
<1>4. CASE ev.type = "TaskCompleted"
  BY <1>4 DEF applyRaw, ApplyTerminal
<1>5. CASE ev.type = "TaskFailed"
  BY <1>5 DEF applyRaw, ApplyTerminal
<1> QED  BY <1>1, <1>2, <1>3, <1>4, <1>5 DEF EventTypes

\* A record other than TaskSubmitted leaves a finished task alone.
LEMMA TerminalAbsorbs ==
    ASSUME NEW r \in ReplayStates, NEW ev \in Events,
           isTerminalTaskStatus(r.status), ev.type # "TaskSubmitted"
    PROVE  applyRaw(r, ev) = r
<1>1. CASE ev.type = "TaskStarted"
  BY <1>1 DEF applyRaw, ApplyStarted, StartedApplies
<1>2. CASE ev.type = "TaskRedelivered"
  BY <1>2 DEF applyRaw, ApplyRedelivered
<1>3. CASE ev.type = "TaskCompleted"
  BY <1>3 DEF applyRaw, ApplyTerminal, taskTerminalEventApplies
<1>4. CASE ev.type = "TaskFailed"
  BY <1>4 DEF applyRaw, ApplyTerminal, taskTerminalEventApplies
<1> QED  BY <1>1, <1>2, <1>3, <1>4 DEF Events, EventTypes

\* What the records after the submission do to a task replay holds open.
LEMMA StartedEffect ==
    ASSUME NEW r \in ReplayStates, NEW e \in Nat \ {0}, NEW w \in Workers
    PROVE  LET s == applyRaw(r, Event("TaskStarted", e, w)) IN
           /\ s.leaseEpoch \in {r.leaseEpoch, e}
           /\ Open(s) => /\ Open(r)
                         /\ r.leaseEpoch <= s.leaseEpoch
                         /\ e <= s.leaseEpoch
                         /\ s.status = "RUNNING" \/ s = r
<1>1. applyRaw(r, Event("TaskStarted", e, w)) = ApplyStarted(r, Event("TaskStarted", e, w))
  BY DEF applyRaw, Event
<1> DEFINE ev == Event("TaskStarted", e, w)
<1>2. ev.epoch = e /\ ev.worker = w
  BY DEF Event
<1>3. CASE StartedApplies(r, ev)
  <2>1. ApplyStarted(r, ev) = [r EXCEPT !.status = "RUNNING", !.leaseEpoch = e, !.worker = w]
    BY <1>2, <1>3 DEF ApplyStarted
  <2> DEFINE s == applyRaw(r, ev)
  <2>2. s.status = "RUNNING" /\ s.leaseEpoch = e /\ s.redelivered = r.redelivered
    BY <1>1, <2>1 DEF ReplayStates
  <2>3. ~isTerminalTaskStatus(r.status) /\ r.leaseEpoch <= e
    BY <1>2, <1>3 DEF StartedApplies, ReplayStates
  <2> QED  BY <2>2, <2>3 DEF Open
<1>4. CASE ~StartedApplies(r, ev)
  <2>1. ApplyStarted(r, ev) = r
    BY <1>4 DEF ApplyStarted
  <2> QED  BY <1>1, <1>2, <1>4, <2>1 DEF StartedApplies, ReplayStates, Open
<1> QED  BY <1>3, <1>4

\* A redelivery queues an open task again and raises the fence, never the lease epoch.
LEMMA RedeliveredEffect ==
    ASSUME NEW r \in ReplayStates, NEW e \in Nat \ {0}
    PROVE  LET s == applyRaw(r, Event("TaskRedelivered", e, NoWorker)) IN
           ~Open(s) /\ s.leaseEpoch = r.leaseEpoch
<1>1. applyRaw(r, Event("TaskRedelivered", e, NoWorker))
        = ApplyRedelivered(r, Event("TaskRedelivered", e, NoWorker))
  BY DEF applyRaw, Event
<1>2. CASE isTerminalTaskStatus(r.status)
  BY <1>1, <1>2 DEF ApplyRedelivered, Open
<1>3. CASE ~isTerminalTaskStatus(r.status)
  <2> DEFINE ev == Event("TaskRedelivered", e, NoWorker)
             s == ApplyRedelivered(r, ev)
  <2>1. ev.epoch = e
    BY DEF Event
  <2>2. s.leaseEpoch = r.leaseEpoch /\ s.redelivered = IF e > r.redelivered THEN e ELSE r.redelivered
    BY <1>3, <2>1 DEF ApplyRedelivered, ReplayStates
  <2>3. r.redelivered \in Nat
    BY DEF ReplayStates
  <2>4. s.redelivered > 0
    BY <2>2, <2>3
  <2> QED  BY <1>1, <2>2, <2>4 DEF Open
<1> QED  BY <1>2, <1>3

\* A terminal record finishes an open task, or leaves its replay state as it was.
LEMMA TerminalEffect ==
    ASSUME NEW r \in ReplayStates, NEW e \in Nat, NEW w,
           NEW type \in {"TaskCompleted", "TaskFailed"}
    PROVE  LET s == applyRaw(r, Event(type, e, w)) IN
           /\ s.leaseEpoch = r.leaseEpoch
           /\ Open(s) => s = r /\ ~(r.status = "RUNNING" /\ e = r.leaseEpoch /\ e > 0)
<1>1. PICK outcome \in Outcomes :
         applyRaw(r, Event(type, e, w)) = ApplyTerminal(r, Event(type, e, w), outcome)
  <2>1. CASE type = "TaskCompleted"
    BY <2>1 DEF applyRaw, Event, Outcomes
  <2>2. CASE type = "TaskFailed"
    BY <2>2 DEF applyRaw, Event, Outcomes
  <2> QED  BY <2>1, <2>2
<1> DEFINE s == ApplyTerminal(r, Event(type, e, w), outcome)
<1>2. Event(type, e, w).epoch = e /\ r.redelivered \in Nat
  BY DEF Event, ReplayStates
<1>3. CASE taskTerminalEventApplies(r, e)
  <2>1. s.leaseEpoch = r.leaseEpoch /\ s.status = outcome
    BY <1>2, <1>3 DEF ApplyTerminal, ReplayStates
  <2> QED  BY <1>1, <2>1 DEF Open
<1>4. CASE ~taskTerminalEventApplies(r, e)
  <2>1. s = r
    BY <1>2, <1>4 DEF ApplyTerminal
  <2>2. Open(r) => ~(r.status = "RUNNING" /\ e = r.leaseEpoch /\ e > 0)
    BY <1>4 DEF taskTerminalEventApplies, Open
  <2> QED  BY <1>1, <2>1, <2>2
<1> QED  BY <1>3, <1>4

\* An append keeps the log well typed.
LEMMA AppendLogType ==
    ASSUME TypeOK, NEW t \in Tasks, NEW key \in LogKeys, NEW ev \in Events,
           AppendLog(t, key, ev)
    PROVE  rep' \in [Tasks -> ReplayStates] /\ keys' \in SUBSET LogKeys
BY ApplyRawType DEF TypeOK, AppendLog, durable

\* So does the append of a TaskRedelivered, whose key is never met again.
LEMMA AppendUnkeyedType ==
    ASSUME TypeOK, NEW t \in Tasks, NEW ev \in Events, AppendUnkeyed(t, ev)
    PROVE  rep' \in [Tasks -> ReplayStates] /\ keys' \in SUBSET LogKeys
BY ApplyRawType DEF TypeOK, AppendUnkeyed

-----------------------------------------------------------------------------
(***************************************************************************)
(* Type correctness.                                                       *)
(***************************************************************************)

\* The operations of the metadata store map a task record to a task record.
LEMMA TaskRecordType ==
    ASSUME NEW m \in TaskRecords, NEW w \in Workers, NEW e \in Nat,
           NEW outcome \in Outcomes \cup {"NONE"}
    PROVE  /\ requeueTask(m) \in TaskRecords
           /\ leaseTask(m, w) \in TaskRecords
           /\ completeTask(m, w, e, outcome) \in TaskRecords
<1> USE DEF TaskRecords, Statuses, LiveStatuses
<1>1. requeueTask(m) \in TaskRecords
  BY DEF requeueTask
<1>2. leaseTask(m, w) \in TaskRecords
  BY DEF leaseTask
<1>3. completeTask(m, w, e, outcome) \in TaskRecords
  BY DEF completeTask
<1> QED  BY <1>1, <1>2, <1>3

\* The steps of SubmitTask keep every variable in its kind.
LEMMA SubmitType ==
    ASSUME TypeOK, NEW t \in Tasks, Submit(t) \/ SubmitStep(t) \/ FailSubmit(t) \/ LeaseExpires(t)
    PROVE  TypeOK'
<1> USE DEF TypeOK, ctl, durable
<1>1. CASE SubmitDuplicate(t) \/ SubmitAdmit(t)
  BY <1>1 DEF SubmitDuplicate, SubmitAdmit, SameKey, SubmitPCs
<1>2. CASE SubmitAppend(t)
  <2>1. SubmittedKey(t) \in LogKeys /\ Event("TaskSubmitted", 0, NoWorker) \in Events
    BY DEF SubmittedKey, LogKeys, Event, Events, EventTypes
  <2>2. rep' \in [Tasks -> ReplayStates] /\ keys' \in SUBSET LogKeys
    BY <1>2, <2>1, AppendLogType DEF SubmitAppend
  <2>3. sub' \in [Tasks -> SubmitPCs] /\ faults' \in Nat
    BY <1>2 DEF SubmitAppend, Fault, SubmitPCs
  <2> QED  BY <1>2, <2>2, <2>3 DEF SubmitAppend
<1>3. CASE SubmitCreate(t)
  <2>1. [NoTask EXCEPT !.status = "QUEUED"] \in TaskRecords
    BY DEF NoTask, TaskRecords, Statuses, LiveStatuses
  <2>2. meta' \in [Tasks -> TaskRecords] /\ told' \in SUBSET Tasks
    BY <1>3, <2>1 DEF SubmitCreate, SameKey
  <2>3. sub' \in [Tasks -> SubmitPCs]
    BY <1>3 DEF SubmitCreate, SubmitPCs
  <2> QED  BY <1>3, <2>2, <2>3 DEF SubmitCreate
<1>4. CASE SubmitEnqueue(t)
  BY <1>4 DEF SubmitEnqueue, SubmitPCs
<1>5. CASE FailSubmit(t)
  BY <1>5 DEF FailSubmit, Fault, SubmitPCs
<1>6. CASE LeaseExpires(t)
  BY <1>6 DEF LeaseExpires
<1> QED  BY <1>1, <1>2, <1>3, <1>4, <1>5, <1>6 DEF Submit, SubmitStep

\* Taking one element out of a sequence leaves a sequence.
LEMMA RemoveIndexType ==
    ASSUME NEW S, NEW q \in Seq(S), NEW i \in DOMAIN q
    PROVE  RemoveIndex(q, i) \in Seq(S)
<1>1. Len(q) - 1 \in Nat
  BY SMT
<1>2. RemoveIndex(q, i) \in [1 .. Len(q) - 1 -> S]
  BY DEF RemoveIndex
<1> QED  BY <1>1, <1>2

\* The number of tasks a poll takes from a worker is a natural number.
LEMMA RelievedType ==
    ASSUME TypeOK, NEW w \in Workers, NEW v \in Workers
    PROVE  Relieved(w, v) \in Nat
<1> DEFINE S == {i \in DOMAIN poll[w].got : poll[w].got[i][2] = v}
<1>1. poll[w].got \in Seq(Tasks \X (Workers \cup {NoWorker}))
  BY DEF TypeOK, Polls
<1>2. DOMAIN poll[w].got = 1 .. Len(poll[w].got) /\ Len(poll[w].got) \in Nat
  BY <1>1
<1>3. IsFiniteSet(1 .. Len(poll[w].got))
  BY <1>2, FS_Interval
<1>4. IsFiniteSet(S)
  BY <1>2, <1>3, FS_Subset
<1> QED  BY <1>4, FS_CardinalityType DEF Relieved

\* So do the steps of PollTask, redelivery included.
LEMMA PollType ==
    ASSUME TypeOK, NEW w \in Workers, PollStep(w) \/ FailRedeliver(w)
    PROVE  TypeOK'
<1> USE DEF TypeOK, ctl, durable, PollPCs, Polls
<1>0. IdlePoll \in Polls
  BY DEF IdlePoll
<1>1. CASE PollScan(w)
  <2>1. {<<t, meta[t].epoch>> : t \in expired} \in SUBSET (Tasks \X Nat)
    BY DEF TaskRecords
  <2>2. poll[w] \in Polls
    OBVIOUS
  <2>3. [poll[w] EXCEPT !.pc = "lease"] \in Polls
    BY <2>2
  <2>4. [poll[w] EXCEPT !.pc = "append", !.todo = {<<t, meta[t].epoch>> : t \in expired}] \in Polls
    BY <2>1, <2>2
  <2>5. poll' \in [Workers -> Polls]
    <3> HIDE DEF Polls, PollPCs
    <3> QED  BY <1>1, <2>3, <2>4 DEF PollScan
  <2>6. UNCHANGED <<ctl, durable, sub, told, jobs, faults, crashes>>
    BY <1>1 DEF PollScan
  <2> HIDE DEF Polls, PollPCs
  <2> QED  BY <2>5, <2>6
<1>2. CASE PollAppend(w)
  <2>1. PICK item \in poll[w].todo :
           /\ AppendUnkeyed(item[1], Event("TaskRedelivered", item[2], NoWorker))
           /\ \/ /\ poll' = [poll EXCEPT ![w].todo = @ \ {item},
                                         ![w].pc = IF poll[w].todo = {item} THEN "requeue" ELSE @]
                 /\ UNCHANGED faults
              \/ /\ poll' = [poll EXCEPT ![w] = IdlePoll]
                 /\ Fault
    BY <1>2 DEF PollAppend
  <2>2. item[1] \in Tasks /\ item[2] \in Nat
    OBVIOUS
  <2>3. Event("TaskRedelivered", item[2], NoWorker) \in Events
    BY <2>2 DEF Event, Events, EventTypes
  <2>4. rep' \in [Tasks -> ReplayStates] /\ keys' \in SUBSET LogKeys
    BY <2>1, <2>2, <2>3, AppendUnkeyedType
  <2>5. faults' \in Nat
    BY <2>1 DEF Fault
  <2>6. poll' \in [Workers -> Polls]
    <3> DEFINE p == [poll[w] EXCEPT !.todo = @ \ {item},
                                    !.pc = IF poll[w].todo = {item} THEN "requeue" ELSE @]
    <3>1. p \in Polls
      OBVIOUS
    <3>2. poll' = [poll EXCEPT ![w] = p] \/ poll' = [poll EXCEPT ![w] = IdlePoll]
      BY <2>1
    <3> QED  BY <3>1, <3>2, <1>0, ZenonT(30)
  <2> QED  BY <1>2, <2>4, <2>5, <2>6 DEF PollAppend
<1>3. CASE PollRequeue(w)
  <2>1. PICK t \in expired :
           /\ meta' = [meta EXCEPT ![t] = requeueTask(@)]
           /\ expired' = expired \ {t}
           /\ poll' = [poll EXCEPT ![w].got = Append(@, <<t, meta[t].worker>>)]
    BY <1>3 DEF PollRequeue
  <2>2. t \in Tasks /\ meta[t].worker \in Workers \cup {NoWorker}
    BY DEF TaskRecords
  <2>3. meta' \in [Tasks -> TaskRecords]
    <3>1. requeueTask(meta[t]) \in TaskRecords
      BY <2>2, TaskRecordType DEF Outcomes
    <3> QED  BY <2>1, <3>1
  <2>4. poll' \in [Workers -> Polls]
    <3> DEFINE p == [poll[w] EXCEPT !.got = Append(@, <<t, meta[t].worker>>)]
    <3>1. <<t, meta[t].worker>> \in Tasks \X (Workers \cup {NoWorker})
      BY <2>2
    <3> DEFINE Got == Tasks \X (Workers \cup {NoWorker})
    <3>2. poll[w].got \in Seq(Got)
      OBVIOUS
    <3>3. Append(poll[w].got, <<t, meta[t].worker>>) \in Seq(Got)
      <4> HIDE DEF Got
      <4> QED  BY <3>1, <3>2 DEF Got
    <3>4. p \in Polls
      BY <3>3
    <3>5. poll' = [poll EXCEPT ![w] = p]
      BY <2>1
    <3> QED  BY <3>4, <3>5
  <2> QED  BY <1>3, <2>1, <2>3, <2>4 DEF PollRequeue
<1>4. CASE PollRequeued(w)
  BY <1>4 DEF PollRequeued
<1>5. CASE PollEnqueue(w)
  <2>1. poll[w].got \in Seq(Tasks \X (Workers \cup {NoWorker}))
    OBVIOUS
  <2>2. [i \in DOMAIN poll[w].got |-> poll[w].got[i][1]] \in Seq(Tasks)
    <3>1. DOMAIN poll[w].got = 1 .. Len(poll[w].got) /\ Len(poll[w].got) \in Nat
      BY <2>1
    <3>2. \A i \in 1 .. Len(poll[w].got) : poll[w].got[i][1] \in Tasks
      BY <2>1
    <3> QED  BY <3>1, <3>2
  <2>3. queue' \in Seq(Tasks)
    BY <1>5, <2>2 DEF PollEnqueue
  <2>4. load' \in [Workers -> Nat]
    BY <1>5, RelievedType, SMTT(30) DEF PollEnqueue
  <2>5. poll' \in [Workers -> Polls]
    <3> DEFINE p == [poll[w] EXCEPT !.pc = "lease", !.got = <<>>]
    <3>1. <<>> \in Seq(Tasks \X (Workers \cup {NoWorker}))
      OBVIOUS
    <3>2. p \in Polls
      BY <3>1
    <3>3. poll' = [poll EXCEPT ![w] = p]
      BY <1>5 DEF PollEnqueue
    <3> QED  BY <3>2, <3>3
  <2> QED  BY <1>5, <2>3, <2>4, <2>5 DEF PollEnqueue
<1>6. CASE PollLease(w)
  <2>1. PICK i \in Assignable(w) :
           LET t == queue[i]
               leased == leaseTask(meta[t], w)
           IN  /\ meta' = [meta EXCEPT ![t] = leased]
               /\ load' = IF meta[t].status = "QUEUED" THEN [load EXCEPT ![w] = @ + 1] ELSE load
               /\ queue' = RemoveIndex(queue, i)
               /\ jobs' = jobs \cup {[t |-> t, w |-> w, e |-> leased.epoch, inc |-> crashes,
                                      pc |-> "leased", seen |-> FALSE, outcome |-> "NONE"]}
    BY <1>6 DEF PollLease
  <2>2. i \in DOMAIN queue /\ queue[i] \in Tasks
    BY DEF Assignable
  <2>3. leaseTask(meta[queue[i]], w) \in TaskRecords
    BY <2>2, TaskRecordType DEF Outcomes
  <2>4. queue' \in Seq(Tasks)
    BY <2>1, <2>2, RemoveIndexType
  <2>5. meta' \in [Tasks -> TaskRecords] /\ load' \in [Workers -> Nat]
    BY <2>1, <2>2, <2>3
  <2>6. jobs' \in SUBSET Jobs
    <3>1. leaseTask(meta[queue[i]], w).epoch \in Nat
      BY <2>3 DEF TaskRecords
    <3>2. [t |-> queue[i], w |-> w, e |-> leaseTask(meta[queue[i]], w).epoch, inc |-> crashes,
           pc |-> "leased", seen |-> FALSE, outcome |-> "NONE"] \in Jobs
      BY <2>2, <3>1 DEF Jobs, WorkerPCs
    <3> QED  BY <2>1, <3>2
  <2>7. poll' \in [Workers -> Polls]
    BY <1>6, <1>0 DEF PollLease
  <2> QED  BY <1>6, <2>4, <2>5, <2>6, <2>7 DEF PollLease
<1>7. CASE PollEmpty(w)
  BY <1>7, <1>0 DEF PollEmpty
<1>8. CASE FailRedeliver(w)
  BY <1>8, <1>0 DEF FailRedeliver, Fault
<1> QED  BY <1>1, <1>2, <1>3, <1>4, <1>5, <1>6, <1>7, <1>8 DEF PollStep

\* The three ways a handler leaves its job.
LEMMA MoveJobType ==
    ASSUME TypeOK, NEW j \in jobs, NEW pc \in WorkerPCs \cup HandlerPCs, MoveJob(j, pc)
    PROVE  jobs' \in SUBSET Jobs
<1>1. [j EXCEPT !.pc = pc] \in Jobs
  BY DEF TypeOK, Jobs
<1> QED  BY <1>1 DEF TypeOK, MoveJob

\* A handler that ends leaves well-typed jobs.
LEMMA EndJobType ==
    ASSUME TypeOK, NEW j \in jobs, EndJob(j)
    PROVE  jobs' \in SUBSET Jobs
BY DEF TypeOK, EndJob

\* A completion that has read the task carries an outcome and what it saw.
LEMMA ReadJobType ==
    ASSUME TypeOK, NEW j \in jobs, NEW s \in BOOLEAN, NEW o \in Outcomes,
           jobs' = (jobs \ {j}) \cup {[j EXCEPT !.pc = "c_valid", !.outcome = o, !.seen = s]}
    PROVE  jobs' \in SUBSET Jobs
<1>1. [j EXCEPT !.pc = "c_valid", !.outcome = o, !.seen = s] \in Jobs
  BY DEF TypeOK, Jobs, HandlerPCs, CompletePCs
<1> QED  BY <1>1 DEF TypeOK

\* The steps of StartTask and CompleteTask, and the loss of a lease, keep every variable in its kind.
LEMMA JobType ==
    ASSUME TypeOK, NEW j \in jobs, JobStep(j) \/ LoseJob(j)
    PROVE  TypeOK'
<1> USE DEF TypeOK, ctl, durable
<1>0. j \in Jobs /\ j.t \in Tasks /\ j.w \in Workers /\ j.e \in Nat
  BY DEF Jobs
<1> USE DEF WorkerPCs, HandlerPCs, CompletePCs
<1>1. CASE StartValidate(j)
  <2>1. jobs' \in SUBSET Jobs
    BY <1>1, MoveJobType, EndJobType DEF StartValidate
  <2> QED  BY <1>1, <2>1 DEF StartValidate
<1>2. CASE StartAppend(j)
  <2>1. StartedKey(j.t, j.w, j.e) \in LogKeys /\ Event("TaskStarted", j.e, j.w) \in Events
    BY <1>0 DEF StartedKey, LogKeys, Event, Events, EventTypes
  <2>2. rep' \in [Tasks -> ReplayStates] /\ keys' \in SUBSET LogKeys
    BY <1>0, <1>2, <2>1, AppendLogType DEF StartAppend
  <2>3. jobs' \in SUBSET Jobs /\ faults' \in Nat
    BY <1>2, MoveJobType, EndJobType DEF StartAppend, Fault
  <2> QED  BY <1>2, <2>2, <2>3 DEF StartAppend
<1>3. CASE CompleteRead(j)
  <2>1. jobs' \in SUBSET Jobs
    BY <1>3, ReadJobType, EndJobType DEF CompleteRead
  <2> QED  BY <1>3, <2>1 DEF CompleteRead
<1>4. CASE CompleteValidate(j)
  <2>1. jobs' \in SUBSET Jobs
    BY <1>4, MoveJobType, EndJobType DEF CompleteValidate
  <2> QED  BY <1>4, <2>1 DEF CompleteValidate
<1>5. CASE CompleteAppend(j)
  <2> DEFINE type == ResultEvent(j.outcome)
             w == IF j.pc = "c_late" THEN meta[j.t].worker ELSE j.w
             e == IF j.pc = "c_late" THEN meta[j.t].epoch ELSE j.e
  <2>0. w \in Workers \cup {NoWorker} /\ e \in Nat
    BY <1>0 DEF TaskRecords
  <2>1. TerminalKey(j.t, type, w, e) \in LogKeys /\ Event(type, e, w) \in Events
    BY <1>0, <2>0 DEF TerminalKey, LogKeys, Event, Events, EventTypes, ResultEvent
  <2>2. AppendLog(j.t, TerminalKey(j.t, type, w, e), Event(type, e, w))
    BY <1>5 DEF CompleteAppend
  <2>3. rep' \in [Tasks -> ReplayStates] /\ keys' \in SUBSET LogKeys
    BY <1>0, <2>1, <2>2, AppendLogType
  <2>4. jobs' \in SUBSET Jobs /\ faults' \in Nat
    BY <1>5, MoveJobType, EndJobType DEF CompleteAppend, Fault
  <2> QED  BY <1>5, <2>3, <2>4 DEF CompleteAppend
<1>6. CASE CompleteMeta(j)
  <2>1. jobs' \in SUBSET Jobs
    BY <1>6, MoveJobType, EndJobType DEF CompleteMeta
  <2>2. completeTask(meta[j.t], j.w, j.e, j.outcome) \in TaskRecords
    BY <1>0, TaskRecordType DEF Jobs
  <2>3. meta' \in [Tasks -> TaskRecords] /\ expired' \in SUBSET Tasks
    BY <1>6, <2>2 DEF CompleteMeta
  <2> QED  BY <1>6, <2>1, <2>3 DEF CompleteMeta
<1>7. CASE CompleteLoad(j)
  <2>1. jobs' \in SUBSET Jobs
    BY <1>7, EndJobType DEF CompleteLoad
  <2>2. load' \in [Workers -> Nat]
    BY <1>7 DEF CompleteLoad, DecrementWorkerLoad
  <2> QED  BY <1>7, <2>1, <2>2 DEF CompleteLoad
<1>8. CASE LoseJob(j)
  <2>1. jobs' \in SUBSET Jobs /\ faults' \in Nat
    BY <1>8, EndJobType DEF LoseJob, Fault
  <2> QED  BY <1>8, <2>1 DEF LoseJob
<1> QED  BY <1>1, <1>2, <1>3, <1>4, <1>5, <1>6, <1>7, <1>8 DEF JobStep

\* What bootstrap puts in the metadata and in the queue.
LEMMA RestartType ==
    ASSUME TypeOK, Restart
    PROVE  TypeOK'
<1> USE DEF TypeOK, durable
<1>1. meta' \in [Tasks -> TaskRecords]
  <2>1. ASSUME NEW t \in Tasks PROVE RestoredMeta[t] \in TaskRecords
    <3>1. rep[t] \in ReplayStates
      OBVIOUS
    <3>2. finalTask(rep[t]) \in TaskRecords
      BY <3>1 DEF finalTask, ReplayStates, TaskRecords, Statuses, LiveStatuses
    <3>3. NoTask \in TaskRecords
      BY DEF NoTask, TaskRecords
    <3> QED  BY <3>2, <3>3 DEF RestoredMeta
  <2>2. DOMAIN RestoredMeta = Tasks
    BY DEF RestoredMeta
  <2>3. RestoredMeta = [t \in Tasks |-> RestoredMeta[t]]
    BY DEF RestoredMeta
  <2> QED  BY <2>1, <2>3 DEF Restart
<1>2. queue' \in Seq(Tasks)
  <2> DEFINE S == {t \in Tasks : RestoredMeta[t].status = "QUEUED"}
  <2>1. IsFiniteSet(S)
    BY TasksAssumption, FS_Subset
  <2>2. Cardinality(S) \in Nat
    BY <2>1, FS_CardinalityType
  <2>3. queue' \in [1 .. Cardinality(S) -> S]
    BY DEF Restart, Ascending
  <2> HIDE DEF S
  <2>4. queue' \in Seq(S)
    BY <2>2, <2>3
  <2>5. S \subseteq Tasks
    BY DEF S
  <2> QED  BY <2>4, <2>5
<1>3. IdlePoll \in Polls
  BY DEF IdlePoll, Polls, PollPCs
<1>4. sub' \in [Tasks -> SubmitPCs]
  BY DEF Restart, SubmitPCs
<1> QED  BY <1>1, <1>2, <1>3, <1>4 DEF Restart

\* A step keeps every variable in its kind.
LEMMA TypeStep == TypeOK /\ [Next]_vars => TypeOK'
<1> SUFFICES ASSUME TypeOK, [Next]_vars PROVE TypeOK'
  OBVIOUS
<1>1. CASE UNCHANGED vars
  BY <1>1 DEF TypeOK, vars
<1>2. CASE Next
  BY <1>2, SubmitType, PollType, JobType, RestartType DEF Next
<1> QED  BY <1>1, <1>2

\* A freshly started control plane over an empty log is well typed.
LEMMA TypeInit == Init => TypeOK
<1> SUFFICES ASSUME Init PROVE TypeOK
  OBVIOUS
<1>1. meta \in [Tasks -> TaskRecords]
  BY DEF Init, NoTask, TaskRecords
<1>2. rep \in [Tasks -> ReplayStates]
  BY DEF Init, InitReplay, ReplayStates, Statuses, LiveStatuses
<1>3. poll \in [Workers -> Polls]
  BY DEF Init, IdlePoll, Polls, PollPCs
<1> QED  BY <1>1, <1>2, <1>3 DEF Init, TypeOK, SubmitPCs

\* Every variable of the model keeps its kind, for any tasks, workers and bounds.
THEOREM TypeCorrect == Spec => []TypeOK
BY TypeInit, TypeStep, PTL DEF Spec

-----------------------------------------------------------------------------
(***************************************************************************)
(* The inductive invariant is kept, action by action.                      *)
(***************************************************************************)

\* The inductive invariant holds when nothing has been submitted.
LEMMA InitInv == Init => IInv
<1> SUFFICES ASSUME Init PROVE IInv
  OBVIOUS
<1>1. TypeOK
  BY TypeInit
<1>2. FreshTasks
  BY DEF Init, FreshTasks, InitReplay
<1>3. KnownTasks
  BY DEF Init, KnownTasks, IdlePoll, NoTask
<1>4. EpochsAhead
  BY DEF Init, EpochsAhead, NoTask
<1>5. OpenTasks
  BY DEF Init, OpenTasks, NoTask, InitReplay, Outcomes
<1> QED  BY <1>1, <1>2, <1>3, <1>4, <1>5 DEF IInv

\* The steps of SubmitTask keep the inductive invariant.
LEMMA SubmitInv ==
    ASSUME IInv, NEW t \in Tasks, Submit(t) \/ SubmitStep(t) \/ FailSubmit(t) \/ LeaseExpires(t)
    PROVE  IInv'
<1> USE DEF ctl, durable
<1>0. TypeOK /\ FreshTasks /\ KnownTasks /\ EpochsAhead /\ OpenTasks /\ TypeOK'
  BY SubmitType DEF IInv
<1>1. CASE SubmitDuplicate(t) \/ SubmitAdmit(t) \/ FailSubmit(t)
  <2>1. UNCHANGED <<meta, queue, load, expired, rep, keys, poll, jobs>>
    BY <1>1 DEF SubmitDuplicate, SubmitAdmit, FailSubmit
  <2>2. \A u \in Tasks : /\ sub'[u] \in {"new", "append", "create"} => sub[u] \in {"new", "append", "create"}
                         /\ sub'[u] = "enqueue" => sub[u] = "enqueue"
    BY <1>0, <1>1 DEF SubmitDuplicate, SubmitAdmit, FailSubmit, TypeOK
  <2>2a. \A u \in Tasks : sub[u] = "create" => sub'[u] = "create"
    BY <1>0, <1>1 DEF SubmitDuplicate, SubmitAdmit, FailSubmit, TypeOK
  <2>3. FreshTasks'
    BY <1>0, <2>1, <2>2, <2>2a DEF FreshTasks
  <2>4. KnownTasks'
    BY <1>0, <2>1, <2>2 DEF KnownTasks
  <2>5. EpochsAhead' /\ OpenTasks'
    BY <1>0, <2>1 DEF EpochsAhead, OpenTasks, OpenJob, OpenKey
  <2> QED  BY <1>0, <2>3, <2>4, <2>5 DEF IInv
<1>2. CASE SubmitAppend(t)
  <2>1. /\ sub[t] = "append"
        /\ UNCHANGED <<meta, queue, load, expired, told, poll, jobs>>
    BY <1>2 DEF SubmitAppend
  <2>2. \A u \in Tasks : u # t => rep'[u] = rep[u]
    BY <1>0, <1>2 DEF SubmitAppend, AppendLog, TypeOK
  <2>3. rep'[t].status = "QUEUED" /\ rep'[t].leaseEpoch = 0 /\ rep'[t].redelivered = 0
    <3>1. CASE rep'[t] = rep[t]
      BY <1>0, <2>1, <3>1 DEF FreshTasks
    <3>2. CASE rep'[t] = applyRaw(rep[t], Event("TaskSubmitted", 0, NoWorker))
      BY <3>2 DEF applyRaw, ApplySubmitted, Event
    <3> QED  BY <1>0, <1>2, <3>1, <3>2 DEF SubmitAppend, AppendLog, TypeOK
  <2>4. \A k \in keys' : k \in keys \/ k = SubmittedKey(t)
    BY <1>2 DEF SubmitAppend, AppendLog
  <2>5. \A u \in Tasks : u # t => sub'[u] = sub[u]
    BY <1>0, <1>2 DEF SubmitAppend, TypeOK
  <2>6. sub'[t] \in {"create", "failed"}
    BY <1>0, <1>2 DEF SubmitAppend, TypeOK
  <2>7. SubmittedKey(t)[1] = t /\ SubmittedKey(t)[2] = "TaskSubmitted"
    BY DEF SubmittedKey
  <2>8. FreshTasks'
    BY <1>0, <2>1, <2>2, <2>3, <2>4, <2>5, <2>6, <2>7 DEF FreshTasks
  <2>9. KnownTasks'
    BY <1>0, <2>1, <2>5, <2>6 DEF KnownTasks
  <2>10. EpochsAhead'
    BY <1>0, <2>1, <2>2, <2>3 DEF EpochsAhead, FreshTasks, NoTask
  <2>11. OpenTasks'
    <3>1. ASSUME NEW u \in Tasks, u # t, Open(rep'[u])
          PROVE  /\ ~isTerminalTaskStatus(meta'[u].status)
                 /\ rep'[u].leaseEpoch > 0 => rep'[u].status = "RUNNING"
                 /\ \A j \in jobs' : j.t = u => OpenJob(u, j)'
                 /\ \A k \in keys' : k[1] = u => OpenKey(u, k)'
      BY <1>0, <2>1, <2>2, <2>4, <2>7, <3>1 DEF OpenTasks, OpenJob, OpenKey
    <3>2. /\ ~isTerminalTaskStatus(meta'[t].status)
          /\ rep'[t].leaseEpoch > 0 => rep'[t].status = "RUNNING"
          /\ \A j \in jobs' : j.t = t => OpenJob(t, j)'
          /\ \A k \in keys' : k[1] = t => OpenKey(t, k)'
      BY <1>0, <2>1, <2>3, <2>4, <2>7 DEF FreshTasks, OpenKey, NoTask, Outcomes
    <3> QED  BY <3>1, <3>2 DEF OpenTasks
  <2> QED  BY <1>0, <2>8, <2>9, <2>10, <2>11 DEF IInv
<1>3. CASE SubmitCreate(t)
  <2>1. /\ sub[t] = "create"
        /\ UNCHANGED <<queue, load, expired, rep, keys, poll, jobs>>
    BY <1>3 DEF SubmitCreate
  <2>2. \A u \in Tasks : u # t => sub'[u] = sub[u] /\ meta'[u] = meta[u]
    BY <1>0, <1>3 DEF SubmitCreate, TypeOK
  <2>3. \/ sub'[t] = "done" /\ meta'[t] = meta[t]
        \/ sub'[t] = "enqueue" /\ meta'[t] = [NoTask EXCEPT !.status = "QUEUED"]
    BY <1>0, <1>3 DEF SubmitCreate, TypeOK
  <2>4. meta[t] = NoTask /\ rep[t].leaseEpoch = 0
    BY <1>0, <2>1 DEF FreshTasks
  <2>5. meta'[t].status \in {"NONE", "QUEUED"} /\ meta'[t].epoch = 0
    BY <2>3, <2>4 DEF NoTask
  <2>6. FreshTasks'
    BY <1>0, <2>1, <2>2, <2>3 DEF FreshTasks
  <2>7. KnownTasks'
    <3>1. \A u \in Tasks : meta[u].status # "NONE" => meta'[u] = meta[u]
      BY <2>2, <2>4 DEF NoTask
    <3>2. \A u \in Tasks : sub'[u] = "enqueue" => meta'[u].status # "NONE"
      BY <1>0, <2>2, <2>3 DEF KnownTasks, NoTask
    <3>3. \A u \in Tasks : meta'[u].status = "RUNNING" => meta'[u].epoch > 0
      BY <1>0, <2>2, <2>5 DEF KnownTasks
    <3>4. \A u \in expired : meta'[u].status = "RUNNING"
      BY <1>0, <3>1 DEF KnownTasks, TypeOK
    <3>5. \A i \in DOMAIN queue : meta'[queue[i]].status # "NONE"
      BY <1>0, <3>1 DEF KnownTasks, TypeOK
    <3>6. \A w \in Workers : \A item \in poll[w].todo : meta'[item[1]].status # "NONE" /\ item[2] > 0
      BY <1>0, <3>1 DEF KnownTasks, TypeOK, Polls
    <3>7. \A w \in Workers : \A i \in DOMAIN poll[w].got : meta'[poll[w].got[i][1]].status # "NONE"
      BY <1>0, <3>1 DEF KnownTasks, TypeOK, Polls
    <3> QED  BY <2>1, <3>2, <3>3, <3>4, <3>5, <3>6, <3>7 DEF KnownTasks
  <2>8. EpochsAhead'
    <3>1. \A j \in jobs : j.t # t
      BY <1>0, <2>1 DEF FreshTasks
    <3>2. \A j \in jobs : j.t \in Tasks
      BY <1>0 DEF TypeOK, Jobs
    <3> QED  BY <1>0, <2>1, <2>2, <2>4, <2>5, <3>1, <3>2 DEF EpochsAhead
  <2>9. OpenTasks'
    BY <1>0, <2>1, <2>2, <2>5 DEF OpenTasks, OpenJob, OpenKey, Outcomes
  <2> QED  BY <1>0, <2>6, <2>7, <2>8, <2>9 DEF IInv
<1>4. CASE SubmitEnqueue(t)
  <2>1. /\ sub[t] = "enqueue" /\ sub' = [sub EXCEPT ![t] = "done"]
        /\ queue' = Append(queue, t)
        /\ UNCHANGED <<meta, load, expired, rep, keys, poll, jobs>>
    BY <1>4 DEF SubmitEnqueue
  <2>2. FreshTasks' /\ EpochsAhead' /\ OpenTasks'
    BY <1>0, <2>1 DEF FreshTasks, EpochsAhead, OpenTasks, OpenJob, OpenKey, TypeOK
  <2>3. \A i \in DOMAIN queue' : queue'[i] = t \/ \E k \in DOMAIN queue : queue'[i] = queue[k]
    BY <1>0, <2>1 DEF TypeOK
  <2>4. KnownTasks'
    BY <1>0, <2>1, <2>3 DEF KnownTasks, TypeOK
  <2> QED  BY <1>0, <2>2, <2>4 DEF IInv
<1>5. CASE LeaseExpires(t)
  BY <1>0, <1>5 DEF LeaseExpires, IInv, FreshTasks, KnownTasks, EpochsAhead, OpenTasks, OpenJob, OpenKey
<1> QED  BY <1>1, <1>2, <1>3, <1>4, <1>5 DEF Submit, SubmitStep

\* A task the queue, a poll or the expired leases name is not being submitted.
LEMMA KnownNotFresh ==
    ASSUME IInv, NEW t \in Tasks, meta[t].status # "NONE"
    PROVE  sub[t] \notin {"new", "append", "create"}
BY DEF IInv, FreshTasks, NoTask

\* The steps of PollTask keep the inductive invariant.
LEMMA PollInv ==
    ASSUME IInv, NEW w \in Workers, PollStep(w) \/ FailRedeliver(w)
    PROVE  IInv'
<1> USE DEF ctl, durable
<1>0. TypeOK /\ FreshTasks /\ KnownTasks /\ EpochsAhead /\ OpenTasks /\ TypeOK'
  BY PollType DEF IInv
<1>1. CASE PollScan(w) \/ PollRequeued(w) \/ PollEmpty(w) \/ FailRedeliver(w)
  <2>1. UNCHANGED <<meta, queue, load, expired, rep, keys, sub, jobs>>
    BY <1>1 DEF PollScan, PollRequeued, PollEmpty, FailRedeliver
  <2>2. FreshTasks' /\ EpochsAhead' /\ OpenTasks'
    BY <1>0, <2>1 DEF FreshTasks, EpochsAhead, OpenTasks, OpenJob, OpenKey
  <2>3. \A v \in Workers : v # w => poll'[v] = poll[v]
    BY <1>0, <1>1 DEF PollScan, PollRequeued, PollEmpty, FailRedeliver, TypeOK
  <2> DEFINE read == {<<t, meta[t].epoch>> : t \in expired}
  <2>4. /\ poll'[w].got = poll[w].got \/ poll'[w].got = <<>>
        /\ poll'[w].todo = poll[w].todo \/ poll'[w].todo = {} \/ poll'[w].todo = read
    <3>0. poll[w] \in Polls /\ poll'[w] \in Polls
      BY <1>0 DEF TypeOK
    <3>1. CASE PollScan(w)
      <4>1. poll'[w] = IF expired = {} THEN [poll[w] EXCEPT !.pc = "lease"]
                       ELSE [poll[w] EXCEPT !.pc = "append", !.todo = read]
        BY <1>0, <3>1 DEF PollScan, TypeOK
      <4> HIDE DEF read
      <4> QED  BY <3>0, <4>1 DEF Polls
    <3>2. CASE PollRequeued(w)
      <4>1. poll'[w] = [poll[w] EXCEPT !.pc = "enqueue"]
        BY <1>0, <3>2 DEF PollRequeued, TypeOK
      <4> QED  BY <3>0, <4>1 DEF Polls
    <3>3. CASE PollEmpty(w) \/ FailRedeliver(w)
      <4>1. poll'[w] = IdlePoll
        BY <1>0, <3>3 DEF PollEmpty, FailRedeliver, TypeOK
      <4> QED  BY <4>1 DEF IdlePoll
    <3> QED  BY <1>1, <3>1, <3>2, <3>3
  <2>5. \A item \in read : meta[item[1]].status # "NONE" /\ item[2] > 0
    <3>1. ASSUME NEW t \in expired PROVE meta[t].status # "NONE" /\ meta[t].epoch > 0
      BY <1>0 DEF KnownTasks, TypeOK
    <3> QED  BY <3>1
  <2>6. \A item \in poll'[w].todo : meta[item[1]].status # "NONE" /\ item[2] > 0
    <3> HIDE DEF read
    <3> QED  BY <1>0, <2>4, <2>5 DEF KnownTasks
  <2>7. KnownTasks'
    BY <1>0, <2>1, <2>3, <2>4, <2>6 DEF KnownTasks
  <2> QED  BY <1>0, <2>2, <2>7 DEF IInv
<1>2. CASE PollAppend(w)
  <2>0. UNCHANGED <<meta, queue, load, expired, sub, jobs, crashes>>
    BY <1>2 DEF PollAppend
  <2>1. PICK item \in poll[w].todo :
           /\ AppendUnkeyed(item[1], Event("TaskRedelivered", item[2], NoWorker))
           /\ \/ poll' = [poll EXCEPT ![w].todo = @ \ {item},
                                      ![w].pc = IF poll[w].todo = {item} THEN "requeue" ELSE @]
              \/ poll' = [poll EXCEPT ![w] = IdlePoll]
    BY <1>2 DEF PollAppend
  <2> DEFINE t == item[1]
             e == item[2]
  <2>2. t \in Tasks /\ e \in Nat \ {0} /\ meta[t].status # "NONE"
    BY <1>0 DEF TypeOK, Polls, KnownTasks
  <2>3. /\ keys' = keys
        /\ \A u \in Tasks : u # t => rep'[u] = rep[u]
        /\ rep'[t] = applyRaw(rep[t], Event("TaskRedelivered", e, NoWorker))
    BY <1>0, <2>1, <2>2 DEF AppendUnkeyed, TypeOK
  <2>4. ~Open(rep'[t]) /\ rep'[t].leaseEpoch = rep[t].leaseEpoch
    BY <1>0, <2>2, <2>3, RedeliveredEffect DEF TypeOK
  <2>5. FreshTasks'
    BY <1>0, <2>0, <2>2, <2>3, KnownNotFresh DEF FreshTasks
  <2>6. KnownTasks'
    <3> DEFINE p == [poll[w] EXCEPT !.todo = @ \ {item},
                                    !.pc = IF poll[w].todo = {item} THEN "requeue" ELSE @]
    <3>1. poll' = [poll EXCEPT ![w] = p] \/ poll' = [poll EXCEPT ![w] = IdlePoll]
      BY <2>1
    <3>2. p.todo \subseteq poll[w].todo /\ p.got = poll[w].got
      BY <1>0 DEF TypeOK, Polls
    <3>3. IdlePoll.todo = {} /\ IdlePoll.got = <<>>
      BY DEF IdlePoll
    <3> HIDE DEF p
    <3>4. \A v \in Workers : /\ poll'[v].todo \subseteq poll[v].todo
                             /\ poll'[v].got = poll[v].got \/ poll'[v].got = <<>>
      BY <1>0, <3>1, <3>2, <3>3 DEF TypeOK
    <3> QED  BY <1>0, <2>0, <3>4 DEF KnownTasks
  <2>7. EpochsAhead'
    BY <1>0, <2>0, <2>3, <2>4 DEF EpochsAhead
  <2>8. OpenTasks'
    BY <1>0, <2>0, <2>3, <2>4 DEF OpenTasks, OpenJob, OpenKey
  <2> QED  BY <1>0, <2>5, <2>6, <2>7, <2>8 DEF IInv
<1>3. CASE PollRequeue(w)
  <2>0. UNCHANGED <<queue, load, rep, keys, sub, jobs>>
    BY <1>3 DEF PollRequeue
  <2>1. PICK t \in expired :
           /\ meta' = [meta EXCEPT ![t] = requeueTask(@)]
           /\ expired' = expired \ {t}
           /\ poll' = [poll EXCEPT ![w].got = Append(@, <<t, meta[t].worker>>)]
    BY <1>3 DEF PollRequeue
  <2>2. t \in Tasks /\ meta[t].status = "RUNNING" /\ meta[t] \in TaskRecords
    BY <1>0 DEF TypeOK, KnownTasks
  <2>3. /\ \A u \in Tasks : u # t => meta'[u] = meta[u]
        /\ meta'[t].status = "QUEUED" /\ meta'[t].epoch = meta[t].epoch
    BY <1>0, <2>1, <2>2 DEF TypeOK, requeueTask, TaskRecords
  <2>4. FreshTasks'
    BY <1>0, <2>0, <2>2, <2>3, KnownNotFresh DEF FreshTasks
  <2>5. KnownTasks'
    <3>1. \A u \in Tasks : meta[u].status # "NONE" => meta'[u].status # "NONE"
      BY <2>3
    <3>2. \A v \in Workers : poll'[v].todo = poll[v].todo
      BY <1>0, <2>1 DEF TypeOK, Polls
    <3>3. \A v \in Workers : \A i \in DOMAIN poll'[v].got :
             poll'[v].got[i][1] = t \/ (i \in DOMAIN poll[v].got /\ poll'[v].got[i] = poll[v].got[i])
      <4>1. \A v \in Workers : v # w => poll'[v] = poll[v]
        BY <1>0, <2>1 DEF TypeOK
      <4>2. poll'[w].got = Append(poll[w].got, <<t, meta[t].worker>>)
        BY <1>0, <2>1 DEF TypeOK, Polls
      <4>3. poll[w].got \in Seq(Tasks \X (Workers \cup {NoWorker}))
        BY <1>0 DEF TypeOK, Polls
      <4>4. \A i \in DOMAIN poll'[w].got :
               \/ poll'[w].got[i] = <<t, meta[t].worker>>
               \/ i \in DOMAIN poll[w].got /\ poll'[w].got[i] = poll[w].got[i]
        <5> DEFINE g == poll[w].got
                   x == <<t, meta[t].worker>>
                   X == Tasks \X (Workers \cup {NoWorker})
        <5>1. g \in Seq(X) /\ x \in X
          BY <1>0, <2>2, <4>3 DEF TypeOK, TaskRecords
        <5> HIDE DEF g, x, X
        <5>2. \A i \in DOMAIN Append(g, x) : Append(g, x)[i] = x \/ (i \in DOMAIN g /\ Append(g, x)[i] = g[i])
          BY <5>1
        <5> QED  BY <4>2, <5>2 DEF g, x
      <4> QED  BY <4>1, <4>4
    <3>4. \A i \in DOMAIN queue' : meta'[queue'[i]].status # "NONE"
      BY <1>0, <2>0, <3>1 DEF KnownTasks, TypeOK
    <3>5. \A v \in Workers : \A item \in poll'[v].todo : meta'[item[1]].status # "NONE" /\ item[2] > 0
      BY <1>0, <3>1, <3>2 DEF KnownTasks, TypeOK, Polls
    <3>6. \A v \in Workers : \A i \in DOMAIN poll'[v].got : meta'[poll'[v].got[i][1]].status # "NONE"
      <4>1. \A v \in Workers : \A i \in DOMAIN poll[v].got : poll[v].got[i][1] \in Tasks
        BY <1>0 DEF TypeOK, Polls
      <4> QED  BY <1>0, <2>3, <3>1, <3>3, <4>1 DEF KnownTasks
    <3>7. \A u \in expired' : meta'[u].status = "RUNNING"
      BY <1>0, <2>1, <2>3 DEF KnownTasks, TypeOK
    <3>8. \A u \in Tasks : meta'[u].status = "RUNNING" => meta'[u].epoch > 0
      BY <1>0, <2>3 DEF KnownTasks
    <3>9. \A u \in Tasks : sub'[u] = "enqueue" => meta'[u].status # "NONE"
      BY <1>0, <2>0, <3>1 DEF KnownTasks
    <3> QED  BY <3>4, <3>5, <3>6, <3>7, <3>8, <3>9 DEF KnownTasks
  <2>6. EpochsAhead'
    <3>1. \A j \in jobs : j.t \in Tasks
      BY <1>0 DEF TypeOK, Jobs
    <3> QED  BY <1>0, <2>0, <2>2, <2>3, <3>1 DEF EpochsAhead
  <2>7. OpenTasks'
    BY <1>0, <2>0, <2>3 DEF OpenTasks, OpenJob, OpenKey, Outcomes
  <2> QED  BY <1>0, <2>4, <2>5, <2>6, <2>7 DEF IInv
<1>4. CASE PollEnqueue(w)
  <2>0. /\ UNCHANGED <<meta, expired, rep, keys, sub, jobs>>
        /\ queue' = queue \o [i \in DOMAIN poll[w].got |-> poll[w].got[i][1]]
        /\ poll' = [poll EXCEPT ![w].pc = "lease", ![w].got = <<>>]
    BY <1>4 DEF PollEnqueue
  <2>1. FreshTasks' /\ EpochsAhead' /\ OpenTasks'
    BY <1>0, <2>0 DEF FreshTasks, EpochsAhead, OpenTasks, OpenJob, OpenKey
  <2>2. \A v \in Workers : /\ poll'[v].todo = poll[v].todo
                           /\ poll'[v].got = poll[v].got \/ poll'[v].got = <<>>
    BY <1>0, <2>0 DEF TypeOK, Polls
  <2>3. \A i \in DOMAIN queue' : \/ \E k \in DOMAIN queue : queue'[i] = queue[k]
                                 \/ \E k \in DOMAIN poll[w].got : queue'[i] = poll[w].got[k][1]
    <3> DEFINE new == [i \in DOMAIN poll[w].got |-> poll[w].got[i][1]]
    <3>1. poll[w].got \in Seq(Tasks \X (Workers \cup {NoWorker}))
      BY <1>0 DEF TypeOK, Polls
    <3>2. DOMAIN poll[w].got = 1 .. Len(poll[w].got) /\ Len(poll[w].got) \in Nat
      BY <3>1
    <3>3. new \in Seq(Tasks) /\ DOMAIN new = DOMAIN poll[w].got
      BY <3>1, <3>2
    <3>4. \A k \in DOMAIN new : new[k] = poll[w].got[k][1]
      OBVIOUS
    <3> HIDE DEF new
    <3>5. \A i \in DOMAIN (queue \o new) : \/ \E k \in DOMAIN queue : (queue \o new)[i] = queue[k]
                                           \/ \E k \in DOMAIN new : (queue \o new)[i] = new[k]
      <4>1. queue \in Seq(Tasks)
        BY <1>0 DEF TypeOK
      <4>2. ASSUME NEW i \in DOMAIN (queue \o new)
            PROVE  \/ i \in DOMAIN queue /\ (queue \o new)[i] = queue[i]
                   \/ i - Len(queue) \in DOMAIN new /\ (queue \o new)[i] = new[i - Len(queue)]
        BY <3>3, <4>1, SMTT(30)
      <4> QED  BY <4>2
    <3> QED  BY <2>0, <3>3, <3>4, <3>5 DEF new
  <2>4. KnownTasks'
    <3>1. \A i \in DOMAIN queue' : meta[queue'[i]].status # "NONE"
      BY <1>0, <2>3 DEF KnownTasks
    <3>2. \A v \in Workers : \A i \in DOMAIN poll'[v].got : meta[poll'[v].got[i][1]].status # "NONE"
      BY <1>0, <2>2 DEF KnownTasks
    <3> QED  BY <1>0, <2>0, <2>2, <3>1, <3>2 DEF KnownTasks
  <2> QED  BY <1>0, <2>1, <2>4 DEF IInv
<1>5. CASE PollLease(w)
  <2>0. UNCHANGED <<expired, rep, keys, sub, crashes>> /\ poll' = [poll EXCEPT ![w] = IdlePoll]
    BY <1>5 DEF PollLease
  <2>1. PICK i \in Assignable(w) :
           /\ meta' = [meta EXCEPT ![queue[i]] = leaseTask(meta[queue[i]], w)]
           /\ queue' = RemoveIndex(queue, i)
           /\ jobs' = jobs \cup {[t |-> queue[i], w |-> w, e |-> leaseTask(meta[queue[i]], w).epoch,
                                  inc |-> crashes, pc |-> "leased", seen |-> FALSE, outcome |-> "NONE"]}
    BY <1>5 DEF PollLease
  <2> DEFINE t == queue[i]
  <2>2. i \in DOMAIN queue /\ t \in Tasks /\ meta[t].status # "NONE" /\ meta[t] \in TaskRecords
    BY <1>0 DEF Assignable, TypeOK, KnownTasks
  <2>3. \A u \in Tasks : u # t => meta'[u] = meta[u]
    BY <1>0, <2>1, <2>2 DEF TypeOK
  <2>4. \/ isTerminalTaskStatus(meta[t].status) /\ meta'[t] = meta[t]
        \/ meta'[t].status = "RUNNING" /\ meta'[t].epoch = meta[t].epoch + 1
    BY <1>0, <2>1, <2>2 DEF TypeOK, leaseTask
  <2>5. meta[t].epoch \in Nat
    BY <2>2 DEF TaskRecords
  <2>6. \A j \in jobs' : j \in jobs \/ (j.t = t /\ j.pc = "leased")
    <3> DEFINE new == [t |-> t, w |-> w, e |-> leaseTask(meta[t], w).epoch,
                       inc |-> crashes, pc |-> "leased", seen |-> FALSE, outcome |-> "NONE"]
    <3>1. new.t = t /\ new.pc = "leased"
      OBVIOUS
    <3>2. jobs' = jobs \cup {new}
      BY <2>1
    <3> HIDE DEF new, t
    <3>3. ASSUME NEW j \in jobs', j \notin jobs PROVE j.t = t /\ j.pc = "leased"
      <4>1. j = new
        BY <3>2, <3>3
      <4> QED  BY <3>1, <4>1
    <3> QED  BY <3>3
  <2>7. FreshTasks'
    BY <1>0, <2>0, <2>2, <2>3, <2>6, KnownNotFresh DEF FreshTasks
  <2>8. KnownTasks'
    <3>1. \A u \in Tasks : meta[u].status # "NONE" => meta'[u].status # "NONE"
      BY <2>2, <2>3, <2>4
    <3>2. \A v \in Workers : /\ poll'[v].todo \subseteq poll[v].todo
                             /\ poll'[v].got = poll[v].got \/ poll'[v].got = <<>>
      BY <1>0, <2>0 DEF TypeOK, IdlePoll
    <3>3. \A k \in DOMAIN queue' : \E m \in DOMAIN queue : queue'[k] = queue[m]
      <4>1. queue \in Seq(Tasks)
        BY <1>0 DEF TypeOK
      <4>2. ASSUME NEW k \in DOMAIN queue'
            PROVE  \/ k \in DOMAIN queue /\ queue'[k] = queue[k]
                   \/ k + 1 \in DOMAIN queue /\ queue'[k] = queue[k + 1]
        BY <2>1, <2>2, <4>1 DEF RemoveIndex
      <4> QED  BY <4>2
    <3>4. \A k \in DOMAIN queue' : meta'[queue'[k]].status # "NONE"
      <4>1. \A m \in DOMAIN queue : queue[m] \in Tasks /\ meta[queue[m]].status # "NONE"
        BY <1>0 DEF KnownTasks, TypeOK
      <4> QED  BY <3>1, <3>3, <4>1
    <3>5. \A v \in Workers : \A item \in poll'[v].todo : meta'[item[1]].status # "NONE" /\ item[2] > 0
      BY <1>0, <3>1, <3>2 DEF KnownTasks, TypeOK, Polls
    <3>6. \A v \in Workers : \A k \in DOMAIN poll'[v].got : meta'[poll'[v].got[k][1]].status # "NONE"
      <4>1. \A v \in Workers : \A k \in DOMAIN poll[v].got : poll[v].got[k][1] \in Tasks
        BY <1>0 DEF TypeOK, Polls
      <4> QED  BY <1>0, <3>1, <3>2, <4>1 DEF KnownTasks
    <3>7. \A u \in expired' : meta'[u].status = "RUNNING"
      <4>1. expired' \subseteq Tasks /\ \A u \in expired' : meta[u].status = "RUNNING"
        BY <1>0, <2>0 DEF KnownTasks, TypeOK
      <4> QED  BY <2>3, <2>4, <4>1
    <3>8. \A u \in Tasks : meta'[u].status = "RUNNING" => meta'[u].epoch > 0
      BY <1>0, <2>3, <2>4, <2>5 DEF KnownTasks
    <3>9. \A u \in Tasks : sub'[u] = "enqueue" => meta'[u].status # "NONE"
      BY <1>0, <2>0, <3>1 DEF KnownTasks
    <3> QED  BY <3>4, <3>5, <3>6, <3>7, <3>8, <3>9 DEF KnownTasks
  <2>9. EpochsAhead'
    <3>1. \A u \in Tasks : meta'[u].epoch >= meta[u].epoch /\ meta[u].epoch \in Nat /\ rep[u].leaseEpoch \in Nat
      <4>1. \A u \in Tasks : meta[u].epoch \in Nat /\ rep[u].leaseEpoch \in Nat
        BY <1>0 DEF TypeOK, TaskRecords, ReplayStates
      <4> QED  BY <2>3, <2>4, <4>1
    <3>2. \A u \in Tasks : meta'[u].status # "NONE" <=> meta[u].status # "NONE"
      BY <2>2, <2>3, <2>4
    <3>3. \A u \in Tasks : meta'[u].epoch \in Nat
      BY <1>0 DEF TypeOK, TaskRecords
    <3>4. \A j \in jobs : j.t \in Tasks /\ j.e \in Nat
      BY <1>0 DEF TypeOK, Jobs
    <3> QED  BY <1>0, <2>0, <2>6, <3>1, <3>2, <3>3, <3>4 DEF EpochsAhead
  <2>10. OpenTasks'
    <3>1. \A u \in Tasks : isTerminalTaskStatus(meta'[u].status) => isTerminalTaskStatus(meta[u].status)
      BY <2>3, <2>4 DEF Outcomes
    <3> QED  BY <1>0, <2>0, <2>6, <3>1 DEF OpenTasks, OpenJob, OpenKey
  <2> QED  BY <1>0, <2>7, <2>8, <2>9, <2>10 DEF IInv
<1> QED  BY <1>1, <1>2, <1>3, <1>4, <1>5 DEF PollStep

\* What an action on job j does to jobs: j goes, or stays with another pc.
LEMMA JobsAfter ==
    ASSUME TypeOK, NEW j \in jobs, NEW pc, MoveJob(j, pc) \/ EndJob(j)
    PROVE  \A k \in jobs' : \/ k \in jobs
                            \/ k.t = j.t /\ k.w = j.w /\ k.e = j.e /\ k.pc = pc /\ k.outcome = j.outcome
<1> DEFINE moved == [j EXCEPT !.pc = pc]
<1>1. moved.t = j.t /\ moved.w = j.w /\ moved.e = j.e /\ moved.pc = pc /\ moved.outcome = j.outcome
  BY DEF TypeOK, Jobs
<1>2. \A k \in jobs' : k \in jobs \/ k = moved
  BY DEF MoveJob, EndJob
<1> HIDE DEF moved
<1> QED  BY <1>1, <1>2

\* The steps of StartTask and CompleteTask keep the inductive invariant.
LEMMA JobInv ==
    ASSUME IInv, OutcomesSet, NEW j \in jobs, JobStep(j) \/ LoseJob(j)
    PROVE  IInv'
<1> USE DEF ctl, durable
<1>0. TypeOK /\ FreshTasks /\ KnownTasks /\ EpochsAhead /\ OpenTasks /\ TypeOK'
  BY JobType DEF IInv
<1>j. j \in Jobs /\ j.t \in Tasks /\ j.w \in Workers /\ j.e \in Nat
  BY <1>0 DEF TypeOK, Jobs
<1>f. sub[j.t] \notin {"new", "append", "create"}
  BY <1>0, <1>j DEF FreshTasks
<1>1. CASE StartValidate(j)
  <2>0. UNCHANGED <<meta, queue, load, expired, rep, keys, sub, poll>>
    BY <1>1 DEF StartValidate
  <2>1. \A k \in jobs' : \/ k \in jobs
                         \/ /\ k.t = j.t /\ k.e = j.e
                            /\ \/ k.pc = "executing" /\ isTerminalTaskStatus(meta[j.t].status)
                               \/ k.pc = "starting" /\ HoldsLease(meta[j.t], j.w, j.e)
    <3>1. CASE isTerminalTaskStatus(meta[j.t].status) /\ MoveJob(j, "executing")
      BY <1>0, <3>1, JobsAfter
    <3>2. CASE HoldsLease(meta[j.t], j.w, j.e) /\ MoveJob(j, "starting")
      BY <1>0, <3>2, JobsAfter
    <3>3. CASE EndJob(j)
      BY <3>3 DEF EndJob
    <3> QED  BY <1>1, <3>1, <3>2, <3>3 DEF StartValidate
  <2>2. FreshTasks'
    BY <1>0, <1>f, <2>0, <2>1 DEF FreshTasks
  <2>3. KnownTasks'
    BY <1>0, <2>0 DEF KnownTasks
  <2>4. EpochsAhead'
    BY <1>0, <1>j, <2>0, <2>1 DEF EpochsAhead, HoldsLease
  <2>5. OpenTasks'
    BY <1>0, <2>0, <2>1 DEF OpenTasks, OpenJob, OpenKey
  <2> QED  BY <1>0, <2>2, <2>3, <2>4, <2>5 DEF IInv
<1>2. CASE StartAppend(j)
  <2> DEFINE key == StartedKey(j.t, j.w, j.e)
             r == rep[j.t]
  <2>0. /\ UNCHANGED <<meta, queue, load, expired, sub, poll>>
        /\ j.pc = "starting"
        /\ AppendLog(j.t, key, Event("TaskStarted", j.e, j.w))
    BY <1>2 DEF StartAppend
  <2>1. \A k \in jobs' : k \in jobs \/ (k.t = j.t /\ k.e = j.e /\ k.pc = "executing")
    BY <1>0, <1>2, JobsAfter DEF StartAppend
  <2>2. meta[j.t].status # "NONE" /\ j.e \in Nat \ {0} /\ j.e <= meta[j.t].epoch
    BY <1>0, <1>j, <2>0 DEF EpochsAhead
  <2>3. key[1] = j.t /\ key[2] = "TaskStarted" /\ key[4] = j.e
    BY DEF StartedKey
  <2>4. \A u \in Tasks : u # j.t => rep'[u] = rep[u]
    BY <1>0, <1>j, <2>0 DEF AppendLog, TypeOK
  <2>5. \A k \in keys' : k \in keys \/ k = key
    BY <2>0 DEF AppendLog
  <2>6. r \in ReplayStates
    BY <1>0, <1>j DEF TypeOK
  <2>7. rep'[j.t] = r \/ rep'[j.t] = applyRaw(r, Event("TaskStarted", j.e, j.w))
    BY <1>0, <1>j, <2>0 DEF AppendLog, TypeOK
  <2>8. rep'[j.t].leaseEpoch \in {r.leaseEpoch, j.e}
    BY <1>j, <2>2, <2>6, <2>7, StartedEffect
  <2>9. Open(rep'[j.t]) => /\ Open(r)
                           /\ r.leaseEpoch <= rep'[j.t].leaseEpoch
                           /\ j.e <= rep'[j.t].leaseEpoch
                           /\ rep'[j.t].status = "RUNNING" \/ rep'[j.t] = r
    <3>1. CASE key \in keys
      <4>1. rep'[j.t] = r
        BY <2>0, <3>1 DEF AppendLog
      <4>2. Open(r) => j.e <= r.leaseEpoch
        BY <1>0, <1>j, <2>3, <3>1 DEF OpenTasks, OpenKey
      <4>3. r.leaseEpoch \in Nat
        BY <2>6 DEF ReplayStates
      <4> QED  BY <4>1, <4>2, <4>3
    <3>2. CASE key \notin keys
      <4>1. rep'[j.t] = applyRaw(r, Event("TaskStarted", j.e, j.w))
        BY <1>0, <1>j, <2>0, <3>2 DEF AppendLog, TypeOK
      <4> QED  BY <1>j, <2>2, <2>6, <4>1, StartedEffect
    <3> QED  BY <3>1, <3>2
  <2>10. FreshTasks'
    BY <1>0, <1>f, <2>0, <2>1, <2>3, <2>4, <2>5 DEF FreshTasks
  <2>11. KnownTasks'
    BY <1>0, <2>0 DEF KnownTasks
  <2>12. EpochsAhead'
    BY <1>0, <2>0, <2>1, <2>2, <2>4, <2>8 DEF EpochsAhead
  <2>13. OpenTasks'
    <3>1. ASSUME NEW u \in Tasks, u # j.t, Open(rep'[u])
          PROVE  /\ ~isTerminalTaskStatus(meta'[u].status)
                 /\ rep'[u].leaseEpoch > 0 => rep'[u].status = "RUNNING"
                 /\ \A k \in jobs' : k.t = u => OpenJob(u, k)'
                 /\ \A k \in keys' : k[1] = u => OpenKey(u, k)'
      BY <1>0, <2>0, <2>1, <2>3, <2>4, <2>5, <3>1 DEF OpenTasks, OpenJob, OpenKey
    <3>2. ASSUME Open(rep'[j.t])
          PROVE  /\ ~isTerminalTaskStatus(meta'[j.t].status)
                 /\ rep'[j.t].leaseEpoch > 0 => rep'[j.t].status = "RUNNING"
                 /\ \A k \in jobs' : k.t = j.t => OpenJob(j.t, k)'
                 /\ \A k \in keys' : k[1] = j.t => OpenKey(j.t, k)'
      <4>1. ~isTerminalTaskStatus(meta'[j.t].status)
        BY <1>0, <1>j, <2>0, <2>9, <3>2 DEF OpenTasks
      <4>2. rep'[j.t].leaseEpoch > 0 => rep'[j.t].status = "RUNNING"
        BY <1>0, <1>j, <2>9, <3>2 DEF OpenTasks
      <4>3. r.leaseEpoch \in Nat /\ rep'[j.t].leaseEpoch \in Nat
        BY <1>0, <1>j DEF TypeOK, ReplayStates
      <4>4. \A k \in jobs : k.e \in Nat
        BY <1>0 DEF TypeOK, Jobs
      <4>5. \A k \in keys : k[4] \in Nat
        BY <1>0 DEF TypeOK, LogKeys
      <4>6. \A k \in jobs' : k.t = j.t => OpenJob(j.t, k)'
        BY <1>0, <1>j, <2>1, <2>2, <2>9, <3>2, <4>3, <4>4 DEF OpenTasks, OpenJob
      <4>7. \A k \in keys' : k[1] = j.t => OpenKey(j.t, k)'
        BY <1>0, <1>j, <2>2, <2>3, <2>5, <2>9, <3>2, <4>3, <4>5 DEF OpenTasks, OpenKey
      <4> QED  BY <4>1, <4>2, <4>6, <4>7
    <3> QED  BY <3>1, <3>2 DEF OpenTasks
  <2> QED  BY <1>0, <2>10, <2>11, <2>12, <2>13 DEF IInv
<1>3. CASE CompleteRead(j)
  <2>0. UNCHANGED <<meta, queue, load, expired, rep, keys, sub, poll>> /\ j.pc = "executing"
    BY <1>3 DEF CompleteRead
  <2>1. \A k \in jobs' : k \in jobs \/ (k.t = j.t /\ k.e = j.e /\ k.pc = "c_valid")
    <3>1. CASE EndJob(j)
      BY <3>1 DEF EndJob
    <3>2. ASSUME NEW o \in Outcomes, NEW s \in BOOLEAN,
                 jobs' = (jobs \ {j}) \cup {[j EXCEPT !.pc = "c_valid", !.outcome = o, !.seen = s]}
          PROVE  \A k \in jobs' : k \in jobs \/ (k.t = j.t /\ k.e = j.e /\ k.pc = "c_valid")
      <4> DEFINE read == [j EXCEPT !.pc = "c_valid", !.outcome = o, !.seen = s]
      <4>1. read.t = j.t /\ read.e = j.e /\ read.pc = "c_valid"
        BY <1>j DEF Jobs
      <4>2. jobs' = (jobs \ {j}) \cup {read}
        BY <3>2
      <4> HIDE DEF read
      <4> QED  BY <4>1, <4>2
    <3> QED  BY <1>3, <3>1, <3>2 DEF CompleteRead
  <2>2. FreshTasks'
    BY <1>0, <1>f, <2>0, <2>1 DEF FreshTasks
  <2>3. KnownTasks' /\ EpochsAhead'
    BY <1>0, <2>0, <2>1 DEF KnownTasks, EpochsAhead
  <2>4. OpenTasks'
    BY <1>0, <2>0, <2>1 DEF OpenTasks, OpenJob, OpenKey
  <2> QED  BY <1>0, <2>2, <2>3, <2>4 DEF IInv
<1>4. CASE CompleteValidate(j)
  <2>0. UNCHANGED <<meta, queue, load, expired, rep, keys, sub, poll>> /\ j.pc = "c_valid"
    BY <1>4 DEF CompleteValidate
  <2>1. \A k \in jobs' : \/ k \in jobs
                         \/ /\ k.t = j.t /\ k.e = j.e
                            /\ \/ k.pc = "c_append"
                               \/ k.pc = "c_late" /\ isTerminalTaskStatus(meta[j.t].status)
    <3>1. CASE isTerminalTaskStatus(meta[j.t].status) /\ MoveJob(j, "c_late")
      BY <1>0, <3>1, JobsAfter
    <3>2. CASE MoveJob(j, "c_append")
      BY <1>0, <3>2, JobsAfter
    <3>3. CASE EndJob(j)
      BY <3>3 DEF EndJob
    <3> QED  BY <1>4, <3>1, <3>2, <3>3 DEF CompleteValidate
  <2>2. FreshTasks'
    BY <1>0, <1>f, <2>0, <2>1 DEF FreshTasks
  <2>3. KnownTasks' /\ EpochsAhead'
    BY <1>0, <2>0, <2>1 DEF KnownTasks, EpochsAhead
  <2>4. OpenTasks'
    BY <1>0, <2>0, <2>1 DEF OpenTasks, OpenJob, OpenKey
  <2> QED  BY <1>0, <2>2, <2>3, <2>4 DEF IInv
<1>5. CASE CompleteAppend(j)
  <2> DEFINE type == ResultEvent(j.outcome)
             w == IF j.pc = "c_late" THEN meta[j.t].worker ELSE j.w
             e == IF j.pc = "c_late" THEN meta[j.t].epoch ELSE j.e
             key == TerminalKey(j.t, type, w, e)
             r == rep[j.t]
  <2>0. /\ UNCHANGED <<meta, queue, load, expired, sub, poll>>
        /\ j.pc \in {"c_append", "c_late"}
        /\ AppendLog(j.t, key, Event(type, e, w))
    BY <1>5 DEF CompleteAppend
  <2>1. \A k \in jobs' : k \in jobs \/ (k.t = j.t /\ k.e = j.e /\ k.pc = "c_meta")
    BY <1>0, <1>5, JobsAfter DEF CompleteAppend
  <2>1a. e \in Nat
    BY <1>0, <1>j DEF TypeOK, TaskRecords
  <2>1b. Open(r) => j.pc = "c_append" /\ e = j.e
    BY <1>0, <1>j, <2>0 DEF OpenTasks, OpenJob
  <2>2. type \in {"TaskCompleted", "TaskFailed"}
    BY DEF ResultEvent
  <2>3. key[1] = j.t /\ key[2] = type /\ key[4] = e
    BY DEF TerminalKey
  <2>4. \A u \in Tasks : u # j.t => rep'[u] = rep[u]
    BY <1>0, <1>j, <2>0 DEF AppendLog, TypeOK
  <2>5. \A k \in keys' : k \in keys \/ k = key
    BY <2>0 DEF AppendLog
  <2>6. r \in ReplayStates
    BY <1>0, <1>j DEF TypeOK
  <2>7. rep'[j.t] = r \/ rep'[j.t] = applyRaw(r, Event(type, e, w))
    BY <1>0, <1>j, <2>0 DEF AppendLog, TypeOK
  <2>8. rep'[j.t].leaseEpoch = r.leaseEpoch /\ (Open(rep'[j.t]) => rep'[j.t] = r)
    BY <2>1a, <2>2, <2>6, <2>7, TerminalEffect
  <2>9. Open(rep'[j.t]) => j.e < r.leaseEpoch
    <3>1. CASE key \in keys
      BY <1>0, <1>j, <2>1b, <2>2, <2>3, <2>8, <3>1 DEF OpenTasks, OpenKey
    <3>2. CASE key \notin keys
      <4>1. rep'[j.t] = applyRaw(r, Event(type, e, w))
        BY <1>0, <1>j, <2>0, <3>2 DEF AppendLog, TypeOK
      <4>2. Open(rep'[j.t]) => ~(r.status = "RUNNING" /\ e = r.leaseEpoch /\ e > 0)
        BY <2>1a, <2>2, <2>6, <4>1, TerminalEffect
      <4>3. Open(r) => 0 < j.e /\ j.e <= r.leaseEpoch
        BY <1>0, <1>j, <2>1b DEF OpenTasks, OpenJob
      <4>4. Open(r) /\ r.leaseEpoch > 0 => r.status = "RUNNING"
        BY <1>0, <1>j DEF OpenTasks
      <4>5. r.leaseEpoch \in Nat
        BY <2>6 DEF ReplayStates
      <4> QED  BY <1>j, <2>1b, <2>8, <4>2, <4>3, <4>4, <4>5
    <3> QED  BY <3>1, <3>2
  <2>10. FreshTasks'
    BY <1>0, <1>f, <2>0, <2>1, <2>3, <2>4, <2>5 DEF FreshTasks
  <2>11. KnownTasks'
    BY <1>0, <2>0 DEF KnownTasks
  <2>12. EpochsAhead'
    BY <1>0, <2>0, <2>1, <2>4, <2>8 DEF EpochsAhead
  <2>13. OpenTasks'
    <3>1. ASSUME NEW u \in Tasks, u # j.t, Open(rep'[u])
          PROVE  /\ ~isTerminalTaskStatus(meta'[u].status)
                 /\ rep'[u].leaseEpoch > 0 => rep'[u].status = "RUNNING"
                 /\ \A k \in jobs' : k.t = u => OpenJob(u, k)'
                 /\ \A k \in keys' : k[1] = u => OpenKey(u, k)'
      BY <1>0, <2>0, <2>1, <2>3, <2>4, <2>5, <3>1 DEF OpenTasks, OpenJob, OpenKey
    <3>2. ASSUME Open(rep'[j.t])
          PROVE  /\ ~isTerminalTaskStatus(meta'[j.t].status)
                 /\ rep'[j.t].leaseEpoch > 0 => rep'[j.t].status = "RUNNING"
                 /\ \A k \in jobs' : k.t = j.t => OpenJob(j.t, k)'
                 /\ \A k \in keys' : k[1] = j.t => OpenKey(j.t, k)'
      <4>1. Open(r) /\ rep'[j.t] = r /\ j.e < r.leaseEpoch
        BY <2>8, <2>9, <3>2
      <4>2. ~isTerminalTaskStatus(meta'[j.t].status) /\ (r.leaseEpoch > 0 => r.status = "RUNNING")
        BY <1>0, <1>j, <2>0, <4>1 DEF OpenTasks
      <4>3. \A k \in jobs' : k.t = j.t => OpenJob(j.t, k)'
        <5>1. 0 < j.e /\ j.e <= r.leaseEpoch
          BY <1>0, <1>j, <2>1b, <4>1 DEF OpenTasks, OpenJob
        <5> QED  BY <1>0, <1>j, <2>1, <4>1, <5>1 DEF OpenTasks, OpenJob
      <4>4. \A k \in keys' : k[1] = j.t => OpenKey(j.t, k)'
        <5> HIDE DEF type, key, e
        <5> QED  BY <1>0, <1>j, <2>1b, <2>2, <2>3, <2>5, <4>1 DEF OpenTasks, OpenKey
      <4> QED  BY <4>1, <4>2, <4>3, <4>4
    <3> QED  BY <3>1, <3>2 DEF OpenTasks
  <2> QED  BY <1>0, <2>10, <2>11, <2>12, <2>13 DEF IInv
<1>6. CASE CompleteMeta(j)
  <2>0. UNCHANGED <<queue, load, rep, keys, sub, poll>> /\ j.pc = "c_meta"
    BY <1>6 DEF CompleteMeta
  <2>1. \A k \in jobs' : k \in jobs \/ (k.t = j.t /\ k.e = j.e /\ k.pc = "c_load")
    BY <1>0, <1>6, JobsAfter DEF CompleteMeta
  <2>2. \A u \in Tasks : u # j.t => meta'[u] = meta[u]
    BY <1>0, <1>6 DEF CompleteMeta, TypeOK
  <2>3. \/ meta'[j.t] = meta[j.t] /\ expired' \subseteq expired
        \/ /\ HoldsLease(meta[j.t], j.w, j.e)
           /\ meta'[j.t] = [meta[j.t] EXCEPT !.status = j.outcome]
           /\ expired' = expired \ {j.t}
    BY <1>0, <1>j, <1>6 DEF CompleteMeta, LeaseAccepted, completeTask, TypeOK
  <2>4. meta[j.t] \in TaskRecords
    BY <1>0, <1>j DEF TypeOK
  <2>5. meta'[j.t].epoch = meta[j.t].epoch
    BY <2>3, <2>4 DEF TaskRecords
  <2>6. j.outcome \in Outcomes
    BY <2>0 DEF OutcomesSet, CompletePCs
  <2>7. /\ meta[j.t].status # "NONE" => meta'[j.t].status # "NONE"
        /\ meta[j.t].status = "NONE" => meta'[j.t].status = "NONE"
        /\ meta'[j.t].status = "RUNNING" => meta[j.t].status = "RUNNING" /\ meta'[j.t] = meta[j.t]
    BY <2>3, <2>4, <2>6 DEF TaskRecords, HoldsLease, Outcomes
  <2>8. FreshTasks'
    BY <1>0, <1>f, <2>0, <2>1, <2>2 DEF FreshTasks
  <2>9. KnownTasks'
    <3>1. \A u \in Tasks : meta[u].status # "NONE" => meta'[u].status # "NONE"
      BY <2>2, <2>7
    <3>2. \A i \in DOMAIN queue : meta'[queue[i]].status # "NONE"
      BY <1>0, <3>1 DEF KnownTasks, TypeOK
    <3>3. \A v \in Workers : \A item \in poll[v].todo : meta'[item[1]].status # "NONE" /\ item[2] > 0
      BY <1>0, <3>1 DEF KnownTasks, TypeOK, Polls
    <3>4. \A v \in Workers : \A i \in DOMAIN poll[v].got : meta'[poll[v].got[i][1]].status # "NONE"
      <4>1. \A v \in Workers : \A i \in DOMAIN poll[v].got : poll[v].got[i][1] \in Tasks
        BY <1>0 DEF TypeOK, Polls
      <4> QED  BY <1>0, <3>1, <4>1 DEF KnownTasks
    <3>5. \A u \in expired' : meta'[u].status = "RUNNING"
      <4>1. expired' \subseteq Tasks /\ expired' \subseteq expired
        BY <1>0, <2>3 DEF TypeOK
      <4>2. \A u \in expired' : u = j.t => meta'[j.t] = meta[j.t]
        BY <2>3
      <4> QED  BY <1>0, <2>2, <4>1, <4>2 DEF KnownTasks
    <3>6. \A u \in Tasks : meta'[u].status = "RUNNING" => meta'[u].epoch > 0
      BY <1>0, <1>j, <2>2, <2>7 DEF KnownTasks
    <3>7. \A u \in Tasks : sub'[u] = "enqueue" => meta'[u].status # "NONE"
      BY <1>0, <2>0, <3>1 DEF KnownTasks
    <3> QED  BY <2>0, <3>2, <3>3, <3>4, <3>5, <3>6, <3>7 DEF KnownTasks
  <2>10. EpochsAhead'
    <3>1. \A u \in Tasks : meta'[u].epoch = meta[u].epoch
                           /\ (meta'[u].status # "NONE" <=> meta[u].status # "NONE")
      BY <2>2, <2>5, <2>7
    <3>2. \A k \in jobs : k.t \in Tasks
      BY <1>0 DEF TypeOK, Jobs
    <3> QED  BY <1>0, <2>0, <2>1, <3>1, <3>2 DEF EpochsAhead
  <2>11. HoldsLease(meta[j.t], j.w, j.e) => ~Open(rep[j.t])
    <3>1. Open(rep[j.t]) => j.e < rep[j.t].leaseEpoch
      BY <1>0, <1>j, <2>0 DEF OpenTasks, OpenJob
    <3>2. HoldsLease(meta[j.t], j.w, j.e) => rep[j.t].leaseEpoch <= j.e
      BY <1>0, <1>j DEF EpochsAhead, HoldsLease
    <3>3. rep[j.t].leaseEpoch \in Nat
      BY <1>0, <1>j DEF TypeOK, ReplayStates
    <3> QED  BY <1>j, <3>1, <3>2, <3>3
  <2>12. OpenTasks'
    <3>1. \A u \in Tasks : Open(rep[u]) => meta'[u] = meta[u]
      BY <2>2, <2>3, <2>11
    <3> QED  BY <1>0, <2>0, <2>1, <3>1 DEF OpenTasks, OpenJob, OpenKey
  <2> QED  BY <1>0, <2>8, <2>9, <2>10, <2>12 DEF IInv
<1>7. CASE CompleteLoad(j) \/ LoseJob(j)
  <2>0. UNCHANGED <<meta, queue, expired, rep, keys, sub, poll>> /\ jobs' \subseteq jobs
    BY <1>7 DEF CompleteLoad, LoseJob, EndJob
  <2>1. FreshTasks' /\ KnownTasks' /\ EpochsAhead'
    BY <1>0, <2>0 DEF FreshTasks, KnownTasks, EpochsAhead
  <2>2. OpenTasks'
    BY <1>0, <2>0 DEF OpenTasks, OpenJob, OpenKey
  <2> QED  BY <1>0, <2>1, <2>2 DEF IInv
<1> QED  BY <1>1, <1>2, <1>3, <1>4, <1>5, <1>6, <1>7 DEF JobStep

\* What bootstrap rebuilds from the log satisfies the inductive invariant.
LEMMA RestartInv ==
    ASSUME IInv, Restart
    PROVE  IInv'
<1>0. TypeOK /\ FreshTasks /\ KnownTasks /\ EpochsAhead /\ OpenTasks /\ TypeOK'
  BY RestartType DEF IInv
<1>1. /\ rep' = rep /\ keys' = keys /\ expired' = {} /\ meta' = RestoredMeta
      /\ poll' = [w \in Workers |-> IdlePoll]
      /\ jobs' = {j \in jobs : j.pc \in WorkerPCs}
  BY DEF Restart, durable
<1>2. \A t \in Tasks : sub'[t] \in {"new", "append", "create", "enqueue"} =>
          sub'[t] = "new" /\ sub[t] = "new"
  BY <1>0 DEF Restart, TypeOK, SubmitPCs
<1>3. \A t \in Tasks : rep[t] \in ReplayStates
  BY <1>0 DEF TypeOK
<1>4. ASSUME NEW t \in Tasks
      PROVE  \/ meta'[t] = NoTask
             \/ meta'[t].status = "QUEUED" /\ meta'[t].epoch = rep[t].leaseEpoch
             \/ meta'[t].status = rep[t].status /\ meta'[t].epoch = rep[t].leaseEpoch
                /\ rep[t].status # "RUNNING"
  BY <1>1, <1>3 DEF RestoredMeta, finalTask
<1>5. FreshTasks'
  <2>1. ASSUME NEW t \in Tasks, sub[t] = "new" PROVE meta'[t] = NoTask
    <3>1. ~Restored(t)
      BY <1>0, <2>1 DEF FreshTasks, Restored
    <3> QED  BY <1>1, <3>1 DEF RestoredMeta
  <2> QED  BY <1>0, <1>1, <1>2, <2>1 DEF FreshTasks
<1>6. KnownTasks'
  <2>1. \A i \in DOMAIN queue' : meta'[queue'[i]].status = "QUEUED"
    <3> DEFINE S == {t \in Tasks : RestoredMeta[t].status = "QUEUED"}
    <3>1. queue' \in [1 .. Cardinality(S) -> S]
      BY DEF Restart, Ascending
    <3>2. \A i \in DOMAIN queue' : queue'[i] \in S
      BY <3>1
    <3> QED  BY <1>1, <3>2
  <2>2. \A w \in Workers : poll'[w].todo = {} /\ poll'[w].got = <<>>
    BY <1>1 DEF IdlePoll
  <2>3. \A t \in Tasks : meta'[t].status # "RUNNING"
    BY <1>4 DEF NoTask
  <2>4. \A t \in Tasks : sub'[t] # "enqueue"
    BY <1>2
  <2> QED  BY <1>1, <2>1, <2>2, <2>3, <2>4 DEF KnownTasks
<1>7. EpochsAhead'
  BY <1>1, <1>3, <1>4 DEF EpochsAhead, NoTask, ReplayStates, WorkerPCs
<1>8. OpenTasks'
  BY <1>0, <1>1, <1>4 DEF OpenTasks, OpenJob, OpenKey, NoTask, Open, Outcomes
<1> QED  BY <1>0, <1>5, <1>6, <1>7, <1>8 DEF IInv

\* A completion carries SUCCEEDED or FAILED from the moment it has read the task.
LEMMA OutcomesSetStep ==
    ASSUME TypeOK, OutcomesSet, [Next]_vars
    PROVE  OutcomesSet'
<1> SUFFICES ASSUME NEW k \in jobs', k \notin jobs, k.pc \in CompletePCs
             PROVE  k.outcome \in Outcomes
  BY DEF OutcomesSet
<1> USE DEF CompletePCs
<1>1. CASE UNCHANGED vars
  BY <1>1 DEF vars
<1>2. ASSUME NEW t \in Tasks, Submit(t) \/ SubmitStep(t) \/ FailSubmit(t) \/ LeaseExpires(t)
      PROVE  jobs' = jobs
  BY <1>2 DEF Submit, SubmitDuplicate, SubmitAdmit, SubmitStep, SubmitAppend, SubmitCreate,
              SubmitEnqueue, FailSubmit, LeaseExpires
<1>3. ASSUME NEW w \in Workers, PollStep(w) \/ FailRedeliver(w), jobs' # jobs
      PROVE  k.pc = "leased"
  <2>1. PollLease(w)
    BY <1>3 DEF PollStep, PollScan, PollAppend, PollRequeue, PollRequeued, PollEnqueue, PollEmpty,
                FailRedeliver
  <2>2. PICK i \in Assignable(w) :
           jobs' = jobs \cup {[t |-> queue[i], w |-> w, e |-> leaseTask(meta[queue[i]], w).epoch,
                               inc |-> crashes, pc |-> "leased", seen |-> FALSE, outcome |-> "NONE"]}
    BY <2>1 DEF PollLease
  <2>3. k = [t |-> queue[i], w |-> w, e |-> leaseTask(meta[queue[i]], w).epoch,
             inc |-> crashes, pc |-> "leased", seen |-> FALSE, outcome |-> "NONE"]
    BY <2>2
  <2> QED  BY <2>3
<1>4. ASSUME NEW j \in jobs, JobStep(j) \/ LoseJob(j)
      PROVE  k.outcome \in Outcomes
  <2>0. j \in Jobs
    BY DEF TypeOK
  <2>1. CASE StartValidate(j)
    BY <2>1, JobsAfter DEF StartValidate
  <2>2. CASE StartAppend(j)
    BY <2>2, JobsAfter DEF StartAppend
  <2>3. CASE CompleteRead(j)
    <3>1. PICK o \in Outcomes, s \in BOOLEAN : k = [j EXCEPT !.pc = "c_valid", !.outcome = o, !.seen = s]
      BY <2>3 DEF CompleteRead, EndJob
    <3> QED  BY <2>0, <3>1 DEF Jobs
  <2>4. CASE CompleteValidate(j)
    BY <2>4, JobsAfter DEF CompleteValidate, OutcomesSet
  <2>5. CASE CompleteAppend(j)
    BY <2>5, JobsAfter DEF CompleteAppend, OutcomesSet
  <2>6. CASE CompleteMeta(j)
    BY <2>6, JobsAfter DEF CompleteMeta, OutcomesSet
  <2>7. CASE CompleteLoad(j) \/ LoseJob(j)
    BY <2>7 DEF CompleteLoad, LoseJob, EndJob
  <2> QED  BY <1>4, <2>1, <2>2, <2>3, <2>4, <2>5, <2>6, <2>7 DEF JobStep
<1>5. CASE Restart
  BY <1>5 DEF Restart
<1> QED  BY <1>1, <1>2, <1>3, <1>4, <1>5 DEF Next

\* Every step keeps the inductive invariant.
LEMMA InvStep == IInv /\ OutcomesSet /\ [Next]_vars => (IInv /\ OutcomesSet)'
<1> SUFFICES ASSUME IInv, OutcomesSet, [Next]_vars PROVE IInv' /\ OutcomesSet'
  OBVIOUS
<1>1. OutcomesSet'
  BY OutcomesSetStep DEF IInv
<1>2. CASE UNCHANGED vars
  <2> USE <1>2 DEF vars
  <2>1. TypeOK'
    BY TypeStep DEF IInv
  <2>2. FreshTasks' /\ KnownTasks' /\ EpochsAhead'
    BY DEF IInv, FreshTasks, KnownTasks, EpochsAhead
  <2>3. OpenTasks'
    BY DEF IInv, OpenTasks, OpenJob, OpenKey
  <2> QED  BY <1>1, <2>1, <2>2, <2>3 DEF IInv
<1>3. CASE Next
  <2>1. ASSUME NEW t \in Tasks, Submit(t) \/ SubmitStep(t) \/ FailSubmit(t) \/ LeaseExpires(t)
        PROVE  IInv'
    BY <2>1, SubmitInv
  <2>2. ASSUME NEW w \in Workers, PollStep(w) \/ FailRedeliver(w)
        PROVE  IInv'
    BY <2>2, PollInv
  <2>3. ASSUME NEW j \in jobs, JobStep(j) \/ LoseJob(j)
        PROVE  IInv'
    BY <2>3, JobInv
  <2>4. CASE Restart
    BY <1>1, <2>4, RestartInv
  <2> QED  BY <1>1, <1>3, <2>1, <2>2, <2>3, <2>4 DEF Next
<1> QED  BY <1>1, <1>2, <1>3

-----------------------------------------------------------------------------
(***************************************************************************)
(* The theorems.                                                           *)
(***************************************************************************)

\* The inductive invariant holds in every reachable state.
THEOREM Invariance == Spec => [](IInv /\ OutcomesSet)
<1>1. Init => OutcomesSet
  BY DEF Init, OutcomesSet
<1> QED  BY <1>1, InitInv, InvStep, PTL DEF Spec

\* However appends, metadata updates, lease expiry, late completions, failures
\* and restarts interleave, a task the metadata reports finished has an outcome
\* in the log that replay keeps, unless replay has accepted a TaskRedelivered of it.
THEOREM FinishedOnceHolds == Spec => []FinishedOnce
<1>1. IInv => FinishedOnce
  <2> SUFFICES ASSUME IInv, NEW t \in Tasks, isTerminalTaskStatus(meta[t].status),
                      ~isTerminalTaskStatus(rep[t].status)
               PROVE  rep[t].redelivered > 0
    BY DEF FinishedOnce
  <2>1. ~Open(rep[t])
    BY DEF IInv, OpenTasks
  <2>2. rep[t].redelivered \in Nat
    BY DEF IInv, TypeOK, ReplayStates
  <2> QED  BY <2>1, <2>2 DEF Open
<1> QED  BY <1>1, Invariance, PTL

\* An append changes replay states by applyRaw only, and a TaskSubmitted goes only
\* to a task that replay sees queued.
LEMMA OutcomeStep ==
    ASSUME IInv, NEW t \in Tasks, isTerminalTaskStatus(rep[t].status), [Next]_vars
    PROVE  rep'[t] = rep[t]
<1>0. rep \in [Tasks -> ReplayStates] /\ rep[t] \in ReplayStates
  BY DEF IInv, TypeOK
<1> USE DEF durable
<1>1. CASE UNCHANGED vars
  BY <1>1 DEF vars
<1>2. ASSUME NEW u \in Tasks, Submit(u) \/ SubmitStep(u) \/ FailSubmit(u) \/ LeaseExpires(u)
      PROVE  rep'[t] = rep[t]
  <2>1. CASE SubmitAppend(u)
    <3>1. u # t
      BY <2>1 DEF SubmitAppend, IInv, FreshTasks, Outcomes
    <3> QED  BY <1>0, <2>1, <3>1 DEF SubmitAppend, AppendLog
  <2>2. CASE ~SubmitAppend(u)
    BY <1>2, <2>2 DEF Submit, SubmitStep, SubmitDuplicate, SubmitAdmit, SubmitCreate, SubmitEnqueue,
                      FailSubmit, LeaseExpires
  <2> QED  BY <2>1, <2>2
<1>3. ASSUME NEW w \in Workers, PollStep(w) \/ FailRedeliver(w)
      PROVE  rep'[t] = rep[t]
  <2>1. CASE PollAppend(w)
    <3>1. PICK item \in poll[w].todo :
             AppendUnkeyed(item[1], Event("TaskRedelivered", item[2], NoWorker))
      BY <2>1 DEF PollAppend
    <3>2. Event("TaskRedelivered", item[2], NoWorker) \in Events
      BY DEF IInv, TypeOK, Polls, Event, Events, EventTypes
    <3>3. Event("TaskRedelivered", item[2], NoWorker).type # "TaskSubmitted"
      BY DEF Event
    <3>4. applyRaw(rep[t], Event("TaskRedelivered", item[2], NoWorker)) = rep[t]
      BY <1>0, <3>2, <3>3, TerminalAbsorbs
    <3> QED  BY <1>0, <3>1, <3>4 DEF AppendUnkeyed
  <2>2. CASE ~PollAppend(w)
    BY <1>3, <2>2 DEF PollStep, PollScan, PollRequeue, PollRequeued, PollEnqueue, PollLease, PollEmpty,
                      FailRedeliver
  <2> QED  BY <2>1, <2>2
<1>4. ASSUME NEW j \in jobs, JobStep(j) \/ LoseJob(j)
      PROVE  rep'[t] = rep[t]
  <2>0. j.t \in Tasks /\ j.w \in Workers /\ j.e \in Nat
    BY DEF IInv, TypeOK, Jobs
  <2>1. ASSUME NEW key, NEW type \in EventTypes \ {"TaskSubmitted"},
               NEW e \in Nat, NEW w \in Workers \cup {NoWorker},
               AppendLog(j.t, key, Event(type, e, w))
        PROVE  rep'[t] = rep[t]
    <3>1. Event(type, e, w) \in Events /\ Event(type, e, w).type # "TaskSubmitted"
      BY DEF Event, Events
    <3>2. applyRaw(rep[t], Event(type, e, w)) = rep[t]
      BY <1>0, <3>1, TerminalAbsorbs
    <3> QED  BY <1>0, <2>1, <3>2 DEF AppendLog
  <2>2. CASE StartAppend(j)
    BY <2>0, <2>1, <2>2 DEF StartAppend, EventTypes
  <2>3. CASE CompleteAppend(j)
    <3> DEFINE type == ResultEvent(j.outcome)
               w == IF j.pc = "c_late" THEN meta[j.t].worker ELSE j.w
               e == IF j.pc = "c_late" THEN meta[j.t].epoch ELSE j.e
    <3>1. w \in Workers \cup {NoWorker} /\ e \in Nat
      BY <2>0 DEF IInv, TypeOK, TaskRecords
    <3>2. AppendLog(j.t, TerminalKey(j.t, type, w, e), Event(type, e, w))
      BY <2>3 DEF CompleteAppend
    <3>3. type \in EventTypes \ {"TaskSubmitted"}
      BY DEF EventTypes, ResultEvent
    <3> QED  BY <2>1, <3>1, <3>2, <3>3
  <2>4. CASE ~StartAppend(j) /\ ~CompleteAppend(j)
    BY <1>4, <2>4 DEF JobStep, StartValidate, CompleteRead, CompleteValidate, CompleteMeta, CompleteLoad,
                      LoseJob
  <2> QED  BY <2>2, <2>3, <2>4
<1>5. CASE Restart
  BY <1>5 DEF Restart
<1> QED  BY <1>1, <1>2, <1>3, <1>4, <1>5 DEF Next

\* The first outcome replay accepts for a task is final: no late, duplicate or
\* stale record appended afterwards by any handler changes it.
THEOREM ReplayOutcomeStableHolds == Spec => ReplayOutcomeStable
<1>1. IInv /\ [Next]_vars =>
        [\A t \in Tasks : isTerminalTaskStatus(rep[t].status) => rep'[t] = rep[t]]_vars
  BY OutcomeStep
<1> QED  BY <1>1, Invariance, PTL DEF Spec, ReplayOutcomeStable

-----------------------------------------------------------------------------
(***************************************************************************)
(* How a step may change the metadata of a task.                           *)
(***************************************************************************)

\* Between two restarts a task record is created, leased, requeued or completed, by
\* the one action that does so and from the status it does so from.
MetaChange(t) ==
    \/ meta'[t] = meta[t]
    \/ /\ meta[t] = NoTask /\ SubmitCreate(t) /\ SameKey(t) = {}
       /\ meta'[t] = [NoTask EXCEPT !.status = "QUEUED"]
    \/ \E w \in Workers : /\ PollLease(w) /\ \E i \in DOMAIN queue : queue[i] = t
                          /\ meta'[t] = leaseTask(meta[t], w)
    \/ /\ t \in expired /\ meta'[t] = requeueTask(meta[t])
       /\ \E w \in Workers : PollRequeue(w)
    \/ \E j \in jobs : /\ j.t = t /\ CompleteMeta(j)
                       /\ HoldsLease(meta[t], j.w, j.e)
                       /\ meta'[t] = [meta[t] EXCEPT !.status = j.outcome]

\* Every step but a restart changes task records only in these ways.
LEMMA MetaStep ==
    ASSUME IInv, [Next]_vars, ~Restart, NEW t \in Tasks
    PROVE  MetaChange(t)
<1>0. TypeOK /\ meta \in [Tasks -> TaskRecords]
  BY DEF IInv, TypeOK
<1> USE DEF ctl
<1>1. CASE UNCHANGED vars
  BY <1>1 DEF vars, MetaChange
<1>2. ASSUME NEW u \in Tasks, Submit(u) \/ SubmitStep(u) \/ FailSubmit(u) \/ LeaseExpires(u)
      PROVE  MetaChange(t)
  <2>1. CASE SubmitCreate(u) /\ SameKey(u) = {} /\ u = t
    <3>1. meta[t] = NoTask
      BY <2>1 DEF IInv, FreshTasks, SubmitCreate
    <3> QED  BY <1>0, <2>1, <3>1 DEF SubmitCreate, MetaChange
  <2>2. CASE ~(SubmitCreate(u) /\ SameKey(u) = {} /\ u = t)
    <3>1. meta'[t] = meta[t]
      BY <1>0, <1>2, <2>2 DEF Submit, SubmitDuplicate, SubmitAdmit, SubmitStep, SubmitAppend,
                              SubmitCreate, SubmitEnqueue, FailSubmit, LeaseExpires
    <3> QED  BY <3>1 DEF MetaChange
  <2> QED  BY <2>1, <2>2
<1>3. ASSUME NEW w \in Workers, PollStep(w) \/ FailRedeliver(w)
      PROVE  MetaChange(t)
  <2>1. CASE PollLease(w)
    <3>1. PICK i \in Assignable(w) : meta' = [meta EXCEPT ![queue[i]] = leaseTask(meta[queue[i]], w)]
      BY <2>1 DEF PollLease
    <3>2. i \in DOMAIN queue /\ queue[i] \in Tasks
      BY <1>0 DEF Assignable, TypeOK
    <3>3. CASE queue[i] = t
      BY <1>0, <2>1, <3>1, <3>2, <3>3 DEF MetaChange
    <3>4. CASE queue[i] # t
      BY <1>0, <3>1, <3>2, <3>4 DEF MetaChange
    <3> QED  BY <3>3, <3>4
  <2>2. CASE PollRequeue(w)
    <3>1. PICK u \in expired : meta' = [meta EXCEPT ![u] = requeueTask(@)]
      BY <2>2 DEF PollRequeue
    <3> QED  BY <1>0, <2>2, <3>1 DEF MetaChange, TypeOK
  <2>3. CASE ~PollLease(w) /\ ~PollRequeue(w)
    <3>1. meta' = meta
      BY <1>3, <2>3 DEF PollStep, PollScan, PollAppend, PollRequeued, PollEnqueue, PollEmpty, FailRedeliver
    <3> QED  BY <3>1 DEF MetaChange
  <2> QED  BY <2>1, <2>2, <2>3
<1>4. ASSUME NEW j \in jobs, JobStep(j) \/ LoseJob(j)
      PROVE  MetaChange(t)
  <2>1. CASE CompleteMeta(j)
    <3>0. j.t \in Tasks
      BY <1>0 DEF TypeOK, Jobs
    <3>1. CASE j.t = t /\ HoldsLease(meta[t], j.w, j.e)
      <4>1. meta'[t] = [meta[t] EXCEPT !.status = j.outcome]
        <5>1. completeTask(meta[t], j.w, j.e, j.outcome) = [meta[t] EXCEPT !.status = j.outcome]
          BY <3>1 DEF completeTask, HoldsLease, Outcomes
        <5>2. LeaseAccepted(meta[t], j.w, j.e)
          BY <3>1 DEF LeaseAccepted
        <5>3. meta' = [meta EXCEPT ![t] = completeTask(@, j.w, j.e, j.outcome)]
          BY <2>1, <3>1, <5>2 DEF CompleteMeta
        <5> QED  BY <1>0, <5>1, <5>3
      <4> QED  BY <2>1, <3>1, <4>1 DEF MetaChange
    <3>2. CASE ~(j.t = t /\ HoldsLease(meta[t], j.w, j.e))
      <4>1. meta'[t] = meta[t]
        BY <1>0, <2>1, <3>0, <3>2 DEF CompleteMeta, LeaseAccepted, completeTask
      <4> QED  BY <4>1 DEF MetaChange
    <3> QED  BY <3>1, <3>2
  <2>2. CASE ~CompleteMeta(j)
    <3>1. meta' = meta
      BY <1>4, <2>2 DEF JobStep, StartValidate, StartAppend, CompleteRead, CompleteValidate, CompleteAppend,
                        CompleteLoad, LoseJob
    <3> QED  BY <3>1 DEF MetaChange
  <2> QED  BY <2>1, <2>2
<1> QED  BY <1>1, <1>2, <1>3, <1>4 DEF Next

\* While the control plane is up, a lease epoch never goes back and a reported outcome
\* never changes, whatever late completions, redeliveries and polls do (internal/metadata,
\* LeaseTask, RequeueTask and CompleteTask).
THEOREM LeaseEpochMonotonicHolds == Spec => LeaseEpochMonotonic
<1>1. ASSUME IInv, [Next]_vars, crashes' = crashes, NEW t \in Tasks
      PROVE  /\ meta'[t].epoch >= meta[t].epoch
             /\ isTerminalTaskStatus(meta[t].status) => meta'[t] = meta[t]
  <2>0. meta[t] \in TaskRecords /\ meta[t].epoch \in Nat /\ crashes \in Nat
    BY <1>1 DEF IInv, TypeOK, TaskRecords
  <2>1. ~Restart
    BY <1>1, <2>0 DEF Restart
  <2>2. MetaChange(t)
    BY <1>1, <2>1, MetaStep
  <2>3. t \in expired => meta[t].status = "RUNNING"
    BY <1>1 DEF IInv, KnownTasks
  <2>4. \A w \in Workers : /\ leaseTask(meta[t], w).epoch >= meta[t].epoch
                           /\ isTerminalTaskStatus(meta[t].status) => leaseTask(meta[t], w) = meta[t]
    BY <2>0 DEF leaseTask
  <2>5. requeueTask(meta[t]).epoch = meta[t].epoch
    BY <2>0 DEF requeueTask, TaskRecords
  <2>6. \A o : [meta[t] EXCEPT !.status = o].epoch = meta[t].epoch
    BY <2>0 DEF TaskRecords
  <2>7. CASE meta[t] = NoTask
    BY <2>0, <2>2, <2>3, <2>4, <2>7 DEF MetaChange, NoTask, HoldsLease, Outcomes
  <2>8. CASE meta[t] # NoTask
    <3>1. CASE t \in expired /\ meta'[t] = requeueTask(meta[t])
      BY <2>0, <2>3, <2>5, <3>1 DEF Outcomes
    <3>2. CASE \E j \in jobs : HoldsLease(meta[t], j.w, j.e) /\ meta'[t] = [meta[t] EXCEPT !.status = j.outcome]
      BY <2>0, <2>6, <3>2 DEF HoldsLease, Outcomes
    <3> QED  BY <2>0, <2>2, <2>4, <2>8, <3>1, <3>2 DEF MetaChange
  <2> QED  BY <2>7, <2>8
<1>2. IInv /\ [Next]_vars =>
        [crashes' = crashes => \A t \in Tasks :
            /\ meta'[t].epoch >= meta[t].epoch
            /\ isTerminalTaskStatus(meta[t].status) => meta'[t] = meta[t]]_vars
  BY <1>1
<1> QED  BY <1>2, Invariance, PTL DEF Spec, LeaseEpochMonotonic

-----------------------------------------------------------------------------
(***************************************************************************)
(* Idempotency keys.                                                       *)
(***************************************************************************)

\* A task appears in the metadata only through CreateTask, which looks its key up, and
\* through bootstrap, which keeps the first task of a key.
LEMMA KeyStep ==
    ASSUME IInv, KeyNamesOneTask, [Next]_vars
    PROVE  KeyNamesOneTask'
<1>0. meta \in [Tasks -> TaskRecords]
  BY DEF IInv, TypeOK
<1>1. CASE Restart
  <2>1. ASSUME NEW t \in Tasks, meta'[t].status # "NONE" PROVE Restored(t)
    BY <1>1, <2>1 DEF Restart, RestoredMeta, NoTask
  <2>2. ASSUME NEW t \in Tasks, NEW u \in Tasks, Restored(t), Restored(u), Key[t] = Key[u], Key[t] # NoKey
        PROVE  t = u
    <3>1. t \in Nat /\ u \in Nat
      BY TasksAssumption
    <3> QED  BY <2>2, <3>1 DEF Restored
  <2> QED  BY <2>1, <2>2 DEF KeyNamesOneTask
<1>2. CASE ~Restart
  <2>1. ASSUME NEW t \in Tasks, meta'[t].status # "NONE", meta[t].status = "NONE"
        PROVE  SubmitCreate(t) /\ SameKey(t) = {}
    <3>1. MetaChange(t)
      BY <1>2, MetaStep
    <3>2. t \notin expired /\ ~\E i \in DOMAIN queue : queue[i] = t
      BY <2>1 DEF IInv, KnownTasks
    <3> QED  BY <2>1, <3>1, <3>2 DEF MetaChange, HoldsLease
  <2>2. ASSUME NEW t \in Tasks, NEW u \in Tasks, t # u, SubmitCreate(t)
        PROVE  meta'[u] = meta[u]
    BY <1>0, <2>2 DEF SubmitCreate
  <2>3. ASSUME NEW t \in Tasks, NEW u \in Tasks, meta'[t].status # "NONE", meta'[u].status # "NONE",
               Key[t] = Key[u], Key[t] # NoKey, t # u
        PROVE  FALSE
    <3>1. CASE meta[t].status = "NONE"
      <4>1. SameKey(t) = {} /\ meta'[u] = meta[u]
        BY <2>1, <2>2, <2>3, <3>1
      <4> QED  BY <2>3, <4>1 DEF SameKey
    <3>2. CASE meta[u].status = "NONE"
      <4>1. SameKey(u) = {} /\ meta'[t] = meta[t]
        BY <2>1, <2>2, <2>3, <3>2
      <4> QED  BY <2>3, <4>1 DEF SameKey
    <3>3. CASE meta[t].status # "NONE" /\ meta[u].status # "NONE"
      BY <2>3, <3>3 DEF KeyNamesOneTask
    <3> QED  BY <3>1, <3>2, <3>3
  <2> QED  BY <2>3 DEF KeyNamesOneTask
<1> QED  BY <1>1, <1>2

\* An idempotency key names one task, however submissions with it race with one another
\* and with restarts: two that both passed the look-up are told apart by CreateTask, and
\* bootstrap keeps the first when the log holds both (enqueueTaskWithMetadata,
\* bootstrapTasks).
THEOREM KeyNamesOneTaskHolds == Spec => []KeyNamesOneTask
<1>1. Init => KeyNamesOneTask
  BY DEF Init, KeyNamesOneTask, NoTask
<1>2. IInv /\ KeyNamesOneTask /\ [Next]_vars => KeyNamesOneTask'
  BY KeyStep
<1> QED  BY <1>1, <1>2, Invariance, PTL DEF Spec

-----------------------------------------------------------------------------
(***************************************************************************)
(* Where queued tasks are.                                                 *)
(***************************************************************************)

InQueue(t) == \E i \in DOMAIN queue : queue[i] = t
InGot(w, t) == \E i \in DOMAIN poll[w].got : poll[w].got[i][1] = t

\* A task is in one place only: with its submission, with one poll, or in the queue.
OnePlace ==
    /\ \A t \in Tasks : sub[t] = "enqueue" => ~InQueue(t) /\ \A w \in Workers : ~InGot(w, t)
    /\ \A w \in Workers, t \in Tasks : InGot(w, t) => ~InQueue(t)
    /\ \A v, w \in Workers : \A i \in DOMAIN poll[v].got, k \in DOMAIN poll[w].got :
          poll[v].got[i][1] = poll[w].got[k][1] => v = w /\ i = k

\* A poll holds requeued tasks only until it has put them in the queue.
GotHeld == \A w \in Workers : poll[w].pc \notin {"requeue", "enqueue"} => poll[w].got = <<>>

QInv == QueueExact /\ OnePlace /\ GotHeld

\* A step that moves no task keeps the places exact.
LEMMA QuietStep ==
    ASSUME TypeOK, QInv, queue' = queue, GotHeld',
           \A w \in Workers : poll'[w].got = poll[w].got,
           \A t \in Tasks : meta'[t].status = "QUEUED" <=> meta[t].status = "QUEUED",
           \A t \in Tasks : sub'[t] = "enqueue" <=> sub[t] = "enqueue"
    PROVE  QInv'
<1>1. QueueExact'
  BY DEF QInv, QueueExact, InHand
<1>2. OnePlace'
  BY DEF QInv, OnePlace, InQueue, InGot
<1> QED  BY <1>1, <1>2 DEF QInv

\* So do all steps of SubmitTask.
LEMMA SubmitQueue ==
    ASSUME IInv, QInv, NEW t \in Tasks, Submit(t) \/ SubmitStep(t) \/ FailSubmit(t) \/ LeaseExpires(t)
    PROVE  QInv'
<1> USE DEF ctl
<1>0. TypeOK /\ KnownTasks /\ FreshTasks
  BY DEF IInv
<1>1. poll' = poll
  BY DEF Submit, SubmitDuplicate, SubmitAdmit, SubmitStep, SubmitAppend, SubmitCreate, SubmitEnqueue,
         FailSubmit, LeaseExpires
<1>2. GotHeld'
  BY <1>1 DEF QInv, GotHeld
<1>3. CASE SubmitCreate(t) /\ meta' # meta
  <2>1. /\ sub[t] = "create" /\ sub' = [sub EXCEPT ![t] = "enqueue"] /\ queue' = queue
        /\ meta' = [meta EXCEPT ![t] = [NoTask EXCEPT !.status = "QUEUED"]]
    BY <1>3 DEF SubmitCreate
  <2>2. meta[t].status # "QUEUED"
    BY <1>0, <2>1 DEF FreshTasks, NoTask
  <2>3. ~InQueue(t) /\ \A w \in Workers : ~InGot(w, t)
    BY <1>0, <2>2 DEF QInv, QueueExact, InHand, InQueue, InGot
  <2>4. \A u \in Tasks : u # t => meta'[u] = meta[u] /\ sub'[u] = sub[u]
    BY <1>0, <2>1 DEF TypeOK
  <2>5. sub'[t] = "enqueue" /\ meta'[t].status = "QUEUED"
    BY <1>0, <2>1 DEF TypeOK, NoTask
  <2>6. QueueExact'
    BY <1>1, <2>1, <2>4, <2>5 DEF QInv, QueueExact, InHand
  <2>7. OnePlace'
    BY <1>1, <2>1, <2>3, <2>4 DEF QInv, OnePlace, InQueue, InGot
  <2> QED  BY <1>2, <2>6, <2>7 DEF QInv
<1>4. CASE SubmitEnqueue(t)
  <2>1. /\ sub[t] = "enqueue" /\ sub' = [sub EXCEPT ![t] = "done"] /\ queue' = Append(queue, t)
        /\ meta' = meta
    BY <1>4 DEF SubmitEnqueue
  <2>2. ~InQueue(t) /\ \A w \in Workers : ~InGot(w, t)
    BY <2>1 DEF QInv, OnePlace
  <2>3. /\ DOMAIN queue = 1 .. Len(queue) /\ DOMAIN queue' = 1 .. Len(queue) + 1 /\ Len(queue) \in Nat
        /\ \A i \in DOMAIN queue : queue'[i] = queue[i]
        /\ queue'[Len(queue) + 1] = t
    BY <1>0, <2>1 DEF TypeOK
  <2>4. \A u \in Tasks : InQueue(u)' <=> InQueue(u) \/ u = t
    BY <2>3 DEF InQueue
  <2>5. \A u \in Tasks : sub'[u] = "enqueue" <=> sub[u] = "enqueue" /\ u # t
    BY <1>0, <2>1 DEF TypeOK
  <2>6. \A i, k \in DOMAIN queue' : queue'[i] = queue'[k] => i = k
    BY <2>2, <2>3 DEF QInv, QueueExact, InQueue
  <2>7. \A u \in Tasks : meta[u].status = "QUEUED" <=> InHand(u) \/ InQueue(u)
    BY DEF QInv, QueueExact, InQueue
  <2>8. \A u \in Tasks : InHand(u)' \/ InQueue(u)' <=> InHand(u) \/ InQueue(u)
    BY <1>1, <2>1, <2>4, <2>5 DEF InHand
  <2>9. QueueExact'
    BY <2>1, <2>6, <2>7, <2>8 DEF QueueExact, InQueue
  <2>10. OnePlace'
    BY <1>1, <2>2, <2>4, <2>5 DEF QInv, OnePlace, InGot
  <2> QED  BY <1>2, <2>9, <2>10 DEF QInv
<1>5. CASE ~(SubmitCreate(t) /\ meta' # meta) /\ ~SubmitEnqueue(t)
  <2>1. queue' = queue /\ meta' = meta
    BY <1>5 DEF Submit, SubmitDuplicate, SubmitAdmit, SubmitStep, SubmitAppend, SubmitCreate,
                FailSubmit, LeaseExpires
  <2>2. \A u \in Tasks : sub'[u] = "enqueue" <=> sub[u] = "enqueue"
    <3>1. ASSUME SubmitCreate(t) PROVE sub' = [sub EXCEPT ![t] = "done"] /\ sub[t] = "create"
      <4>1. sub[t] = "create" /\ meta[t] = NoTask
        BY <1>0, <3>1 DEF SubmitCreate, FreshTasks
      <4>2. meta' # [meta EXCEPT ![t] = [NoTask EXCEPT !.status = "QUEUED"]]
        BY <1>0, <2>1, <4>1 DEF TypeOK, NoTask
      <4> QED  BY <3>1, <4>1, <4>2 DEF SubmitCreate
    <3> QED  BY <1>0, <1>5, <3>1 DEF TypeOK, Submit, SubmitDuplicate, SubmitAdmit, SubmitStep, SubmitAppend,
                                     FailSubmit, LeaseExpires
  <2> QED  BY <1>0, <1>1, <1>2, <2>1, <2>2, QuietStep
<1> QED  BY <1>3, <1>4, <1>5

\* Job steps move no task in or out of the queue: a lease is accepted only while it runs.
LEMMA JobQueue ==
    ASSUME IInv, OutcomesSet, QInv, NEW j \in jobs, JobStep(j) \/ LoseJob(j)
    PROVE  QInv'
<1> USE DEF ctl
<1>0. TypeOK /\ j.t \in Tasks
  BY DEF IInv, TypeOK, Jobs
<1>1. queue' = queue /\ poll' = poll /\ sub' = sub
  BY DEF JobStep, StartValidate, StartAppend, CompleteRead, CompleteValidate, CompleteAppend,
         CompleteMeta, CompleteLoad, LoseJob
<1>2. ASSUME NEW t \in Tasks PROVE meta'[t].status = "QUEUED" <=> meta[t].status = "QUEUED"
  <2>1. CASE CompleteMeta(j)
    <3>1. j.outcome \in Outcomes
      BY <2>1 DEF CompleteMeta, OutcomesSet, CompletePCs
    <3>2. meta'[t] = meta[t] \/ (LeaseAccepted(meta[t], j.w, j.e) /\ meta'[t] = completeTask(meta[t], j.w, j.e, j.outcome))
      BY <1>0, <2>1 DEF CompleteMeta, TypeOK
    <3>3. meta[t] \in TaskRecords
      BY <1>0 DEF TypeOK
    <3> QED  BY <3>1, <3>2, <3>3 DEF LeaseAccepted, HoldsLease, completeTask, Outcomes, TaskRecords
  <2>2. CASE ~CompleteMeta(j)
    <3>1. meta' = meta
      BY <2>2 DEF JobStep, StartValidate, StartAppend, CompleteRead, CompleteValidate, CompleteAppend,
                  CompleteLoad, LoseJob
    <3> QED  BY <3>1
  <2> QED  BY <2>1, <2>2
<1>3. GotHeld'
  BY <1>1 DEF QInv, GotHeld
<1> QED  BY <1>0, <1>1, <1>2, <1>3, QuietStep

\* Taking one element out of a sequence without repetitions leaves the others.
LEMMA RemoveIndexRange ==
    ASSUME NEW S, NEW q \in Seq(S), NEW i \in DOMAIN q, \A k, l \in DOMAIN q : q[k] = q[l] => k = l
    PROVE  LET r == RemoveIndex(q, i) IN
           /\ \A k, l \in DOMAIN r : r[k] = r[l] => k = l
           /\ \A x : (\E k \in DOMAIN r : r[k] = x) <=> (x # q[i] /\ \E k \in DOMAIN q : q[k] = x)
<1> DEFINE r == RemoveIndex(q, i)
<1>1. DOMAIN q = 1 .. Len(q) /\ Len(q) \in Nat /\ i \in 1 .. Len(q)
  OBVIOUS
<1>2. DOMAIN r = 1 .. Len(q) - 1 /\ \A k \in 1 .. Len(q) - 1 : r[k] = q[IF k < i THEN k ELSE k + 1]
  BY DEF RemoveIndex
<1>3. ASSUME NEW k \in 1 .. Len(q) - 1
      PROVE  (IF k < i THEN k ELSE k + 1) \in DOMAIN q /\ (IF k < i THEN k ELSE k + 1) # i
  BY <1>1
<1>4. ASSUME NEW k \in 1 .. Len(q) - 1, NEW l \in 1 .. Len(q) - 1,
             (IF k < i THEN k ELSE k + 1) = (IF l < i THEN l ELSE l + 1)
      PROVE  k = l
  BY <1>1, <1>4
<1>5. ASSUME NEW k \in DOMAIN q, k # i
      PROVE  \E l \in 1 .. Len(q) - 1 : (IF l < i THEN l ELSE l + 1) = k
  <2>1. CASE k < i
    <3>1. k \in 1 .. Len(q) - 1
      BY <1>1, <2>1
    <3> QED  BY <2>1, <3>1
  <2>2. CASE k > i
    <3>1. k - 1 \in 1 .. Len(q) - 1 /\ ~(k - 1 < i) /\ (k - 1) + 1 = k
      BY <1>1, <2>2
    <3> QED  BY <3>1
  <2> QED  BY <1>1, <1>5, <2>1, <2>2
<1>6. \A k, l \in DOMAIN r : r[k] = r[l] => k = l
  <2> HIDE DEF r
  <2> QED  BY <1>2, <1>3, <1>4
<1>7. ASSUME NEW x
      PROVE (\E k \in DOMAIN r : r[k] = x) <=> (x # q[i] /\ \E k \in DOMAIN q : q[k] = x)
  <2> HIDE DEF r
  <2>1. ASSUME NEW k \in DOMAIN r, r[k] = x PROVE x # q[i] /\ \E l \in DOMAIN q : q[l] = x
    BY <1>2, <1>3, <2>1
  <2>2. ASSUME x # q[i], NEW k \in DOMAIN q, q[k] = x PROVE \E l \in DOMAIN r : r[l] = x
    <3>1. k # i
      BY <2>2
    <3>2. PICK l \in 1 .. Len(q) - 1 : (IF l < i THEN l ELSE l + 1) = k
      BY <1>5, <3>1
    <3> QED  BY <1>2, <2>2, <3>2
  <2> QED  BY <2>1, <2>2
<1> QED  BY <1>6, <1>7

\* Steps of PollTask: a redelivered task goes from its lease to the poll, from there to
\* the queue, and leaves the queue with the next lease.
LEMMA PollQueue ==
    ASSUME IInv, QInv, NEW w \in Workers, PollStep(w) \/ FailRedeliver(w)
    PROVE  QInv'
<1> USE DEF ctl
<1>0. TypeOK /\ KnownTasks /\ TypeOK'
  BY PollType DEF IInv
<1>p. /\ poll \in [Workers -> Polls] /\ poll[w] \in Polls /\ poll' \in [Workers -> Polls]
      /\ \A v \in Workers : poll[v].got \in Seq(Tasks \X (Workers \cup {NoWorker}))
      /\ \A v \in Workers : poll'[v].got \in Seq(Tasks \X (Workers \cup {NoWorker}))
  BY <1>0 DEF TypeOK, Polls
<1>q. \A u \in Tasks : meta[u].status = "QUEUED" <=> InHand(u) \/ InQueue(u)
  BY DEF QInv, QueueExact, InQueue
<1>h. \A u \in Tasks : InHand(u) <=> sub[u] = "enqueue" \/ \E v \in Workers : InGot(v, u)
  BY DEF InHand, InGot
<1>i. \A u \in Tasks : InHand(u)' <=> sub'[u] = "enqueue" \/ \E v \in Workers : InGot(v, u)'
  BY DEF InHand, InGot
<1>1. CASE PollScan(w) \/ PollAppend(w) \/ PollRequeued(w) \/ PollEmpty(w) \/ FailRedeliver(w)
  <2>1. meta' = meta /\ queue' = queue /\ sub' = sub
    BY <1>1 DEF PollScan, PollAppend, PollRequeued, PollEmpty, FailRedeliver
  <2>2. \A v \in Workers : v # w => poll'[v] = poll[v]
    BY <1>p, <1>1 DEF PollScan, PollAppend, PollRequeued, PollEmpty, FailRedeliver
  <2>3. poll'[w].got = poll[w].got /\ (poll'[w].pc \notin {"requeue", "enqueue"} => poll'[w].got = <<>>)
    <3>1. CASE PollScan(w)
      BY <1>p, <3>1 DEF PollScan, LoopFree, QInv, GotHeld, Polls
    <3>2. CASE PollRequeued(w)
      BY <1>p, <3>2 DEF PollRequeued, Polls
    <3>3. CASE PollEmpty(w) \/ FailRedeliver(w)
      BY <1>p, <3>3 DEF PollEmpty, FailRedeliver, QInv, GotHeld, IdlePoll
    <3>4. CASE PollAppend(w)
      <4>1. poll[w].pc = "append" /\ poll[w].got = <<>>
        BY <3>4 DEF PollAppend, QInv, GotHeld
      <4>2. PICK item \in poll[w].todo :
               \/ poll' = [poll EXCEPT ![w].todo = @ \ {item},
                                       ![w].pc = IF poll[w].todo = {item} THEN "requeue" ELSE @]
               \/ poll' = [poll EXCEPT ![w] = IdlePoll]
        BY <3>4 DEF PollAppend
      <4> QED  BY <1>p, <4>1, <4>2 DEF Polls, IdlePoll
    <3> QED  BY <1>1, <3>1, <3>2, <3>3, <3>4
  <2>4. GotHeld'
    BY <2>2, <2>3 DEF QInv, GotHeld
  <2>5. \A v \in Workers : poll'[v].got = poll[v].got
    BY <2>2, <2>3
  <2> QED  BY <1>0, <2>1, <2>4, <2>5, QuietStep
<1>2. CASE PollRequeue(w)
  <2>1. PICK t \in expired :
           /\ meta' = [meta EXCEPT ![t] = requeueTask(@)]
           /\ poll' = [poll EXCEPT ![w].got = Append(@, <<t, meta[t].worker>>)]
    BY <1>2 DEF PollRequeue
  <2>2. queue' = queue /\ sub' = sub /\ t \in Tasks /\ meta[t].status = "RUNNING"
    BY <1>0, <1>2 DEF PollRequeue, TypeOK, KnownTasks
  <2>3. ~InHand(t) /\ ~InQueue(t)
    BY <1>q, <2>2
  <2>4. /\ poll'[w].got = Append(poll[w].got, <<t, meta[t].worker>>) /\ poll'[w].pc = poll[w].pc
        /\ \A v \in Workers : v # w => poll'[v] = poll[v]
    BY <1>p, <2>1 DEF Polls
  <2>5. /\ DOMAIN poll[w].got = 1 .. Len(poll[w].got) /\ Len(poll[w].got) \in Nat
        /\ DOMAIN poll'[w].got = 1 .. Len(poll[w].got) + 1
        /\ \A i \in DOMAIN poll[w].got : poll'[w].got[i] = poll[w].got[i]
        /\ poll'[w].got[Len(poll[w].got) + 1] = <<t, meta[t].worker>>
    BY <1>p, <2>4
  <2>5a. /\ \A i \in DOMAIN poll'[w].got : i \in DOMAIN poll[w].got \/ i = Len(poll[w].got) + 1
         /\ \A i \in DOMAIN poll[w].got : i \in DOMAIN poll'[w].got /\ poll'[w].got[i][1] = poll[w].got[i][1]
         /\ Len(poll[w].got) + 1 \in DOMAIN poll'[w].got /\ poll'[w].got[Len(poll[w].got) + 1][1] = t
    <3>1. <<t, meta[t].worker>>[1] = t
      OBVIOUS
    <3> QED  BY <2>5, <3>1
  <2>6. \A v \in Workers, u \in Tasks : InGot(v, u)' <=> InGot(v, u) \/ (v = w /\ u = t)
    <3>1. ASSUME NEW u \in Tasks PROVE InGot(w, u)' <=> InGot(w, u) \/ u = t
      BY <2>5a DEF InGot
    <3>2. ASSUME NEW v \in Workers, NEW u \in Tasks, v # w PROVE InGot(v, u)' <=> InGot(v, u)
      BY <2>4, <3>2 DEF InGot
    <3> QED  BY <3>1, <3>2
  <2>7. \A u \in Tasks : InQueue(u)' <=> InQueue(u)
    BY <2>2 DEF InQueue
  <2>8. \A u \in Tasks : meta'[u].status = "QUEUED" <=> meta[u].status = "QUEUED" \/ u = t
    <3>1. meta'[t].status = "QUEUED"
      BY <1>0, <2>1, <2>2 DEF TypeOK, TaskRecords, requeueTask
    <3> QED  BY <1>0, <2>1, <2>2, <3>1 DEF TypeOK
  <2>9. QueueExact'
    <3>1. \A u \in Tasks : meta'[u].status = "QUEUED" <=> InHand(u)' \/ InQueue(u)'
      BY <1>q, <1>h, <1>i, <2>2, <2>6, <2>7, <2>8
    <3> QED  BY <2>2, <3>1 DEF QInv, QueueExact, InQueue
  <2>10. OnePlace'
    <3>1. \A v \in Workers : ~InGot(v, t)
      BY <1>h, <2>2, <2>3
    <3>2. sub[t] # "enqueue"
      BY <1>h, <2>2, <2>3
    <3>3. ASSUME NEW v \in Workers, NEW x \in Workers,
                 NEW i \in DOMAIN poll'[v].got, NEW k \in DOMAIN poll'[x].got,
                 poll'[v].got[i][1] = poll'[x].got[k][1]
          PROVE  v = x /\ i = k
      <4>1. ASSUME NEW y \in Workers, NEW l \in DOMAIN poll'[y].got
            PROVE  \/ y = w /\ l = Len(poll[w].got) + 1 /\ poll'[y].got[l][1] = t
                   \/ l \in DOMAIN poll[y].got /\ poll'[y].got[l] = poll[y].got[l] /\ poll[y].got[l][1] # t
        <5>1. CASE y = w
          BY <2>2, <2>5, <2>5a, <3>1, <4>1, <5>1 DEF InGot
        <5>2. CASE y # w
          BY <2>2, <2>4, <3>1, <4>1, <5>2 DEF InGot
        <5> QED  BY <5>1, <5>2
      <4> QED  BY <3>3, <4>1 DEF QInv, OnePlace
    <3> QED  BY <2>2, <2>3, <2>6, <2>7, <3>2, <3>3 DEF QInv, OnePlace
  <2>11. GotHeld'
    BY <1>2, <2>4 DEF PollRequeue, QInv, GotHeld
  <2> QED  BY <2>9, <2>10, <2>11 DEF QInv
<1>3. CASE PollEnqueue(w)
  <2> DEFINE g == poll[w].got
             add == [i \in DOMAIN g |-> g[i][1]]
  <2>1. /\ meta' = meta /\ sub' = sub /\ queue' = queue \o add
        /\ poll' = [poll EXCEPT ![w].pc = "lease", ![w].got = <<>>]
    BY <1>3 DEF PollEnqueue
  <2>2. /\ poll'[w].pc = "lease" /\ poll'[w].got = <<>>
        /\ \A v \in Workers : v # w => poll'[v] = poll[v]
    BY <1>p, <2>1 DEF Polls
  <2>3. g \in Seq(Tasks \X (Workers \cup {NoWorker})) /\ add \in Seq(Tasks) /\ Len(add) = Len(g)
        /\ DOMAIN g = 1 .. Len(g) /\ Len(g) \in Nat
    <3>1. DOMAIN g = 1 .. Len(g) /\ Len(g) \in Nat
      BY <1>p
    <3>2. \A i \in 1 .. Len(g) : g[i][1] \in Tasks
      BY <1>p
    <3> QED  BY <1>p, <3>1, <3>2
  <2>4. queue \in Seq(Tasks) /\ Len(queue) \in Nat /\ DOMAIN queue = 1 .. Len(queue)
    BY <1>0 DEF TypeOK
  <2>5. /\ DOMAIN queue' = 1 .. Len(queue) + Len(g)
        /\ \A i \in DOMAIN queue : queue'[i] = queue[i]
        /\ \A i \in DOMAIN g : queue'[Len(queue) + i] = g[i][1]
    <3> HIDE DEF add
    <3>1. /\ Len(queue') = Len(queue) + Len(add)
          /\ \A i \in 1 .. Len(queue) + Len(add) :
               queue'[i] = IF i <= Len(queue) THEN queue[i] ELSE add[i - Len(queue)]
      BY <2>1, <2>3, <2>4, ConcatProperties
    <3>1a. queue' \in Seq(Tasks)
      BY <1>0 DEF TypeOK
    <3>2. \A i \in DOMAIN g : Len(queue) + i \in 1 .. Len(queue) + Len(add)
                              /\ ~(Len(queue) + i <= Len(queue)) /\ (Len(queue) + i) - Len(queue) = i
      BY <2>3, <2>4
    <3>3. \A i \in DOMAIN g : add[i] = g[i][1]
      BY DEF add
    <3>4. DOMAIN queue' = 1 .. Len(queue) + Len(g)
      <4>1. DOMAIN queue' = 1 .. Len(queue')
        BY <3>1a
      <4> QED  BY <2>3, <3>1, <4>1
    <3>5. \A i \in DOMAIN queue : queue'[i] = queue[i]
      BY <2>3, <2>4, <3>1
    <3>6. ASSUME NEW i \in DOMAIN g PROVE queue'[Len(queue) + i] = g[i][1]
      BY <3>1, <3>2, <3>3
    <3> HIDE DEF g
    <3> QED  BY <3>4, <3>5, <3>6
  <2>6. \A k \in DOMAIN queue' : k \in DOMAIN queue \/ (k - Len(queue) \in DOMAIN g /\ queue'[k] = g[k - Len(queue)][1])
    <3>1. ASSUME NEW k \in DOMAIN queue', k \notin DOMAIN queue PROVE k - Len(queue) \in DOMAIN g /\ Len(queue) + (k - Len(queue)) = k
      BY <2>3, <2>4, <2>5, <3>1
    <3> QED  BY <2>5, <3>1
  <2> HIDE DEF g, add
  <2>7. \A u \in Tasks : InQueue(u)' <=> InQueue(u) \/ InGot(w, u)
    <3>1. ASSUME NEW u \in Tasks, InQueue(u)' PROVE InQueue(u) \/ InGot(w, u)
      BY <2>5, <2>6, <3>1 DEF InQueue, InGot, g
    <3>2. ASSUME NEW u \in Tasks, InQueue(u) PROVE InQueue(u)'
      BY <2>3, <2>4, <2>5, <3>2 DEF InQueue
    <3>3. ASSUME NEW u \in Tasks, InGot(w, u) PROVE InQueue(u)'
      <4>1. PICK i \in DOMAIN g : g[i][1] = u
        BY <3>3 DEF InGot, g
      <4>2. Len(queue) + i \in DOMAIN queue'
        BY <2>3, <2>4, <2>5
      <4> QED  BY <2>5, <4>1, <4>2 DEF InQueue
    <3> QED  BY <3>1, <3>2, <3>3
  <2>8. \A v \in Workers, u \in Tasks : InGot(v, u)' <=> InGot(v, u) /\ v # w
    BY <2>2 DEF InGot
  <2>9. QueueExact'
    <3>1. \A u \in Tasks : meta'[u].status = "QUEUED" <=> InHand(u)' \/ InQueue(u)'
      BY <1>q, <1>h, <1>i, <2>1, <2>7, <2>8
    <3>2. \A i, k \in DOMAIN queue' : queue'[i] = queue'[k] => i = k
      <4>1. ASSUME NEW i \in DOMAIN queue, NEW k \in DOMAIN queue', k \notin DOMAIN queue
            PROVE  queue'[i] # queue'[k]
        <5>1. k - Len(queue) \in DOMAIN g /\ queue'[k] = g[k - Len(queue)][1] /\ g[k - Len(queue)][1] \in Tasks
          BY <2>3, <2>6, <4>1
        <5>2. InGot(w, queue'[k])
          BY <5>1 DEF InGot, g
        <5>3. ~InQueue(queue'[k])
          BY <5>1, <5>2 DEF QInv, OnePlace
        <5> QED  BY <2>5, <5>3 DEF InQueue
      <4>2. ASSUME NEW i \in DOMAIN queue', NEW k \in DOMAIN queue', i \notin DOMAIN queue, k \notin DOMAIN queue,
                   queue'[i] = queue'[k]
            PROVE  i = k
        <5>1. i - Len(queue) = k - Len(queue)
          BY <2>6, <4>2 DEF QInv, OnePlace, g
        <5> QED  BY <2>3, <2>4, <2>5, <5>1
      <4>3. ASSUME NEW i \in DOMAIN queue, NEW k \in DOMAIN queue, queue'[i] = queue'[k] PROVE i = k
        BY <2>5, <4>3 DEF QInv, QueueExact
      <4> QED  BY <4>1, <4>2, <4>3
    <3> QED  BY <3>1, <3>2 DEF QueueExact, InQueue
  <2>10. OnePlace'
    <3>1. \A v, x \in Workers : \A i \in DOMAIN poll'[v].got, k \in DOMAIN poll'[x].got :
            poll'[v].got[i][1] = poll'[x].got[k][1] => v = x /\ i = k
      BY <2>2 DEF QInv, OnePlace
    <3>2. ASSUME NEW v \in Workers, NEW u \in Tasks, InGot(v, u), InGot(w, u) PROVE v = w
      BY <3>2 DEF QInv, OnePlace, InGot
    <3> QED  BY <2>1, <2>7, <2>8, <3>1, <3>2 DEF QInv, OnePlace
  <2>11. GotHeld'
    BY <2>2 DEF QInv, GotHeld
  <2> QED  BY <2>9, <2>10, <2>11 DEF QInv
<1>4. CASE PollLease(w)
  <2>1. PICK i \in Assignable(w) : /\ meta' = [meta EXCEPT ![queue[i]] = leaseTask(meta[queue[i]], w)]
                                   /\ queue' = RemoveIndex(queue, i)
    BY <1>4 DEF PollLease
  <2> DEFINE t == queue[i]
  <2>2. i \in DOMAIN queue /\ t \in Tasks /\ queue \in Seq(Tasks)
    BY <1>0 DEF Assignable, TypeOK
  <2>3. poll' = [poll EXCEPT ![w] = IdlePoll] /\ sub' = sub /\ poll[w].pc = "lease"
    BY <1>4 DEF PollLease
  <2>4. \A v \in Workers : poll'[v].got = poll[v].got
    BY <1>p, <2>3 DEF QInv, GotHeld, IdlePoll
  <2>5. GotHeld'
    BY <1>p, <2>3 DEF QInv, GotHeld, IdlePoll
  <2>6. /\ \A k, l \in DOMAIN queue' : queue'[k] = queue'[l] => k = l
        /\ \A u \in Tasks : InQueue(u)' <=> InQueue(u) /\ u # t
    BY <2>1, <2>2, RemoveIndexRange DEF QInv, QueueExact, InQueue
  <2>7. meta[t].status = "QUEUED" /\ meta'[t].status = "RUNNING"
    <3>1. meta[t].status = "QUEUED"
      BY <1>q, <2>2 DEF InQueue
    <3> QED  BY <1>0, <2>1, <2>2, <3>1 DEF TypeOK, leaseTask, Outcomes
  <2>8. \A u \in Tasks : meta'[u].status = "QUEUED" <=> meta[u].status = "QUEUED" /\ u # t
    BY <1>0, <2>1, <2>2, <2>7 DEF TypeOK
  <2>9. \A v \in Workers, u \in Tasks : InGot(v, u)' <=> InGot(v, u)
    BY <2>4 DEF InGot
  <2>10. ~InHand(t) /\ InQueue(t)
    BY <1>h, <2>2 DEF QInv, OnePlace, InQueue
  <2>11. QueueExact'
    <3>1. \A u \in Tasks : meta'[u].status = "QUEUED" <=> InHand(u)' \/ InQueue(u)'
      BY <1>q, <1>h, <1>i, <2>3, <2>6, <2>8, <2>9, <2>10
    <3> QED  BY <2>6, <3>1 DEF QueueExact, InQueue
  <2>12. OnePlace'
    BY <2>3, <2>4, <2>6, <2>9 DEF QInv, OnePlace
  <2> QED  BY <2>5, <2>11, <2>12 DEF QInv
<1> QED  BY <1>1, <1>2, <1>3, <1>4 DEF PollStep

\* Bootstrap queues what it restores as queued, once each; no handler is left.
LEMMA RestartQueue ==
    ASSUME IInv, Restart
    PROVE  QInv'
<1> DEFINE S == {t \in Tasks : RestoredMeta[t].status = "QUEUED"}
<1>1. /\ queue' \in [1 .. Cardinality(S) -> S]
      /\ \A i, j \in DOMAIN queue' : i < j => queue'[i] < queue'[j]
      /\ \A t \in S : \E i \in DOMAIN queue' : queue'[i] = t
  BY DEF Restart, Ascending
<1>2. IsFiniteSet(S) /\ Cardinality(S) \in Nat /\ S \subseteq Nat
  BY TasksAssumption, FS_Subset, FS_CardinalityType
<1>3. meta' = RestoredMeta /\ \A w \in Workers : poll'[w] = IdlePoll
  BY DEF Restart
<1>4. \A t \in Tasks : sub'[t] # "enqueue"
  BY DEF Restart
<1>5. \A w \in Workers : poll'[w].got = <<>> /\ DOMAIN poll'[w].got = {}
  BY <1>3 DEF IdlePoll
<1>6. \A t \in Tasks : meta'[t].status = "QUEUED" <=> t \in S
  BY <1>3
<1> HIDE DEF S
<1>7. \A i, k \in DOMAIN queue' : queue'[i] = queue'[k] => i = k
  <2>1. ASSUME NEW i \in DOMAIN queue' PROVE queue'[i] \in Nat /\ i \in Nat
    <3>1. DOMAIN queue' = 1 .. Cardinality(S) /\ \A k \in 1 .. Cardinality(S) : queue'[k] \in S
      BY <1>1
    <3>2. i \in 1 .. Cardinality(S) /\ queue'[i] \in S
      BY <3>1
    <3>3. queue'[i] \in Nat
      BY <1>2, <3>2, Zenon
    <3>4. i \in Nat
      BY <3>2
    <3> QED  BY <3>3, <3>4
  <2> QED  BY <1>1, <2>1
<1>8. \A t \in Tasks : (\E i \in DOMAIN queue' : queue'[i] = t) <=> t \in S
  <2>1. \A k \in DOMAIN queue' : queue'[k] \in S
    BY <1>1
  <2> QED  BY <1>1, <2>1
<1>9. QueueExact'
  BY <1>4, <1>5, <1>6, <1>7, <1>8 DEF QueueExact, InHand
<1>10. OnePlace' /\ GotHeld'
  BY <1>4, <1>5 DEF OnePlace, GotHeld, InGot
<1> QED  BY <1>9, <1>10 DEF QInv

\* Every step keeps the places exact.
LEMMA QueueStep ==
    ASSUME IInv, OutcomesSet, QInv, [Next]_vars
    PROVE  QInv'
<1>1. CASE UNCHANGED vars
  BY <1>1 DEF vars, QInv, QueueExact, OnePlace, GotHeld, InHand, InQueue, InGot
<1>2. CASE Next
  BY <1>2, SubmitQueue, PollQueue, JobQueue, RestartQueue DEF Next
<1> QED  BY <1>1, <1>2

\* The places are exact in every reachable state.
LEMMA QueueInvariance == Spec => []QInv
<1>1. Init => QInv
  BY DEF Init, QInv, QueueExact, OnePlace, GotHeld, InHand, InQueue, InGot, NoTask, IdlePoll
<1>2. IInv /\ OutcomesSet /\ QInv /\ [Next]_vars => QInv'
  BY QueueStep
<1> QED  BY <1>1, <1>2, Invariance, PTL DEF Spec

\* A queued task is in the queue exactly once or in the hands of the one handler that
\* will put it there, and nothing else is ever in the queue: no interleaving of
\* submissions, redeliveries by several polls, completions and restarts loses a task or
\* hands it out twice for one enqueue (enqueueTaskWithMetadata,
\* redeliverExpiredTasksLegacy, pollTaskLegacy, bootstrapTasks).
THEOREM QueueExactHolds == Spec => []QueueExact
<1>1. QInv => QueueExact
  BY DEF QInv
<1> QED  BY <1>1, QueueInvariance, PTL

-----------------------------------------------------------------------------
(***************************************************************************)
(* One call at a time per worker.                                          *)
(***************************************************************************)

\* The Run loop of a worker is in one CompleteTask or in one PollTask.
OneCall ==
    /\ \A j \in jobs : j.pc \in CompletePCs => poll[j.w].pc = "idle"
    /\ \A j, k \in jobs : j.w = k.w /\ j.pc \in CompletePCs /\ k.pc \in CompletePCs => j = k

\* A completion whose lease is still the current one has read the task as running: a
\* lease of its worker cannot be handed out behind its back.
SeenHolds == \A j \in jobs : j.pc \in CompletePCs /\ HoldsLease(meta[j.t], j.w, j.e) => j.seen

CInv == OneCall /\ SeenHolds

\* What a job step does to jobs: j goes, or is replaced by one job of the same lease, and
\* a completion begins only from a free loop.
JobEffect(j, k) ==
    /\ jobs' = (jobs \ {j}) \cup {k}
    /\ k.t = j.t /\ k.w = j.w /\ k.e = j.e
    /\ k.pc \in CompletePCs =>
          \/ j.pc \in CompletePCs /\ k.seen = j.seen
          \/ j.pc = "executing" /\ LoopFree(j.w) /\ k.seen = (meta[j.t].status = "RUNNING")
    /\ k.pc = "c_load" => CompleteMeta(j)

LEMMA JobChange ==
    ASSUME TypeOK, NEW j \in jobs, JobStep(j) \/ LoseJob(j)
    PROVE  poll' = poll /\ (jobs' = jobs \ {j} \/ \E k \in Jobs : JobEffect(j, k))
<1>0. j \in Jobs
  BY DEF TypeOK
<1>1. poll' = poll
  BY DEF JobStep, StartValidate, StartAppend, CompleteRead, CompleteValidate, CompleteAppend,
         CompleteMeta, CompleteLoad, LoseJob
<1>2. ASSUME NEW pc \in WorkerPCs \cup HandlerPCs, MoveJob(j, pc),
             pc \in CompletePCs => j.pc \in CompletePCs, pc = "c_load" => CompleteMeta(j)
      PROVE  \E k \in Jobs : JobEffect(j, k)
  <2> DEFINE k == [j EXCEPT !.pc = pc]
  <2>1. k \in Jobs /\ k.t = j.t /\ k.w = j.w /\ k.e = j.e /\ k.pc = pc /\ k.seen = j.seen
    BY <1>0 DEF Jobs
  <2>2. jobs' = (jobs \ {j}) \cup {k}
    BY <1>2 DEF MoveJob
  <2> HIDE DEF k
  <2> QED  BY <1>2, <2>1, <2>2 DEF JobEffect
<1> USE DEF WorkerPCs, HandlerPCs, CompletePCs
<1>3. CASE StartValidate(j)
  BY <1>1, <1>2, <1>3 DEF StartValidate, EndJob
<1>4. CASE StartAppend(j)
  BY <1>1, <1>2, <1>4 DEF StartAppend, EndJob
<1>5. CASE CompleteRead(j)
  <2>1. CASE jobs' = jobs \ {j}
    BY <1>1, <2>1
  <2>2. CASE jobs' # jobs \ {j}
    <3>1. PICK o \in Outcomes :
             jobs' = (jobs \ {j}) \cup {[j EXCEPT !.pc = "c_valid", !.outcome = o,
                                                  !.seen = meta[j.t].status = "RUNNING"]}
      BY <1>5, <2>2 DEF CompleteRead, EndJob
    <3> DEFINE k == [j EXCEPT !.pc = "c_valid", !.outcome = o, !.seen = meta[j.t].status = "RUNNING"]
    <3>2. k \in Jobs /\ k.t = j.t /\ k.w = j.w /\ k.e = j.e /\ k.pc = "c_valid"
          /\ k.seen = (meta[j.t].status = "RUNNING")
      BY <1>0 DEF Jobs
    <3>3. j.pc = "executing" /\ LoopFree(j.w)
      BY <1>5 DEF CompleteRead
    <3>4. jobs' = (jobs \ {j}) \cup {k}
      BY <3>1
    <3> HIDE DEF k
    <3>5. JobEffect(j, k)
      BY <3>2, <3>3, <3>4 DEF JobEffect
    <3> QED  BY <1>1, <3>2, <3>5
  <2> QED  BY <2>1, <2>2
<1>6. CASE CompleteValidate(j)
  BY <1>1, <1>2, <1>6 DEF CompleteValidate, EndJob
<1>7. CASE CompleteAppend(j)
  BY <1>1, <1>2, <1>7 DEF CompleteAppend, EndJob
<1>8. CASE CompleteMeta(j)
  <2>1. j.pc = "c_meta" /\ (MoveJob(j, "c_load") \/ EndJob(j))
    BY <1>8 DEF CompleteMeta
  <2> QED  BY <1>1, <1>2, <1>8, <2>1 DEF EndJob
<1>9. CASE CompleteLoad(j) \/ LoseJob(j)
  BY <1>1, <1>9 DEF CompleteLoad, LoseJob, EndJob
<1> QED  BY <1>3, <1>4, <1>5, <1>6, <1>7, <1>8, <1>9 DEF JobStep

\* Only PollTask of the worker itself makes a lease of it current.
LEMMA LeaseKept ==
    ASSUME IInv, OutcomesSet, [Next]_vars, ~Restart, NEW t \in Tasks, NEW w \in Workers, NEW e \in Nat,
           HoldsLease(meta'[t], w, e)
    PROVE  HoldsLease(meta[t], w, e) \/ PollLease(w)
<1>0. meta[t] \in TaskRecords
  BY DEF IInv, TypeOK
<1>1. MetaChange(t)
  BY MetaStep
<1>2. CASE meta'[t] = meta[t]
  BY <1>2
<1>3. CASE meta'[t] = [NoTask EXCEPT !.status = "QUEUED"]
  BY <1>3 DEF HoldsLease, NoTask
<1>4. CASE \E v \in Workers : PollLease(v) /\ meta'[t] = leaseTask(meta[t], v)
  <2>1. PICK v \in Workers : PollLease(v) /\ meta'[t] = leaseTask(meta[t], v)
    BY <1>4
  <2> QED  BY <1>0, <2>1 DEF HoldsLease, leaseTask, TaskRecords, Outcomes
<1>5. CASE meta'[t] = requeueTask(meta[t])
  BY <1>0, <1>5 DEF HoldsLease, requeueTask, TaskRecords
<1>6. CASE \E j \in jobs : CompleteMeta(j) /\ meta'[t] = [meta[t] EXCEPT !.status = j.outcome]
  <2>1. PICK j \in jobs : CompleteMeta(j) /\ meta'[t] = [meta[t] EXCEPT !.status = j.outcome]
    BY <1>6
  <2>2. j.outcome \in Outcomes
    BY <2>1 DEF CompleteMeta, OutcomesSet, CompletePCs
  <2> QED  BY <1>0, <2>1, <2>2 DEF HoldsLease, TaskRecords, Outcomes
<1> QED  BY <1>1, <1>2, <1>3, <1>4, <1>5, <1>6 DEF MetaChange

LEMMA CallStep ==
    ASSUME IInv, OutcomesSet, CInv, [Next]_vars
    PROVE  CInv'
<1>0. TypeOK /\ poll \in [Workers -> Polls] /\ \A j \in jobs : j.t \in Tasks /\ j.w \in Workers /\ j.e \in Nat
  BY DEF IInv, TypeOK, Jobs
<1>1. CASE Restart
  <2>1. \A j \in jobs' : j.pc \notin CompletePCs
    BY <1>1 DEF Restart, WorkerPCs, CompletePCs
  <2> QED  BY <2>1 DEF CInv, OneCall, SeenHolds
<1>2. ASSUME ~Restart, NEW j \in jobs, j.pc \in CompletePCs, HoldsLease(meta'[j.t], j.w, j.e)
      PROVE  j.seen
  <2>1. ~PollLease(j.w)
    BY <1>2 DEF CInv, OneCall, PollLease
  <2> QED  BY <1>0, <1>2, <2>1, LeaseKept DEF CInv, SeenHolds
<1>3. CASE jobs' = jobs /\ poll' = poll /\ ~Restart
  BY <1>2, <1>3 DEF CInv, OneCall, SeenHolds
<1>4. ASSUME NEW w \in Workers, PollStep(w) \/ FailRedeliver(w), ~Restart
      PROVE  CInv'
  <2>1. \A k \in jobs' : k \in jobs \/ k.pc = "leased"
    <3>1. CASE PollLease(w)
      BY <3>1 DEF PollLease
    <3>2. CASE ~PollLease(w)
      <4>1. jobs' = jobs
        BY <1>4, <3>2 DEF PollStep, PollScan, PollAppend, PollRequeue, PollRequeued, PollEnqueue, PollEmpty,
                          FailRedeliver
      <4> QED  BY <4>1
    <3> QED  BY <3>1, <3>2
  <2>2. \A v \in Workers : v # w => poll'[v] = poll[v]
    BY <1>0, <1>4 DEF PollStep, PollScan, PollAppend, PollRequeue, PollRequeued, PollEnqueue, PollLease,
                      PollEmpty, FailRedeliver
  <2>3. poll[w].pc # "idle" \/ LoopFree(w)
    BY <1>4 DEF PollStep, PollScan, PollAppend, PollRequeue, PollRequeued, PollEnqueue, PollLease,
                PollEmpty, FailRedeliver
  <2>4. \A j \in jobs : j.w = w => j.pc \notin CompletePCs
    BY <2>3 DEF CInv, OneCall, LoopFree
  <2>5. \A k \in jobs' : k.pc \in CompletePCs => k \in jobs
    BY <2>1 DEF CompletePCs
  <2>6. OneCall'
    BY <1>0, <2>2, <2>4, <2>5 DEF CInv, OneCall
  <2>7. SeenHolds'
    BY <1>2, <1>4, <2>5 DEF SeenHolds
  <2> QED  BY <2>6, <2>7 DEF CInv
<1>5. ASSUME NEW j \in jobs, JobStep(j) \/ LoseJob(j), ~Restart
      PROVE  CInv'
  <2>1. poll' = poll
    BY <1>0, <1>5, JobChange
  <2>2. CASE jobs' = jobs \ {j}
    BY <1>2, <1>5, <2>1, <2>2 DEF CInv, OneCall, SeenHolds
  <2>3. CASE \E k \in Jobs : JobEffect(j, k)
    <3>1. PICK k \in Jobs : JobEffect(j, k)
      BY <2>3
    <3>2. \A x \in jobs' : (x \in jobs /\ x # j) \/ x = k
      BY <3>1 DEF JobEffect
    <3>3. k.t = j.t /\ k.w = j.w /\ k.e = j.e
      BY <3>1 DEF JobEffect
    <3>4. k.pc \in CompletePCs => poll[k.w].pc = "idle" /\
                                  \A x \in jobs : x.w = k.w /\ x.pc \in CompletePCs => x = j
      BY <3>1, <3>3 DEF JobEffect, CInv, OneCall, LoopFree
    <3>5. OneCall'
      BY <2>1, <3>2, <3>4 DEF CInv, OneCall
    <3>6. ASSUME k.pc \in CompletePCs, HoldsLease(meta'[k.t], k.w, k.e) PROVE k.seen
      <4>1. CASE j.pc \in CompletePCs /\ k.seen = j.seen
        BY <1>2, <1>5, <3>3, <3>6, <4>1
      <4>2. CASE LoopFree(j.w) /\ k.seen = (meta[j.t].status = "RUNNING")
        <5>1. ~PollLease(j.w)
          BY <4>2 DEF LoopFree, PollLease
        <5>2. HoldsLease(meta[j.t], j.w, j.e)
          BY <1>0, <1>5, <3>3, <3>6, <5>1, LeaseKept
        <5> QED  BY <4>2, <5>2 DEF HoldsLease
      <4> QED  BY <3>1, <3>6, <4>1, <4>2 DEF JobEffect
    <3>7. SeenHolds'
      BY <1>2, <1>5, <3>2, <3>6 DEF SeenHolds
    <3> QED  BY <3>5, <3>7 DEF CInv
  <2> QED  BY <1>0, <1>5, <2>2, <2>3, JobChange
<1>6. ASSUME NEW t \in Tasks, Submit(t) \/ SubmitStep(t) \/ FailSubmit(t) \/ LeaseExpires(t)
      PROVE  jobs' = jobs /\ poll' = poll
  BY <1>6 DEF Submit, SubmitDuplicate, SubmitAdmit, SubmitStep, SubmitAppend, SubmitCreate,
              SubmitEnqueue, FailSubmit, LeaseExpires
<1>7. CASE UNCHANGED vars
  BY <1>1, <1>3, <1>7 DEF vars
<1> QED  BY <1>1, <1>3, <1>4, <1>5, <1>6, <1>7 DEF Next

\* A worker is in one call at a time, in every reachable state.
LEMMA CallInvariance == Spec => []CInv
<1>1. Init => CInv
  BY DEF Init, CInv, OneCall, SeenHolds
<1>2. IInv /\ OutcomesSet /\ CInv /\ [Next]_vars => CInv'
  BY CallStep
<1> QED  BY <1>1, <1>2, Invariance, PTL DEF Spec

-----------------------------------------------------------------------------
(***************************************************************************)
(* The load counters.                                                      *)
(***************************************************************************)

LInv ==
    /\ IsFiniteSet(jobs)
    /\ \A w \in Workers : IsFiniteSet(Requeued(w))
    /\ NoLoadLeft

\* The sets NoLoadLeft counts are finite.
LEMMA CountsType ==
    ASSUME LInv, NEW w \in Workers
    PROVE  /\ IsFiniteSet(Running(w)) /\ IsFiniteSet(Completing(w)) /\ IsFiniteSet(Requeued(w))
           /\ Cardinality(Running(w)) \in Nat /\ Cardinality(Completing(w)) \in Nat
           /\ Cardinality(Requeued(w)) \in Nat
<1>1. Running(w) \in SUBSET Tasks /\ Completing(w) \in SUBSET jobs
  BY DEF Running, Completing
<1>2. IsFiniteSet(Running(w)) /\ IsFiniteSet(Completing(w)) /\ IsFiniteSet(Requeued(w))
  BY <1>1, FS_Subset, TasksAssumption DEF LInv
<1> QED  BY <1>2, FS_CardinalityType

\* Who a poll holds for a worker.
LEMMA RequeuedMember ==
    ASSUME NEW w
    PROVE  /\ \A x : x \in Requeued(w) <=>
                 \E v \in Workers : \E i \in DOMAIN poll[v].got : poll[v].got[i][2] = w /\ x = <<v, i>>
           /\ \A x : x \in Requeued(w)' <=>
                 \E v \in Workers : \E i \in DOMAIN poll'[v].got : poll'[v].got[i][2] = w /\ x = <<v, i>>
  BY DEF Requeued

\* A step that changes no record, no poll and no counter of w keeps its count.
LEMMA QuietLoad ==
    ASSUME LInv, NEW w \in Workers, load'[w] <= load[w], load[w] \in Nat, load'[w] \in Nat,
           Running(w)' = Running(w), Requeued(w)' = Requeued(w),
           Completing(w) \subseteq Completing(w)', IsFiniteSet(jobs')
    PROVE  load'[w] <= Cardinality(Running(w)') + Cardinality(Completing(w)') + Cardinality(Requeued(w)')
<1>1. Completing(w)' \in SUBSET jobs'
  BY DEF Completing
<1>2. IsFiniteSet(Completing(w)')
  BY <1>1, FS_Subset
<1>3. Cardinality(Completing(w)') \in Nat /\ Cardinality(Completing(w)) <= Cardinality(Completing(w)')
  BY <1>2, FS_Subset, FS_CardinalityType
<1>4. load[w] <= Cardinality(Running(w)) + Cardinality(Completing(w)) + Cardinality(Requeued(w))
  BY DEF LInv, NoLoadLeft
<1> QED  BY <1>3, <1>4, CountsType

\* Steps of SubmitTask and of the clock count nothing.
LEMMA SubmitLoad ==
    ASSUME IInv, LInv, NEW t \in Tasks, Submit(t) \/ SubmitStep(t) \/ FailSubmit(t) \/ LeaseExpires(t)
    PROVE  LInv'
<1> USE DEF ctl
<1>0. TypeOK /\ FreshTasks
  BY DEF IInv
<1>1. load' = load /\ poll' = poll /\ jobs' = jobs
  BY DEF Submit, SubmitDuplicate, SubmitAdmit, SubmitStep, SubmitAppend, SubmitCreate, SubmitEnqueue,
         FailSubmit, LeaseExpires
<1>2. meta' = meta \/ (meta[t].status # "RUNNING" /\ meta' = [meta EXCEPT ![t] = [NoTask EXCEPT !.status = "QUEUED"]])
  BY <1>0 DEF Submit, SubmitDuplicate, SubmitAdmit, SubmitStep, SubmitAppend, SubmitCreate, SubmitEnqueue,
         FailSubmit, LeaseExpires, FreshTasks, NoTask
<1>3. \A u \in Tasks : meta'[u] = meta[u] \/ (meta[u].status # "RUNNING" /\ meta'[u].status # "RUNNING")
  BY <1>0, <1>2 DEF TypeOK, NoTask
<1>4. ASSUME NEW w \in Workers
      PROVE  Running(w)' = Running(w) /\ Requeued(w)' = Requeued(w) /\ Completing(w)' = Completing(w)
             /\ load[w] \in Nat
  BY <1>0, <1>1, <1>3 DEF Running, Requeued, Completing, TypeOK
<1> QED  BY <1>1, <1>4 DEF LInv, NoLoadLeft

\* A completion takes its task off the counter exactly when it ends a lease the counter
\* still has.
LEMMA JobLoad ==
    ASSUME IInv, OutcomesSet, CInv, LInv, NEW j \in jobs, JobStep(j) \/ LoseJob(j)
    PROVE  LInv'
<1> USE DEF ctl
<1>0. TypeOK /\ j \in Jobs /\ j.t \in Tasks /\ j.w \in Workers /\ j.e \in Nat
  BY DEF IInv, TypeOK, Jobs
<1>1. poll' = poll /\ (jobs' = jobs \ {j} \/ \E k \in Jobs : JobEffect(j, k))
  BY <1>0, JobChange
<1>2. \A w \in Workers : Requeued(w)' = Requeued(w)
  BY <1>1 DEF Requeued
<1>3. IsFiniteSet(jobs')
  <2>1. IsFiniteSet(jobs \ {j})
    BY FS_RemoveElement DEF LInv
  <2>2. CASE \E k \in Jobs : JobEffect(j, k)
    <3>1. PICK k \in Jobs : jobs' = (jobs \ {j}) \cup {k}
      BY <2>2 DEF JobEffect
    <3> QED  BY <2>1, <3>1, FS_AddElement
  <2> QED  BY <1>1, <2>1, <2>2
<1>4. \A w \in Workers : load[w] \in Nat
  BY <1>0 DEF TypeOK
<1>5. CASE ~CompleteMeta(j) /\ ~CompleteLoad(j)
  <2>1. meta' = meta /\ load' = load /\ j.pc # "c_load"
    BY <1>5 DEF JobStep, StartValidate, StartAppend, CompleteRead, CompleteValidate, CompleteAppend,
                LoseJob, WorkerPCs
  <2>2. \A w \in Workers : Running(w)' = Running(w)
    BY <2>1 DEF Running
  <2>3. \A w \in Workers : Completing(w) \subseteq Completing(w)'
    BY <1>1, <2>1 DEF Completing, JobEffect
  <2>4. NoLoadLeft'
    BY <1>2, <1>3, <1>4, <2>1, <2>2, <2>3, QuietLoad DEF NoLoadLeft
  <2> QED  BY <1>2, <1>3, <2>4 DEF LInv
<1>6. CASE CompleteMeta(j)
  <2>1. load' = load /\ j.pc = "c_meta"
    BY <1>6 DEF CompleteMeta
  <2>2. \A w \in Workers : Completing(w) \subseteq Completing(w)'
    BY <1>1, <2>1 DEF Completing, JobEffect
  <2>3. CASE HoldsLease(meta[j.t], j.w, j.e)
    <3>1. /\ jobs' = (jobs \ {j}) \cup {[j EXCEPT !.pc = "c_load"]}
          /\ meta' = [meta EXCEPT ![j.t] = completeTask(@, j.w, j.e, j.outcome)]
      BY <1>6, <2>3 DEF CompleteMeta, LeaseAccepted, MoveJob
    <3> DEFINE k == [j EXCEPT !.pc = "c_load"]
    <3>2. k.w = j.w /\ k.pc = "c_load" /\ k.seen = j.seen
      BY <1>0 DEF Jobs
    <3>3. j.seen
      BY <2>1, <2>3 DEF CInv, SeenHolds, CompletePCs
    <3>4. k \notin jobs
      BY <2>1, <3>2 DEF CInv, OneCall, CompletePCs
    <3>5. j.outcome \in Outcomes
      BY <2>1 DEF OutcomesSet, CompletePCs
    <3>6. meta'[j.t].status # "RUNNING" /\ \A u \in Tasks : u # j.t => meta'[u] = meta[u]
      BY <1>0, <2>3, <3>1, <3>5 DEF TypeOK, TaskRecords, completeTask, HoldsLease, Outcomes
    <3>7. Running(j.w)' = Running(j.w) \ {j.t} /\ j.t \in Running(j.w)
      BY <1>0, <2>3, <3>6 DEF Running, HoldsLease
    <3>8. \A w \in Workers : w # j.w => Running(w)' = Running(w)
      BY <1>0, <2>3, <3>6 DEF Running, HoldsLease
    <3>9. Completing(j.w)' = Completing(j.w) \cup {k} /\ k \notin Completing(j.w)
      <4> HIDE DEF k
      <4> QED  BY <2>1, <3>1, <3>2, <3>3, <3>4 DEF Completing, k
    <3>10. /\ Cardinality(Running(j.w)') = Cardinality(Running(j.w)) - 1
           /\ Cardinality(Completing(j.w)') = Cardinality(Completing(j.w)) + 1
      <4> HIDE DEF k
      <4>1. Cardinality(Running(j.w)') = Cardinality(Running(j.w)) - 1
        BY <1>0, <3>7, CountsType, FS_RemoveElement, ZenonT(30)
      <4>2. IsFiniteSet(Completing(j.w))
        BY <1>0, CountsType
      <4>3. Cardinality(Completing(j.w)') = Cardinality(Completing(j.w)) + 1
        BY <3>9, <4>2, FS_AddElement
      <4> QED  BY <4>1, <4>3
    <3>11. ASSUME NEW w \in Workers
           PROVE  load'[w] <= Cardinality(Running(w)') + Cardinality(Completing(w)') + Cardinality(Requeued(w)')
      <4>1. CASE w = j.w
        <5>1. load[w] <= Cardinality(Running(w)) + Cardinality(Completing(w)) + Cardinality(Requeued(w))
          BY DEF LInv, NoLoadLeft
        <5> QED  BY <1>2, <1>4, <2>1, <3>10, <4>1, <5>1, CountsType
      <4>2. CASE w # j.w
        BY <1>2, <1>3, <1>4, <2>1, <2>2, <3>8, <4>2, QuietLoad
      <4> QED  BY <4>1, <4>2
    <3> QED  BY <1>2, <1>3, <3>11 DEF LInv, NoLoadLeft
  <2>4. CASE ~HoldsLease(meta[j.t], j.w, j.e)
    <3>1. meta' = meta
      BY <1>0, <1>6, <2>4 DEF CompleteMeta, LeaseAccepted, completeTask, TypeOK
    <3>2. \A w \in Workers : Running(w)' = Running(w)
      BY <3>1 DEF Running
    <3>3. NoLoadLeft'
      BY <1>2, <1>3, <1>4, <2>1, <2>2, <3>2, QuietLoad DEF NoLoadLeft
    <3> QED  BY <1>2, <1>3, <3>3 DEF LInv
  <2> QED  BY <2>3, <2>4
<1>7. CASE CompleteLoad(j)
  <2>1. meta' = meta /\ jobs' = jobs \ {j} /\ j.pc = "c_load"
    BY <1>7 DEF CompleteLoad, EndJob
  <2>2. \A w \in Workers : Running(w)' = Running(w)
    BY <2>1 DEF Running
  <2>3. \A w \in Workers : w # j.w => load'[w] = load[w] /\ Completing(w)' = Completing(w)
    BY <1>0, <1>7, <2>1 DEF CompleteLoad, DecrementWorkerLoad, TypeOK, Completing
  <2>4. load'[j.w] <= Cardinality(Running(j.w)') + Cardinality(Completing(j.w)') + Cardinality(Requeued(j.w)')
    <3>0. load[j.w] <= Cardinality(Running(j.w)) + Cardinality(Completing(j.w)) + Cardinality(Requeued(j.w))
      BY <1>0 DEF LInv, NoLoadLeft
    <3>1. CASE j.seen
      <4>1. Completing(j.w)' = Completing(j.w) \ {j} /\ j \in Completing(j.w)
        BY <2>1, <3>1 DEF Completing
      <4>2. Cardinality(Completing(j.w)') = Cardinality(Completing(j.w)) - 1
        BY <1>0, <4>1, CountsType, FS_RemoveElement, ZenonT(30)
      <4>3. Cardinality(Completing(j.w)) > 0
        BY <1>0, <4>1, CountsType, FS_EmptySet
      <4>4. load'[j.w] = IF load[j.w] = 0 THEN 0 ELSE load[j.w] - 1
        BY <1>0, <1>7, <3>1 DEF CompleteLoad, DecrementWorkerLoad, TypeOK
      <4> QED  BY <1>0, <1>2, <1>4, <2>2, <3>0, <4>2, <4>3, <4>4, CountsType
    <3>2. CASE ~j.seen
      <4>1. load' = load
        BY <1>7, <3>2 DEF CompleteLoad
      <4>2. Completing(j.w)' = Completing(j.w)
        BY <2>1, <3>2 DEF Completing
      <4> QED  BY <1>0, <1>2, <2>2, <3>0, <4>1, <4>2
    <3> QED  BY <3>1, <3>2
  <2>5. NoLoadLeft'
    <3>1. ASSUME NEW w \in Workers, w # j.w
          PROVE  load'[w] <= Cardinality(Running(w)') + Cardinality(Completing(w)') + Cardinality(Requeued(w)')
      BY <1>2, <1>3, <1>4, <2>2, <2>3, <3>1, QuietLoad
    <3> QED  BY <2>4, <3>1 DEF NoLoadLeft
  <2> QED  BY <1>2, <1>3, <2>5 DEF LInv
<1> QED  BY <1>5, <1>6, <1>7

\* A lease is counted when it is handed out, and stays counted, as running or as held by
\* the poll that redelivers it, until that poll takes it off.
LEMMA PollLoad ==
    ASSUME IInv, QInv, LInv, NEW w \in Workers, PollStep(w) \/ FailRedeliver(w)
    PROVE  LInv'
<1> USE DEF ctl
<1>0. TypeOK /\ KnownTasks /\ load \in [Workers -> Nat] /\ jobs \subseteq Jobs
  BY DEF IInv, TypeOK
<1>p. /\ poll \in [Workers -> Polls] /\ poll[w] \in Polls
      /\ \A v \in Workers : poll[v].got \in Seq(Tasks \X (Workers \cup {NoWorker}))
  BY <1>0 DEF TypeOK, Polls
<1>l. \A v \in Workers : load[v] <= Cardinality(Running(v)) + Cardinality(Completing(v)) + Cardinality(Requeued(v))
  BY DEF LInv, NoLoadLeft
<1>1. CASE PollScan(w) \/ PollAppend(w) \/ PollRequeued(w) \/ PollEmpty(w) \/ FailRedeliver(w)
  <2>1. meta' = meta /\ load' = load /\ jobs' = jobs
    BY <1>1 DEF PollScan, PollAppend, PollRequeued, PollEmpty, FailRedeliver
  <2>2. \A v \in Workers : poll'[v].got = poll[v].got
    <3>1. CASE PollScan(w)
      BY <1>p, <3>1 DEF PollScan, LoopFree, Polls
    <3>2. CASE PollRequeued(w)
      BY <1>p, <3>2 DEF PollRequeued, Polls
    <3>3. CASE PollEmpty(w) \/ FailRedeliver(w)
      BY <1>p, <3>3 DEF PollEmpty, FailRedeliver, QInv, GotHeld, IdlePoll
    <3>4. CASE PollAppend(w)
      <4>1. poll[w].pc = "append" /\ poll[w].got = <<>>
        BY <3>4 DEF PollAppend, QInv, GotHeld
      <4>2. PICK item \in poll[w].todo :
               \/ poll' = [poll EXCEPT ![w].todo = @ \ {item},
                                       ![w].pc = IF poll[w].todo = {item} THEN "requeue" ELSE @]
               \/ poll' = [poll EXCEPT ![w] = IdlePoll]
        BY <3>4 DEF PollAppend
      <4>3. poll'[w].got = <<>> /\ \A v \in Workers : v # w => poll'[v] = poll[v]
        BY <1>p, <4>1, <4>2 DEF Polls, IdlePoll
      <4> QED  BY <4>1, <4>3
    <3> QED  BY <1>1, <3>1, <3>2, <3>3, <3>4
  <2>3. \A v \in Workers : /\ Running(v)' = Running(v) /\ Requeued(v)' = Requeued(v)
                           /\ Completing(v)' = Completing(v)
    BY <2>1, <2>2 DEF Running, Requeued, Completing
  <2> QED  BY <2>1, <2>3 DEF LInv, NoLoadLeft
<1>2. CASE PollRequeue(w)
  <2>1. PICK t \in expired :
           /\ meta' = [meta EXCEPT ![t] = requeueTask(@)]
           /\ poll' = [poll EXCEPT ![w].got = Append(@, <<t, meta[t].worker>>)]
    BY <1>2 DEF PollRequeue
  <2> DEFINE n == Len(poll[w].got) + 1
             from == meta[t].worker
  <2>2. load' = load /\ jobs' = jobs /\ t \in Tasks /\ meta[t].status = "RUNNING"
    BY <1>0, <1>2 DEF PollRequeue, TypeOK, KnownTasks
  <2>3. /\ poll'[w].got = Append(poll[w].got, <<t, from>>)
        /\ \A v \in Workers : v # w => poll'[v] = poll[v]
    BY <1>p, <2>1 DEF Polls
  <2>4. /\ DOMAIN poll[w].got = 1 .. Len(poll[w].got) /\ Len(poll[w].got) \in Nat
        /\ DOMAIN poll'[w].got = 1 .. n
        /\ \A i \in DOMAIN poll[w].got : poll'[w].got[i] = poll[w].got[i]
        /\ poll'[w].got[n] = <<t, from>>
    BY <1>p, <2>3
  <2>5. /\ \A i \in DOMAIN poll'[w].got : i \in DOMAIN poll[w].got \/ i = n
        /\ \A i \in DOMAIN poll[w].got : i \in DOMAIN poll'[w].got /\ poll'[w].got[i][2] = poll[w].got[i][2]
        /\ n \in DOMAIN poll'[w].got /\ poll'[w].got[n][2] = from /\ n \notin DOMAIN poll[w].got
    <3>1. <<t, from>>[2] = from
      OBVIOUS
    <3>2. \A m \in Nat : /\ m + 1 \in 1 .. m + 1 /\ m + 1 \notin 1 .. m
                         /\ \A i \in 1 .. m + 1 : i \in 1 .. m \/ i = m + 1
                         /\ \A i \in 1 .. m : i \in 1 .. m + 1
      OBVIOUS
    <3>3. \A i \in DOMAIN poll'[w].got : i \in DOMAIN poll[w].got \/ i = n
      BY <2>4, <3>2
    <3>4. n \in DOMAIN poll'[w].got /\ n \notin DOMAIN poll[w].got
      BY <2>4, <3>2
    <3>5. \A i \in DOMAIN poll[w].got : i \in DOMAIN poll'[w].got
      BY <2>4, <3>2
    <3>6. \A i \in DOMAIN poll[w].got : poll'[w].got[i][2] = poll[w].got[i][2]
      BY <2>4
    <3>7. poll'[w].got[n][2] = from
      BY <2>4, <3>1
    <3> QED  BY <3>3, <3>4, <3>5, <3>6, <3>7
  <2>6. meta'[t].status = "QUEUED" /\ \A u \in Tasks : u # t => meta'[u] = meta[u]
    BY <1>0, <2>1, <2>2 DEF TypeOK, TaskRecords, requeueTask
  <2> HIDE DEF n
  <2>7. \A v \in Workers : Completing(v)' = Completing(v)
    BY <2>2 DEF Completing
  <2>8. ASSUME NEW v \in Workers, v # from
        PROVE  Running(v)' = Running(v) /\ Requeued(v)' = Requeued(v)
    <3>1. Running(v)' = Running(v)
      BY <2>6, <2>8 DEF Running
    <3>2. ASSUME NEW u \in Workers
          PROVE  {k \in DOMAIN poll'[u].got : poll'[u].got[k][2] = v} = {k \in DOMAIN poll[u].got : poll[u].got[k][2] = v}
      <4>1. CASE u = w
        BY <2>5, <2>8, <4>1
      <4>2. CASE u # w
        BY <2>3, <4>2
      <4> QED  BY <4>1, <4>2
    <3>3. Requeued(v)' = Requeued(v)
      BY <3>2 DEF Requeued
    <3> QED  BY <3>1, <3>3
  <2>9. ASSUME NEW v \in Workers, v = from
        PROVE  /\ Running(v)' = Running(v) \ {t} /\ t \in Running(v)
               /\ Requeued(v)' = Requeued(v) \cup {<<w, n>>} /\ <<w, n>> \notin Requeued(v)
    <3>1. Running(v)' = Running(v) \ {t} /\ t \in Running(v)
      BY <2>2, <2>6, <2>9 DEF Running
    <3>2. <<w, n>> \notin Requeued(v)
      <4>1. ASSUME NEW u \in Workers, NEW i \in DOMAIN poll[u].got, <<u, i>> = <<w, n>> PROVE FALSE
        BY <2>5, <4>1
      <4> QED  BY <4>1, RequeuedMember
    <3>3. ASSUME NEW x \in Requeued(v)' PROVE x \in Requeued(v) \cup {<<w, n>>}
      <4>0. PICK u \in Workers : \E i \in DOMAIN poll'[u].got : poll'[u].got[i][2] = v /\ x = <<u, i>>
        BY RequeuedMember
      <4>1. PICK i \in DOMAIN poll'[u].got : poll'[u].got[i][2] = v /\ x = <<u, i>>
        BY <4>0
      <4>2. CASE u # w
        BY <2>3, <4>1, <4>2, RequeuedMember
      <4>3. CASE u = w /\ i \in DOMAIN poll[w].got
        BY <2>5, <4>1, <4>3, RequeuedMember
      <4> QED  BY <2>5, <4>1, <4>2, <4>3
    <3>4. ASSUME NEW x \in Requeued(v) PROVE x \in Requeued(v)'
      <4>0. PICK u \in Workers : \E i \in DOMAIN poll[u].got : poll[u].got[i][2] = v /\ x = <<u, i>>
        BY RequeuedMember
      <4>1. PICK i \in DOMAIN poll[u].got : poll[u].got[i][2] = v /\ x = <<u, i>>
        BY <4>0
      <4>2. i \in DOMAIN poll'[u].got /\ poll'[u].got[i][2] = v
        BY <2>3, <2>5, <4>1
      <4> QED  BY <4>1, <4>2, RequeuedMember
    <3>5. <<w, n>> \in Requeued(v)'
      BY <2>5, <2>9, RequeuedMember
    <3> QED  BY <3>1, <3>2, <3>3, <3>4, <3>5
  <2>10. ASSUME NEW v \in Workers
         PROVE  /\ IsFiniteSet(Requeued(v)')
                /\ load'[v] <= Cardinality(Running(v)') + Cardinality(Completing(v)') + Cardinality(Requeued(v)')
    <3>1. CASE v # from
      BY <1>l, <2>2, <2>7, <2>8, <3>1 DEF LInv
    <3>2. CASE v = from
      <4>1. Cardinality(Running(v)') = Cardinality(Running(v)) - 1
        BY <2>9, <3>2, CountsType, FS_RemoveElement
      <4>2. IsFiniteSet(Requeued(v)') /\ Cardinality(Requeued(v)') = Cardinality(Requeued(v)) + 1
        BY <2>9, <3>2, CountsType, FS_AddElement
      <4>3. load[v] \in Nat
        BY <1>0
      <4> QED  BY <1>l, <2>2, <2>7, <4>1, <4>2, <4>3, CountsType
    <3> QED  BY <3>1, <3>2
  <2> QED  BY <2>2, <2>10 DEF LInv, NoLoadLeft
<1>3. CASE PollEnqueue(w)
  <2>1. /\ meta' = meta /\ jobs' = jobs
        /\ load' = [v \in Workers |-> IF load[v] > Relieved(w, v) THEN load[v] - Relieved(w, v) ELSE 0]
        /\ poll' = [poll EXCEPT ![w].pc = "lease", ![w].got = <<>>]
    BY <1>3 DEF PollEnqueue
  <2>2. /\ poll'[w].got = <<>> /\ DOMAIN poll'[w].got = {}
        /\ \A v \in Workers : v # w => poll'[v] = poll[v]
    BY <1>p, <2>1 DEF Polls
  <2>3. ASSUME NEW v \in Workers
        PROVE  /\ IsFiniteSet(Requeued(v)')
               /\ load'[v] <= Cardinality(Running(v)') + Cardinality(Completing(v)') + Cardinality(Requeued(v)')
    <3> DEFINE K == {i \in DOMAIN poll[w].got : poll[w].got[i][2] = v}
               G == {<<w, i>> : i \in K}
    <3>1. Relieved(w, v) = Cardinality(K) /\ Cardinality(K) \in Nat
      BY <1>0, RelievedType DEF Relieved
    <3>2. IsFiniteSet(K)
      <4>1. DOMAIN poll[w].got = 1 .. Len(poll[w].got) /\ Len(poll[w].got) \in Nat
        BY <1>p
      <4>2. IsFiniteSet(1 .. Len(poll[w].got))
        BY <4>1, FS_Interval
      <4> QED  BY <4>1, <4>2, FS_Subset
    <3>3. IsFiniteSet(G) /\ Cardinality(G) = Cardinality(K)
      <4> DEFINE f == [i \in K |-> <<w, i>>]
      <4> HIDE DEF K
      <4>1. f \in Bijection(K, G)
        BY DEF Bijection, Injection, Surjection, IsInjective
      <4>2. ExistsBijection(K, G)
        BY <4>1 DEF ExistsBijection
      <4> QED  BY <3>2, <4>2, FS_Bijection
    <3>4. G \subseteq Requeued(v) /\ Requeued(v)' = Requeued(v) \ G
      <4>1. \A x : x \in G <=> \E i \in DOMAIN poll[w].got : poll[w].got[i][2] = v /\ x = <<w, i>>
        OBVIOUS
      <4>2. G \subseteq Requeued(v)
        BY <4>1, RequeuedMember
      <4> HIDE DEF G
      <4>3. \A x \in Requeued(v)' : x \in Requeued(v) /\ x \notin G
        <5>1. SUFFICES ASSUME NEW x \in Requeued(v)' PROVE x \in Requeued(v) /\ x \notin G
          OBVIOUS
        <5>2. PICK u \in Workers : \E i \in DOMAIN poll'[u].got : poll'[u].got[i][2] = v /\ x = <<u, i>>
          BY RequeuedMember
        <5>3. u # w /\ poll'[u] = poll[u]
          BY <2>2, <5>2
        <5> QED  BY <4>1, <5>2, <5>3, RequeuedMember
      <4>4. \A x \in Requeued(v) : x \in G \/ x \in Requeued(v)'
        <5>1. SUFFICES ASSUME NEW x \in Requeued(v) PROVE x \in G \/ x \in Requeued(v)'
          OBVIOUS
        <5>2. PICK u \in Workers : \E i \in DOMAIN poll[u].got : poll[u].got[i][2] = v /\ x = <<u, i>>
          BY RequeuedMember
        <5>3. CASE u = w
          BY <4>1, <5>2, <5>3
        <5>4. CASE u # w
          BY <2>2, <5>2, <5>4, RequeuedMember
        <5> QED  BY <5>3, <5>4
      <4> QED  BY <4>2, <4>3, <4>4
    <3> HIDE DEF G, K
    <3>5. IsFiniteSet(Requeued(v)') /\ Cardinality(Requeued(v)') = Cardinality(Requeued(v)) - Cardinality(G)
      <4>1. Requeued(v) \cap G = G
        BY <3>4
      <4> QED  BY <3>4, <4>1, CountsType, FS_Difference
    <3>6. Running(v)' = Running(v) /\ Completing(v)' = Completing(v)
      BY <2>1 DEF Running, Completing
    <3>7. load'[v] = IF load[v] > Cardinality(K) THEN load[v] - Cardinality(K) ELSE 0
      BY <2>1, <3>1
    <3>8. Cardinality(Requeued(v)') \in Nat /\ load[v] \in Nat
      BY <1>0, <3>5, FS_CardinalityType
    <3> QED  BY <1>l, <3>1, <3>3, <3>5, <3>6, <3>7, <3>8, CountsType
  <2> QED  BY <2>1, <2>3 DEF LInv, NoLoadLeft
<1>4. CASE PollLease(w)
  <2>1. PICK i \in Assignable(w) :
           /\ meta' = [meta EXCEPT ![queue[i]] = leaseTask(meta[queue[i]], w)]
           /\ load' = IF meta[queue[i]].status = "QUEUED" THEN [load EXCEPT ![w] = @ + 1] ELSE load
           /\ jobs' = jobs \cup {[t |-> queue[i], w |-> w, e |-> leaseTask(meta[queue[i]], w).epoch, inc |-> crashes,
                                  pc |-> "leased", seen |-> FALSE, outcome |-> "NONE"]}
    BY <1>4 DEF PollLease
  <2> DEFINE t == queue[i]
             k == [t |-> t, w |-> w, e |-> leaseTask(meta[t], w).epoch, inc |-> crashes,
                   pc |-> "leased", seen |-> FALSE, outcome |-> "NONE"]
  <2>2. i \in DOMAIN queue /\ t \in Tasks
    BY <1>0 DEF Assignable, TypeOK
  <2>3. poll' = [poll EXCEPT ![w] = IdlePoll] /\ poll[w].pc = "lease"
    BY <1>4 DEF PollLease
  <2>4. \A v \in Workers : poll'[v].got = poll[v].got
    BY <1>p, <2>3 DEF QInv, GotHeld, IdlePoll
  <2>5. \A v \in Workers : Requeued(v)' = Requeued(v)
    BY <2>4 DEF Requeued
  <2>6. IsFiniteSet(jobs')
    BY <2>1, FS_AddElement DEF LInv
  <2>7. \A v \in Workers : Completing(v)' = Completing(v)
    <3>1. k.pc = "leased" /\ jobs' = jobs \cup {k}
      BY <2>1
    <3> HIDE DEF k
    <3> QED  BY <3>1 DEF Completing
  <2>8. meta[t].status = "QUEUED"
    BY <2>2 DEF QInv, QueueExact
  <2>9. meta'[t].status = "RUNNING" /\ meta'[t].worker = w /\ \A u \in Tasks : u # t => meta'[u] = meta[u]
    BY <1>0, <2>1, <2>2, <2>8 DEF TypeOK, leaseTask, Outcomes
  <2>10. /\ load'[w] = load[w] + 1 /\ load[w] \in Nat
         /\ \A v \in Workers : v # w => load'[v] = load[v]
    BY <1>0, <2>1, <2>8
  <2> HIDE DEF t, k
  <2>11. /\ Running(w)' = Running(w) \cup {t} /\ t \notin Running(w)
         /\ \A v \in Workers : v # w => Running(v)' = Running(v)
    BY <2>2, <2>8, <2>9 DEF Running
  <2>12. Cardinality(Running(w)') = Cardinality(Running(w)) + 1
    BY <2>11, CountsType, FS_AddElement
  <2>13. NoLoadLeft'
    <3>1. load'[w] <= Cardinality(Running(w)') + Cardinality(Completing(w)') + Cardinality(Requeued(w)')
      BY <1>l, <2>5, <2>7, <2>10, <2>12, CountsType
    <3> QED  BY <1>l, <2>5, <2>7, <2>10, <2>11, <3>1 DEF NoLoadLeft
  <2> QED  BY <2>5, <2>6, <2>13 DEF LInv
<1> QED  BY <1>1, <1>2, <1>3, <1>4 DEF PollStep

\* After a restart every counter is zero.
LEMMA RestartLoad ==
    ASSUME LInv, Restart
    PROVE  LInv'
<1>1. jobs' \in SUBSET jobs /\ \A w \in Workers : load'[w] = 0 /\ poll'[w] = IdlePoll
  BY DEF Restart
<1>2. IsFiniteSet(jobs')
  BY <1>1, FS_Subset DEF LInv
<1>3. ASSUME NEW w \in Workers PROVE Requeued(w)' = {}
  BY <1>1 DEF Requeued, IdlePoll
<1>4. ASSUME NEW w \in Workers
      PROVE  Cardinality(Running(w)') \in Nat /\ Cardinality(Completing(w)') \in Nat
  <2>1. Running(w)' \in SUBSET Tasks /\ Completing(w)' \in SUBSET jobs'
    BY DEF Running, Completing
  <2> QED  BY <1>2, <2>1, TasksAssumption, FS_Subset, FS_CardinalityType
<1>5. IsFiniteSet({}) /\ Cardinality({}) = 0
  BY FS_EmptySet
<1>6. NoLoadLeft'
  BY <1>1, <1>3, <1>4, <1>5 DEF NoLoadLeft
<1> QED  BY <1>2, <1>3, <1>5, <1>6 DEF LInv

\* RunningTasks of a worker counts at most the tasks it runs, the completions about to be
\* taken off and the tasks a redelivering poll has in hand: whatever expires, completes
\* late, is lost or is redelivered by several polls at once, no load is left behind that
\* would keep work from the worker (LeaseTask, CompleteTask, decrementWorkerLoad,
\* redeliverExpiredTasksLegacy).
THEOREM NoLoadLeftHolds == Spec => []NoLoadLeft
<1>1. Init => LInv
  <2> SUFFICES ASSUME Init PROVE LInv
    OBVIOUS
  <2>1. jobs = {} /\ \A w \in Workers : Running(w) = {} /\ Completing(w) = {} /\ Requeued(w) = {} /\ load[w] = 0
    BY DEF Init, Running, Completing, Requeued, NoTask, IdlePoll
  <2> QED  BY <2>1, FS_EmptySet DEF LInv, NoLoadLeft
<1>2. IInv /\ OutcomesSet /\ QInv /\ CInv /\ LInv /\ [Next]_vars => LInv'
  <2>1. LInv /\ UNCHANGED vars => LInv'
    BY DEF vars, LInv, NoLoadLeft, Running, Completing, Requeued
  <2> QED  BY <2>1, SubmitLoad, PollLoad, JobLoad, RestartLoad DEF Next
<1>3. LInv => NoLoadLeft
  BY DEF LInv
<1> QED  BY <1>1, <1>2, <1>3, Invariance, QueueInvariance, CallInvariance, PTL DEF Spec
=============================================================================
