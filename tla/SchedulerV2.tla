----------------------------- MODULE SchedulerV2 -----------------------------
(***************************************************************************)
(* The indexed scheduler (internal/control/scheduler.go) and the handlers  *)
(* that use it: pollTaskIndexed of service.go, redeliverExpiredTasksIndexed*)
(* of hardening.go, and the ends of submission and completion.             *)
(*                                                                         *)
(* Scheduler.mu makes each scheduler method one step; the metadata store   *)
(* has its own locks, so a handler is a sequence of steps between which    *)
(* every other handler may run.  The callback that Assign evaluates runs   *)
(* with mu held.                                                           *)
(*                                                                         *)
(* Time: a lease ages by one when the shorter redelivery timeout (1) runs  *)
(* out and by one more at the longer one (2).  A deadline is the pair of   *)
(* lease epoch and timeout it was computed with, since a lease's           *)
(* UpdatedAtMs changes only together with its epoch.                       *)
(***************************************************************************)
EXTENDS Naturals, Sequences, FiniteSets, SequencesExt

CONSTANTS Tasks,      \* task ids, in the order of creation
          SchedWorkers, NoHolder,
          Routes,     \* assignments of queues to tasks, one of which is submitted
          CommandSeq, \* CommandSeq[t]: number of an actor command, else 0
          Owner,      \* Owner[a]: the worker that owns actor a
          Models,     \* keys of the LLM queues
          SchedPolicies,   \* scheduling policies, one of which is in force
          MaxEpoch,   \* bound: leases of this epoch never expire
          MaxFaults   \* bound: lost workers, failed appends, changes of timeouts and caches

ASSUME SchedAssumption ==
    /\ Tasks \subseteq Nat \ {0} /\ IsFiniteSet(Tasks)
    /\ \A r \in Routes : DOMAIN r = Tasks
    /\ DOMAIN CommandSeq = Tasks
    /\ MaxEpoch \in Nat \ {0} /\ MaxFaults \in Nat
    /\ SchedPolicies \subseteq {"RESOURCE_ONLY", "LOCALITY_AWARE", "PREDICTED_LATENCY"}

VARIABLES
    schedPolicy,   \* schedulingPolicy
    Queue,    \* Queue[t]: <<kind, key>>, the queue the fields of task t select
    meta,     \* meta[t]: status, lease epoch and worker in the metadata store
    load,     \* load[w]: RunningTasks of the worker record
    cachedModels,   \* cachedModels[w]: models the worker last reported
    count,    \* count[a]: CommandCount of the actor record
    age,      \* age[t]: how many of the two timeouts the current lease outlived
    timeout,  \* redeliveryTimeout
    queues,   \* queues[k]: the deque of queue k, stale entries included
    known,    \* tasks with an entry in taskMeta
    queued,   \* tasks with an entry in queued
    leases,   \* leases[t]: the lease tracked in runningLeases, or NoLease
    deadlines,\* deadlines: the heap, as a set of <<task, epoch, timeout>>
    view,     \* view[w]: the workerView, load and cached models last mirrored
    hasWaited,   \* queued LLM tasks that waited longer than localityQueueWait
    mu,       \* the worker whose poll holds Scheduler.mu across a step, or NoHolder
    sub,      \* sub[t]: where the submission of t is
    poll,     \* poll[w]: where the PollTask call of w is
    jobs,     \* leases held by workers, with the step their completion is at
    faults    \* how much of MaxFaults is used

config == <<schedPolicy, Queue>>
metaVars == <<meta, load, cachedModels, count, age, timeout>>
schedVars == <<queues, known, queued, leases, deadlines, view>>
schedulerVars == <<config, metaVars, schedVars, hasWaited, mu, sub, poll, jobs, faults>>

Queues == {Queue[t] : t \in Tasks}
General == <<"general", "general">>
NoLease == <<0, 0>>
Idle == [pc |-> "idle", todo |-> {}, valid |-> {}, task |-> 0]

QueuedTask(t) == meta[t].status = "QUEUED"
Terminal(t) == meta[t].status = "DONE"
HoldsLease(t, w, e) == meta[t] = [status |-> "RUNNING", epoch |-> e, worker |-> w]
Fault == faults < MaxFaults /\ faults' = faults + 1
Goto(w, pc) == poll' = [poll EXCEPT ![w].pc = pc]
Capacity == 1

-----------------------------------------------------------------------------
\* Scheduler methods, as the values they give to the scheduler's maps.

\* Mutant: a task known from an earlier lease is not put in its deque again.
EnqueueNew(t) ==
    /\ known' = known \cup {t}
    /\ queued' = queued \cup {t}
    /\ queues' = IF t \in known THEN queues
                 ELSE [queues EXCEPT ![Queue[t]] = Append(@, t)]

Enqueue(t) ==
    /\ known' = known \cup {t}
    /\ queued' = queued \cup {t}
    /\ queues' = IF t \in queued THEN queues
                 ELSE [queues EXCEPT ![Queue[t]] = Append(@, t)]

\* Forget and CompleteRunning delete the same three entries; what they leave in
\* the deques and in the heap is stale.
Forget(t) ==
    /\ known' = known \ {t}
    /\ queued' = queued \ {t}
    /\ leases' = [leases EXCEPT ![t] = NoLease]

TrackRunning(t, e) ==
    /\ leases' = [leases EXCEPT ![t] = <<e, timeout>>]
    /\ deadlines' = deadlines \cup {<<t, e, timeout>>}

\* A heap entry is due when its lease is older than the timeout it was computed
\* with; an entry of an earlier lease is due at once.
Due == {d \in deadlines : d[2] < meta[d[1]].epoch \/ age[d[1]] >= d[3]}
Current(d) == leases[d[1]] = <<d[2], d[3]>>
Expired == {d \in Due : Current(d)}

UpdateSchedulerWorker(w) ==
    view' = [view EXCEPT ![w] = [load |-> load[w], cached |-> cachedModels[w]]]

resyncSchedulerTask(t) ==
    CASE QueuedTask(t) -> Enqueue(t) /\ UNCHANGED <<leases, deadlines, view>>
      [] meta[t].status = "RUNNING" ->
            TrackRunning(t, meta[t].epoch) /\ UNCHANGED <<queues, known, queued, view>>
      [] Terminal(t) -> Forget(t) /\ UNCHANGED <<queues, deadlines, view>>

-----------------------------------------------------------------------------
\* Assign: the queues in the order of their priority for worker w.  A deque is
\* popped up to its first live task; the check drops a task that is not QUEUED
\* any more and a task it rejects blocks its whole queue.

Live(t) == t \in queued /\ t \in known
Pruned(k) == SelectInSeq(queues[k], Live)           \* frontMetaLocked

\* An actor's queue compares the number of the command before anything else.
OutOfTurn(t) ==
    Queue[t][1] = "actor" /\ CommandSeq[t] # 0 /\ CommandSeq[t] # count[Queue[t][2]] + 1

\* The first entry that is neither stale nor dropped by the check.
FrontAt(k) ==
    SelectInSeq(queues[k], LAMBDA t : Live(t) /\ (QueuedTask(t) \/ OutOfTurn(t)))
FrontTask(k) == queues[k][FrontAt(k)]

cachedWorkerHasCapacity(m) ==
    \E w \in SchedWorkers : m \in view[w].cached /\ view[w].load < Capacity

llmCandidateModels(w) ==
    {m \in Models : LET k == <<"llm", m>> IN
        /\ k \in Queues
        /\ Pruned(k) # 0
        /\ \/ m \in cachedModels[w]
           \/ ~cachedWorkerHasCapacity(m)
           \/ queues[k][Pruned(k)] \in hasWaited}

CandidateQueues(w) ==
    Queues \cap ({<<"target", w>>, General}
                 \cup {<<"actor", a>> : a \in {a \in DOMAIN Owner : Owner[a] = w}}
                 \cup {<<"llm", m>> : m \in llmCandidateModels(w)})

\* Assign's order: target, actors by id, models by the age of their front, general.
Rank(k) == CASE k[1] = "target" -> 1 [] k[1] = "actor" -> 2 [] k[1] = "llm" -> 3 [] OTHER -> 4
Before(j, k) ==
    \/ Rank(j) < Rank(k)
    \/ j[1] = "actor" /\ k[1] = "actor" /\ j[2] < k[2]
    \/ j[1] = "llm" /\ k[1] = "llm" /\ queues[j][Pruned(j)] < queues[k][Pruned(k)]

\* actorMailboxReady and canAssignTaskToWorkerIndexed.
check(t, w) ==
    \/ Queue[t][1] \in {"target", "general"}
    \/ /\ Queue[t][1] = "actor"
       /\ Owner[Queue[t][2]] = w
       /\ ~OutOfTurn(t)
    \/ Queue[t][1] = "llm" /\ load[w] < Capacity

Assignable(k, w) == FrontAt(k) # 0 /\ check(FrontTask(k), w)

\* The check of an LLM task under PREDICTED_LATENCY calls WorkerCount, which
\* locks mu again.
CheckLocks(k, w) ==
    k[1] = "llm" /\ FrontAt(k) # 0 /\ load[w] < Capacity /\ schedPolicy = "PREDICTED_LATENCY"

\* What the search leaves of a queue it visited: the entries from the front on.
Rest(k, from) == SubSeq(queues[k], from, Len(queues[k]))
Searched(k) == IF FrontAt(k) = 0 THEN <<>> ELSE Rest(k, FrontAt(k))
Dropped(k) ==
    {t \in ToSet(queues[k]) \cap queued : ~QueuedTask(t) /\ t \notin ToSet(Searched(k))}

Taken(k, w) == Assignable(k, w) \/ CheckLocks(k, w)

-----------------------------------------------------------------------------
SchedInit ==
    /\ schedPolicy \in SchedPolicies
    /\ Queue \in Routes
    /\ meta = [t \in Tasks |-> [status |-> "NONE", epoch |-> 0, worker |-> NoHolder]]
    /\ load = [w \in SchedWorkers |-> 0]
    /\ cachedModels = [w \in SchedWorkers |-> {}]
    /\ count = [a \in DOMAIN Owner |-> 0]
    /\ age = [t \in Tasks |-> 0]
    /\ timeout = 1
    /\ queues = [k \in Queues |-> <<>>]
    /\ known = {} /\ queued = {}
    /\ leases = [t \in Tasks |-> NoLease]
    /\ deadlines = {}
    /\ view = [w \in SchedWorkers |-> [load |-> 0, cached |-> {}]]
    /\ hasWaited = {}
    /\ mu = NoHolder
    /\ sub = [t \in Tasks |-> "new"]
    /\ poll = [w \in SchedWorkers |-> Idle]
    /\ jobs = {}
    /\ faults = 0

\* The end of enqueueTaskWithMetadata: CreateQueued, then Enqueue.  Commands of
\* one actor are submitted in the order of their numbers, under its lock.
CreateQueued(t) ==
    /\ sub[t] = "new"
    /\ \A u \in Tasks : Queue[t][1] = "actor" /\ Queue[u] = Queue[t] /\ u < t => sub[u] = "done"
    /\ meta' = [meta EXCEPT ![t].status = "QUEUED"]
    /\ sub' = [sub EXCEPT ![t] = "created"]
    /\ UNCHANGED <<config, load, cachedModels, count, age, timeout, schedVars, hasWaited, mu, poll, jobs,
                   faults>>

SubmitEnqueue(t) ==
    /\ sub[t] = "created" /\ mu = NoHolder
    /\ Enqueue(t)
    /\ sub' = [sub EXCEPT ![t] = "done"]
    /\ UNCHANGED <<config, metaVars, leases, deadlines, view, hasWaited, mu, poll, jobs, faults>>

LocalityWait(t) ==
    /\ Queue[t][1] = "llm" /\ QueuedTask(t)
    /\ hasWaited' = hasWaited \cup {t}
    /\ UNCHANGED <<config, metaVars, schedVars, mu, sub, poll, jobs, faults>>

WorkerHeartbeat(w, reported) ==
    /\ mu = NoHolder /\ reported # cachedModels[w] /\ Fault
    /\ cachedModels' = [cachedModels EXCEPT ![w] = reported]
    /\ view' = [view EXCEPT ![w] = [load |-> load[w], cached |-> reported]]
    /\ UNCHANGED <<config, meta, load, count, age, timeout, queues, known, queued, leases, deadlines,
                   hasWaited, mu, sub, poll, jobs>>

\* A running lease outlives the next timeout.
Tick(t) ==
    /\ meta[t].status = "RUNNING" /\ meta[t].epoch < MaxEpoch
    /\ age[t] < 2
    /\ age' = [age EXCEPT ![t] = @ + 1]
    /\ UNCHANGED <<config, meta, load, cachedModels, count, timeout, schedVars, hasWaited, mu, sub, poll,
                   jobs, faults>>

SetRedelivery ==
    /\ Fault
    /\ timeout' = 3 - timeout
    /\ UNCHANGED <<config, meta, load, cachedModels, count, age, schedVars, hasWaited, mu, sub, poll, jobs>>

-----------------------------------------------------------------------------
\* redeliverExpiredTasksIndexed, run by every poll first.  Its three loops go
\* over the leases popped; a loop that is through gives way to the next.
NextLoop(p) ==
    IF p.todo # {} THEN p
    ELSE IF p.valid = {} THEN [Idle EXCEPT !.pc = "assign"]
    ELSE [p EXCEPT !.pc = IF p.pc = "validate" THEN "append" ELSE "requeue",
                   !.todo = IF p.pc = "validate" THEN p.valid ELSE {}]

\* Mutant: a popped lease stays in runningLeases and in the heap.
PopExpiredKeeps(w) ==
    /\ poll[w].pc = "idle" /\ mu = NoHolder
    /\ poll' = [poll EXCEPT ![w] = NextLoop([Idle EXCEPT !.pc = "validate", !.todo = Expired])]
    /\ UNCHANGED <<config, metaVars, schedVars, hasWaited, mu, sub, jobs, faults>>

PopExpiredRunning(w) ==
    /\ poll[w].pc = "idle" /\ mu = NoHolder
    /\ deadlines' = deadlines \ Due
    /\ leases' = [t \in Tasks |-> IF \E d \in Expired : d[1] = t THEN NoLease ELSE leases[t]]
    /\ poll' = [poll EXCEPT ![w] = NextLoop([Idle EXCEPT !.pc = "validate", !.todo = Expired])]
    /\ UNCHANGED <<config, metaVars, queues, known, queued, view, hasWaited, mu, sub, jobs, faults>>

\* The first loop: a lease that is not expired any more is tracked again.
Validate(w) ==
    /\ poll[w].pc = "validate" /\ mu = NoHolder
    /\ \E d \in poll[w].todo :
        LET t == d[1]
            same == meta[t].status = "RUNNING" /\ meta[t].epoch = d[2]
            old == age[t] >= timeout
        IN /\ CASE ~same -> resyncSchedulerTask(t)
                [] same /\ ~old -> TrackRunning(t, d[2]) /\ UNCHANGED <<queues, known, queued, view>>
                [] same /\ old -> UNCHANGED schedVars
           /\ poll' = [poll EXCEPT ![w] = NextLoop([poll[w] EXCEPT !.todo = @ \ {d},
                        !.valid = IF same /\ old THEN @ \cup {d} ELSE @])]
    /\ UNCHANGED <<config, metaVars, hasWaited, mu, sub, jobs, faults>>

\* The second loop reads the task again and writes TaskRedelivered with the
\* epoch it finds.
AppendRedelivered(w) ==
    /\ poll[w].pc = "append"
    /\ \E d \in poll[w].todo :
        poll' = [poll EXCEPT ![w] = NextLoop([poll[w] EXCEPT !.todo = @ \ {d}])]
    /\ UNCHANGED <<config, metaVars, schedVars, hasWaited, mu, sub, jobs, faults>>

\* An append fails: every lease that is still running is tracked again and the
\* poll returns the error.
AppendFails(w) ==
    /\ poll[w].pc = "append" /\ poll[w].todo # {} /\ mu = NoHolder
    /\ Fault
    /\ LET back == {d[1] : d \in poll[w].valid}
           still == {t \in back : meta[t].status = "RUNNING"}
       IN /\ leases' = [t \in Tasks |-> IF t \in still THEN <<meta[t].epoch, timeout>>
                                        ELSE leases[t]]
          /\ deadlines' = deadlines \cup {<<t, meta[t].epoch, timeout>> : t \in still}
    /\ poll' = [poll EXCEPT ![w] = Idle]
    /\ UNCHANGED <<config, metaVars, queues, known, queued, view, hasWaited, mu, sub, jobs>>

\* RequeueTaskIfLeaseExpired gives the task back to the queue if the lease is
\* still the one that was popped.
Requeue(w) ==
    /\ poll[w].pc = "requeue" /\ poll[w].task = 0 /\ mu = NoHolder
    /\ \E d \in poll[w].valid : LET t == d[1] IN
        IF meta[t].status = "RUNNING" /\ meta[t].epoch = d[2] /\ age[t] >= timeout
        THEN /\ meta' = [meta EXCEPT ![t].status = "QUEUED", ![t].worker = NoHolder]
             /\ age' = [age EXCEPT ![t] = 0]
             /\ load' = [load EXCEPT ![meta[t].worker] = IF @ = 0 THEN 0 ELSE @ - 1]
             /\ poll' = [poll EXCEPT ![w].valid = @ \ {d}, ![w].task = t]
             /\ UNCHANGED <<cachedModels, count, timeout, schedVars>>
        ELSE /\ resyncSchedulerTask(t)
             /\ poll' = [poll EXCEPT ![w] = NextLoop([poll[w] EXCEPT !.valid = @ \ {d}])]
             /\ UNCHANGED metaVars
    /\ UNCHANGED <<config, hasWaited, mu, sub, jobs, faults>>

RequeueEnqueue(w) ==
    /\ poll[w].pc = "requeue" /\ poll[w].task # 0 /\ mu = NoHolder
    /\ Enqueue(poll[w].task)
    /\ poll' = [poll EXCEPT ![w] = NextLoop([poll[w] EXCEPT !.task = 0])]
    /\ UNCHANGED <<config, metaVars, leases, deadlines, view, hasWaited, mu, sub, jobs, faults>>

-----------------------------------------------------------------------------
\* pollTaskIndexed.
\* The queues visited lose what was pruned and dropped, queue k its front too.
Search(visited, k) ==
    LET gone == UNION {Dropped(j) : j \in visited}
    IN /\ queues' = [j \in Queues |-> IF j \notin visited THEN queues[j]
                                      ELSE IF j = k THEN Tail(Searched(j)) ELSE Searched(j)]
       /\ known' = known \ gone
       /\ queued' = queued \ (gone \cup IF k \in visited THEN {FrontTask(k)} ELSE {})

Assign(w) ==
    /\ poll[w].pc = "assign" /\ mu = NoHolder
    /\ \E k \in CandidateQueues(w) :
        /\ Assignable(k, w) /\ ~CheckLocks(k, w)
        /\ \A j \in CandidateQueues(w) : Before(j, k) => ~Taken(j, w)
        /\ Search({j \in CandidateQueues(w) : j = k \/ Before(j, k)}, k)
        /\ poll' = [poll EXCEPT ![w] = [Idle EXCEPT !.pc = "lease", !.task = FrontTask(k)]]
    /\ UNCHANGED <<config, metaVars, leases, deadlines, view, hasWaited, mu, sub, jobs, faults>>

AssignNothing(w) ==
    /\ poll[w].pc = "assign" /\ mu = NoHolder
    /\ \A k \in CandidateQueues(w) : ~Taken(k, w)
    /\ Search(CandidateQueues(w), <<"none", "none">>)
    /\ poll' = [poll EXCEPT ![w] = Idle]
    /\ UNCHANGED <<config, metaVars, leases, deadlines, view, hasWaited, mu, sub, jobs, faults>>

\* The callback waits for the mutex its caller holds.
AssignLocksTwice(w) ==
    /\ poll[w].pc = "assign" /\ mu = NoHolder
    /\ \E k \in CandidateQueues(w) :
        /\ CheckLocks(k, w)
        /\ \A j \in CandidateQueues(w) : Before(j, k) => ~Taken(j, w)
    /\ mu' = w
    /\ Goto(w, "check")
    /\ UNCHANGED <<config, metaVars, schedVars, hasWaited, sub, jobs, faults>>

\* LeaseTask; a task that was taken meanwhile is forgotten and the poll asks again.
LeaseTask(w) ==
    /\ poll[w].pc = "lease" /\ mu = NoHolder
    /\ LET t == poll[w].task IN
       IF QueuedTask(t)
       THEN /\ meta' = [meta EXCEPT ![t] = [status |-> "RUNNING", epoch |-> @.epoch + 1,
                                           worker |-> w]]
            /\ age' = [age EXCEPT ![t] = 0]
            /\ load' = [load EXCEPT ![w] = @ + 1]
            /\ Goto(w, "track")
            /\ UNCHANGED <<cachedModels, count, timeout, schedVars>>
       ELSE /\ Forget(t)
            /\ Goto(w, "assign")
            /\ UNCHANGED <<metaVars, queues, deadlines, view>>
    /\ UNCHANGED <<config, hasWaited, mu, sub, jobs, faults>>

NewJob(w) == [t |-> poll[w].task, w |-> w, e |-> meta[poll[w].task].epoch, pc |-> "run"]

\* updateSchedulerWorker and TrackRunning, then the answer to the worker.
PollTracks(w) ==
    /\ poll[w].pc = "track" /\ mu = NoHolder
    /\ UpdateSchedulerWorker(w)
    /\ TrackRunning(poll[w].task, meta[poll[w].task].epoch)
    /\ jobs' = jobs \cup {NewJob(w)}
    /\ poll' = [poll EXCEPT ![w] = Idle]
    /\ UNCHANGED <<config, metaVars, queues, known, queued, hasWaited, mu, sub, faults>>

-----------------------------------------------------------------------------
\* CompleteTask: the metadata first, the scheduler later.  A completion of an
\* earlier lease is rejected.
CompleteMeta(j) ==
    /\ j \in jobs /\ j.pc = "run"
    /\ IF HoldsLease(j.t, j.w, j.e)
       THEN /\ meta' = [meta EXCEPT ![j.t].status = "DONE"]
            /\ count' = IF Queue[j.t][1] = "actor"
                        THEN [count EXCEPT ![Queue[j.t][2]] = CommandSeq[j.t]] ELSE count
            /\ load' = [load EXCEPT ![j.w] = IF @ = 0 THEN 0 ELSE @ - 1]
            /\ jobs' = (jobs \ {j}) \cup {[j EXCEPT !.pc = "done"]}
       ELSE jobs' = jobs \ {j} /\ UNCHANGED <<meta, count, load>>
    /\ UNCHANGED <<config, cachedModels, age, timeout, schedVars, hasWaited, mu, sub, poll, faults>>

CompleteRunning(j) ==
    /\ j \in jobs /\ j.pc = "done" /\ mu = NoHolder
    /\ Forget(j.t)
    /\ UpdateSchedulerWorker(j.w)
    /\ jobs' = jobs \ {j}
    /\ UNCHANGED <<config, metaVars, queues, deadlines, hasWaited, mu, sub, poll, faults>>

\* The worker dies with the lease, or its answer is lost.
WorkerLost(j) ==
    /\ j \in jobs /\ j.pc = "run" /\ j.e < MaxEpoch
    /\ Fault
    /\ jobs' = jobs \ {j}
    /\ UNCHANGED <<config, metaVars, schedVars, hasWaited, mu, sub, poll>>

PollStep(w) ==
    \/ PopExpiredRunning(w) \/ Validate(w) \/ AppendRedelivered(w)
    \/ Requeue(w) \/ RequeueEnqueue(w)
    \/ Assign(w) \/ AssignNothing(w) \/ AssignLocksTwice(w)
    \/ LeaseTask(w) \/ PollTracks(w)

SchedNext ==
    \/ \E t \in Tasks : CreateQueued(t) \/ SubmitEnqueue(t) \/ LocalityWait(t) \/ Tick(t)
    \/ \E w \in SchedWorkers : PollStep(w) \/ AppendFails(w)
    \/ \E w \in SchedWorkers, ms \in SUBSET Models : WorkerHeartbeat(w, ms)
    \/ \E j \in jobs : CompleteMeta(j) \/ CompleteRunning(j) \/ WorkerLost(j)
    \/ SetRedelivery

SchedSpec == SchedInit /\ [][SchedNext]_schedulerVars

-----------------------------------------------------------------------------
\* Handlers that hold task t between two of its places.
Holders(t) == {w \in SchedWorkers : poll[w].task = t}
Redelivering(t) == \E w \in SchedWorkers : \E d \in poll[w].todo \cup poll[w].valid : d[1] = t

\* A task the metadata calls QUEUED is in the deque of its kind, once, and
\* visible to Assign, or in the hands of exactly one handler that will put it
\* there or lease it: no interleaving of polls, redeliveries and completions
\* loses it or hands it out twice (scheduler.go Enqueue, Assign, Forget).
QueuedFindable ==
    \A t \in Tasks : QueuedTask(t) /\ sub[t] = "done" =>
        \/ Holders(t) = {} /\ t \in queued \cap known
           /\ Cardinality({i \in DOMAIN queues[Queue[t]] : queues[Queue[t]][i] = t}) = 1
        \/ t \notin queued /\ Cardinality(Holders(t)) = 1

\* Every running lease has its deadline tracked, or is with the poll that just
\* took it or with a redelivery that will settle it: a lost worker's task is
\* always found again (TrackRunning, PopExpiredRunning).
RunningTracked ==
    \A t \in Tasks : meta[t].status = "RUNNING" =>
        \/ Holders(t) # {} \/ Redelivering(t)
        \/ /\ leases[t][1] = meta[t].epoch
           /\ <<t, leases[t][1], leases[t][2]>> \in deadlines

\* A redelivery that has read a task as expired can only find it finished when
\* it reads it again, never leased anew: the TaskRedelivered record it writes
\* carries the epoch of the lease that expired (hardening.go:306).
RedeliveredEpoch ==
    \A w \in SchedWorkers : poll[w].pc = "append" =>
        \A d \in poll[w].todo : meta[d[1]].epoch = d[2]

\* No unfinished task is lost: both of the above, for polls, redeliveries, completions
\* and changes of the timeout in any order (pollTaskIndexed, redeliverExpiredTasksIndexed).
UnfinishedFindable == QueuedFindable /\ RunningTracked
=============================================================================
