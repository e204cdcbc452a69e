------------------------------ MODULE TaskIndex ------------------------------
(***************************************************************************)
(* The task store of the in-memory metadata (taskStoreV2, internal/        *)
(* metadata/memory_v2.go).  A mutation changes the record under its        *)
(* shard's lock, releases it, and only then brings the secondary indexes   *)
(* and afterwards the heap of running leases up to date, each under a lock *)
(* of its own.                                                             *)
(*                                                                         *)
(* The callers are those of internal/control: a task is leased after the   *)
(* call that queued it returned, and a lease is completed or expired after *)
(* the call that granted it returned.  Completion, the heap-driven         *)
(* recovery and the targeted recovery of one lease run concurrently.       *)
(***************************************************************************)
EXTENDS Integers, FiniteSets

CONSTANTS IdxTasks, IdxWorkers, IdxClients,
          MaxLease       \* bound: leases of one task

VARIABLES
    shard,     \* shard[t]: status, worker and lease epoch of the record
    byIdem,    \* tasks that the idempotency index names
    allTasks, byStatus, byWorker,
    heap,      \* heap[t]: lease epoch of the entry of t, 0 if there is none
    client,    \* client[c]: what the goroutine of a call has still to do
    ready,     \* tasks whose queueing call has returned
    granted,   \* leases whose call has returned: task, epoch, worker
    lister     \* a call of listByStatus

idxVars == <<shard, byIdem, allTasks, byStatus, byWorker, heap, client, ready, granted, lister>>

Absent == [st |-> "none", worker |-> "", epoch |-> 0]
Terminal == {"SUCCEEDED", "FAILED"}
Indexed == {"QUEUED", "RUNNING"}
Statuses == Indexed \cup Terminal
NoCall == [pc |-> "rest"]
NoList == [pc |-> "rest", st |-> "QUEUED", ids |-> {}, out |-> {}, must |-> {}]

\* The record changes under the shard lock; a listing no longer owes the task.
Mutated(c, t, new) ==
    /\ shard' = [shard EXCEPT ![t] = new]
    /\ client' = [client EXCEPT ![c] = [pc |-> "index", t |-> t, prev |-> shard[t], cur |-> new]]
    /\ lister' = [lister EXCEPT !.must = @ \ {t}]
    /\ UNCHANGED <<allTasks, byStatus, byWorker, heap>>

-----------------------------------------------------------------------------
\* A duplicate key returns the existing task.
create(c, t) ==
    /\ client[c].pc = "rest" /\ t \notin byIdem
    /\ Mutated(c, t, [st |-> "QUEUED", worker |-> "", epoch |-> 0])
    /\ byIdem' = byIdem \cup {t}
    /\ UNCHANGED <<ready, granted>>

lease(c, t, w) ==
    /\ client[c].pc = "rest" /\ t \in ready /\ shard[t].epoch < MaxLease
    /\ Mutated(c, t, [st |-> "RUNNING", worker |-> w, epoch |-> shard[t].epoch + 1])
    /\ ready' = ready \ {t}
    /\ UNCHANGED <<byIdem, granted>>

\* Only the owner of the current lease of a running task.
Owns(g) ==
    /\ shard[g.t].st = "RUNNING" /\ shard[g.t].worker = g.w /\ shard[g.t].epoch = g.e

complete(c, g, st) ==
    /\ client[c].pc = "rest" /\ g \in granted /\ Owns(g)
    /\ Mutated(c, g.t, [shard[g.t] EXCEPT !.st = st])
    /\ UNCHANGED <<byIdem, ready, granted>>

\* The heap supplies an expired lease.  It has left the heap when it is validated.
popRunningBefore(c, t) ==
    /\ client[c].pc = "rest" /\ heap[t] > 0
    /\ heap' = [heap EXCEPT ![t] = 0]
    /\ client' = [client EXCEPT ![c] = [pc |-> "expire", t |-> t, e |-> heap[t]]]
    /\ UNCHANGED <<shard, byIdem, allTasks, byStatus, byWorker, ready, granted, lister>>

\* The scheduler names the lease it has tracked.
requeueTaskIfLeaseExpired(c, g) ==
    /\ client[c].pc = "rest" /\ g \in granted
    /\ client' = [client EXCEPT ![c] = [pc |-> "expire", t |-> g.t, e |-> g.e]]
    /\ UNCHANGED <<shard, byIdem, allTasks, byStatus, byWorker, heap, ready, granted, lister>>

StillExpired(c) ==
    /\ shard[client[c].t].st = "RUNNING" /\ shard[client[c].t].epoch = client[c].e

requeueTaskAt(c) ==
    /\ client[c].pc = "expire"
    /\ IF StillExpired(c)
       THEN Mutated(c, client[c].t, [shard[client[c].t] EXCEPT !.st = "QUEUED", !.worker = ""])
       ELSE /\ client' = [client EXCEPT ![c] = NoCall]
            /\ UNCHANGED <<shard, allTasks, byStatus, byWorker, heap, lister>>
    /\ UNCHANGED <<byIdem, ready, granted>>

-----------------------------------------------------------------------------
\* Mutant: a completed task stays in the index of its worker.
WorkerIndexKept(c) ==
    LET prev == client[c].prev  cur == client[c].cur  t == client[c].t IN
    [w \in IdxWorkers |->
        IF cur.st = "RUNNING" /\ cur.worker = w THEN byWorker[w] \cup {t}
        ELSE IF cur.st = "QUEUED" /\ prev.worker = w THEN byWorker[w] \ {t} ELSE byWorker[w]]

WorkerIndex(c) ==
    LET prev == client[c].prev  cur == client[c].cur  t == client[c].t IN
    [w \in IdxWorkers |->
        IF cur.st = "RUNNING" /\ cur.worker = w THEN byWorker[w] \cup {t}
        ELSE IF prev.st = "RUNNING" /\ prev.worker = w THEN byWorker[w] \ {t} ELSE byWorker[w]]

\* replaceTaskIndexes, under indexMu.
replaceTaskIndexes(c) ==
    /\ client[c].pc = "index"
    /\ allTasks' = allTasks \cup {client[c].t}
    /\ byStatus' = [s \in Indexed |-> IF s = client[c].cur.st THEN byStatus[s] \cup {client[c].t}
                                      ELSE IF s = client[c].prev.st THEN byStatus[s] \ {client[c].t}
                                      ELSE byStatus[s]]
    /\ byWorker' = WorkerIndex(c)
    /\ client' = [client EXCEPT ![c].pc = "heap"]
    /\ UNCHANGED <<shard, byIdem, heap, ready, granted, lister>>

\* untrackRunning and trackRunning, under deadlineMu; the call returns.
trackRunning(c) ==
    LET t == client[c].t  prev == client[c].prev  cur == client[c].cur IN
    /\ client[c].pc = "heap"
    /\ heap' = [heap EXCEPT ![t] = IF cur.st = "RUNNING" THEN cur.epoch
                                   ELSE IF prev.st = "RUNNING" THEN 0 ELSE @]
    /\ client' = [client EXCEPT ![c] = NoCall]
    /\ ready' = IF cur.st = "QUEUED" THEN ready \cup {t} ELSE ready
    /\ granted' = IF cur.st = "RUNNING" THEN granted \cup {[t |-> t, e |-> cur.epoch, w |-> cur.worker]}
                  ELSE granted
    /\ UNCHANGED <<shard, byIdem, allTasks, byStatus, byWorker, lister>>

-----------------------------------------------------------------------------

indexedTaskIDsByStatus(st) == IF st \in Indexed THEN byStatus[st] ELSE allTasks

\* The tasks no call is working on.
Quiet == {t \in IdxTasks : \A c \in IdxClients : client[c].pc # "rest" => client[c].t # t}

listByStatus(st) ==
    /\ lister.pc = "rest"
    /\ lister' = [pc |-> "read", st |-> st, ids |-> indexedTaskIDsByStatus(st), out |-> {},
                  must |-> {t \in Quiet : shard[t].st = st}]
    /\ UNCHANGED <<shard, byIdem, allTasks, byStatus, byWorker, heap, client, ready, granted>>

\* Each record is read again under its shard's lock.
ListRead(t) ==
    /\ lister.pc = "read" /\ t \in lister.ids
    /\ lister' = [lister EXCEPT !.ids = @ \ {t},
                                !.out = IF shard[t].st = lister.st THEN @ \cup {t} ELSE @]
    /\ UNCHANGED <<shard, byIdem, allTasks, byStatus, byWorker, heap, client, ready, granted>>

ListReturns ==
    /\ lister.pc = "read" /\ lister.ids = {}
    /\ lister' = NoList
    /\ UNCHANGED <<shard, byIdem, allTasks, byStatus, byWorker, heap, client, ready, granted>>

-----------------------------------------------------------------------------
IdxInit ==
    /\ shard = [t \in IdxTasks |-> Absent] /\ byIdem = {}
    /\ allTasks = {} /\ byStatus = [s \in Indexed |-> {}] /\ byWorker = [w \in IdxWorkers |-> {}]
    /\ heap = [t \in IdxTasks |-> 0]
    /\ client = [c \in IdxClients |-> NoCall]
    /\ ready = {} /\ granted = {} /\ lister = NoList

IdxNext ==
    \/ \E c \in IdxClients :
       \/ \E t \in IdxTasks : create(c, t) \/ popRunningBefore(c, t) \/ \E w \in IdxWorkers : lease(c, t, w)
       \/ \E g \in granted : requeueTaskIfLeaseExpired(c, g) \/ \E st \in Terminal : complete(c, g, st)
       \/ requeueTaskAt(c) \/ replaceTaskIndexes(c) \/ trackRunning(c)
    \/ \E st \in Statuses : listByStatus(st)
    \/ \E t \in IdxTasks : ListRead(t)
    \/ ListReturns

IdxSpec == IdxInit /\ [][IdxNext]_idxVars

-----------------------------------------------------------------------------
\* Once no call works on a task, every index and the heap agree with its record: in
\* particular a running lease can be found by the expiry scan, although its entry may
\* have been taken out by a recovery that was then refused (replaceTaskIndexes).
TaskIndexExact ==
    \A t \in Quiet :
        /\ t \in allTasks <=> shard[t].st # "none"
        /\ \A s \in Indexed : t \in byStatus[s] <=> shard[t].st = s
        /\ \A w \in IdxWorkers : t \in byWorker[w] <=> shard[t].st = "RUNNING" /\ shard[t].worker = w
        /\ heap[t] = IF shard[t].st = "RUNNING" THEN shard[t].epoch ELSE 0

\* A listing returns every task that had the status when it began, through a call that
\* had returned, and that no call changed while it read (listByStatus).
ListComplete ==
    lister.pc = "read" /\ lister.ids = {} => lister.must \subseteq lister.out

\* The indexes can be used in place of the records: exact at rest, and complete for a
\* listing that runs while they change (replaceTaskIndexes, listByStatus).
IndexesFaithful == TaskIndexExact /\ ListComplete
=============================================================================
