--------------------------- MODULE SchedulerProofs ---------------------------
(***************************************************************************)
(* Proofs about the indexed scheduler.  Every task that is not finished is *)
(* in exactly one place: with its submitter, in the deque of its kind,     *)
(* with the poll that took it from there or gave it back, under a tracked  *)
(* lease, or with the one redelivery that popped that lease.  The places   *)
(* are stated one by one (Deques, Places, HoldersExact, PoppedExact,       *)
(* LeasesExact); each handler step moves a task from one to the next.      *)
(***************************************************************************)
EXTENDS SchedulerV2, FiniteSetTheorems, SequenceTheorems, TLAPS

Statuses == {"NONE", "QUEUED", "RUNNING", "DONE"}
LeaseRecords == Tasks \X Nat \X {1, 2}
Loops == {"validate", "append", "requeue"}
PollPcs == Loops \cup {"idle", "assign", "check", "lease", "track"}
PollRecords == [pc : PollPcs, todo : SUBSET LeaseRecords, valid : SUBSET LeaseRecords, task : Tasks \cup {0}]
Popped(w) == poll[w].todo \cup poll[w].valid

SchedTypes ==
    /\ meta \in [Tasks -> [status : Statuses, epoch : Nat, worker : SchedWorkers \cup {NoHolder}]]
    /\ timeout \in {1, 2}
    /\ queues \in [Queues -> Seq(Tasks)]
    /\ known \subseteq Tasks /\ queued \subseteq known
    /\ leases \in [Tasks -> Nat \X Nat] /\ deadlines \subseteq LeaseRecords
    /\ sub \in [Tasks -> {"new", "created", "done"}]
    /\ poll \in [SchedWorkers -> PollRecords]
    /\ jobs \subseteq [t : Tasks, w : SchedWorkers, e : Nat, pc : {"run", "done"}]

\* Where a poll may hold leases and tasks.
Fits(p) ==
    /\ p.pc \notin Loops => p.todo = {} /\ p.valid = {}
    /\ p.pc = "validate" => p.todo \cap p.valid = {}
    /\ p.pc = "append" => p.todo \subseteq p.valid
    /\ p.pc = "requeue" => p.todo = {}
    /\ p.task # 0 => p.pc \in {"lease", "track", "requeue"}
    /\ p.pc \in {"lease", "track"} => p.task # 0
PollsFit == \A w \in SchedWorkers : Fits(poll[w])

\* A deque holds the queued tasks of its kind, each once.
Deques ==
    /\ \A k \in Queues : \A i \in 1..Len(queues[k]) :
         /\ queues[k][i] \in queued /\ Queue[queues[k][i]] = k
         /\ \A j \in 1..Len(queues[k]) : queues[k][i] = queues[k][j] => i = j
    /\ \A t \in queued : \E i \in 1..Len(queues[Queue[t]]) : queues[Queue[t]][i] = t

\* A task is in the deques from its submission to its lease, unless a poll has it.
Places ==
    \A t \in Tasks :
        /\ sub[t] = "new" <=> meta[t].status = "NONE"
        /\ sub[t] = "created" => QueuedTask(t)
        /\ t \in queued => QueuedTask(t) /\ sub[t] = "done" /\ \A w \in SchedWorkers : poll[w].task # t
        /\ QueuedTask(t) /\ sub[t] = "done" => t \in queued \/ \E w \in SchedWorkers : poll[w].task = t

\* A task a poll has is with no other poll, nor tracked.
HoldersExact ==
    \A w \in SchedWorkers : poll[w].task # 0 =>
        /\ sub[poll[w].task] = "done" /\ leases[poll[w].task] = NoLease
        /\ poll[w].pc # "track" => QueuedTask(poll[w].task)
        /\ poll[w].pc = "track" => meta[poll[w].task].status \in {"RUNNING", "DONE"}
        /\ \A v \in SchedWorkers : poll[v].task = poll[w].task => v = w

\* A popped lease is still the current one of its task, and with one redelivery only.
PoppedExact ==
    \A w \in SchedWorkers : \A d \in Popped(w) :
        /\ meta[d[1]].epoch = d[2] /\ meta[d[1]].status \in {"RUNNING", "DONE"}
        /\ leases[d[1]] = NoLease /\ \A v \in SchedWorkers : poll[v].task # d[1]
        /\ \A v \in SchedWorkers : \A c \in Popped(v) : c[1] = d[1] => v = w /\ c = d

\* A tracked lease is the current one of its task and its deadline is in the heap; a
\* running task is tracked or with a poll.
LeasesExact ==
    \A t \in Tasks :
        /\ leases[t] # NoLease =>
             /\ leases[t][1] = meta[t].epoch /\ meta[t].status \in {"RUNNING", "DONE"}
             /\ <<t, leases[t][1], leases[t][2]>> \in deadlines
        /\ leases[t] = NoLease /\ meta[t].status = "RUNNING" =>
             \E w \in SchedWorkers : poll[w].task = t \/ \E d \in Popped(w) : d[1] = t

JobsDone == \A j \in jobs : j.pc = "done" => Terminal(j.t)

SchedInv == SchedTypes /\ PollsFit /\ Deques /\ Places /\ HoldersExact /\ PoppedExact /\ LeasesExact /\ JobsDone

-----------------------------------------------------------------------------
(* The deques. *)

\* The queues stay those of the submitted routes.
LEMMA QueueOf == \A t \in Tasks : Queue[t] \in Queues
  BY DEF Queues

LEMMA StepQueues == Queue' = Queue => Queues' = Queues
  BY DEF Queues

\* Enqueue of a task that is in no deque appends it to the one of its kind.
LEMMA Enqueued ==
    ASSUME SchedTypes, Deques, NEW t \in Tasks, t \notin queued, Enqueue(t), Queue' = Queue
    PROVE  /\ Deques' /\ queued' = queued \cup {t} /\ known' = known \cup {t}
           /\ queues' \in [Queues' -> Seq(Tasks)] /\ known' \subseteq Tasks /\ queued' \subseteq known'
<1> DEFINE k == Queue[t]
           q == queues[k]
<1>0. k \in Queues /\ Queues' = Queues /\ q \in Seq(Tasks) /\ Len(q) \in Nat
  BY QueueOf, StepQueues DEF SchedTypes
<1>1. queues' = [queues EXCEPT ![k] = Append(q, t)] /\ queued' = queued \cup {t} /\ known' = known \cup {t}
  BY DEF Enqueue
<1>2. /\ queues'[k] = Append(q, t) /\ \A j \in Queues : j # k => queues'[j] = queues[j]
      /\ queues' \in [Queues -> Seq(Tasks)]
  BY <1>0, <1>1 DEF SchedTypes
<1>3. /\ Len(Append(q, t)) = Len(q) + 1 /\ Append(q, t)[Len(q) + 1] = t
      /\ \A i \in 1..Len(q) : Append(q, t)[i] = q[i]
  BY <1>0
<1> HIDE DEF q, k
<1>4. ASSUME NEW j \in Queues, NEW i \in 1..Len(queues'[j])
      PROVE  /\ queues'[j][i] \in queued' /\ Queue[queues'[j][i]] = j
             /\ \A h \in 1..Len(queues'[j]) : queues'[j][i] = queues'[j][h] => i = h
  <2>1. CASE j # k
    BY <1>1, <1>2, <2>1, <1>4 DEF Deques
  <2>2. CASE j = k
    <3>1. \A h \in 1..Len(q) : q[h] \in queued /\ Queue[q[h]] = k /\ q[h] # t
      BY <1>0 DEF Deques, q
    <3>2. \A h, g \in 1..Len(q) : q[h] = q[g] => h = g
      BY <1>0 DEF Deques, q
    <3>3. \A h \in 1..(Len(q) + 1) : h \in 1..Len(q) \/ h = Len(q) + 1
      BY <1>0
    <3>4. Queue[t] = k
      BY DEF k
    <3> QED  BY <1>1, <1>2, <1>3, <2>2, <3>1, <3>2, <3>3, <3>4
  <2> QED  BY <2>1, <2>2
<1>5. ASSUME NEW u \in queued'
      PROVE  \E i \in 1..Len(queues'[Queue[u]]) : queues'[Queue[u]][i] = u
  <2>1. CASE u = t
    <3>1. Len(q) + 1 \in 1..(Len(q) + 1) /\ Queue[u] = k
      BY <1>0, <2>1 DEF k
    <3> QED  BY <1>2, <1>3, <2>1, <3>1
  <2>2. CASE u # t
    <3>1. u \in queued
      BY <1>1, <2>2, <1>5
    <3>2. PICK i \in 1..Len(queues[Queue[u]]) : queues[Queue[u]][i] = u
      BY <3>1 DEF Deques
    <3>3. CASE Queue[u] = k
      <4>1. i \in 1..(Len(q) + 1) /\ i \in 1..Len(q) /\ q[i] = u
        BY <1>0, <3>2, <3>3 DEF q
      <4> QED  BY <1>2, <1>3, <3>3, <4>1
    <3>4. CASE Queue[u] # k
      <4>1. Queue[u] \in Queues
        BY <3>1, QueueOf DEF SchedTypes
      <4> QED  BY <1>2, <3>2, <3>4, <4>1
    <3> QED  BY <3>3, <3>4
  <2> QED  BY <2>1, <2>2
<1>6. Deques'
  BY <1>0, <1>4, <1>5 DEF Deques
<1> QED  BY <1>0, <1>1, <1>2, <1>6 DEF SchedTypes

\* No entry of a deque is stale: the front is the first entry, and a search drops nothing.
LEMMA FrontIsFirst ==
    ASSUME SchedTypes, Deques, Places, NEW k \in Queues
    PROVE  /\ FrontAt(k) = IF queues[k] = <<>> THEN 0 ELSE 1
           /\ Searched(k) = queues[k] /\ Dropped(k) = {}
<1> DEFINE q == queues[k]
           I == {i \in 1..Len(q) : Live(q[i]) /\ (QueuedTask(q[i]) \/ OutOfTurn(q[i]))}
<1>0. q \in Seq(Tasks) /\ Len(q) \in Nat
  BY DEF SchedTypes
<1>1. \A i \in 1..Len(q) : q[i] \in queued /\ q[i] \in known /\ QueuedTask(q[i])
  BY <1>0 DEF Deques, SchedTypes, Places
<1>2. I = 1..Len(q)
  BY <1>1 DEF Live
<1>3. FrontAt(k) = IF I # {} THEN Min(I) ELSE 0
  BY DEF FrontAt, SelectInSeq
<1>4. q = <<>> <=> Len(q) = 0
  BY <1>0
<1>5. CASE q = <<>>
  <2>1. FrontAt(k) = 0
    BY <1>2, <1>3, <1>4, <1>5
  <2>2. Searched(k) = <<>>
    BY <2>1 DEF Searched
  <2>3. ToSet(q) = {}
    BY <1>0, <1>4, <1>5 DEF ToSet
  <2> QED  BY <1>5, <2>1, <2>2, <2>3 DEF Dropped
<1>6. CASE q # <<>>
  <2>1. 1 \in I /\ \A i \in I : 1 <= i
    BY <1>0, <1>2, <1>4, <1>6
  <2>2. \A x \in I : (\A y \in I : x <= y) => x = 1
    BY <1>2, <2>1
  <2>3. Min(I) = 1
    BY <2>1, <2>2 DEF Min
  <2>4. FrontAt(k) = 1
    BY <1>3, <2>1, <2>3
  <2>5. Searched(k) = SubSeq(q, 1, Len(q))
    BY <2>4 DEF Searched, Rest
  <2>6. Searched(k) = q
    BY <1>0, <2>5
  <2> QED  BY <1>6, <2>4, <2>6 DEF Dropped
<1> QED  BY <1>5, <1>6

\* Search takes the first entry of the queue assigned from and changes nothing else.
LEMMA SearchTakes ==
    ASSUME SchedTypes, Deques, Places, Queue' = Queue, NEW V, V \subseteq Queues, NEW k, Search(V, k),
           k \in V => queues[k] # <<>>
    PROVE  /\ known' = known
           /\ k \notin V => queues' = queues /\ queued' = queued
           /\ k \in V => /\ queued' = queued \ {Head(queues[k])} /\ FrontTask(k) = Head(queues[k])
                         /\ queues' = [queues EXCEPT ![k] = Tail(queues[k])]
<1>1. \A j \in V : Searched(j) = queues[j] /\ Dropped(j) = {}
  BY FrontIsFirst
<1>2. UNION {Dropped(j) : j \in V} = {}
  BY <1>1
<1>3. queues' = [j \in Queues |-> IF j \notin V THEN queues[j] ELSE IF j = k THEN Tail(Searched(j)) ELSE Searched(j)]
  BY DEF Search
<1>4. queues' = [j \in Queues |-> IF j \in V /\ j = k THEN Tail(queues[j]) ELSE queues[j]]
  BY <1>1, <1>3
<1>5. known' = known /\ queued' = queued \ (IF k \in V THEN {FrontTask(k)} ELSE {})
  BY <1>2 DEF Search
<1>6. queues \in [Queues -> Seq(Tasks)]
  BY DEF SchedTypes
<1>7. CASE k \notin V
  BY <1>4, <1>5, <1>6, <1>7
<1>8. CASE k \in V
  <2>1. FrontAt(k) = 1
    BY <1>8, FrontIsFirst
  <2>2. FrontTask(k) = Head(queues[k])
    BY <1>6, <1>8, <2>1 DEF FrontTask
  <2> QED  BY <1>4, <1>5, <1>6, <1>8, <2>2
<1> QED  BY <1>7, <1>8

\* The deque without its first entry.
LEMMA Dequeued ==
    ASSUME SchedTypes, Deques, Queue' = Queue, NEW k \in Queues, queues[k] # <<>>,
           queues' = [queues EXCEPT ![k] = Tail(queues[k])], queued' = queued \ {Head(queues[k])}
    PROVE  /\ Deques' /\ queues' \in [Queues' -> Seq(Tasks)]
           /\ Head(queues[k]) \in queued /\ Queue[Head(queues[k])] = k
<1> DEFINE q == queues[k]
           t == Head(q)
<1>0. q \in Seq(Tasks) /\ Len(q) \in Nat /\ Queues' = Queues /\ Len(q) # 0
  <2>1. q \in Seq(Tasks)
    BY DEF SchedTypes
  <2>2. Len(q) \in Nat /\ Len(q) # 0
    BY <2>1
  <2> QED  BY <2>1, <2>2, StepQueues
<1>1. /\ Tail(q) \in Seq(Tasks) /\ Len(Tail(q)) = Len(q) - 1 /\ t = q[1]
      /\ \A i \in 1..(Len(q) - 1) : Tail(q)[i] = q[i + 1] /\ i + 1 \in 1..Len(q) /\ i + 1 # 1
      /\ 1 \in 1..Len(q)
  BY <1>0
<1>2. /\ queues'[k] = Tail(q) /\ \A j \in Queues : j # k => queues'[j] = queues[j]
      /\ queues' \in [Queues -> Seq(Tasks)]
  BY <1>1 DEF SchedTypes
<1>3. /\ \A i \in 1..Len(q) : q[i] \in queued /\ Queue[q[i]] = k
      /\ \A i, j \in 1..Len(q) : q[i] = q[j] => i = j
  BY DEF Deques
<1>4. t \in queued /\ Queue[t] = k
  BY <1>1, <1>3
<1>5. queued' = queued \ {t}
  OBVIOUS
<1> HIDE DEF q, t
<1>6. ASSUME NEW j \in Queues, NEW i \in 1..Len(queues'[j])
      PROVE  /\ queues'[j][i] \in queued' /\ Queue[queues'[j][i]] = j
             /\ \A h \in 1..Len(queues'[j]) : queues'[j][i] = queues'[j][h] => i = h
  <2>1. CASE j # k
    <3>1. queues'[j] = queues[j]
      BY <1>2, <2>1
    <3>2. queues[j][i] \in queued /\ Queue[queues[j][i]] = j /\ \A h \in 1..Len(queues[j]) : queues[j][i] = queues[j][h] => i = h
      BY <1>6, <3>1 DEF Deques
    <3> QED  BY <1>4, <1>5, <2>1, <3>1, <3>2
  <2>2. CASE j = k
    <3>1. i \in 1..(Len(q) - 1)
      BY <1>1, <1>2, <1>6, <2>2
    <3>2. Tail(q)[i] = q[i + 1] /\ i + 1 \in 1..Len(q) /\ q[i + 1] # t
      BY <1>1, <1>3, <3>1
    <3>3. ASSUME NEW h \in 1..(Len(q) - 1), Tail(q)[i] = Tail(q)[h] PROVE i = h
      <4>1. i + 1 = h + 1
        BY <1>1, <1>3, <3>1, <3>3
      <4> QED  BY <1>0, <3>1, <4>1
    <3>4. Tail(q)[i] \in queued' /\ Queue[Tail(q)[i]] = k
      BY <1>3, <1>5, <3>2
    <3>5. Len(queues'[j]) = Len(q) - 1 /\ queues'[j] = Tail(q)
      BY <1>1, <1>2, <2>2
    <3> QED  BY <2>2, <3>3, <3>4, <3>5
  <2> QED  BY <2>1, <2>2
<1>7. ASSUME NEW u \in queued'
      PROVE  \E i \in 1..Len(queues'[Queue[u]]) : queues'[Queue[u]][i] = u
  <2>1. u \in queued /\ u # t
    BY <1>5, <1>7
  <2>2. PICK i \in 1..Len(queues[Queue[u]]) : queues[Queue[u]][i] = u
    BY <2>1 DEF Deques
  <2>3. CASE Queue[u] = k
    <3>1. i \in 1..Len(q) /\ q[i] = u /\ i # 1
      BY <1>1, <2>1, <2>2, <2>3 DEF q
    <3>2. i - 1 \in 1..(Len(q) - 1) /\ (i - 1) + 1 = i
      BY <1>0, <3>1
    <3>3. Tail(q)[i - 1] = u
      BY <1>1, <3>1, <3>2
    <3> QED  BY <1>1, <1>2, <2>3, <3>2, <3>3
  <2>4. CASE Queue[u] # k
    <3>1. Queue[u] \in Queues
      BY <2>1, QueueOf DEF SchedTypes
    <3> QED  BY <1>2, <2>2, <2>4, <3>1
  <2> QED  BY <2>3, <2>4
<1>8. Deques'
  <2>1. \A j \in Queues' : \A i \in 1..Len(queues'[j]) :
          /\ queues'[j][i] \in queued' /\ Queue'[queues'[j][i]] = j
          /\ \A h \in 1..Len(queues'[j]) : queues'[j][i] = queues'[j][h] => i = h
    BY <1>0, <1>6
  <2>2. \A u \in queued' : \E i \in 1..Len(queues'[Queue'[u]]) : queues'[Queue'[u]][i] = u
    BY <1>7
  <2> QED  BY <2>1, <2>2 DEF Deques
<1> QED  BY <1>0, <1>2, <1>4, <1>8 DEF t, q

-----------------------------------------------------------------------------
(* The polls. *)

LEMMA IdleIs == Idle \in PollRecords /\ Fits(Idle) /\ Idle.task = 0 /\ Idle.todo = {} /\ Idle.valid = {}
  BY DEF Idle, PollRecords, PollPcs, Loops, Fits

\* The next loop of a redelivery goes on with the same leases.
LEMMA NextLoopKeeps ==
    ASSUME NEW p \in PollRecords, p.pc \in Loops, p.task = 0, p.pc = "append" => p.todo \subseteq p.valid,
           p.pc = "validate" => p.todo \cap p.valid = {}, p.pc = "requeue" => p.todo = {}
    PROVE  /\ NextLoop(p) \in PollRecords /\ Fits(NextLoop(p)) /\ NextLoop(p).task = 0
           /\ NextLoop(p).todo \cup NextLoop(p).valid = p.todo \cup p.valid
<1>1. CASE p.todo # {}
  <2>1. NextLoop(p) = p
    BY <1>1 DEF NextLoop
  <2> QED  BY <2>1 DEF Fits, Loops
<1>2. CASE p.todo = {} /\ p.valid = {}
  <2>1. NextLoop(p) = [Idle EXCEPT !.pc = "assign"]
    BY <1>2 DEF NextLoop
  <2>2. NextLoop(p) \in PollRecords /\ Fits(NextLoop(p)) /\ NextLoop(p).task = 0
        /\ NextLoop(p).todo = {} /\ NextLoop(p).valid = {}
    BY <2>1 DEF Idle, PollRecords, PollPcs, Loops, Fits
  <2> QED  BY <1>2, <2>2
<1>3. CASE p.todo = {} /\ p.valid # {}
  <2> DEFINE n == [p EXCEPT !.pc = IF p.pc = "validate" THEN "append" ELSE "requeue",
                            !.todo = IF p.pc = "validate" THEN p.valid ELSE {}]
  <2>1. NextLoop(p) = n
    BY <1>3 DEF NextLoop
  <2>2. /\ n.pc = (IF p.pc = "validate" THEN "append" ELSE "requeue") /\ n.valid = p.valid /\ n.task = 0
        /\ n.todo = (IF p.pc = "validate" THEN p.valid ELSE {})
    BY DEF PollRecords
  <2>3. n \in PollRecords
    BY DEF PollRecords, PollPcs, Loops
  <2> HIDE DEF n
  <2>4. Fits(n) /\ n.todo \cup n.valid = p.valid
    BY <2>2 DEF Fits, Loops
  <2> QED  BY <1>3, <2>1, <2>2, <2>3, <2>4
<1> QED  BY <1>1, <1>2, <1>3

\* What the polls hold after one of them moved.
LEMMA OnePollMoves ==
    ASSUME SchedTypes, NEW w \in SchedWorkers, NEW q \in PollRecords, poll' = [poll EXCEPT ![w] = q]
    PROVE  /\ poll'[w] = q /\ poll' \in [SchedWorkers -> PollRecords]
           /\ \A v \in SchedWorkers : v # w => poll'[v] = poll[v] /\ Popped(v)' = Popped(v)
           /\ Popped(w)' = q.todo \cup q.valid
  BY DEF SchedTypes, Popped

LEMMA PollsFitMoves ==
    ASSUME SchedTypes, PollsFit, NEW w \in SchedWorkers, NEW q \in PollRecords, Fits(q),
           poll' = [poll EXCEPT ![w] = q]
    PROVE  PollsFit'
<1>1. \A v \in SchedWorkers : poll'[v] = q \/ poll'[v] = poll[v]
  BY OnePollMoves
<1>2. ASSUME NEW v \in SchedWorkers PROVE Fits(poll'[v])
  BY <1>1 DEF PollsFit
<1> QED  BY <1>2 DEF PollsFit, Fits

\* A redelivery lets go of the leases S: those of running tasks are tracked again, the
\* others belong to finished tasks.
LEMMA Released ==
    ASSUME SchedInv, Queue' = Queue, UNCHANGED <<meta, timeout, queues, queued, sub, jobs>>,
           NEW w \in SchedWorkers, NEW q \in PollRecords, Fits(q), q.task = 0, poll[w].task = 0,
           poll' = [poll EXCEPT ![w] = q],
           NEW S, S \subseteq Popped(w), q.todo \cup q.valid = Popped(w) \ S,
           leases' \in [Tasks -> Nat \X Nat],
           \A t \in Tasks : leases'[t] = IF (\E d \in S : d[1] = t) /\ meta[t].status = "RUNNING"
                                         THEN <<meta[t].epoch, timeout>> ELSE leases[t],
           deadlines \subseteq deadlines', deadlines' \subseteq LeaseRecords,
           \A t \in Tasks : (\E d \in S : d[1] = t) /\ meta[t].status = "RUNNING"
                              => <<t, meta[t].epoch, timeout>> \in deadlines',
           known' \subseteq known, queued \subseteq known'
    PROVE  SchedInv'
<1> DEFINE Back(t) == (\E d \in S : d[1] = t) /\ meta[t].status = "RUNNING"
<1>t. SchedTypes /\ PollsFit /\ Deques /\ Places /\ HoldersExact /\ PoppedExact /\ LeasesExact /\ JobsDone
  BY DEF SchedInv
<1>1. /\ poll'[w] = q /\ poll' \in [SchedWorkers -> PollRecords]
      /\ \A v \in SchedWorkers : v # w => poll'[v] = poll[v] /\ Popped(v)' = Popped(v)
      /\ Popped(w)' = Popped(w) \ S
  BY <1>t, OnePollMoves
<1>2. /\ \A v \in SchedWorkers : poll'[v].task = poll[v].task
      /\ \A v \in SchedWorkers : Popped(v)' \subseteq Popped(v)
  BY <1>1
<1>3. \A t \in Tasks : leases'[t] = IF Back(t) THEN <<meta[t].epoch, timeout>> ELSE leases[t]
  OBVIOUS
<1>4. \A t \in Tasks : meta[t].epoch \in Nat /\ timeout \in Nat /\ <<meta[t].epoch, timeout>> # NoLease
                       /\ <<meta[t].epoch, timeout>> \in Nat \X Nat
  BY <1>t DEF SchedTypes, NoLease
<1>5. SchedTypes'
  <2>1. Queues' = Queues
    BY StepQueues
  <2> QED  BY <1>1, <1>t, <2>1 DEF SchedTypes
<1>6. PollsFit'
  BY <1>t, PollsFitMoves
<1>7. Deques' /\ JobsDone'
  BY <1>t, StepQueues DEF Deques, JobsDone, Terminal
<1>8. Places'
  BY <1>2, <1>t DEF Places, QueuedTask
<1>9. HoldersExact'
  <2> SUFFICES ASSUME NEW v \in SchedWorkers, poll'[v].task # 0
               PROVE  /\ sub[poll'[v].task] = "done" /\ leases'[poll'[v].task] = NoLease
                      /\ poll'[v].pc # "track" => QueuedTask(poll'[v].task)
                      /\ poll'[v].pc = "track" => meta[poll'[v].task].status \in {"RUNNING", "DONE"}
                      /\ \A u \in SchedWorkers : poll'[u].task = poll'[v].task => u = v
    BY DEF HoldersExact, QueuedTask
  <2>1. v # w /\ poll'[v] = poll[v] /\ poll[v].task \in Tasks
    BY <1>1, <1>t DEF SchedTypes, PollRecords
  <2>2. ~Back(poll[v].task)
    BY <1>t DEF PoppedExact
  <2>3. leases'[poll[v].task] = leases[poll[v].task]
    BY <1>3, <2>1, <2>2
  <2> QED  BY <1>2, <1>t, <2>1, <2>3 DEF HoldersExact
<1>10. PoppedExact'
  <2> SUFFICES ASSUME NEW v \in SchedWorkers, NEW d \in Popped(v)'
               PROVE  /\ meta[d[1]].epoch = d[2] /\ meta[d[1]].status \in {"RUNNING", "DONE"}
                      /\ leases'[d[1]] = NoLease /\ \A u \in SchedWorkers : poll'[u].task # d[1]
                      /\ \A u \in SchedWorkers : \A c \in Popped(u)' : c[1] = d[1] => u = v /\ c = d
    BY DEF PoppedExact
  <2>1. d \in Popped(v) /\ d[1] \in Tasks
    BY <1>2, <1>t DEF SchedTypes, PollRecords, LeaseRecords, Popped
  <2>2. ~Back(d[1])
    <3> SUFFICES ASSUME NEW c \in S, c[1] = d[1] PROVE FALSE
      OBVIOUS
    <3>1. c \in Popped(w)
      OBVIOUS
    <3>2. w = v /\ c = d
      BY <1>t, <2>1, <3>1 DEF PoppedExact
    <3> QED  BY <1>1, <3>2
  <2>3. leases'[d[1]] = leases[d[1]]
    BY <1>3, <2>1, <2>2
  <2>4. /\ meta[d[1]].epoch = d[2] /\ meta[d[1]].status \in {"RUNNING", "DONE"}
        /\ leases[d[1]] = NoLease /\ \A u \in SchedWorkers : poll[u].task # d[1]
        /\ \A u \in SchedWorkers : \A c \in Popped(u) : c[1] = d[1] => u = v /\ c = d
    BY <1>t, <2>1 DEF PoppedExact
  <2> QED  BY <1>2, <2>3, <2>4
<1>11. LeasesExact'
  <2>1. ASSUME NEW t \in Tasks, leases'[t] # NoLease
        PROVE  /\ leases'[t][1] = meta[t].epoch /\ meta[t].status \in {"RUNNING", "DONE"}
               /\ <<t, leases'[t][1], leases'[t][2]>> \in deadlines'
    <3>1. CASE Back(t)
      BY <1>3, <3>1
    <3>2. CASE ~Back(t)
      BY <1>3, <1>t, <2>1, <3>2 DEF LeasesExact
    <3> QED  BY <3>1, <3>2
  <2>2. ASSUME NEW t \in Tasks, leases'[t] = NoLease, meta[t].status = "RUNNING"
        PROVE  \E v \in SchedWorkers : poll'[v].task = t \/ \E d \in Popped(v)' : d[1] = t
    <3>1. ~Back(t) /\ leases[t] = NoLease
      BY <1>3, <1>4, <2>2
    <3>2. PICK v \in SchedWorkers : poll[v].task = t \/ \E d \in Popped(v) : d[1] = t
      BY <1>t, <2>2, <3>1 DEF LeasesExact
    <3>3. \A d \in Popped(v) : d[1] = t => d \in Popped(v)'
      BY <1>1, <2>2, <3>1
    <3> QED  BY <1>2, <3>2, <3>3
  <2> QED  BY <2>1, <2>2 DEF LeasesExact
<1> QED  BY <1>5, <1>6, <1>7, <1>8, <1>9, <1>10, <1>11 DEF SchedInv

-----------------------------------------------------------------------------
(* The steps, one lemma for each that moves a task. *)

LEMMA ExpiredPopped == ASSUME SchedInv, Queue' = Queue, NEW w \in SchedWorkers, PopExpiredRunning(w) PROVE SchedInv'
<1> DEFINE p == [Idle EXCEPT !.pc = "validate", !.todo = Expired]
           Out(t) == \E d \in Expired : d[1] = t
<1>t. SchedTypes /\ PollsFit /\ Deques /\ Places /\ HoldersExact /\ PoppedExact /\ LeasesExact /\ JobsDone
  BY DEF SchedInv
<1>u. UNCHANGED <<meta, timeout, queues, known, queued, sub, jobs>>
  BY DEF PopExpiredRunning, metaVars
<1>0. Expired \subseteq deadlines /\ Expired \subseteq LeaseRecords
  BY <1>t DEF Expired, Due, SchedTypes
<1>1. ASSUME NEW d \in Expired
      PROVE  /\ d[1] \in Tasks /\ leases[d[1]] = <<d[2], d[3]>> /\ leases[d[1]] # NoLease
             /\ meta[d[1]].epoch = d[2] /\ meta[d[1]].status \in {"RUNNING", "DONE"} /\ d = <<d[1], d[2], d[3]>>
  <2>1. leases[d[1]] = <<d[2], d[3]>> /\ d[1] \in Tasks /\ d[3] # 0 /\ d = <<d[1], d[2], d[3]>>
    BY <1>0 DEF Expired, Current, LeaseRecords
  <2>2. leases[d[1]] # NoLease
    BY <2>1 DEF NoLease
  <2> QED  BY <1>t, <2>1, <2>2 DEF LeasesExact
<1>2. p \in PollRecords /\ p.pc = "validate" /\ p.todo = Expired /\ p.valid = {} /\ p.task = 0
  BY <1>0 DEF Idle, PollRecords, PollPcs, Loops
<1> HIDE DEF p
<1>3. /\ NextLoop(p) \in PollRecords /\ Fits(NextLoop(p)) /\ NextLoop(p).task = 0
      /\ NextLoop(p).todo \cup NextLoop(p).valid = Expired
  <2>1. /\ p.todo \cup p.valid = Expired /\ p.todo \cap p.valid = {}
        /\ p.pc \in Loops /\ p.pc # "append" /\ p.pc # "requeue"
    BY <1>2 DEF Loops
  <2> QED  BY <1>2, <2>1, NextLoopKeeps
<1>4. poll' = [poll EXCEPT ![w] = NextLoop(p)]
  BY DEF PopExpiredRunning, p
<1>5. poll[w].task = 0 /\ Popped(w) = {}
  BY <1>t DEF PopExpiredRunning, PollsFit, Fits, Loops, Popped
<1>6. /\ poll'[w] = NextLoop(p) /\ poll' \in [SchedWorkers -> PollRecords]
      /\ \A v \in SchedWorkers : v # w => poll'[v] = poll[v] /\ Popped(v)' = Popped(v)
      /\ Popped(w)' = Expired
  BY <1>3, <1>4, <1>t, OnePollMoves
<1>7. \A v \in SchedWorkers : poll'[v].task = poll[v].task
  BY <1>3, <1>5, <1>6
<1>8. /\ leases' = [t \in Tasks |-> IF Out(t) THEN NoLease ELSE leases[t]] /\ deadlines' = deadlines \ Due
      /\ \A t \in Tasks : leases'[t] = IF Out(t) THEN NoLease ELSE leases[t]
  BY DEF PopExpiredRunning
<1>9. SchedTypes'
  <2>1. Queues' = Queues /\ deadlines' \subseteq LeaseRecords
    BY <1>8, <1>t, StepQueues DEF SchedTypes
  <2>2. leases' \in [Tasks -> Nat \X Nat]
    BY <1>8, <1>t DEF SchedTypes, NoLease
  <2> QED  BY <1>6, <1>t, <1>u, <2>1, <2>2 DEF SchedTypes
<1>10. PollsFit'
  BY <1>3, <1>4, <1>t, PollsFitMoves
<1>11. Deques' /\ JobsDone' /\ Places'
  BY <1>7, <1>t, <1>u, StepQueues DEF Deques, JobsDone, Terminal, Places, QueuedTask
<1>12. HoldersExact'
  <2> SUFFICES ASSUME NEW v \in SchedWorkers, poll'[v].task # 0
               PROVE  /\ sub[poll'[v].task] = "done" /\ leases'[poll'[v].task] = NoLease
                      /\ poll'[v].pc # "track" => QueuedTask(poll'[v].task)
                      /\ poll'[v].pc = "track" => meta[poll'[v].task].status \in {"RUNNING", "DONE"}
                      /\ \A u \in SchedWorkers : poll'[u].task = poll'[v].task => u = v
    BY <1>u DEF HoldersExact, QueuedTask
  <2>1. v # w /\ poll'[v] = poll[v] /\ poll[v].task \in Tasks
    BY <1>5, <1>6, <1>7, <1>t DEF SchedTypes, PollRecords
  <2>2. leases'[poll[v].task] = NoLease
    BY <1>8, <1>t, <2>1 DEF HoldersExact
  <2> QED  BY <1>7, <1>t, <2>1, <2>2 DEF HoldersExact
<1>13. PoppedExact'
  <2> SUFFICES ASSUME NEW v \in SchedWorkers, NEW d \in Popped(v)'
               PROVE  /\ meta[d[1]].epoch = d[2] /\ meta[d[1]].status \in {"RUNNING", "DONE"}
                      /\ leases'[d[1]] = NoLease /\ \A u \in SchedWorkers : poll'[u].task # d[1]
                      /\ \A u \in SchedWorkers : \A c \in Popped(u)' : c[1] = d[1] => u = v /\ c = d
    BY <1>u DEF PoppedExact
  <2>1. CASE v = w
    <3>1. d \in Expired
      BY <1>6, <2>1
    <3>2. /\ meta[d[1]].epoch = d[2] /\ meta[d[1]].status \in {"RUNNING", "DONE"} /\ d[1] \in Tasks
          /\ leases[d[1]] # NoLease /\ leases[d[1]] = <<d[2], d[3]>> /\ d = <<d[1], d[2], d[3]>>
      BY <1>1, <3>1
    <3>3. leases'[d[1]] = NoLease
      BY <1>8, <3>1, <3>2
    <3>4. \A u \in SchedWorkers : poll'[u].task # d[1]
      <4>1. d[1] # 0
        BY <3>2, SchedAssumption
      <4>2. ASSUME NEW u \in SchedWorkers, poll[u].task = d[1] PROVE FALSE
        <5>1. leases[poll[u].task] = NoLease
          BY <1>t, <4>1, <4>2 DEF HoldersExact
        <5> QED  BY <3>2, <4>2, <5>1
      <4> QED  BY <1>7, <4>2
    <3>5. ASSUME NEW u \in SchedWorkers, NEW c \in Popped(u)', c[1] = d[1] PROVE u = v /\ c = d
      <4>1. CASE u = w
        <5>1. c \in Expired
          BY <1>6, <3>5, <4>1
        <5>2. leases[c[1]] = <<c[2], c[3]>> /\ c = <<c[1], c[2], c[3]>>
          BY <1>1, <5>1
        <5> QED  BY <2>1, <3>2, <3>5, <4>1, <5>2
      <4>2. CASE u # w
        <5>1. c \in Popped(u)
          BY <1>6, <3>5, <4>2
        <5> QED  BY <1>t, <3>2, <3>5, <5>1 DEF PoppedExact
      <4> QED  BY <4>1, <4>2
    <3> QED  BY <3>2, <3>3, <3>4, <3>5
  <2>2. CASE v # w
    <3>1. d \in Popped(v) /\ d[1] \in Tasks
      BY <1>6, <1>t, <2>2 DEF SchedTypes, PollRecords, LeaseRecords, Popped
    <3>2. /\ meta[d[1]].epoch = d[2] /\ meta[d[1]].status \in {"RUNNING", "DONE"}
          /\ leases[d[1]] = NoLease /\ \A u \in SchedWorkers : poll[u].task # d[1]
          /\ \A u \in SchedWorkers : \A c \in Popped(u) : c[1] = d[1] => u = v /\ c = d
      BY <1>t, <3>1 DEF PoppedExact
    <3>3. \A c \in Expired : c[1] # d[1]
      BY <1>1, <3>2
    <3>4. leases'[d[1]] = NoLease
      BY <1>8, <3>1, <3>2
    <3>5. \A u \in SchedWorkers : \A c \in Popped(u)' : c[1] = d[1] => u = v /\ c = d
      BY <1>6, <3>2, <3>3
    <3> QED  BY <1>7, <3>2, <3>4, <3>5
  <2> QED  BY <2>1, <2>2
<1>14. LeasesExact'
  <2>1. ASSUME NEW t \in Tasks, leases'[t] # NoLease
        PROVE  /\ leases'[t][1] = meta[t].epoch /\ meta[t].status \in {"RUNNING", "DONE"}
               /\ <<t, leases'[t][1], leases'[t][2]>> \in deadlines'
    <3> DEFINE d == <<t, leases[t][1], leases[t][2]>>
    <3>1. ~Out(t) /\ leases'[t] = leases[t]
      BY <1>8, <2>1
    <3>2. leases[t][1] = meta[t].epoch /\ meta[t].status \in {"RUNNING", "DONE"} /\ d \in deadlines
      BY <1>t, <2>1, <3>1 DEF LeasesExact
    <3>3. leases[t] = <<leases[t][1], leases[t][2]>>
      BY <1>t DEF SchedTypes
    <3>4. d[1] = t /\ Current(d)
      BY <3>3 DEF Current
    <3>5. d \notin Due
      BY <3>1, <3>4 DEF Expired
    <3> QED  BY <1>8, <3>1, <3>2, <3>5
  <2>2. ASSUME NEW t \in Tasks, leases'[t] = NoLease, meta[t].status = "RUNNING"
        PROVE  \E v \in SchedWorkers : poll'[v].task = t \/ \E d \in Popped(v)' : d[1] = t
    <3>1. CASE Out(t)
      BY <1>6, <3>1
    <3>2. CASE ~Out(t)
      <4>1. PICK v \in SchedWorkers : poll[v].task = t \/ \E d \in Popped(v) : d[1] = t
        BY <1>8, <1>t, <2>2, <3>2 DEF LeasesExact
      <4>2. v # w
        BY <1>5, <4>1, SchedAssumption
      <4> QED  BY <1>6, <4>1, <4>2
    <3> QED  BY <3>1, <3>2
  <2> QED  BY <1>u, <2>1, <2>2 DEF LeasesExact
<1> QED  BY <1>9, <1>10, <1>11, <1>12, <1>13, <1>14 DEF SchedInv

\* The invariant, task by task.
TaskAt(t) ==
    /\ /\ sub[t] = "new" <=> meta[t].status = "NONE"
       /\ sub[t] = "created" => QueuedTask(t)
       /\ t \in queued => QueuedTask(t) /\ sub[t] = "done" /\ \A w \in SchedWorkers : poll[w].task # t
       /\ QueuedTask(t) /\ sub[t] = "done" => t \in queued \/ \E w \in SchedWorkers : poll[w].task = t
    /\ \A w \in SchedWorkers : poll[w].task = t =>
        /\ sub[t] = "done" /\ leases[t] = NoLease
        /\ poll[w].pc # "track" => QueuedTask(t)
        /\ poll[w].pc = "track" => meta[t].status \in {"RUNNING", "DONE"}
        /\ \A v \in SchedWorkers : poll[v].task = t => v = w
    /\ \A w \in SchedWorkers : \A d \in Popped(w) : d[1] = t =>
        /\ meta[t].epoch = d[2] /\ meta[t].status \in {"RUNNING", "DONE"}
        /\ leases[t] = NoLease /\ \A v \in SchedWorkers : poll[v].task # t
        /\ \A v \in SchedWorkers : \A c \in Popped(v) : c[1] = t => v = w /\ c = d
    /\ /\ leases[t] # NoLease =>
             /\ leases[t][1] = meta[t].epoch /\ meta[t].status \in {"RUNNING", "DONE"}
             /\ <<t, leases[t][1], leases[t][2]>> \in deadlines
       /\ leases[t] = NoLease /\ meta[t].status = "RUNNING" =>
             \E w \in SchedWorkers : poll[w].task = t \/ \E d \in Popped(w) : d[1] = t

EveryTaskAt == \A t \in Tasks : TaskAt(t)

LEMMA HeldTasks ==
    ASSUME SchedTypes
    PROVE  /\ \A w \in SchedWorkers : poll[w].task # 0 => poll[w].task \in Tasks
           /\ \A w \in SchedWorkers : \A d \in Popped(w) : d[1] \in Tasks /\ d \in LeaseRecords
  BY DEF SchedTypes, PollRecords, LeaseRecords, Popped

LEMMA TasksAt ==
    SchedTypes => (EveryTaskAt <=> (Places /\ HoldersExact /\ PoppedExact /\ LeasesExact))
<1> SUFFICES ASSUME SchedTypes
             PROVE  EveryTaskAt <=> (Places /\ HoldersExact /\ PoppedExact /\ LeasesExact)
  OBVIOUS
<1>0. \A t \in Tasks : t # 0
  BY SchedAssumption
<1>1. ASSUME EveryTaskAt PROVE Places /\ LeasesExact
  BY <1>1 DEF EveryTaskAt, TaskAt, Places, LeasesExact
<1>2. ASSUME EveryTaskAt PROVE HoldersExact
  <2> SUFFICES ASSUME NEW w \in SchedWorkers, NEW t \in Tasks, t = poll[w].task
               PROVE  /\ sub[t] = "done" /\ leases[t] = NoLease
                      /\ poll[w].pc # "track" => QueuedTask(t)
                      /\ poll[w].pc = "track" => meta[t].status \in {"RUNNING", "DONE"}
                      /\ \A v \in SchedWorkers : poll[v].task = t => v = w
    BY HeldTasks DEF HoldersExact
  <2> QED  BY <1>2 DEF EveryTaskAt, TaskAt
<1>3. ASSUME EveryTaskAt PROVE PoppedExact
  <2> SUFFICES ASSUME NEW w \in SchedWorkers, NEW d \in Popped(w)
               PROVE  /\ meta[d[1]].epoch = d[2] /\ meta[d[1]].status \in {"RUNNING", "DONE"}
                      /\ leases[d[1]] = NoLease /\ \A v \in SchedWorkers : poll[v].task # d[1]
                      /\ \A v \in SchedWorkers : \A c \in Popped(v) : c[1] = d[1] => v = w /\ c = d
    BY DEF PoppedExact
  <2>1. PICK t \in Tasks : d[1] = t
    BY HeldTasks
  <2>2. TaskAt(t)
    BY <1>3 DEF EveryTaskAt
  <2>3. /\ meta[t].epoch = d[2] /\ meta[t].status \in {"RUNNING", "DONE"}
        /\ leases[t] = NoLease /\ \A v \in SchedWorkers : poll[v].task # t
        /\ \A v \in SchedWorkers : \A c \in Popped(v) : c[1] = t => v = w /\ c = d
    BY <2>1, <2>2 DEF TaskAt
  <2> QED  BY <2>1, <2>3
<1>4. ASSUME Places, HoldersExact, PoppedExact, LeasesExact, NEW t \in Tasks PROVE TaskAt(t)
  <2>1. ASSUME NEW w \in SchedWorkers, poll[w].task = t
        PROVE  /\ sub[t] = "done" /\ leases[t] = NoLease
               /\ poll[w].pc # "track" => QueuedTask(t)
               /\ poll[w].pc = "track" => meta[t].status \in {"RUNNING", "DONE"}
               /\ \A v \in SchedWorkers : poll[v].task = t => v = w
    BY <1>0, <1>4, <2>1 DEF HoldersExact
  <2>2. ASSUME NEW w \in SchedWorkers, NEW d \in Popped(w), d[1] = t
        PROVE  /\ meta[t].epoch = d[2] /\ meta[t].status \in {"RUNNING", "DONE"}
               /\ leases[t] = NoLease /\ \A v \in SchedWorkers : poll[v].task # t
               /\ \A v \in SchedWorkers : \A c \in Popped(v) : c[1] = t => v = w /\ c = d
    BY <1>4, <2>2 DEF PoppedExact
  <2>3. /\ sub[t] = "new" <=> meta[t].status = "NONE"
        /\ sub[t] = "created" => QueuedTask(t)
        /\ t \in queued => QueuedTask(t) /\ sub[t] = "done" /\ \A w \in SchedWorkers : poll[w].task # t
        /\ QueuedTask(t) /\ sub[t] = "done" => t \in queued \/ \E w \in SchedWorkers : poll[w].task = t
    BY <1>4 DEF Places
  <2>4. /\ leases[t] # NoLease =>
             /\ leases[t][1] = meta[t].epoch /\ meta[t].status \in {"RUNNING", "DONE"}
             /\ <<t, leases[t][1], leases[t][2]>> \in deadlines
        /\ leases[t] = NoLease /\ meta[t].status = "RUNNING" =>
             \E w \in SchedWorkers : poll[w].task = t \/ \E d \in Popped(w) : d[1] = t
    BY <1>4 DEF LeasesExact
  <2> QED  BY <2>1, <2>2, <2>3, <2>4 DEF TaskAt
<1> QED  BY <1>1, <1>2, <1>3, <1>4 DEF EveryTaskAt

\* A step that moves task t alone has to keep the invariant of t alone.
LEMMA OneTaskMoves ==
    ASSUME SchedInv, SchedTypes', PollsFit', Deques', JobsDone', NEW t \in Tasks, TaskAt(t)',
           \A u \in Tasks : u # t => /\ meta'[u] = meta[u] /\ sub'[u] = sub[u] /\ leases'[u] = leases[u]
                                     /\ u \in queued' <=> u \in queued,
           deadlines \subseteq deadlines',
           \A v \in SchedWorkers : \A u \in Tasks : u # t =>
               /\ poll'[v].task = u <=> poll[v].task = u
               /\ poll[v].task = u => poll'[v].pc = poll[v].pc,
           \A v \in SchedWorkers : \A d \in LeaseRecords : d[1] # t => (d \in Popped(v)' <=> d \in Popped(v))
    PROVE  SchedInv'
<1>t. SchedTypes /\ PollsFit /\ Deques /\ Places /\ HoldersExact /\ PoppedExact /\ LeasesExact /\ JobsDone
  BY DEF SchedInv
<1>0. /\ \A w \in SchedWorkers : \A d \in Popped(w) : d[1] \in Tasks /\ d \in LeaseRecords
      /\ \A w \in SchedWorkers : \A d \in Popped(w)' : d[1] \in Tasks /\ d \in LeaseRecords
  <2>1. \A w \in SchedWorkers : \A d \in Popped(w) : d[1] \in Tasks /\ d \in LeaseRecords
    BY <1>t, HeldTasks
  <2>2. \A w \in SchedWorkers : \A d \in Popped(w)' : d[1] \in Tasks /\ d \in LeaseRecords
    BY DEF SchedTypes, PollRecords, LeaseRecords, Popped
  <2> QED  BY <2>1, <2>2
<1>1. ASSUME NEW u \in Tasks, u # t PROVE TaskAt(u)'
  <2>1. TaskAt(u)
    BY <1>t, TasksAt DEF EveryTaskAt
  <2>2. /\ meta'[u] = meta[u] /\ sub'[u] = sub[u] /\ leases'[u] = leases[u]
        /\ u \in queued' <=> u \in queued
    BY <1>1
  <2>3. \A v \in SchedWorkers : /\ poll'[v].task = u <=> poll[v].task = u
                                /\ poll[v].task = u => poll'[v].pc = poll[v].pc
    BY <1>1
  <2>4. \A v \in SchedWorkers : \A d : d[1] = u => (d \in Popped(v)' <=> d \in Popped(v))
    BY <1>0, <1>1
  <2>5. /\ sub'[u] = "new" <=> meta'[u].status = "NONE"
        /\ sub'[u] = "created" => meta'[u].status = "QUEUED"
        /\ u \in queued' => meta'[u].status = "QUEUED" /\ sub'[u] = "done" /\ \A w \in SchedWorkers : poll'[w].task # u
        /\ meta'[u].status = "QUEUED" /\ sub'[u] = "done" => u \in queued' \/ \E w \in SchedWorkers : poll'[w].task = u
    BY <2>1, <2>2, <2>3 DEF TaskAt, QueuedTask
  <2>6. \A w \in SchedWorkers : poll'[w].task = u =>
        /\ sub'[u] = "done" /\ leases'[u] = NoLease
        /\ poll'[w].pc # "track" => meta'[u].status = "QUEUED"
        /\ poll'[w].pc = "track" => meta'[u].status \in {"RUNNING", "DONE"}
        /\ \A v \in SchedWorkers : poll'[v].task = u => v = w
    BY <2>1, <2>2, <2>3 DEF TaskAt, QueuedTask
  <2>7. ASSUME NEW w \in SchedWorkers, NEW d \in Popped(w)', d[1] = u
        PROVE  /\ meta'[u].epoch = d[2] /\ meta'[u].status \in {"RUNNING", "DONE"}
               /\ leases'[u] = NoLease /\ \A v \in SchedWorkers : poll'[v].task # u
               /\ \A v \in SchedWorkers : \A c \in Popped(v)' : c[1] = u => v = w /\ c = d
    <3>1. d \in Popped(w)
      BY <2>4, <2>7
    <3>2. /\ meta[u].epoch = d[2] /\ meta[u].status \in {"RUNNING", "DONE"}
          /\ leases[u] = NoLease /\ \A v \in SchedWorkers : poll[v].task # u
          /\ \A v \in SchedWorkers : \A c \in Popped(v) : c[1] = u => v = w /\ c = d
      BY <2>1, <2>7, <3>1 DEF TaskAt
    <3> QED  BY <2>2, <2>3, <2>4, <3>2
  <2>8. leases'[u] # NoLease => /\ leases'[u][1] = meta'[u].epoch /\ meta'[u].status \in {"RUNNING", "DONE"}
                                /\ <<u, leases'[u][1], leases'[u][2]>> \in deadlines'
    BY <2>1, <2>2 DEF TaskAt
  <2>9. leases'[u] = NoLease /\ meta'[u].status = "RUNNING" =>
             \E w \in SchedWorkers : poll'[w].task = u \/ \E d \in Popped(w)' : d[1] = u
    BY <2>1, <2>2, <2>3, <2>4 DEF TaskAt
  <2> QED  BY <2>5, <2>6, <2>7, <2>8, <2>9 DEF TaskAt, QueuedTask, NoLease
<1>2. EveryTaskAt'
  BY <1>1 DEF EveryTaskAt
<1>3. Places' /\ HoldersExact' /\ PoppedExact' /\ LeasesExact'
  BY <1>2, TasksAt, PTL
<1> QED  BY <1>3 DEF SchedInv

LEMMA PollsKept ==
    ASSUME poll' = poll
    PROVE  (\A v \in SchedWorkers : Popped(v)' = Popped(v)) /\ (PollsFit => PollsFit')
  BY DEF Popped, PollsFit, Fits

LEMMA Created == ASSUME SchedInv, Queue' = Queue, NEW t \in Tasks, CreateQueued(t) PROVE SchedInv'
<1>t. SchedTypes /\ PollsFit /\ Deques /\ Places /\ HoldersExact /\ PoppedExact /\ LeasesExact /\ JobsDone
  BY DEF SchedInv
<1>u. UNCHANGED <<timeout, queues, known, queued, leases, deadlines, poll, jobs>>
  BY DEF CreateQueued, schedVars
<1> DEFINE m == [meta[t] EXCEPT !.status = "QUEUED"]
<1>1. /\ sub[t] = "new" /\ meta' = [meta EXCEPT ![t] = m] /\ sub' = [sub EXCEPT ![t] = "created"]
      /\ meta[t] \in [status : Statuses, epoch : Nat, worker : SchedWorkers \cup {NoHolder}]
  BY <1>t DEF CreateQueued, SchedTypes
<1>2. m \in [status : Statuses, epoch : Nat, worker : SchedWorkers \cup {NoHolder}] /\ m.status = "QUEUED"
  BY <1>1 DEF Statuses
<1> HIDE DEF m
<1>3. /\ meta'[t] = m /\ sub'[t] = "created"
      /\ \A u \in Tasks : u # t => meta'[u] = meta[u] /\ sub'[u] = sub[u]
      /\ meta' \in [Tasks -> [status : Statuses, epoch : Nat, worker : SchedWorkers \cup {NoHolder}]]
      /\ sub' \in [Tasks -> {"new", "created", "done"}]
  BY <1>1, <1>2, <1>t DEF SchedTypes
<1>4. TaskAt(t) /\ meta[t].status = "NONE"
  BY <1>1, <1>t, TasksAt DEF EveryTaskAt, Places
<1>5. SchedTypes'
  BY <1>3, <1>t, <1>u, StepQueues DEF SchedTypes
<1>6. Deques'
  BY <1>t, <1>u, StepQueues DEF Deques
<1>7. JobsDone'
  <2>1. \A j \in jobs : j.pc = "done" => j.t # t /\ j.t \in Tasks
    BY <1>4, <1>t DEF JobsDone, Terminal, SchedTypes
  <2> QED  BY <1>3, <1>t, <1>u, <2>1 DEF JobsDone, Terminal
<1>8. TaskAt(t)'
  BY <1>1, <1>2, <1>3, <1>4, <1>u, PollsKept DEF TaskAt, QueuedTask
<1> QED  BY <1>3, <1>5, <1>6, <1>7, <1>8, <1>t, <1>u, PollsKept, OneTaskMoves

LEMMA Submitted == ASSUME SchedInv, Queue' = Queue, NEW t \in Tasks, SubmitEnqueue(t) PROVE SchedInv'
<1>t. SchedTypes /\ PollsFit /\ Deques /\ Places /\ HoldersExact /\ PoppedExact /\ LeasesExact /\ JobsDone
  BY DEF SchedInv
<1>u. UNCHANGED <<meta, timeout, leases, deadlines, poll, jobs>>
  BY DEF SubmitEnqueue, metaVars
<1>1. sub[t] = "created" /\ Enqueue(t) /\ sub' = [sub EXCEPT ![t] = "done"]
  BY DEF SubmitEnqueue
<1>2. TaskAt(t)
  BY <1>t, TasksAt DEF EveryTaskAt
<1>3. t \notin queued
  BY <1>1, <1>t DEF Places
<1>4. /\ Deques' /\ queued' = queued \cup {t} /\ known' = known \cup {t}
      /\ queues' \in [Queues' -> Seq(Tasks)] /\ known' \subseteq Tasks /\ queued' \subseteq known'
  BY <1>1, <1>3, <1>t, Enqueued
<1>5. /\ sub'[t] = "done" /\ \A u \in Tasks : u # t => sub'[u] = sub[u]
      /\ sub' \in [Tasks -> {"new", "created", "done"}]
  BY <1>1, <1>t DEF SchedTypes
<1>6. SchedTypes'
  BY <1>4, <1>5, <1>t, <1>u DEF SchedTypes
<1>7. JobsDone'
  BY <1>t, <1>u DEF JobsDone, Terminal
<1>8. TaskAt(t)'
  BY <1>1, <1>2, <1>4, <1>5, <1>u, PollsKept DEF TaskAt, QueuedTask
<1> QED  BY <1>4, <1>5, <1>6, <1>7, <1>8, <1>t, <1>u, PollsKept, OneTaskMoves

\* A running task is finished: it stays where it is, whoever holds or tracks it.
LEMMA Completed == ASSUME SchedInv, Queue' = Queue, NEW j \in jobs, CompleteMeta(j) PROVE SchedInv'
<1>t. SchedTypes /\ PollsFit /\ Deques /\ Places /\ HoldersExact /\ PoppedExact /\ LeasesExact /\ JobsDone
  BY DEF SchedInv
<1>u. UNCHANGED <<timeout, queues, known, queued, leases, deadlines, poll, sub>>
  BY DEF CompleteMeta, schedVars
<1>j. j \in [t : Tasks, w : SchedWorkers, e : Nat, pc : {"run", "done"}]
  BY <1>t DEF SchedTypes
<1>1. CASE HoldsLease(j.t, j.w, j.e)
  <2> DEFINE t == j.t
             m == [meta[t] EXCEPT !.status = "DONE"]
             k == [j EXCEPT !.pc = "done"]
  <2>1. /\ meta' = [meta EXCEPT ![t] = m] /\ jobs' = (jobs \ {j}) \cup {k} /\ t \in Tasks
        /\ meta[t] \in [status : Statuses, epoch : Nat, worker : SchedWorkers \cup {NoHolder}]
        /\ meta[t].status = "RUNNING"
    BY <1>1, <1>j, <1>t DEF CompleteMeta, HoldsLease, SchedTypes
  <2>2. m \in [status : Statuses, epoch : Nat, worker : SchedWorkers \cup {NoHolder}] /\ m.status = "DONE"
        /\ m.epoch = meta[t].epoch
    BY <2>1 DEF Statuses
  <2>3. k \in [t : Tasks, w : SchedWorkers, e : Nat, pc : {"run", "done"}] /\ k.t = t
    BY <1>j
  <2>p. \E u \in Tasks : u = t
    BY <2>1
  <2>q. PICK u \in Tasks : u = t
    BY <2>p
  <2> HIDE DEF m, k, t
  <2>4. /\ meta'[u] = m
        /\ \A x \in Tasks : x # u => meta'[x] = meta[x]
        /\ meta' \in [Tasks -> [status : Statuses, epoch : Nat, worker : SchedWorkers \cup {NoHolder}]]
    BY <1>t, <2>1, <2>2, <2>q DEF SchedTypes
  <2>5. SchedTypes'
    <3>1. jobs' \subseteq [t : Tasks, w : SchedWorkers, e : Nat, pc : {"run", "done"}]
      BY <1>t, <2>1, <2>3 DEF SchedTypes
    <3> QED  BY <1>t, <1>u, <2>4, <3>1, StepQueues DEF SchedTypes
  <2>6. Deques'
    BY <1>t, <1>u, StepQueues DEF Deques
  <2>7. JobsDone'
    <3>1. ASSUME NEW i \in jobs', i.pc = "done" PROVE meta'[i.t].status = "DONE"
      <4>1. i \in jobs \/ i = k
        BY <2>1, <3>1
      <4>2. i.t \in Tasks
        BY <1>t, <2>3, <4>1 DEF SchedTypes
      <4>3. i \in jobs => meta[i.t].status = "DONE"
        BY <1>t, <3>1 DEF JobsDone, Terminal
      <4> QED  BY <2>2, <2>3, <2>4, <2>q, <4>1, <4>2, <4>3
    <3> QED  BY <3>1 DEF JobsDone, Terminal
  <2>8. TaskAt(u)
    BY <1>t, TasksAt DEF EveryTaskAt
  <2>9. TaskAt(u)'
    BY <1>u, <2>1, <2>2, <2>4, <2>8, <2>q, PollsKept DEF TaskAt, QueuedTask
  <2> QED  BY <1>t, <1>u, <2>4, <2>5, <2>6, <2>7, <2>9, PollsKept, OneTaskMoves
<1>2. CASE ~HoldsLease(j.t, j.w, j.e)
  <2>1. jobs' = jobs \ {j} /\ UNCHANGED meta
    BY <1>2 DEF CompleteMeta
  <2>2. SchedTypes' /\ Deques' /\ JobsDone'
    BY <1>t, <1>u, <2>1, StepQueues DEF SchedTypes, Deques, JobsDone, Terminal
  <2>3. Places' /\ HoldersExact' /\ PoppedExact' /\ LeasesExact'
    BY <1>t, <1>u, <2>1 DEF Places, HoldersExact, PoppedExact, LeasesExact, QueuedTask, Popped
  <2> QED  BY <1>t, <1>u, <2>2, <2>3, PollsKept DEF SchedInv
<1> QED  BY <1>1, <1>2

\* Forget of a finished task leaves it nowhere.
LEMMA Forgotten ==
    ASSUME SchedInv, Queue' = Queue, NEW j \in jobs, CompleteRunning(j) PROVE SchedInv'
<1>t. SchedTypes /\ PollsFit /\ Deques /\ Places /\ HoldersExact /\ PoppedExact /\ LeasesExact /\ JobsDone
  BY DEF SchedInv
<1>u. UNCHANGED <<meta, timeout, queues, deadlines, poll, sub>>
  BY DEF CompleteRunning, metaVars
<1>1. \E t \in Tasks : t = j.t
  BY <1>t DEF SchedTypes
<1>2. PICK t \in Tasks : t = j.t
  BY <1>1
<1>3. /\ known' = known \ {t} /\ queued' = queued \ {t} /\ leases' = [leases EXCEPT ![t] = NoLease]
      /\ jobs' = jobs \ {j} /\ meta[t].status = "DONE"
  BY <1>2, <1>t DEF CompleteRunning, Forget, JobsDone, Terminal
<1>4. t \notin queued /\ queued' = queued
  BY <1>3, <1>t DEF Places, QueuedTask
<1>5. /\ leases'[t] = NoLease /\ \A u \in Tasks : u # t => leases'[u] = leases[u]
      /\ leases' \in [Tasks -> Nat \X Nat]
  BY <1>3, <1>t DEF SchedTypes, NoLease
<1>6. SchedTypes' /\ Deques' /\ JobsDone'
  BY <1>3, <1>4, <1>5, <1>t, <1>u, StepQueues DEF SchedTypes, Deques, JobsDone, Terminal
<1>7. TaskAt(t)
  BY <1>t, TasksAt DEF EveryTaskAt
<1>8. TaskAt(t)'
  BY <1>3, <1>4, <1>5, <1>7, <1>u, PollsKept DEF TaskAt, QueuedTask
<1> QED  BY <1>4, <1>5, <1>6, <1>8, <1>t, <1>u, PollsKept, OneTaskMoves

\* RequeueTaskIfLeaseExpired: the task passes from the popped lease to the poll itself.
LEMMA GivenBack ==
    ASSUME SchedInv, Queue' = Queue, NEW w \in SchedWorkers, poll[w].pc = "requeue", poll[w].task = 0,
           NEW d \in poll[w].valid, NEW t \in Tasks, t = d[1], meta[t].status = "RUNNING",
           NEW m \in [status : Statuses, epoch : Nat, worker : SchedWorkers \cup {NoHolder}],
           m.status = "QUEUED", m.epoch = meta[t].epoch, meta' = [meta EXCEPT ![t] = m],
           NEW q \in PollRecords, q.pc = "requeue", q.todo = {}, q.valid = poll[w].valid \ {d}, q.task = t,
           poll' = [poll EXCEPT ![w] = q],
           UNCHANGED <<timeout, queues, known, queued, leases, deadlines, sub, jobs>>
    PROVE  SchedInv'
<1>t. SchedTypes /\ PollsFit /\ Deques /\ Places /\ HoldersExact /\ PoppedExact /\ LeasesExact /\ JobsDone
  BY DEF SchedInv
<1>4. /\ meta'[t] = m /\ \A u \in Tasks : u # t => meta'[u] = meta[u]
      /\ meta' \in [Tasks -> [status : Statuses, epoch : Nat, worker : SchedWorkers \cup {NoHolder}]]
  BY <1>t DEF SchedTypes
<1>5. /\ poll'[w] = q /\ poll' \in [SchedWorkers -> PollRecords]
      /\ \A v \in SchedWorkers : v # w => poll'[v] = poll[v] /\ Popped(v)' = Popped(v)
      /\ Popped(w)' = Popped(w) \ {d} /\ d \in Popped(w)
  <2>1. Popped(w) = poll[w].valid
    BY <1>t DEF PollsFit, Fits, Popped
  <2>2. Popped(w)' = q.todo \cup q.valid
    BY <1>t, OnePollMoves
  <2> QED  BY <1>t, <2>1, <2>2, OnePollMoves
<1>6. Fits(q)
  BY SchedAssumption DEF Fits, Loops
<1>7. PollsFit'
  BY <1>6, <1>t, PollsFitMoves
<1>8. SchedTypes' /\ Deques'
  BY <1>4, <1>5, <1>t, StepQueues DEF SchedTypes, Deques
<1>9. JobsDone'
  <2>1. \A j \in jobs : j.pc = "done" => j.t # t /\ j.t \in Tasks
    BY <1>t DEF JobsDone, Terminal, SchedTypes
  <2> QED  BY <1>4, <1>t, <2>1 DEF JobsDone, Terminal
<1>10. TaskAt(t)
  BY <1>t, TasksAt DEF EveryTaskAt
<1>11. /\ leases[t] = NoLease /\ \A v \in SchedWorkers : poll[v].task # t
       /\ \A v \in SchedWorkers : \A c \in Popped(v) : c[1] = t => v = w /\ c = d
  BY <1>10, <1>5 DEF TaskAt
<1>12. \A v \in SchedWorkers : \A c \in Popped(v)' : c[1] # t
  BY <1>11, <1>5
<1>13. \A v \in SchedWorkers : poll'[v].task = t <=> v = w
  BY <1>11, <1>5
<1>14. sub[t] = "done" /\ t \notin queued
  BY <1>10, <1>t DEF TaskAt, QueuedTask, SchedTypes
<1>15. TaskAt(t)'
  BY <1>11, <1>12, <1>13, <1>14, <1>4, <1>5 DEF TaskAt, QueuedTask
<1>16. \A v \in SchedWorkers : \A u \in Tasks : u # t =>
           /\ poll'[v].task = u <=> poll[v].task = u
           /\ poll[v].task = u => poll'[v].pc = poll[v].pc
  BY <1>5, SchedAssumption
<1>17. \A v \in SchedWorkers : \A c \in LeaseRecords : c[1] # t => (c \in Popped(v)' <=> c \in Popped(v))
  BY <1>5
<1> QED  BY <1>4, <1>7, <1>8, <1>9, <1>15, <1>16, <1>17, OneTaskMoves

\* The task given back is in its deque again.
LEMMA Requeued == ASSUME SchedInv, Queue' = Queue, NEW w \in SchedWorkers, RequeueEnqueue(w) PROVE SchedInv'
<1>t. SchedTypes /\ PollsFit /\ Deques /\ Places /\ HoldersExact /\ PoppedExact /\ LeasesExact /\ JobsDone
  BY DEF SchedInv
<1>u. UNCHANGED <<meta, timeout, leases, deadlines, sub, jobs>>
  BY DEF RequeueEnqueue, metaVars
<1>0. poll[w].pc = "requeue" /\ poll[w].task # 0 /\ poll[w] \in PollRecords /\ poll[w].todo = {}
  BY <1>t DEF RequeueEnqueue, SchedTypes, PollsFit, Fits
<1>1. \E t \in Tasks : t = poll[w].task
  BY <1>0 DEF PollRecords
<1>2. PICK t \in Tasks : t = poll[w].task
  BY <1>1
<1> DEFINE p == [poll[w] EXCEPT !.task = 0]
           q == NextLoop(p)
<1>3. p \in PollRecords /\ p.pc = "requeue" /\ p.todo = {} /\ p.task = 0 /\ p.valid = poll[w].valid
  BY <1>0 DEF PollRecords
<1>4. Enqueue(t) /\ poll' = [poll EXCEPT ![w] = q]
  BY <1>2, <1>t DEF RequeueEnqueue, SchedTypes
<1> HIDE DEF p
<1>5. q \in PollRecords /\ Fits(q) /\ q.task = 0 /\ q.todo \cup q.valid = p.todo \cup p.valid
  BY <1>3, NextLoopKeeps DEF Loops
<1> HIDE DEF q
<1>6. TaskAt(t)
  BY <1>t, TasksAt DEF EveryTaskAt
<1>7. /\ t \notin queued /\ leases[t] = NoLease /\ meta[t].status = "QUEUED" /\ sub[t] = "done"
      /\ \A v \in SchedWorkers : poll[v].task = t => v = w
      /\ \A v \in SchedWorkers : \A d \in Popped(v) : d[1] # t
  BY <1>0, <1>2, <1>6 DEF TaskAt, QueuedTask
<1>8. /\ Deques' /\ queued' = queued \cup {t} /\ known' = known \cup {t}
      /\ queues' \in [Queues' -> Seq(Tasks)] /\ known' \subseteq Tasks /\ queued' \subseteq known'
  BY <1>4, <1>7, <1>t, Enqueued
<1>9. /\ poll'[w] = q /\ poll' \in [SchedWorkers -> PollRecords]
      /\ \A v \in SchedWorkers : v # w => poll'[v] = poll[v] /\ Popped(v)' = Popped(v)
      /\ Popped(w)' = Popped(w)
  <2>1. Popped(w)' = q.todo \cup q.valid
    BY <1>4, <1>5, <1>t, OnePollMoves
  <2>2. Popped(w) = q.todo \cup q.valid
    BY <1>0, <1>3, <1>5 DEF Popped
  <2> QED  BY <1>4, <1>5, <1>t, <2>1, <2>2, OnePollMoves
<1>10. PollsFit'
  BY <1>4, <1>5, <1>t, PollsFitMoves
<1>11. SchedTypes' /\ JobsDone'
  BY <1>8, <1>9, <1>t, <1>u DEF SchedTypes, JobsDone, Terminal
<1>12. \A v \in SchedWorkers : poll'[v].task # t
  BY <1>5, <1>7, <1>9, SchedAssumption
<1>13. TaskAt(t)'
  BY <1>7, <1>8, <1>9, <1>12, <1>u DEF TaskAt, QueuedTask
<1>14. \A v \in SchedWorkers : \A u \in Tasks : u # t =>
           /\ poll'[v].task = u <=> poll[v].task = u
           /\ poll[v].task = u => poll'[v].pc = poll[v].pc
  BY <1>2, <1>5, <1>9, SchedAssumption
<1> QED  BY <1>8, <1>9, <1>10, <1>11, <1>13, <1>14, <1>u, OneTaskMoves

\* A task passes from the front of a deque to the poll.
LEMMA Assigned == ASSUME SchedInv, Queue' = Queue, NEW w \in SchedWorkers, Assign(w) PROVE SchedInv'
<1>t. SchedTypes /\ PollsFit /\ Deques /\ Places /\ HoldersExact /\ PoppedExact /\ LeasesExact /\ JobsDone
  BY DEF SchedInv
<1>u. UNCHANGED <<meta, timeout, leases, deadlines, sub, jobs>>
  BY DEF Assign, metaVars
<1>0. poll[w].pc = "assign" /\ poll[w].task = 0 /\ Popped(w) = {}
  BY <1>t DEF Assign, PollsFit, Fits, Loops, Popped
<1>1. PICK k \in CandidateQueues(w) :
        /\ Assignable(k, w) /\ Search({j \in CandidateQueues(w) : j = k \/ Before(j, k)}, k)
        /\ poll' = [poll EXCEPT ![w] = [Idle EXCEPT !.pc = "lease", !.task = FrontTask(k)]]
  BY DEF Assign
<1> DEFINE V == {j \in CandidateQueues(w) : j = k \/ Before(j, k)}
<1>2. k \in Queues /\ V \subseteq Queues /\ k \in V
  BY <1>1 DEF CandidateQueues
<1>3. queues[k] # <<>>
  BY <1>1, <1>2, <1>t, FrontIsFirst DEF Assignable
<1>4. /\ known' = known /\ queued' = queued \ {Head(queues[k])} /\ FrontTask(k) = Head(queues[k])
      /\ queues' = [queues EXCEPT ![k] = Tail(queues[k])]
  BY <1>1, <1>2, <1>3, <1>t, SearchTakes
<1>5. Deques' /\ queues' \in [Queues' -> Seq(Tasks)] /\ Head(queues[k]) \in queued
  BY <1>2, <1>3, <1>4, <1>t, Dequeued
<1>6. \E t \in Tasks : t = Head(queues[k])
  BY <1>5, <1>t DEF SchedTypes
<1>7. PICK t \in Tasks : t = Head(queues[k])
  BY <1>6
<1> DEFINE q == [Idle EXCEPT !.pc = "lease", !.task = t]
<1>8. poll' = [poll EXCEPT ![w] = q] /\ queued' = queued \ {t} /\ t \in queued
  BY <1>1, <1>4, <1>5, <1>7
<1>9. q \in PollRecords /\ q.pc = "lease" /\ q.todo = {} /\ q.valid = {} /\ q.task = t /\ Fits(q)
  BY SchedAssumption DEF Idle, PollRecords, PollPcs, Loops, Fits
<1> HIDE DEF q
<1>10. /\ poll'[w] = q /\ poll' \in [SchedWorkers -> PollRecords]
       /\ \A v \in SchedWorkers : v # w => poll'[v] = poll[v] /\ Popped(v)' = Popped(v)
       /\ Popped(w)' = Popped(w)
  <2>1. Popped(w)' = q.todo \cup q.valid
    BY <1>8, <1>9, <1>t, OnePollMoves
  <2> QED  BY <1>0, <1>8, <1>9, <1>t, <2>1, OnePollMoves
<1>11. PollsFit'
  BY <1>8, <1>9, <1>t, PollsFitMoves
<1>12. SchedTypes' /\ JobsDone'
  BY <1>4, <1>5, <1>8, <1>10, <1>t, <1>u DEF SchedTypes, JobsDone, Terminal
<1>13. TaskAt(t)
  BY <1>t, TasksAt DEF EveryTaskAt
<1>14. /\ leases[t] = NoLease /\ meta[t].status = "QUEUED" /\ sub[t] = "done"
       /\ \A v \in SchedWorkers : poll[v].task # t
       /\ \A v \in SchedWorkers : \A d \in Popped(v) : d[1] # t
  BY <1>8, <1>13 DEF TaskAt, QueuedTask
<1>15. \A v \in SchedWorkers : poll'[v].task = t <=> v = w
  BY <1>9, <1>10, <1>14
<1>16. TaskAt(t)'
  BY <1>8, <1>9, <1>10, <1>14, <1>15, <1>u DEF TaskAt, QueuedTask
<1>17. \A v \in SchedWorkers : \A u \in Tasks : u # t =>
           /\ poll'[v].task = u <=> poll[v].task = u
           /\ poll[v].task = u => poll'[v].pc = poll[v].pc
  BY <1>0, <1>9, <1>10, SchedAssumption
<1> QED  BY <1>5, <1>8, <1>10, <1>11, <1>12, <1>16, <1>17, <1>u, OneTaskMoves

\* LeaseTask: the poll holds a queued task, and now its lease.
LEMMA Leased == ASSUME SchedInv, Queue' = Queue, NEW w \in SchedWorkers, LeaseTask(w) PROVE SchedInv'
<1>t. SchedTypes /\ PollsFit /\ Deques /\ Places /\ HoldersExact /\ PoppedExact /\ LeasesExact /\ JobsDone
  BY DEF SchedInv
<1>0. poll[w].pc = "lease" /\ poll[w].task # 0 /\ poll[w] \in PollRecords
  BY <1>t DEF LeaseTask, SchedTypes, PollsFit, Fits
<1>1. \E t \in Tasks : t = poll[w].task
  BY <1>0 DEF PollRecords
<1>2. PICK t \in Tasks : t = poll[w].task
  BY <1>1
<1>3. TaskAt(t)
  BY <1>t, TasksAt DEF EveryTaskAt
<1>4. /\ t \notin queued /\ leases[t] = NoLease /\ meta[t].status = "QUEUED" /\ sub[t] = "done"
      /\ \A v \in SchedWorkers : poll[v].task = t => v = w
      /\ \A v \in SchedWorkers : \A d \in Popped(v) : d[1] # t
  BY <1>0, <1>2, <1>3 DEF TaskAt, QueuedTask
<1> DEFINE m == [status |-> "RUNNING", epoch |-> meta[t].epoch + 1, worker |-> w]
           q == [poll[w] EXCEPT !.pc = "track"]
<1>5. /\ meta' = [meta EXCEPT ![t] = m] /\ poll' = [poll EXCEPT ![w] = q]
      /\ UNCHANGED <<timeout, queues, known, queued, leases, deadlines, sub, jobs>>
  BY <1>2, <1>4, <1>t DEF LeaseTask, QueuedTask, Goto, schedVars, SchedTypes
<1>6. m \in [status : Statuses, epoch : Nat, worker : SchedWorkers \cup {NoHolder}] /\ m.status = "RUNNING"
  <2>1. meta[t].epoch \in Nat
    BY <1>t DEF SchedTypes
  <2>2. meta[t].epoch + 1 \in Nat
    BY <2>1
  <2> QED  BY <2>2 DEF Statuses
<1>7. q \in PollRecords /\ q.pc = "track" /\ q.todo = {} /\ q.valid = {} /\ q.task = t
  <2>1. poll[w].todo = {} /\ poll[w].valid = {}
    BY <1>0, <1>t DEF PollsFit, Fits, Loops
  <2> QED  BY <1>0, <1>2, <2>1 DEF PollRecords, PollPcs
<1> HIDE DEF m, q
<1>8. /\ meta'[t] = m /\ \A u \in Tasks : u # t => meta'[u] = meta[u]
      /\ meta' \in [Tasks -> [status : Statuses, epoch : Nat, worker : SchedWorkers \cup {NoHolder}]]
  BY <1>5, <1>6, <1>t DEF SchedTypes
<1>9. Fits(q) /\ Popped(w) = {}
  BY <1>0, <1>2, <1>7, <1>t DEF Fits, Loops, PollsFit, Popped
<1>10. /\ poll'[w] = q /\ poll' \in [SchedWorkers -> PollRecords]
       /\ \A v \in SchedWorkers : v # w => poll'[v] = poll[v] /\ Popped(v)' = Popped(v)
       /\ Popped(w)' = Popped(w)
  <2>1. Popped(w)' = q.todo \cup q.valid
    BY <1>5, <1>7, <1>t, OnePollMoves
  <2> QED  BY <1>5, <1>7, <1>9, <1>t, <2>1, OnePollMoves
<1>11. PollsFit'
  BY <1>5, <1>7, <1>9, <1>t, PollsFitMoves
<1>12. SchedTypes' /\ Deques'
  <2>1. /\ Queues' = Queues /\ timeout' = timeout /\ queues' = queues /\ known' = known /\ queued' = queued
        /\ leases' = leases /\ deadlines' = deadlines /\ sub' = sub /\ jobs' = jobs
    BY <1>5, <1>t, StepQueues
  <2>2. SchedTypes'
    BY <1>8, <1>10, <1>t, <2>1 DEF SchedTypes
  <2>3. Queue' = Queue
    OBVIOUS
  <2>4. Deques'
    BY <1>t, <2>1, <2>3 DEF Deques
  <2> QED  BY <2>2, <2>4
<1>13. JobsDone'
  <2>1. \A j \in jobs : j.pc = "done" => j.t # t /\ j.t \in Tasks
    BY <1>4, <1>t DEF JobsDone, Terminal, SchedTypes
  <2> QED  BY <1>5, <1>8, <1>t, <2>1 DEF JobsDone, Terminal
<1>14. \A v \in SchedWorkers : poll'[v].task = t <=> v = w
  BY <1>2, <1>4, <1>7, <1>10
<1>15. TaskAt(t)'
  BY <1>4, <1>5, <1>6, <1>7, <1>8, <1>10, <1>14 DEF TaskAt, QueuedTask
<1>16. \A v \in SchedWorkers : \A u \in Tasks : u # t =>
           /\ poll'[v].task = u <=> poll[v].task = u
           /\ poll[v].task = u => poll'[v].pc = poll[v].pc
  BY <1>2, <1>7, <1>10
<1> QED  BY <1>5, <1>8, <1>10, <1>11, <1>12, <1>13, <1>15, <1>16, OneTaskMoves

\* TrackRunning: the task passes from the poll to its tracked lease.
LEMMA Tracked == ASSUME SchedInv, Queue' = Queue, NEW w \in SchedWorkers, PollTracks(w) PROVE SchedInv'
<1>t. SchedTypes /\ PollsFit /\ Deques /\ Places /\ HoldersExact /\ PoppedExact /\ LeasesExact /\ JobsDone
  BY DEF SchedInv
<1>0. poll[w].pc = "track" /\ poll[w].task # 0 /\ poll[w] \in PollRecords /\ Popped(w) = {}
  BY <1>t DEF PollTracks, SchedTypes, PollsFit, Fits, Loops, Popped
<1>1. \E t \in Tasks : t = poll[w].task
  BY <1>0 DEF PollRecords
<1>2. PICK t \in Tasks : t = poll[w].task
  BY <1>1
<1>3. TaskAt(t)
  BY <1>t, TasksAt DEF EveryTaskAt
<1>4. /\ t \notin queued /\ leases[t] = NoLease /\ meta[t].status \in {"RUNNING", "DONE"} /\ sub[t] = "done"
      /\ \A v \in SchedWorkers : poll[v].task = t => v = w
      /\ \A v \in SchedWorkers : \A d \in Popped(v) : d[1] # t
  BY <1>0, <1>2, <1>3 DEF TaskAt, QueuedTask
<1> DEFINE e == meta[t].epoch
           n == [t |-> t, w |-> w, e |-> e, pc |-> "run"]
<1>5. /\ poll' = [poll EXCEPT ![w] = Idle] /\ jobs' = jobs \cup {n}
      /\ leases' = [leases EXCEPT ![t] = <<e, timeout>>] /\ deadlines' = deadlines \cup {<<t, e, timeout>>}
      /\ UNCHANGED <<meta, timeout, queues, known, queued, sub>>
  BY <1>2 DEF PollTracks, TrackRunning, NewJob, metaVars
<1>6. e \in Nat /\ timeout \in {1, 2} /\ <<e, timeout>> # NoLease /\ <<e, timeout>> \in Nat \X Nat
      /\ <<t, e, timeout>> \in LeaseRecords
  BY <1>t DEF SchedTypes, NoLease, LeaseRecords
<1> HIDE DEF e
<1>7. n \in [t : Tasks, w : SchedWorkers, e : Nat, pc : {"run", "done"}] /\ n.pc = "run"
  BY <1>6
<1> HIDE DEF n
<1>8. /\ leases'[t] = <<e, timeout>> /\ \A u \in Tasks : u # t => leases'[u] = leases[u]
      /\ leases' \in [Tasks -> Nat \X Nat]
  BY <1>5, <1>6, <1>t DEF SchedTypes
<1>9. /\ poll'[w] = Idle /\ poll' \in [SchedWorkers -> PollRecords]
      /\ \A v \in SchedWorkers : v # w => poll'[v] = poll[v] /\ Popped(v)' = Popped(v)
      /\ Popped(w)' = Popped(w)
  <2>1. Popped(w)' = Idle.todo \cup Idle.valid
    BY <1>5, <1>t, IdleIs, OnePollMoves
  <2> QED  BY <1>0, <1>5, <1>t, <2>1, IdleIs, OnePollMoves
<1>10. PollsFit'
  BY <1>5, <1>t, IdleIs, PollsFitMoves
<1>11. SchedTypes' /\ Deques'
  <2>1. jobs' \subseteq [t : Tasks, w : SchedWorkers, e : Nat, pc : {"run", "done"}] /\ deadlines' \subseteq LeaseRecords
    BY <1>5, <1>6, <1>7, <1>t DEF SchedTypes
  <2> QED  BY <1>5, <1>8, <1>9, <1>t, <2>1, StepQueues DEF SchedTypes, Deques
<1>12. JobsDone'
  BY <1>5, <1>7, <1>t DEF JobsDone, Terminal
<1>13. \A v \in SchedWorkers : poll'[v].task # t
  BY <1>4, <1>9, IdleIs, SchedAssumption
<1>14. TaskAt(t)'
  <2>1. leases'[t][1] = meta'[t].epoch /\ <<t, leases'[t][1], leases'[t][2]>> \in deadlines' /\ leases'[t] # NoLease
    BY <1>5, <1>6, <1>8 DEF e
  <2> QED  BY <1>4, <1>5, <1>9, <1>13, <2>1 DEF TaskAt, QueuedTask
<1>15. \A v \in SchedWorkers : \A u \in Tasks : u # t =>
           /\ poll'[v].task = u <=> poll[v].task = u
           /\ poll[v].task = u => poll'[v].pc = poll[v].pc
  BY <1>2, <1>9, IdleIs, SchedAssumption
<1> QED  BY <1>5, <1>8, <1>9, <1>10, <1>11, <1>12, <1>14, <1>15, OneTaskMoves

\* resyncSchedulerTask of a popped lease tracks a running task again and forgets a finished
\* one; it never finds the task queued.
LEMMA Resynced ==
    ASSUME SchedInv, NEW w \in SchedWorkers, NEW d \in Popped(w), NEW t \in Tasks, t = d[1],
           \/ resyncSchedulerTask(t)
           \/ /\ meta[t].status = "RUNNING" /\ TrackRunning(t, meta[t].epoch)
              /\ UNCHANGED <<queues, known, queued>>
    PROVE  /\ UNCHANGED <<queues, queued>> /\ known' \subseteq known /\ queued \subseteq known'
           /\ leases' \in [Tasks -> Nat \X Nat]
           /\ \A u \in Tasks : leases'[u] = IF (\E c \in {d} : c[1] = u) /\ meta[u].status = "RUNNING"
                                            THEN <<meta[u].epoch, timeout>> ELSE leases[u]
           /\ deadlines \subseteq deadlines' /\ deadlines' \subseteq LeaseRecords
           /\ \A u \in Tasks : (\E c \in {d} : c[1] = u) /\ meta[u].status = "RUNNING"
                                 => <<u, meta[u].epoch, timeout>> \in deadlines'
<1>t. SchedTypes /\ PoppedExact /\ Places
  BY DEF SchedInv
<1>1. meta[t].status \in {"RUNNING", "DONE"} /\ leases[t] = NoLease
  BY <1>t DEF PoppedExact
<1>2. t \notin queued /\ queued \subseteq known
  BY <1>1, <1>t DEF Places, QueuedTask, SchedTypes
<1>3. \A u \in Tasks : (\E c \in {d} : c[1] = u) <=> u = t
  OBVIOUS
<1>4. CASE meta[t].status = "RUNNING"
  <2>1. TrackRunning(t, meta[t].epoch) /\ UNCHANGED <<queues, known, queued>>
    BY <1>4 DEF resyncSchedulerTask, QueuedTask, Terminal
  <2>2. /\ leases' = [leases EXCEPT ![t] = <<meta[t].epoch, timeout>>]
        /\ deadlines' = deadlines \cup {<<t, meta[t].epoch, timeout>>}
    BY <2>1 DEF TrackRunning
  <2>3. <<meta[t].epoch, timeout>> \in Nat \X Nat /\ <<t, meta[t].epoch, timeout>> \in LeaseRecords
    BY <1>t DEF SchedTypes, LeaseRecords
  <2>4. leases' \in [Tasks -> Nat \X Nat] /\ deadlines' \subseteq LeaseRecords
    BY <1>t, <2>2, <2>3 DEF SchedTypes
  <2>5. \A u \in Tasks : leases'[u] = IF u = t THEN <<meta[t].epoch, timeout>> ELSE leases[u]
    BY <1>t, <2>2 DEF SchedTypes
  <2> QED  BY <1>2, <1>3, <1>4, <2>1, <2>2, <2>4, <2>5
<1>5. CASE meta[t].status = "DONE"
  <2>1. Forget(t) /\ UNCHANGED <<queues, deadlines>>
    BY <1>5 DEF resyncSchedulerTask, QueuedTask, Terminal
  <2>2. known' = known \ {t} /\ queued' = queued \ {t} /\ leases' = [leases EXCEPT ![t] = NoLease]
    BY <2>1 DEF Forget
  <2>3. queued' = queued /\ queued \subseteq known'
    BY <1>2, <2>2
  <2>4. leases' \in [Tasks -> Nat \X Nat] /\ \A u \in Tasks : leases'[u] = leases[u]
    BY <1>1, <1>t, <2>2 DEF SchedTypes, NoLease
  <2>5. deadlines' = deadlines /\ deadlines' \subseteq LeaseRecords
    BY <1>t, <2>1 DEF SchedTypes
  <2> QED  BY <1>3, <1>5, <2>1, <2>2, <2>3, <2>4, <2>5
<1> QED  BY <1>1, <1>4, <1>5

\* A poll moves and lets go of nothing.
LEMMA PollOnly ==
    ASSUME SchedInv, Queue' = Queue, NEW w \in SchedWorkers, NEW q \in PollRecords, Fits(q), q.task = 0,
           poll[w].task = 0, poll' = [poll EXCEPT ![w] = q], q.todo \cup q.valid = Popped(w),
           UNCHANGED <<meta, timeout, queues, known, queued, leases, deadlines, sub, jobs>>
    PROVE  SchedInv'
<1>t. SchedTypes
  BY DEF SchedInv
<1> DEFINE S == {}
<1>1. S \subseteq Popped(w) /\ q.todo \cup q.valid = Popped(w) \ S /\ \A c : c \notin S
  OBVIOUS
<1> HIDE DEF S
<1>2. /\ leases' \in [Tasks -> Nat \X Nat] /\ deadlines' \subseteq LeaseRecords
      /\ queued \subseteq known' /\ known' \subseteq known /\ deadlines \subseteq deadlines'
  BY <1>t DEF SchedTypes
<1>3. \A u \in Tasks : leases'[u] = IF (\E c \in S : c[1] = u) /\ meta[u].status = "RUNNING"
                                    THEN <<meta[u].epoch, timeout>> ELSE leases[u]
  BY <1>1
<1>4. \A u \in Tasks : (\E c \in S : c[1] = u) /\ meta[u].status = "RUNNING"
                          => <<u, meta[u].epoch, timeout>> \in deadlines'
  BY <1>1
<1> QED  BY <1>1, <1>2, <1>3, <1>4, Released

LEMMA Validated == ASSUME SchedInv, Queue' = Queue, NEW w \in SchedWorkers, Validate(w) PROVE SchedInv'
<1>t. SchedTypes /\ PollsFit /\ PoppedExact
  BY DEF SchedInv
<1>u. UNCHANGED <<meta, timeout, sub, jobs>>
  BY DEF Validate, metaVars
<1>1. PICK d \in poll[w].todo :
        LET t == d[1]
            same == meta[t].status = "RUNNING" /\ meta[t].epoch = d[2]
            old == age[t] >= timeout
        IN /\ CASE ~same -> resyncSchedulerTask(t)
                [] same /\ ~old -> TrackRunning(t, d[2]) /\ UNCHANGED <<queues, known, queued, view>>
                [] same /\ old -> UNCHANGED schedVars
           /\ poll' = [poll EXCEPT ![w] = NextLoop([poll[w] EXCEPT !.todo = @ \ {d},
                        !.valid = IF same /\ old THEN @ \cup {d} ELSE @])]
  BY DEF Validate
<1>2. /\ poll[w].pc = "validate" /\ poll[w].task = 0 /\ poll[w] \in PollRecords
      /\ poll[w].todo \cap poll[w].valid = {} /\ d \in Popped(w) /\ d \in LeaseRecords
  BY <1>t DEF Validate, PollsFit, Fits, SchedTypes, PollRecords, Popped
<1>3. \E t \in Tasks : t = d[1]
  BY <1>2 DEF LeaseRecords
<1>4. PICK t \in Tasks : t = d[1]
  BY <1>3
<1>5. meta[t].epoch = d[2]
  BY <1>2, <1>4, <1>t DEF PoppedExact
<1> DEFINE same == meta[d[1]].status = "RUNNING" /\ meta[d[1]].epoch = d[2]
           old == age[d[1]] >= timeout
           Stays == same /\ old
           p == [poll[w] EXCEPT !.todo = @ \ {d}, !.valid = IF same /\ old THEN @ \cup {d} ELSE @]
           q == NextLoop(p)
<1>6. poll' = [poll EXCEPT ![w] = q]
  BY <1>1
<1>7. /\ p \in PollRecords /\ p.pc = "validate" /\ p.task = 0 /\ p.todo = poll[w].todo \ {d}
      /\ p.valid = IF Stays THEN poll[w].valid \cup {d} ELSE poll[w].valid
  BY <1>2 DEF PollRecords
<1> HIDE DEF p
<1>8. p.todo \cap p.valid = {} /\ p.todo \cup p.valid = IF Stays THEN Popped(w) ELSE Popped(w) \ {d}
  BY <1>2, <1>7 DEF Popped
<1>9. q \in PollRecords /\ Fits(q) /\ q.task = 0 /\ q.todo \cup q.valid = p.todo \cup p.valid
  BY <1>7, <1>8, NextLoopKeeps DEF Loops
<1> HIDE DEF q
<1>10. CASE Stays
  <2>1. UNCHANGED <<queues, known, queued, leases, deadlines>>
    BY <1>1, <1>10, <1>4, <1>5 DEF schedVars
  <2>2. q.todo \cup q.valid = Popped(w)
    BY <1>8, <1>9, <1>10
  <2> QED  BY <1>2, <1>6, <1>9, <1>u, <2>1, <2>2, PollOnly
<1>11. CASE ~Stays
  <2>1. \/ resyncSchedulerTask(t)
        \/ /\ meta[t].status = "RUNNING" /\ TrackRunning(t, meta[t].epoch)
           /\ UNCHANGED <<queues, known, queued>>
    BY <1>1, <1>11, <1>4, <1>5
  <2>2. {d} \subseteq Popped(w) /\ q.todo \cup q.valid = Popped(w) \ {d}
    BY <1>2, <1>8, <1>9, <1>11
  <2>3. /\ UNCHANGED <<queues, queued>> /\ known' \subseteq known /\ queued \subseteq known'
        /\ leases' \in [Tasks -> Nat \X Nat]
        /\ \A u \in Tasks : leases'[u] = IF (\E c \in {d} : c[1] = u) /\ meta[u].status = "RUNNING"
                                         THEN <<meta[u].epoch, timeout>> ELSE leases[u]
        /\ deadlines \subseteq deadlines' /\ deadlines' \subseteq LeaseRecords
        /\ \A u \in Tasks : (\E c \in {d} : c[1] = u) /\ meta[u].status = "RUNNING"
                              => <<u, meta[u].epoch, timeout>> \in deadlines'
    BY <1>2, <1>4, <2>1, Resynced
  <2> QED  BY <1>2, <1>6, <1>9, <1>u, <2>2, <2>3, Released
<1> QED  BY <1>10, <1>11

LEMMA Appended == ASSUME SchedInv, Queue' = Queue, NEW w \in SchedWorkers, AppendRedelivered(w) PROVE SchedInv'
<1>t. SchedTypes /\ PollsFit
  BY DEF SchedInv
<1>1. PICK d \in poll[w].todo : poll' = [poll EXCEPT ![w] = NextLoop([poll[w] EXCEPT !.todo = @ \ {d}])]
  BY DEF AppendRedelivered
<1>2. /\ poll[w].pc = "append" /\ poll[w].task = 0 /\ poll[w] \in PollRecords
      /\ poll[w].todo \subseteq poll[w].valid
  BY <1>t DEF AppendRedelivered, PollsFit, Fits, SchedTypes
<1> DEFINE p == [poll[w] EXCEPT !.todo = @ \ {d}]
<1>3. p \in PollRecords /\ p.pc = "append" /\ p.task = 0 /\ p.todo = poll[w].todo \ {d} /\ p.valid = poll[w].valid
  BY <1>2 DEF PollRecords
<1>4. poll' = [poll EXCEPT ![w] = NextLoop(p)]
  BY <1>1
<1> HIDE DEF p
<1>5. p.todo \subseteq p.valid /\ p.todo \cup p.valid = Popped(w)
  BY <1>2, <1>3 DEF Popped
<1>6. /\ NextLoop(p) \in PollRecords /\ Fits(NextLoop(p)) /\ NextLoop(p).task = 0
      /\ NextLoop(p).todo \cup NextLoop(p).valid = Popped(w)
  BY <1>3, <1>5, NextLoopKeeps DEF Loops
<1> QED  BY <1>2, <1>4, <1>6, PollOnly DEF AppendRedelivered, metaVars, schedVars

LEMMA AppendFailed == ASSUME SchedInv, Queue' = Queue, NEW w \in SchedWorkers, AppendFails(w) PROVE SchedInv'
<1>t. SchedTypes /\ PollsFit /\ PoppedExact
  BY DEF SchedInv
<1>u. UNCHANGED <<meta, timeout, queues, known, queued, sub, jobs>>
  BY DEF AppendFails, metaVars
<1>1. poll[w].task = 0 /\ Popped(w) = poll[w].valid
  BY <1>t DEF AppendFails, PollsFit, Fits, Popped
<1> DEFINE S == Popped(w)
           still == {t \in {d[1] : d \in poll[w].valid} : meta[t].status = "RUNNING"}
<1>2. /\ poll' = [poll EXCEPT ![w] = Idle]
      /\ leases' = [t \in Tasks |-> IF t \in still THEN <<meta[t].epoch, timeout>> ELSE leases[t]]
      /\ deadlines' = deadlines \cup {<<t, meta[t].epoch, timeout>> : t \in still}
  BY DEF AppendFails
<1>3. \A t : t \in still <=> (\E d \in S : d[1] = t) /\ meta[t].status = "RUNNING"
  BY <1>1
<1>4. \A t \in still : t \in Tasks
  BY <1>3, <1>t, HeldTasks
<1>5. \A t \in Tasks : <<meta[t].epoch, timeout>> \in Nat \X Nat /\ <<t, meta[t].epoch, timeout>> \in LeaseRecords
  BY <1>t DEF SchedTypes, LeaseRecords
<1> HIDE DEF still, S
<1>6. leases' \in [Tasks -> Nat \X Nat] /\ deadlines' \subseteq LeaseRecords /\ deadlines \subseteq deadlines'
  BY <1>2, <1>4, <1>5, <1>t DEF SchedTypes
<1>7. /\ \A t \in Tasks : leases'[t] = IF (\E d \in S : d[1] = t) /\ meta[t].status = "RUNNING"
                                       THEN <<meta[t].epoch, timeout>> ELSE leases[t]
      /\ \A t \in Tasks : (\E d \in S : d[1] = t) /\ meta[t].status = "RUNNING"
                            => <<t, meta[t].epoch, timeout>> \in deadlines'
  BY <1>2, <1>3
<1>8. S \subseteq Popped(w) /\ Idle.todo \cup Idle.valid = Popped(w) \ S
  BY IdleIs DEF S
<1>9. known' \subseteq known /\ queued \subseteq known'
  BY <1>t, <1>u DEF SchedTypes
<1> QED  BY <1>1, <1>2, <1>6, <1>7, <1>8, <1>9, <1>u, IdleIs, Released

\* The third loop gives the task back, or finds it finished or not expired any more.
LEMMA RequeueStep == ASSUME SchedInv, Queue' = Queue, NEW w \in SchedWorkers, Requeue(w) PROVE SchedInv'
<1>t. SchedTypes /\ PollsFit /\ PoppedExact
  BY DEF SchedInv
<1>u. UNCHANGED <<timeout, sub, jobs>>
  BY DEF Requeue, metaVars
<1>1. PICK d \in poll[w].valid : LET t == d[1] IN
        IF meta[t].status = "RUNNING" /\ meta[t].epoch = d[2] /\ age[t] >= timeout
        THEN /\ meta' = [meta EXCEPT ![t].status = "QUEUED", ![t].worker = NoHolder]
             /\ poll' = [poll EXCEPT ![w].valid = @ \ {d}, ![w].task = t]
             /\ UNCHANGED <<cachedModels, count, timeout, schedVars>>
        ELSE /\ resyncSchedulerTask(t)
             /\ poll' = [poll EXCEPT ![w] = NextLoop([poll[w] EXCEPT !.valid = @ \ {d}])]
             /\ UNCHANGED metaVars
  BY DEF Requeue
<1>2. /\ poll[w].pc = "requeue" /\ poll[w].task = 0 /\ poll[w] \in PollRecords /\ poll[w].todo = {}
      /\ d \in Popped(w) /\ d \in LeaseRecords
  BY <1>t DEF Requeue, PollsFit, Fits, SchedTypes, PollRecords, Popped
<1>3. \E t \in Tasks : t = d[1]
  BY <1>2 DEF LeaseRecords
<1>4. PICK t \in Tasks : t = d[1]
  BY <1>3
<1> DEFINE Given == meta[t].status = "RUNNING" /\ meta[t].epoch = d[2] /\ age[t] >= timeout
<1>5. CASE Given
  <2>1. /\ meta' = [meta EXCEPT ![t].status = "QUEUED", ![t].worker = NoHolder]
        /\ poll' = [poll EXCEPT ![w].valid = @ \ {d}, ![w].task = t]
        /\ UNCHANGED <<queues, known, queued, leases, deadlines>>
    BY <1>1, <1>4, <1>5 DEF schedVars
  <2> DEFINE m == [meta[t] EXCEPT !.status = "QUEUED", !.worker = NoHolder]
  <2>2. m \in [status : Statuses, epoch : Nat, worker : SchedWorkers \cup {NoHolder}] /\ m.status = "QUEUED"
        /\ m.epoch = meta[t].epoch
    BY <1>t DEF SchedTypes, Statuses
  <2>3. meta' = [meta EXCEPT ![t] = m]
    BY <1>t, <2>1 DEF SchedTypes
  <2> DEFINE q == [poll[w] EXCEPT !.valid = @ \ {d}, !.task = t]
  <2>4. q \in PollRecords /\ q.pc = "requeue" /\ q.todo = {} /\ q.valid = poll[w].valid \ {d} /\ q.task = t
    BY <1>2 DEF PollRecords
  <2>5. poll' = [poll EXCEPT ![w] = q]
    BY <1>t, <2>1 DEF SchedTypes
  <2> HIDE DEF m, q
  <2>6. UNCHANGED <<timeout, queues, known, queued, leases, deadlines, sub, jobs>> /\ meta[t].status = "RUNNING"
    BY <1>5, <1>u, <2>1
  <2> QED  BY <1>2, <1>4, <2>2, <2>3, <2>4, <2>5, <2>6, GivenBack
<1>6. CASE ~Given
  <2> DEFINE p == [poll[w] EXCEPT !.valid = @ \ {d}]
             q == NextLoop(p)
  <2>1. resyncSchedulerTask(t) /\ poll' = [poll EXCEPT ![w] = q] /\ UNCHANGED meta
    BY <1>1, <1>4, <1>6 DEF metaVars
  <2>2. p \in PollRecords /\ p.pc = "requeue" /\ p.task = 0 /\ p.todo = {} /\ p.valid = poll[w].valid \ {d}
    BY <1>2 DEF PollRecords
  <2> HIDE DEF p
  <2>3. p.todo \cup p.valid = Popped(w) \ {d}
    BY <1>2, <2>2 DEF Popped
  <2>4. q \in PollRecords /\ Fits(q) /\ q.task = 0 /\ q.todo \cup q.valid = Popped(w) \ {d} /\ {d} \subseteq Popped(w)
    BY <1>2, <2>2, <2>3, NextLoopKeeps DEF Loops
  <2> HIDE DEF q
  <2>5. /\ UNCHANGED <<queues, queued>> /\ known' \subseteq known /\ queued \subseteq known'
        /\ leases' \in [Tasks -> Nat \X Nat]
        /\ \A u \in Tasks : leases'[u] = IF (\E c \in {d} : c[1] = u) /\ meta[u].status = "RUNNING"
                                         THEN <<meta[u].epoch, timeout>> ELSE leases[u]
        /\ deadlines \subseteq deadlines' /\ deadlines' \subseteq LeaseRecords
        /\ \A u \in Tasks : (\E c \in {d} : c[1] = u) /\ meta[u].status = "RUNNING"
                              => <<u, meta[u].epoch, timeout>> \in deadlines'
    BY <1>2, <1>4, <2>1, Resynced
  <2> QED  BY <1>2, <1>u, <2>1, <2>4, <2>5, Released
<1> QED  BY <1>5, <1>6

\* A search that assigns nothing changes nothing, and one that waits for the mutex never ends.
LEMMA NothingAssigned ==
    ASSUME SchedInv, Queue' = Queue, NEW w \in SchedWorkers, AssignNothing(w) \/ AssignLocksTwice(w)
    PROVE  SchedInv'
<1>t. SchedTypes /\ PollsFit /\ Deques /\ Places
  BY DEF SchedInv
<1>1. poll[w].task = 0 /\ Popped(w) = {} /\ poll[w] \in PollRecords /\ poll[w].todo = {} /\ poll[w].valid = {}
  BY <1>t DEF AssignNothing, AssignLocksTwice, PollsFit, Fits, Loops, Popped, SchedTypes
<1>2. CASE AssignNothing(w)
  <2>1. /\ poll' = [poll EXCEPT ![w] = Idle] /\ UNCHANGED <<meta, timeout, leases, deadlines, sub, jobs>>
        /\ Search(CandidateQueues(w), <<"none", "none">>)
    BY <1>2 DEF AssignNothing, metaVars
  <2>2. CandidateQueues(w) \subseteq Queues /\ <<"none", "none">> \notin CandidateQueues(w)
    BY DEF CandidateQueues, General
  <2>3. UNCHANGED <<queues, known, queued>>
    BY <1>t, <2>1, <2>2, SearchTakes
  <2>4. Idle.todo \cup Idle.valid = Popped(w)
    BY <1>1, IdleIs
  <2> QED  BY <1>1, <2>1, <2>3, <2>4, IdleIs, PollOnly
<1>3. CASE AssignLocksTwice(w)
  <2> DEFINE q == [poll[w] EXCEPT !.pc = "check"]
  <2>1. /\ poll' = [poll EXCEPT ![w] = q]
        /\ UNCHANGED <<meta, timeout, queues, known, queued, leases, deadlines, sub, jobs>>
    BY <1>3, <1>t DEF AssignLocksTwice, Goto, metaVars, schedVars, SchedTypes
  <2>2. q \in PollRecords /\ q.pc = "check" /\ q.task = 0 /\ q.todo = {} /\ q.valid = {}
    BY <1>1 DEF PollRecords, PollPcs
  <2> HIDE DEF q
  <2>3. Fits(q) /\ q.todo \cup q.valid = Popped(w)
    BY <1>1, <2>2 DEF Fits, Loops
  <2> QED  BY <1>1, <2>1, <2>2, <2>3, PollOnly
<1> QED  BY <1>2, <1>3

\* Steps that move no task.
LEMMA NothingMoves ==
    ASSUME SchedInv, Queue' = Queue, timeout' \in {1, 2}, jobs' \subseteq jobs,
           UNCHANGED <<meta, queues, known, queued, leases, deadlines, sub, poll>>
    PROVE  SchedInv'
<1>t. SchedTypes /\ PollsFit /\ Deques /\ Places /\ HoldersExact /\ PoppedExact /\ LeasesExact /\ JobsDone
  BY DEF SchedInv
<1>1. SchedTypes' /\ Deques' /\ JobsDone'
  BY <1>t, StepQueues DEF SchedTypes, Deques, JobsDone, Terminal
<1>2. Places' /\ HoldersExact' /\ PoppedExact' /\ LeasesExact'
  BY <1>t DEF Places, HoldersExact, PoppedExact, LeasesExact, QueuedTask, Popped
<1> QED  BY <1>1, <1>2, <1>t, PollsKept DEF SchedInv

LEMMA SchedInvInit == SchedInit => SchedInv
<1> SUFFICES ASSUME SchedInit PROVE SchedInv
  OBVIOUS
<1>1. /\ meta = [t \in Tasks |-> [status |-> "NONE", epoch |-> 0, worker |-> NoHolder]]
      /\ timeout = 1 /\ queues = [k \in Queues |-> <<>>] /\ known = {} /\ queued = {}
      /\ leases = [t \in Tasks |-> NoLease] /\ deadlines = {} /\ sub = [t \in Tasks |-> "new"]
      /\ poll = [w \in SchedWorkers |-> Idle] /\ jobs = {}
  BY DEF SchedInit
<1>2. SchedTypes
  BY <1>1, IdleIs DEF SchedTypes, Statuses, NoLease
<1>3. \A w \in SchedWorkers : poll[w] = Idle /\ Popped(w) = {} /\ poll[w].task = 0
  BY <1>1, IdleIs DEF Popped
<1>4. PollsFit
  BY <1>3, IdleIs DEF PollsFit
<1>5. Deques /\ JobsDone
  BY <1>1 DEF Deques, JobsDone
<1>6. \A t \in Tasks : meta[t].status = "NONE" /\ leases[t] = NoLease /\ sub[t] = "new" /\ t \notin queued
  BY <1>1
<1>7. Places /\ HoldersExact /\ PoppedExact /\ LeasesExact
  BY <1>3, <1>6 DEF Places, HoldersExact, PoppedExact, LeasesExact, QueuedTask
<1> QED  BY <1>2, <1>4, <1>5, <1>7 DEF SchedInv

LEMMA SchedInvStep == SchedInv /\ [SchedNext]_schedulerVars => SchedInv'
<1> SUFFICES ASSUME SchedInv, [SchedNext]_schedulerVars PROVE SchedInv'
  OBVIOUS
<1>t. timeout \in {1, 2}
  BY DEF SchedInv, SchedTypes
<1>1. ASSUME NEW t \in Tasks, CreateQueued(t) PROVE SchedInv'
  BY <1>1, Created DEF CreateQueued, config
<1>2. ASSUME NEW t \in Tasks, SubmitEnqueue(t) PROVE SchedInv'
  BY <1>2, Submitted DEF SubmitEnqueue, config
<1>3. ASSUME NEW t \in Tasks, LocalityWait(t) \/ Tick(t) PROVE SchedInv'
  BY <1>3, <1>t, NothingMoves DEF LocalityWait, Tick, config, metaVars, schedVars
<1>4. ASSUME NEW w \in SchedWorkers, PopExpiredRunning(w) PROVE SchedInv'
  BY <1>4, ExpiredPopped DEF PopExpiredRunning, config
<1>5. ASSUME NEW w \in SchedWorkers, Validate(w) PROVE SchedInv'
  BY <1>5, Validated DEF Validate, config
<1>6. ASSUME NEW w \in SchedWorkers, AppendRedelivered(w) PROVE SchedInv'
  BY <1>6, Appended DEF AppendRedelivered, config
<1>7. ASSUME NEW w \in SchedWorkers, AppendFails(w) PROVE SchedInv'
  BY <1>7, AppendFailed DEF AppendFails, config
<1>8. ASSUME NEW w \in SchedWorkers, Requeue(w) PROVE SchedInv'
  BY <1>8, RequeueStep DEF Requeue, config
<1>9. ASSUME NEW w \in SchedWorkers, RequeueEnqueue(w) PROVE SchedInv'
  BY <1>9, Requeued DEF RequeueEnqueue, config
<1>10. ASSUME NEW w \in SchedWorkers, Assign(w) PROVE SchedInv'
  BY <1>10, Assigned DEF Assign, config
<1>11. ASSUME NEW w \in SchedWorkers, AssignNothing(w) \/ AssignLocksTwice(w) PROVE SchedInv'
  BY <1>11, NothingAssigned DEF AssignNothing, AssignLocksTwice, config
<1>12. ASSUME NEW w \in SchedWorkers, LeaseTask(w) PROVE SchedInv'
  BY <1>12, Leased DEF LeaseTask, config
<1>13. ASSUME NEW w \in SchedWorkers, PollTracks(w) PROVE SchedInv'
  BY <1>13, Tracked DEF PollTracks, config
<1>14. ASSUME NEW w \in SchedWorkers, NEW ms \in SUBSET Models, WorkerHeartbeat(w, ms) PROVE SchedInv'
  BY <1>14, <1>t, NothingMoves DEF WorkerHeartbeat, config
<1>15. ASSUME NEW j \in jobs, CompleteMeta(j) PROVE SchedInv'
  BY <1>15, Completed DEF CompleteMeta, config
<1>16. ASSUME NEW j \in jobs, CompleteRunning(j) PROVE SchedInv'
  BY <1>16, Forgotten DEF CompleteRunning, config
<1>17. ASSUME NEW j \in jobs, WorkerLost(j) PROVE SchedInv'
  BY <1>17, <1>t, NothingMoves DEF WorkerLost, config, metaVars, schedVars
<1>18. ASSUME SetRedelivery PROVE SchedInv'
  BY <1>18, <1>t, NothingMoves DEF SetRedelivery, config, schedVars
<1>19. ASSUME UNCHANGED schedulerVars PROVE SchedInv'
  BY <1>19, <1>t, NothingMoves DEF schedulerVars, config, metaVars, schedVars
<1> QED  BY <1>1, <1>2, <1>3, <1>4, <1>5, <1>6, <1>7, <1>8, <1>9, <1>10, <1>11, <1>12, <1>13, <1>14, <1>15, <1>16,
            <1>17, <1>18, <1>19 DEF SchedNext, PollStep

\* The TaskRedelivered record carries the epoch of the lease that expired (hardening.go:
\* redeliverExpiredTasksIndexed): no other handler can have leased the task anew between
\* the two reads of the redelivery, whatever number of polls redeliver at the same time.
THEOREM RedeliveredEpochHolds == SchedSpec => []RedeliveredEpoch
<1>1. SchedInv => RedeliveredEpoch
  BY DEF SchedInv, PoppedExact, RedeliveredEpoch, Popped
<1> QED  BY <1>1, SchedInvInit, SchedInvStep, PTL DEF SchedSpec

\* No unfinished task is lost, and none is in two places (scheduler.go: Enqueue, Assign,
\* Forget, TrackRunning, PopExpiredRunning): for any tasks, workers, queues and policies,
\* with polls, redeliveries, failed appends, completions and changes of the timeout in any
\* order.
THEOREM UnfinishedFindableHolds == SchedSpec => []UnfinishedFindable
<1>1. SchedInv => QueuedFindable
  <2> SUFFICES ASSUME SchedInv, NEW t \in Tasks, QueuedTask(t), sub[t] = "done"
               PROVE  \/ Holders(t) = {} /\ t \in queued \cap known
                         /\ Cardinality({i \in DOMAIN queues[Queue[t]] : queues[Queue[t]][i] = t}) = 1
                      \/ t \notin queued /\ Cardinality(Holders(t)) = 1
    BY DEF QueuedFindable
  <2>t. SchedTypes /\ Deques /\ Places /\ HoldersExact
    BY DEF SchedInv
  <2>1. CASE t \in queued
    <3> DEFINE q == queues[Queue[t]]
    <3>1. Holders(t) = {} /\ t \in queued \cap known
      BY <2>1, <2>t DEF Places, Holders, SchedTypes
    <3>2. Queue[t] \in Queues /\ q \in Seq(Tasks) /\ DOMAIN q = 1..Len(q)
      BY <2>t, QueueOf DEF SchedTypes
    <3>3. PICK i \in 1..Len(q) : q[i] = t
      BY <2>1, <2>t DEF Deques
    <3>4. \A j \in 1..Len(q) : q[j] = t => j = i
      BY <2>t, <3>2, <3>3 DEF Deques
    <3>5. {j \in DOMAIN q : q[j] = t} = {i}
      BY <3>2, <3>3, <3>4
    <3> QED  BY <3>1, <3>5, FS_Singleton
  <2>2. CASE t \notin queued
    <3>1. PICK w \in SchedWorkers : poll[w].task = t
      BY <2>2, <2>t DEF Places
    <3>2. Holders(t) = {w}
      BY <2>t, <3>1, SchedAssumption DEF HoldersExact, Holders
    <3> QED  BY <2>2, <3>2, FS_Singleton
  <2> QED  BY <2>1, <2>2
<1>2. SchedInv => RunningTracked
  <2> SUFFICES ASSUME SchedInv, NEW t \in Tasks, meta[t].status = "RUNNING"
               PROVE  \/ Holders(t) # {} \/ Redelivering(t)
                      \/ /\ leases[t][1] = meta[t].epoch
                         /\ <<t, leases[t][1], leases[t][2]>> \in deadlines
    BY DEF RunningTracked
  <2> QED  BY DEF SchedInv, LeasesExact, Holders, Redelivering, Popped
<1>3. SchedInv => UnfinishedFindable
  BY <1>1, <1>2 DEF UnfinishedFindable
<1> QED  BY <1>3, SchedInvInit, SchedInvStep, PTL DEF SchedSpec
=============================================================================
