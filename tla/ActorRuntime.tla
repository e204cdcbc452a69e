---------------------------- MODULE ActorRuntime ----------------------------
(***************************************************************************)
(* One actor of the control plane (internal/control/actor.go, the replay   *)
(* of internal/actor/model.go, the mailbox part of service.go): creation,  *)
(* ownership epochs, the command mailbox, completion, snapshots with       *)
(* trimming, and the restart that replays the stream actor:<id>.           *)
(*                                                                         *)
(* Submissions hold the per-actor lock; completions and CreateActor do     *)
(* not.  Every append and every metadata update is a step of its own.  The *)
(* actor's state is the sequence of the commands applied to it.  Of the    *)
(* tasks that carry the commands only the mailbox view is kept: leases,    *)
(* redelivery and the outcome; TaskLifecycle has the rest.                 *)
(***************************************************************************)
EXTENDS Integers, Sequences, FiniteSets, SequencesExt

CONSTANTS Calls,         \* ids of CallActor requests
          Creator,       \* the CreateActor call
          ActorWorkers,
          NoOwner,
          SnapshotEvery, \* SnapshotEvery of the actor
          MaxOwnerEpoch,      \* bound: ownership grants
          MaxLeases,     \* bound: leases of one command
          MaxStalls,     \* bound: commands redelivered while their completion is handled
          MaxCrashes     \* bound: restarts of the control plane

ASSUME ActorWorkersAssumption == NoOwner \notin ActorWorkers /\ ActorWorkers # {}
ASSUME CreatorAssumption == Creator \notin Calls
ASSUME ActorBoundsAssumption == /\ SnapshotEvery \in Nat \ {0} /\ MaxOwnerEpoch \in Nat
                                /\ MaxLeases \in Nat /\ MaxStalls \in Nat /\ MaxCrashes \in Nat

VARIABLES
    actor,   \* the actor record of the metadata store
    stream,  \* every record appended to actor:<id>
    first,   \* the first record reads still return: the trim point
    locked,  \* the call that holds the actor's lock, or Creator when it is free
    proc,    \* proc[p]: where call p is and the actor record it read
    task,    \* task[c]: the task of command c in the metadata
    done,    \* done[c]: what replay makes of the stream task:c
    threads,    \* leased commands and the CompleteTask calls that report them
    stalls, crashes

avars == <<actor, stream, first, locked, proc, task, done, threads, stalls, crashes>>

-----------------------------------------------------------------------------
CallEnded == {"SUCCEEDED", "FAILED"}
NoActor == [known |-> FALSE, owner |-> NoOwner, epoch |-> 0, count |-> 0,
            submitted |-> 0, snap |-> 0, state |-> <<>>]

\* A record: what its payload carries of call, command number, owner, epoch
\* and state.  type, call, epoch and n together are its idempotency key.
Record(type, call, n, owner, epoch, state) ==
    [type |-> type, call |-> call, n |-> n, owner |-> owner, epoch |-> epoch, state |-> state]
SameKey(r, q) ==
    /\ r.type = q.type
    /\ CASE r.type \in {"Submitted", "Applied", "Failed"} -> r.call = q.call
         [] r.type = "Granted" -> r.epoch = q.epoch
         [] r.type = "Snapshot" -> r.n = q.n
         [] OTHER -> TRUE

\* The log returns the old record for a key it holds.
AppendActor(r) ==
    stream' = IF \E i \in DOMAIN stream : SameKey(stream[i], r) THEN stream ELSE Append(stream, r)
PositionOf(r) == CHOOSE i \in DOMAIN stream : SameKey(stream[i], r)

Maximum(x, y) == IF x < y THEN y ELSE x

-----------------------------------------------------------------------------
\* Replay of the visible records: replayEach with useSnapshot.

\* The first pass leaves what the last snapshot says.
LoadSnapshot(r) ==
    [known |-> TRUE, owner |-> r.owner, epoch |-> r.epoch, count |-> r.n,
     submitted |-> r.n, snap |-> r.n, state |-> r.state]

\* Mutant: a failed command does not count.
applyActorRecordFailed(a, r, snapshotted) ==
    CASE r.type = "Created" -> [a EXCEPT !.known = TRUE]
      [] r.type = "Granted" -> [a EXCEPT !.owner = r.owner, !.epoch = r.epoch]
      [] r.type = "Submitted" -> [a EXCEPT !.submitted = Maximum(@, r.n)]
      [] r.type = "Applied" /\ r.n > snapshotted ->
            [a EXCEPT !.count = r.n, !.submitted = Maximum(@, r.n), !.state = r.state]
      [] r.type = "Snapshot" -> [a EXCEPT !.known = TRUE, !.snap = r.n, !.state = r.state]
      [] OTHER -> a

\* Created only marks the actor as known; a Failed command leaves the state.
applyActorRecord(a, r, snapshotted) ==
    CASE r.type = "Created" -> [a EXCEPT !.known = TRUE]
      [] r.type = "Granted" -> [a EXCEPT !.owner = r.owner, !.epoch = r.epoch]
      [] r.type = "Submitted" -> [a EXCEPT !.submitted = Maximum(@, r.n)]
      [] r.type \in {"Applied", "Failed"} /\ r.n > snapshotted ->
            [a EXCEPT !.count = r.n, !.submitted = Maximum(@, r.n), !.owner = r.owner,
                      !.epoch = r.epoch, !.state = IF r.type = "Applied" THEN r.state ELSE @]
      [] r.type = "Snapshot" -> [a EXCEPT !.known = TRUE, !.owner = r.owner, !.epoch = r.epoch,
                                          !.snap = r.n, !.state = r.state]
      [] OTHER -> a

\* NoActor when neither ActorCreated nor a snapshot is left to read.
ReplayActor ==
    LET visible == SubSeq(stream, first, Len(stream))
        snaps == SelectSeq(visible, LAMBDA r : r.type = "Snapshot")
        base == IF snaps = <<>> THEN NoActor ELSE LoadSnapshot(Last(snaps))
        replayed == FoldLeft(LAMBDA a, r : applyActorRecord(a, r, base.snap), base, visible)
    IN  IF replayed.known THEN replayed ELSE NoActor

-----------------------------------------------------------------------------
ActorInit ==
    /\ actor = NoActor
    /\ stream = <<>> /\ first = 1
    /\ locked = Creator
    /\ proc = [p \in Calls \cup {Creator} |-> [pc |-> "new", seen |-> NoActor]]
    /\ task = [c \in Calls |-> [status |-> "NONE", seq |-> 0, lease |-> 0, worker |-> NoOwner]]
    /\ done = [c \in Calls |-> "NONE"]
    /\ threads = {}
    /\ stalls = 0 /\ crashes = 0

StepSeen(p, pc, a) ==
    proc' = [proc EXCEPT ![p] = [pc |-> pc, seen |-> IF pc = "end" THEN NoActor ELSE a]]
Step(p, pc) == StepSeen(p, pc, proc[p].seen)

-----------------------------------------------------------------------------
\* CreateActor: the record, the metadata, then ensureActorOwner without the lock.
CreateAppend ==
    /\ proc[Creator].pc = "new"
    /\ AppendActor(Record("Created", Creator, 0, NoOwner, 0, <<>>))
    /\ Step(Creator, "create")
    /\ UNCHANGED <<actor, first, locked, task, done, threads, stalls, crashes>>

CreateMeta ==
    /\ proc[Creator].pc = "create"
    /\ actor' = [NoActor EXCEPT !.known = TRUE]
    /\ Step(Creator, "own")
    /\ UNCHANGED <<stream, first, locked, task, done, threads, stalls, crashes>>

-----------------------------------------------------------------------------
\* ensureActorOwner for call p.  Whether the owner's last heartbeat is within
\* actorOwnerLease, and which active worker is the lowest, depends on the clock:
\* the owner is returned as it is, or some worker is granted the next epoch.
AfterOwner(p) == IF p = Creator THEN "end" ELSE "submit"

OwnerFresh(p) ==
    /\ proc[p].pc = "own"
    /\ actor.owner # NoOwner
    /\ StepSeen(p, AfterOwner(p), actor)
    /\ UNCHANGED <<actor, stream, first, locked, task, done, threads, stalls, crashes>>

OwnerAppend(p) ==
    /\ proc[p].pc = "own"
    /\ actor.known /\ actor.epoch < MaxOwnerEpoch
    /\ \E owner \in ActorWorkers :
          /\ AppendActor(Record("Granted", Creator, 0, owner, actor.epoch + 1, <<>>))
          /\ StepSeen(p, "granted", [actor EXCEPT !.owner = owner, !.epoch = @ + 1])
    /\ UNCHANGED <<actor, first, locked, task, done, threads, stalls, crashes>>

OwnerUpdate(p) ==
    /\ proc[p].pc = "granted"
    /\ actor' = [actor EXCEPT !.owner = proc[p].seen.owner, !.epoch = proc[p].seen.epoch]
    /\ StepSeen(p, AfterOwner(p), actor')
    /\ UNCHANGED <<stream, first, locked, task, done, threads, stalls, crashes>>

\* No worker is active: CreateActor returns all the same, a submission waits
\* (waitActorOwner) until its deadline and gives up.
OwnerNone(p) ==
    /\ proc[p].pc = "own"
    /\ Step(p, "end")
    /\ locked' = IF p = Creator THEN locked ELSE Creator
    /\ UNCHANGED <<actor, stream, first, task, done, threads, stalls, crashes>>

-----------------------------------------------------------------------------
\* submitActorCommand, under the actor's lock.

SubmitLock(c) ==
    /\ proc[c].pc = "new" /\ actor.known
    /\ locked = Creator
    /\ locked' = c
    /\ Step(c, "own")
    /\ UNCHANGED <<actor, stream, first, task, done, threads, stalls, crashes>>

CallNumber(c) == Maximum(proc[c].seen.submitted, proc[c].seen.count) + 1

SubmitAppend(c) ==
    /\ proc[c].pc = "submit"
    /\ AppendActor(Record("Submitted", c, CallNumber(c), proc[c].seen.owner,
                          proc[c].seen.epoch, <<>>))
    /\ Step(c, "enqueue")
    /\ UNCHANGED <<actor, first, locked, task, done, threads, stalls, crashes>>

\* enqueueTaskWithMetadata: TaskSubmitted, then the task with its command number
\* (TaskLifecycle takes the two apart).
EnqueueCall(c) ==
    /\ proc[c].pc = "enqueue"
    /\ done' = [done EXCEPT ![c] = "QUEUED"]
    /\ task' = [task EXCEPT ![c].status = "QUEUED", ![c].seq = CallNumber(c)]
    /\ Step(c, "count")
    /\ UNCHANGED <<actor, stream, first, locked, threads, stalls, crashes>>

\* The last step also unlocks; CallActor then waits for the task to finish.
SubmitCount(c) ==
    /\ proc[c].pc = "count"
    /\ actor' = [actor EXCEPT !.submitted = Maximum(@, CallNumber(c))]
    /\ Step(c, "end")
    /\ locked' = Creator
    /\ UNCHANGED <<stream, first, task, done, threads, stalls, crashes>>

-----------------------------------------------------------------------------
\* Dispatch (under queueMu) and redelivery of a command.
\* Mutant: every command counts as the next one.
NumberIsNext(c) == actor.count + 1

\* A task without a command number counts as the next one.
NumberOf(c) == IF task[c].seq = 0 THEN actor.count + 1 ELSE task[c].seq

actorMailboxReady(c, w) == actor.known /\ actor.owner = w /\ NumberOf(c) = actor.count + 1

\* The worker gets the owner epoch and the state of the moment.
LeaseCommand(c, w) ==
    /\ task[c].status = "QUEUED" /\ task[c].lease < MaxLeases
    /\ actorMailboxReady(c, w)
    /\ task' = [task EXCEPT ![c].status = "RUNNING", ![c].lease = @ + 1, ![c].worker = w]
    /\ threads' = threads \cup {[c |-> c, w |-> w, lease |-> task[c].lease + 1, epoch |-> actor.epoch,
                           given |-> actor.state, n |-> 0, pc |-> "run", outcome |-> "NONE",
                           seen |-> NoActor]}
    /\ UNCHANGED <<actor, stream, first, locked, proc, done, stalls, crashes>>

InHandler(c) == \E j \in threads : j.c = c /\ j.pc # "run" /\ j.lease = task[c].lease

Redeliver(c) ==
    /\ task[c].status = "RUNNING" /\ task[c].lease < MaxLeases
    /\ task' = [task EXCEPT ![c].status = "QUEUED", ![c].worker = NoOwner]
    /\ IF InHandler(c) THEN stalls < MaxStalls /\ stalls' = stalls + 1 ELSE UNCHANGED stalls
    /\ UNCHANGED <<actor, stream, first, locked, proc, done, threads, crashes>>

-----------------------------------------------------------------------------
\* CompleteTask for an actor command: completeActorCall, then the task itself.
Advance(j, k) == threads' = (threads \ {j}) \cup {k}

HoldsCommand(j) ==
    task[j.c].status = "RUNNING" /\ task[j.c].worker = j.w /\ task[j.c].lease = j.lease

NotStale(j) ==
    /\ actor.owner = j.w /\ actor.epoch = j.epoch
    /\ NumberOf(j.c) = actor.count + 1

CompleteAccept(j) ==
    /\ j.pc = "run"
    /\ HoldsCommand(j) /\ NotStale(j)
    /\ \E outcome \in CallEnded :
          Advance(j, [j EXCEPT !.pc = "append", !.n = NumberOf(j.c), !.outcome = outcome])
    /\ UNCHANGED <<actor, stream, first, locked, proc, task, done, stalls, crashes>>

\* A completion that is refused, or of a task already finished, changes nothing.
CompleteReject(j) ==
    /\ j.pc = "run"
    /\ ~(HoldsCommand(j) /\ NotStale(j))
    /\ threads' = threads \ {j}
    /\ UNCHANGED <<actor, stream, first, locked, proc, task, done, stalls, crashes>>

\* completeActorCall: the record, then the metadata.
CompleteAppend(j) ==
    /\ j.pc = "append" /\ j.outcome = "SUCCEEDED"
    /\ AppendActor(Record("Applied", j.c, j.n, j.w, j.epoch, Append(j.given, j.c)))
    /\ Advance(j, [j EXCEPT !.pc = "update"])
    /\ UNCHANGED <<actor, first, locked, proc, task, done, stalls, crashes>>

\* Count, state, owner and epoch are those of the request, whatever is there now.
CompleteUpdate(j) ==
    /\ j.pc = "update" /\ j.outcome = "SUCCEEDED"
    /\ actor' = [actor EXCEPT !.count = j.n, !.owner = j.w, !.epoch = j.epoch,
                              !.state = Append(j.given, j.c)]
    /\ Advance(j, IF j.n % SnapshotEvery = 0 THEN [j EXCEPT !.pc = "snapshot", !.seen = actor']
                                             ELSE [j EXCEPT !.pc = "terminal"])
    /\ UNCHANGED <<stream, first, locked, proc, task, done, stalls, crashes>>

\* failActorCommand: the same for a command that failed; the state stays.
FailAppend(j) ==
    /\ j.pc = "append" /\ j.outcome = "FAILED"
    /\ AppendActor(Record("Failed", j.c, j.n, j.w, j.epoch, <<>>))
    /\ Advance(j, [j EXCEPT !.pc = "update"])
    /\ UNCHANGED <<actor, first, locked, proc, task, done, stalls, crashes>>

FailUpdate(j) ==
    /\ j.pc = "update" /\ j.outcome = "FAILED"
    /\ actor' = [actor EXCEPT !.count = j.n, !.owner = j.w, !.epoch = j.epoch,
                              !.submitted = Maximum(@, j.n)]
    /\ Advance(j, [j EXCEPT !.pc = "terminal"])
    /\ UNCHANGED <<stream, first, locked, proc, task, done, stalls, crashes>>

\* createActorSnapshot: the blob and its record, the trim, the metadata.
SnapshotRecord(j) ==
    Record("Snapshot", Creator, j.seen.count, j.seen.owner, j.seen.epoch, j.seen.state)

SnapshotAppend(j) ==
    /\ j.pc = "snapshot"
    /\ AppendActor(SnapshotRecord(j))
    /\ Advance(j, [j EXCEPT !.pc = "trim"])
    /\ UNCHANGED <<actor, first, locked, proc, task, done, stalls, crashes>>

\* Mutant: the record of the snapshot is trimmed as well.
SnapshotTrimOne(j) ==
    /\ j.pc = "trim"
    /\ first' = Maximum(first, PositionOf(SnapshotRecord(j)) + 1)
    /\ Advance(j, [j EXCEPT !.pc = "snapmeta"])
    /\ UNCHANGED <<actor, stream, locked, proc, task, done, stalls, crashes>>

\* A trim that fails is only logged.
SnapshotTrim(j) ==
    /\ j.pc = "trim"
    /\ \/ first' = Maximum(first, PositionOf(SnapshotRecord(j)))
       \/ first' = first
    /\ Advance(j, [j EXCEPT !.pc = "snapmeta"])
    /\ UNCHANGED <<actor, stream, locked, proc, task, done, stalls, crashes>>

SnapshotMeta(j) ==
    /\ j.pc = "snapmeta"
    /\ actor' = [actor EXCEPT !.snap = j.seen.count]
    /\ Advance(j, [j EXCEPT !.pc = "terminal", !.seen = NoActor])
    /\ UNCHANGED <<stream, first, locked, proc, task, done, stalls, crashes>>

\* appendTaskTerminal, then CompleteTask of the metadata (TaskLifecycle takes the
\* two apart): the first outcome in the log stays.
FinishTask(j) ==
    /\ done' = [done EXCEPT ![j.c] = IF @ \in CallEnded THEN @ ELSE j.outcome]
    /\ task' = IF HoldsCommand(j) THEN [task EXCEPT ![j.c].status = j.outcome] ELSE task
    /\ threads' = threads \ {j}
    /\ UNCHANGED <<actor, stream, first, locked, proc, stalls, crashes>>

CompleteFinish(j) == j.pc = "terminal" /\ FinishTask(j)

-----------------------------------------------------------------------------
\* The control plane stops; bootstrapTasks and bootstrapActors rebuild the
\* metadata.  The command number of a task is not in its stream.
Restart ==
    /\ crashes < MaxCrashes
    /\ crashes' = crashes + 1
    /\ actor' = ReplayActor
    /\ task' = [c \in Calls |-> [status |-> done[c], seq |-> 0, lease |-> task[c].lease,
                                 worker |-> NoOwner]]
    /\ proc' = [p \in DOMAIN proc |->
                  IF proc[p].pc = "new" /\ p # Creator THEN proc[p] ELSE [pc |-> "end", seen |-> NoActor]]
    /\ locked' = Creator
    /\ threads' = {}
    /\ UNCHANGED <<stream, first, done, stalls>>

OwnerStep(p) == OwnerFresh(p) \/ OwnerAppend(p) \/ OwnerUpdate(p) \/ OwnerNone(p)
SubmitStep(c) ==
    \/ SubmitLock(c) \/ SubmitAppend(c) \/ EnqueueCall(c)
    \/ SubmitCount(c)
CompleteStep(j) ==
    \/ CompleteAccept(j) \/ CompleteReject(j) \/ CompleteAppend(j) \/ CompleteUpdate(j)
    \/ FailAppend(j) \/ FailUpdate(j)
    \/ SnapshotAppend(j) \/ SnapshotTrim(j) \/ SnapshotMeta(j)
    \/ CompleteFinish(j)

ActorNext ==
    \/ CreateAppend \/ CreateMeta
    \/ \E p \in Calls \cup {Creator} : OwnerStep(p)
    \/ \E c \in Calls : SubmitStep(c) \/ Redeliver(c) \/ (\E w \in ActorWorkers : LeaseCommand(c, w))
    \/ \E j \in threads : CompleteStep(j)
    \/ Restart

ActorSpec == ActorInit /\ [][ActorNext]_avars

\* The number command c was given when it was submitted.
SubmittedNumber(c) ==
    stream[CHOOSE i \in DOMAIN stream : stream[i].type = "Submitted" /\ stream[i].call = c].n

-----------------------------------------------------------------------------
\* What CallActor finds when it looks at the task: an outcome ends the call.
CallAnswer(c) == IF task[c].status \in CallEnded THEN task[c].status ELSE "wait"

\* A command whose caller was told SUCCEEDED is part of the state that replay
\* rebuilds from what is left of the stream, after any snapshot and trim: a
\* restart at this very moment loses no acknowledged command.
AckedReplayed ==
    \A c \in Calls : CallAnswer(c) = "SUCCEEDED" => c \in Range(ReplayActor.state)

\* Each command is in the state at most once and in the order of the numbers
\* given at submission: the mailbox serialises the commands through redelivery
\* and changes of owner, and a restart finds them so.
StateInOrder ==
    \A i, k \in DOMAIN actor.state :
        i < k => SubmittedNumber(actor.state[i]) < SubmittedNumber(actor.state[k])

\* When nothing is being submitted or completed, replay finds the command count
\* and the state of the metadata (Consistent, without ownership).
ReplayMatches ==
    (\A p \in Calls : proc[p].pc \in {"new", "end"}) /\ threads = {} =>
        ReplayActor.count = actor.count /\ ReplayActor.state = actor.state

=============================================================================
