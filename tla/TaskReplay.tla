------------------------------ MODULE TaskReplay ------------------------------
(***************************************************************************)
(* The task replay state machine of internal/control/task_replay.go: what  *)
(* the control plane makes of a stream task:<id> when it restarts.         *)
(*                                                                         *)
(* A lifecycle record is [type, epoch, worker]: the event type, the lease  *)
(* epoch and the worker of its payload.  Results and error texts are left  *)
(* out; SUCCEEDED and FAILED stand for the two outcomes.                   *)
(***************************************************************************)
EXTENDS Naturals

CONSTANTS Workers,      \* worker ids
          NoWorker      \* the empty worker id of a task nobody holds

ASSUME NoWorkerAssumption == NoWorker \notin Workers

Outcomes == {"SUCCEEDED", "FAILED"}
LiveStatuses == {"QUEUED", "RUNNING"}
Statuses == LiveStatuses \cup Outcomes

isTerminalTaskStatus(status) == status \in Outcomes

EventTypes == {"TaskSubmitted", "TaskStarted", "TaskRedelivered",
               "TaskCompleted", "TaskFailed"}

Event(type, epoch, worker) == [type |-> type, epoch |-> epoch, worker |-> worker]

Events == [type : EventTypes, epoch : Nat, worker : Workers \cup {NoWorker}]

\* taskReplayState: ok says that a TaskSubmitted record has been seen.
ReplayStates == [ok : BOOLEAN, status : Statuses, leaseEpoch : Nat,
                 redelivered : Nat, worker : Workers \cup {NoWorker}]

InitReplay == [ok |-> FALSE, status |-> "QUEUED", leaseEpoch |-> 0,
               redelivered |-> 0, worker |-> NoWorker]

-----------------------------------------------------------------------------
ApplySubmitted(r, ev) ==
    [ok |-> TRUE, status |-> "QUEUED", leaseEpoch |-> ev.epoch,
     redelivered |-> 0, worker |-> NoWorker]

\* A record of epoch 0 is one of the format without lease epochs: it counts
\* only while the stream has shown no epoch at all.
StartedApplies(r, ev) ==
    /\ ~isTerminalTaskStatus(r.status)
    /\ IF ev.epoch = 0
       THEN r.leaseEpoch = 0 /\ r.redelivered = 0
       ELSE ev.epoch > r.redelivered /\ ev.epoch >= r.leaseEpoch

ApplyStarted(r, ev) ==
    IF StartedApplies(r, ev)
    THEN [r EXCEPT !.status = "RUNNING", !.leaseEpoch = ev.epoch, !.worker = ev.worker]
    ELSE r

\* Mutant: a finished task is queued again by a late redelivery.
ApplyRedeliveredAlways(r, ev) ==
    [r EXCEPT !.status = "QUEUED", !.worker = NoWorker, !.redelivered = IF ev.epoch > @ THEN ev.epoch ELSE @]

ApplyRedelivered(r, ev) ==
    LET fenced == [r EXCEPT !.redelivered = IF ev.epoch > @ THEN ev.epoch ELSE @]
    IN  IF isTerminalTaskStatus(r.status) THEN r
        ELSE IF ev.epoch = 0 \/ ev.epoch >= r.leaseEpoch
        THEN [fenced EXCEPT !.status = "QUEUED", !.worker = NoWorker]
        ELSE fenced

taskTerminalEventApplies(r, epoch) ==
    /\ ~isTerminalTaskStatus(r.status)
    /\ IF epoch = 0
       THEN r.leaseEpoch = 0 /\ r.redelivered = 0
       ELSE /\ r.status = "RUNNING"
            /\ epoch = r.leaseEpoch
            /\ epoch > r.redelivered

ApplyTerminal(r, ev, outcome) ==
    IF taskTerminalEventApplies(r, ev.epoch)
    THEN [r EXCEPT !.status = outcome, !.worker = ev.worker]
    ELSE r

\* applyRaw folds one record into the replay state.
applyRaw(r, ev) ==
    CASE ev.type = "TaskSubmitted"   -> ApplySubmitted(r, ev)
      [] ev.type = "TaskStarted"     -> ApplyStarted(r, ev)
      [] ev.type = "TaskRedelivered" -> ApplyRedelivered(r, ev)
      [] ev.type = "TaskCompleted"   -> ApplyTerminal(r, ev, "SUCCEEDED")
      [] ev.type = "TaskFailed"      -> ApplyTerminal(r, ev, "FAILED")

\* finalTask: no lease survives a restart, so a running task is queued again.
finalTask(r) ==
    IF r.status = "RUNNING"
    THEN [status |-> "QUEUED", epoch |-> r.leaseEpoch, worker |-> NoWorker]
    ELSE [status |-> r.status, epoch |-> r.leaseEpoch, worker |-> r.worker]
=============================================================================
