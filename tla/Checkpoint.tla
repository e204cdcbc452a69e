----------------------------- MODULE Checkpoint -----------------------------
(***************************************************************************)
(* Metadata checkpoints (internal/control/checkpoint.go): a loop reads the *)
(* last sequence number of every stream, then copies the metadata table by *)
(* table, and appends both to system:checkpoints; a restart restores the   *)
(* newest checkpoint and replays the tail of each stream.  Handlers keep   *)
(* appending to the streams and updating the metadata meanwhile: first the *)
(* record, then the table.                                                 *)
(*                                                                         *)
(* A behaviour follows one stream of one kind: task:, wf:, actor: or llm:. *)
(* Task records and their replay are those of TaskReplay; a workflow       *)
(* record is the progress of one step, an actor record an epoch or a       *)
(* command number, an LLM record one sample of the statistics.             *)
(***************************************************************************)
EXTENDS TaskReplay, Sequences, SequencesExt, FiniteSets

CONSTANTS CkKinds,        \* the kinds of streams
          CkRecords,      \* bound: records per stream
          MaxCheckpoints, \* bound: checkpoints created
          Retention       \* checkpoints kept

ASSUME CkAssumption ==
    /\ CkKinds \subseteq {"task", "wf", "actor", "llm"}
    /\ CkRecords \in Nat /\ MaxCheckpoints \in Nat /\ Retention \in Nat \ {0}

VARIABLES
    ckKind,    \* the kind a behaviour is about: streams and tables are independent
    ckLog,     \* the records of the stream
    ckMeta,    \* its row in the metadata
    pending,   \* a handler appended the last record and has not applied it
    applied,   \* records the metadata reflects
    whole,     \* the metadata is the replay of those records
    draft,     \* the checkpoint being created: last sequence number, row copied
    ckpts,     \* system:checkpoints, untrimmed records
    created    \* checkpoints created

ckVars == <<ckKind, ckLog, ckMeta, pending, applied, whole, draft, ckpts, created>>

Empty == [task |-> InitReplay, wf |-> 0, actor |-> [epoch |-> 0, submitted |-> 0, count |-> 0], llm |-> 0]
NoDraft == [step |-> 0, seq |-> 0, state |-> 0, fit |-> FALSE]

-----------------------------------------------------------------------------
(* Replay of one record per kind. *)

Rec(type, n) == [type |-> type, n |-> n]

applyWorkflow(r, rec) == IF r = 3 THEN r ELSE rec.n

\* ReplayFromStateRawEach: counters of submitted commands never go back.
applyActor(r, rec) ==
    CASE rec.type = "granted"   -> [r EXCEPT !.epoch = rec.n]
      [] rec.type = "submitted" -> [r EXCEPT !.submitted = IF rec.n > @ THEN rec.n ELSE @]
      [] rec.type = "applied"   -> [r EXCEPT !.count = rec.n, !.submitted = IF rec.n > @ THEN rec.n ELSE @]

\* materializeLLMStreamFromSeq: every record read is one more sample.
materializeLLMStreamFromSeq(r, rec) == r + 1

Apply(k, r, rec) ==
    CASE k = "task" -> applyRaw(r, rec)
      [] k = "wf" -> applyWorkflow(r, rec)
      [] k = "actor" -> applyActor(r, rec)
      [] k = "llm" -> materializeLLMStreamFromSeq(r, rec)

Replay(k, r, recs) == FoldLeft(LAMBDA x, rec : Apply(k, x, rec), r, recs)

\* Full replay of the stream.
FullReplay == Replay(ckKind, Empty[ckKind], ckLog)

\* The redelivery fence is no field of metadata.Task: tables and checkpoints lack it.
taskReplayStateFromCheckpoint(r) == [r EXCEPT !.redelivered = 0]

Row(k, r) == IF k = "task" THEN taskReplayStateFromCheckpoint(r) ELSE r

\* Mutant: the first record after the checkpoint is skipped.
TailFromNext(cp) == SubSeq(ckLog, cp.seq + 2, Len(ckLog))

\* The records after the sequence number the checkpoint holds for the stream; a
\* table row whose stream had none starts at the second record.
TailFrom(cp) == SubSeq(ckLog, IF cp.seq = 0 THEN 2 ELSE cp.seq + 1, Len(ckLog))

\* materializeLLMTailsFromCheckpoint has no such exception.
LlmTailFrom(cp) == SubSeq(ckLog, cp.seq + 1, Len(ckLog))

\* A checkpoint without a row for the stream leaves it to a full replay.
HasRow(cp) == cp.state # Empty[ckKind]

CheckpointReplay(cp) ==
    IF ckKind = "llm" THEN Replay(ckKind, cp.state, LlmTailFrom(cp))
    ELSE IF ~HasRow(cp) THEN FullReplay
    ELSE Replay(ckKind, Row(ckKind, cp.state), TailFrom(cp))

\* loadLatestMetadataCheckpoint.
Latest == ckpts[Len(ckpts)]

Restored == IF ckpts = <<>> THEN FullReplay ELSE CheckpointReplay(Latest)

-----------------------------------------------------------------------------
(* Handlers. *)

\* The record a handler may append, given the metadata it has read.  A worker
\* completes what it has started.
NextRecords ==
    LET r == ckMeta IN
    CASE ckKind = "task" ->
           IF ~r.ok THEN {Event("TaskSubmitted", 0, NoWorker)}
           ELSE IF r.status = "RUNNING"
           THEN {Event(t, r.leaseEpoch, r.worker) : t \in {"TaskStarted", "TaskRedelivered"} \union
                    IF Contains(ckLog, Event("TaskStarted", r.leaseEpoch, r.worker))
                    THEN {"TaskCompleted"} ELSE {}}
           ELSE {}
      [] ckKind = "wf" -> {Rec("step", n) : n \in {r + 1} \intersect 1..3}
      [] ckKind = "actor" -> {Rec("granted", r.epoch + 1), Rec("submitted", r.submitted + 1)}
                          \union {Rec("applied", n) : n \in {r.count + 1} \intersect 1..r.submitted}
      [] ckKind = "llm" -> {Rec("completed", 1)}

AppendRecord ==
    /\ ~pending /\ Len(ckLog) < CkRecords
    /\ \E rec \in NextRecords : ckLog' = Append(ckLog, rec)
    /\ pending' = TRUE
    /\ UNCHANGED <<ckMeta, applied, whole, draft, ckpts, created>>

UpdateMetadata ==
    /\ pending
    /\ ckMeta' = Row(ckKind, Apply(ckKind, ckMeta, Last(ckLog)))
    /\ pending' = FALSE
    /\ applied' = Len(ckLog)
    /\ UNCHANGED <<ckLog, whole, draft, ckpts, created>>

\* A lease is granted in the metadata only; TaskStarted is appended afterwards.
LeaseInMetadata ==
    /\ ckKind = "task" /\ ~pending
    /\ ckMeta.ok /\ ckMeta.status = "QUEUED" /\ ckMeta.leaseEpoch < CkRecords
    /\ \E w \in Workers : ckMeta' = [ckMeta EXCEPT !.status = "RUNNING", !.leaseEpoch = @ + 1, !.worker = w]
    /\ UNCHANGED <<ckLog, pending, applied, whole, draft, ckpts, created>>

-----------------------------------------------------------------------------
(* Checkpoints. *)

\* The ticker of StartMetadataCheckpointLoop: one checkpoint after the other.
CheckpointTick == draft.step = 0 /\ created < MaxCheckpoints

\* streamLastSeqs, before any table is copied.
ReadLastSeqs ==
    /\ CheckpointTick
    /\ draft' = [step |-> 1, seq |-> Len(ckLog), state |-> Empty[ckKind], fit |-> FALSE]
    /\ UNCHANGED <<ckLog, ckMeta, pending, applied, whole, ckpts, created>>

\* snapshotTasks, snapshotWorkflows, snapshotActors or snapshotLLMStats.  fit notes
\* that the copy reflects every record the sequence number covers (the statistics:
\* exactly those).
SnapshotTable ==
    /\ draft.step = 1
    /\ draft' = [draft EXCEPT !.step = 2, !.state = ckMeta,
                   !.fit = whole /\ IF ckKind = "llm" THEN applied = draft.seq ELSE applied >= draft.seq]
    /\ UNCHANGED <<ckLog, ckMeta, pending, applied, whole, ckpts, created>>

\* TrimStream of system:checkpoints.
TrimCheckpoints(cps) ==
    IF created + 1 > Retention THEN SubSeq(cps, Len(cps) - Retention + 1, Len(cps)) ELSE cps

\* The record is appended, then older ones trimmed; a failed trim is only logged.
WriteCheckpoint ==
    /\ draft.step = 2
    /\ \E trimmed \in BOOLEAN :
         LET cps == Append(ckpts, draft) IN ckpts' = IF trimmed THEN TrimCheckpoints(cps) ELSE cps
    /\ created' = created + 1
    /\ draft' = NoDraft
    /\ UNCHANGED <<ckLog, ckMeta, pending, applied, whole>>

\* A restart restores the newest checkpoint and its tail; finalTask takes a running
\* task's lease away.
RestartFromCheckpoint ==
    /\ ckMeta' = IF ckKind = "task" /\ Restored.status = "RUNNING"
                 THEN [Row(ckKind, Restored) EXCEPT !.status = "QUEUED", !.worker = NoWorker]
                 ELSE Row(ckKind, Restored)
    /\ whole' = (Row(ckKind, Restored) = Row(ckKind, FullReplay))
    /\ applied' = Len(ckLog)
    /\ pending' = FALSE
    /\ draft' = NoDraft
    /\ UNCHANGED <<ckLog, ckpts, created>>

CkInit ==
    /\ ckKind \in CkKinds
    /\ ckLog = <<>> /\ ckMeta = Empty[ckKind]
    /\ pending = FALSE /\ applied = 0 /\ whole = TRUE
    /\ draft = NoDraft /\ ckpts = <<>> /\ created = 0

CkNext ==
    /\ UNCHANGED ckKind
    /\ \/ AppendRecord \/ UpdateMetadata \/ LeaseInMetadata
       \/ ReadLastSeqs \/ SnapshotTable \/ WriteCheckpoint \/ RestartFromCheckpoint

CkSpec == CkInit /\ [][CkNext]_ckVars

-----------------------------------------------------------------------------
\* A lease that was not in the log when its task was redelivered is granted again after a
\* restart: the stream then holds a start that the redelivery before it fences.
StartFenced ==
    \E i, j \in 1..Len(ckLog) :
        /\ i < j /\ ckLog[i].type = "TaskRedelivered" /\ ckLog[j].type = "TaskStarted"
        /\ ckLog[j].epoch <= ckLog[i].epoch

\* metadataTasksConsistent and its kin, a from the checkpoint and b from the whole
\* stream.  A checkpoint may know a lease the log does not, and the outcome of an epoch
\* whose start the whole stream fences.
SameState(a, b) ==
    IF ckKind = "task" THEN /\ a.ok = b.ok /\ a.leaseEpoch >= b.leaseEpoch
                            /\ \/ finalTask(a).status = finalTask(b).status
                               \/ ~isTerminalTaskStatus(b.status) /\ StartFenced
    ELSE a = b

CheckMetadataCheckpointConsistency == SameState(Restored, FullReplay)

\* The newest checkpoint and the tail give what a full replay gives, provided the
\* copied table reflects all the records its sequence number covers.  It may
\* reflect later ones, which the tail then replays a second time
\* (bootstrapCheckpointTasks, bootstrapCheckpointWorkflows,
\* bootstrapCheckpointActors, materializeLLMTailsFromCheckpoint).
CheckpointPlusTail ==
    ckpts # <<>> /\ Latest.fit => CheckMetadataCheckpointConsistency
=============================================================================
