--------------------------- MODULE ControlProofs ---------------------------
(***************************************************************************)
(* Theorems about the intake of tasks (TaskIntake), the registries         *)
(* (Registry), the placement of LLM requests (LlmPlacement), the step      *)
(* graph of workflows (WorkflowDag) and the checkpoints (Checkpoint) of    *)
(* the control plane, for any number of submissions, pollers, registrars,  *)
(* workers, models, steps, records and checkpoints.                        *)
(*                                                                         *)
(* Intake.  NoLostWakeup is not inductive: the poller that sleeps has      *)
(* looked at the queue some steps before (EmptySeen).  BacklogBounded      *)
(* counts the submissions that were admitted and are not queued yet        *)
(* (BacklogRoom).  OneContentPerKey rests on what the metadata hold for    *)
(* the key of an answer (AnswersStored).                                   *)
(*                                                                         *)
(* Registry.  A submission of several parts is accepted with its last one: *)
(* each part is durable or still to be done (PartsDone).                   *)
(*                                                                         *)
(* Placement.  The indexes that exist equal what seeding them afresh would *)
(* give, and the statistics follow the records of the log, whatever the    *)
(* order they are folded in.  A completion finds the load it takes back    *)
(* (LoadCounts).                                                           *)
(*                                                                         *)
(* Step graph.  Kahn's order and the search for a back edge are folds and  *)
(* a recursive function; both are taken step by step (DagInv).             *)
(*                                                                         *)
(* Checkpoints.  Two replays of one stream, from its beginning and from a  *)
(* checkpoint, are followed side by side while the stream grows; the tail  *)
(* of a checkpoint that is being created is followed for every row the     *)
(* table may yet hold (CkInv).                                             *)
(***************************************************************************)
EXTENDS TaskIntake, Registry, LlmPlacement, WorkflowDag, Checkpoint, FoldTheorems, FiniteSetTheorems,
        SequenceTheorems, TLAPS

-----------------------------------------------------------------------------
(* Intake: types. *)

SubmitPCs == {"rest", "lookup", "admit", "append", "create", "enqueue", "notify"}
PollPCs == {"rest", "poll", "empty", "wait", "again"}
Limits == Watermarks \cup {DefaultWatermark}
Contents == [fp : Fingerprints \cup {0}, task : Nat]
Submission == [pc : SubmitPCs, k : InKeys \cup {NoKey}, fp : Fingerprints \cup {0}, task : Nat]
Answers == [k : InKeys, fp : Fingerprints \cup {0}, task : Nat]

\* The kinds of the variables; a limit in force is never zero.
IntakeTypes ==
    /\ backlog \in Nat /\ submitted \in Nat
    /\ inMeta \in [InKeys -> Contents]
    /\ submitter \in [Submitters -> Submission]
    /\ replies \subseteq Answers
    /\ poller \in [Pollers -> [pc : PollPCs, closed : BOOLEAN]]
    /\ watermark \in Limits /\ peak \in Limits /\ configLog \in Limits /\ configLost \in BOOLEAN
    /\ admin \in [Admins -> [pc : {"rest", "append", "apply"}, v : Watermarks \cup {0}]]
    /\ \A a \in Admins : admin[a].pc # "rest" => admin[a].v \in Watermarks

\* A limit is a positive number.
LEMMA LimitsPositive == ASSUME NEW l \in Limits PROVE l \in Nat /\ l > 0
  BY IntakeAssumption DEF Limits

LEMMA IntakeTypesInit == IntakeInit => IntakeTypes
<1> SUFFICES ASSUME IntakeInit PROVE IntakeTypes
  OBVIOUS
<1>1. inMeta \in [InKeys -> Contents]
  BY DEF IntakeInit, Contents, NoTaskYet
<1>2. submitter \in [Submitters -> Submission]
  BY DEF IntakeInit, Submission, Free, SubmitPCs
<1>3. poller \in [Pollers -> [pc : PollPCs, closed : BOOLEAN]]
  BY DEF IntakeInit, PollPCs
<1>4. /\ admin \in [Admins -> [pc : {"rest", "append", "apply"}, v : Watermarks \cup {0}]]
      /\ \A a \in Admins : admin[a].pc = "rest"
  BY DEF IntakeInit
<1> QED  BY <1>1, <1>2, <1>3, <1>4 DEF IntakeInit, IntakeTypes, Limits

\* The moves of a submission keep its kind.
LEMMA SubmissionMoves ==
    ASSUME IntakeTypes, NEW s \in Submitters
    PROVE  /\ Done(s) => submitter' \in [Submitters -> Submission]
           /\ \A pc \in SubmitPCs : Goes(s, pc) => submitter' \in [Submitters -> Submission]
           /\ \A t \in Nat : Reply(s, t) => replies' \subseteq Answers
           /\ ensureIdempotencyFingerprint(s) /\ Known(s) => replies' \subseteq Answers
<1>0. submitter \in [Submitters -> Submission] /\ replies \subseteq Answers /\ inMeta \in [InKeys -> Contents]
  BY DEF IntakeTypes
<1>1. Done(s) => submitter' \in [Submitters -> Submission]
  BY <1>0 DEF Done, Free, Submission, SubmitPCs
<1>2. \A pc \in SubmitPCs : Goes(s, pc) => submitter' \in [Submitters -> Submission]
  BY <1>0 DEF Goes, Submission
<1>3. ASSUME NEW t \in Nat, Reply(s, t) PROVE replies' \subseteq Answers
  <2>1. submitter[s].k # NoKey => submitter[s].k \in InKeys
    BY <1>0 DEF Submission
  <2>2. submitter[s].fp \in Fingerprints \cup {0}
    BY <1>0 DEF Submission
  <2> QED  BY <1>0, <1>3, <2>1, <2>2 DEF Reply, Answers
<1>4. ASSUME ensureIdempotencyFingerprint(s), Known(s) PROVE replies' \subseteq Answers
  <2>1. submitter[s].k \in InKeys
    BY <1>0, <1>4 DEF Submission, Known
  <2>2. inMeta[submitter[s].k].task \in Nat
    BY <1>0, <2>1 DEF Contents
  <2> QED  BY <1>0, <1>3, <1>4, <2>2 DEF ensureIdempotencyFingerprint
<1> QED  BY <1>1, <1>2, <1>3, <1>4

\* So do the moves of a poller.
LEMMA PollerMoves ==
    ASSUME IntakeTypes
    PROVE  /\ CloseChannel => poller' \in [Pollers -> [pc : PollPCs, closed : BOOLEAN]]
           /\ \A p \in Pollers, pc \in PollPCs :
                 PollerGoes(p, pc) => poller' \in [Pollers -> [pc : PollPCs, closed : BOOLEAN]]
<1>0. poller \in [Pollers -> [pc : PollPCs, closed : BOOLEAN]]
  BY DEF IntakeTypes
<1>1. ASSUME CloseChannel PROVE poller' \in [Pollers -> [pc : PollPCs, closed : BOOLEAN]]
  <2>1. \A p \in Pollers : [poller[p] EXCEPT !.closed = (poller[p].pc # "rest")] \in [pc : PollPCs, closed : BOOLEAN]
    BY <1>0
  <2> QED  BY <1>1, <2>1 DEF CloseChannel
<1>2. ASSUME NEW p \in Pollers, NEW pc \in PollPCs, PollerGoes(p, pc)
      PROVE  poller' \in [Pollers -> [pc : PollPCs, closed : BOOLEAN]]
  <2>1. Signal(p, pc) \in BOOLEAN
    BY <1>0 DEF Signal
  <2> QED  BY <1>0, <1>2, <2>1 DEF PollerGoes
<1> QED  BY <1>1, <1>2

LEMMA IntakeTypesStep == IntakeTypes /\ [IntakeNext]_intakeVars => IntakeTypes'
<1> SUFFICES ASSUME IntakeTypes, [IntakeNext]_intakeVars PROVE IntakeTypes'
  OBVIOUS
<1>0. \A pc : pc \in {"admit", "append", "create", "enqueue", "notify"} => pc \in SubmitPCs
  BY DEF SubmitPCs
<1>p. \A pc : pc \in {"rest", "poll", "empty", "wait", "again"} => pc \in PollPCs
  BY DEF PollPCs
\* A step of a submission.
<1>c. ASSUME UNCHANGED configPart, poller' \in [Pollers -> [pc : PollPCs, closed : BOOLEAN]],
             backlog' \in Nat, submitted' \in Nat, inMeta' \in [InKeys -> Contents],
             submitter' \in [Submitters -> Submission], replies' \subseteq Answers
      PROVE  IntakeTypes'
  BY <1>c DEF IntakeTypes, configPart
\* A step of an administrator.
<1>d. ASSUME UNCHANGED taskPart, UNCHANGED poller,
             watermark' \in Limits, peak' \in Limits, configLog' \in Limits, configLost' \in BOOLEAN,
             admin' \in [Admins -> [pc : {"rest", "append", "apply"}, v : Watermarks \cup {0}]],
             \A a \in Admins : admin'[a].pc # "rest" => admin'[a].v \in Watermarks
      PROVE  IntakeTypes'
  BY <1>d DEF IntakeTypes, taskPart
<1>1. ASSUME NEW s \in Submitters, BeginSubmit(s) PROVE IntakeTypes'
  <2>1. submitter' \in [Submitters -> Submission]
    BY <1>1 DEF BeginSubmit, IntakeTypes, Submission, SubmitPCs
  <2> QED  BY <1>1, <1>c, <2>1 DEF BeginSubmit, IntakeTypes
<1>2. ASSUME NEW s \in Submitters, LookupKey(s) PROVE IntakeTypes'
  <2>1. submitter' \in [Submitters -> Submission] /\ replies' \subseteq Answers
    BY <1>0, <1>2, SubmissionMoves DEF LookupKey, IntakeTypes
  <2> QED  BY <1>2, <1>c, <2>1 DEF LookupKey, IntakeTypes
<1>3. ASSUME NEW s \in Submitters, Admit(s) PROVE IntakeTypes'
  <2>1. submitter' \in [Submitters -> Submission]
    BY <1>0, <1>3, SubmissionMoves DEF Admit
  <2> QED  BY <1>3, <1>c, <2>1 DEF Admit, IntakeTypes
<1>4. ASSUME NEW s \in Submitters, appendLog(s) PROVE IntakeTypes'
  <2>1. submitter' \in [Submitters -> Submission]
    BY <1>0, <1>4, SubmissionMoves DEF appendLog
  <2> QED  BY <1>4, <1>c, <2>1 DEF appendLog, IntakeTypes
<1>5. ASSUME NEW s \in Submitters, CreateTask(s) PROVE IntakeTypes'
  <2>1. submitter' \in [Submitters -> Submission] /\ replies' \subseteq Answers
    BY <1>0, <1>5, SubmissionMoves DEF CreateTask, IntakeTypes
  <2>2. Store(s) => inMeta' \in [InKeys -> Contents]
    BY DEF Store, IntakeTypes, Submission, Contents
  <2>3. inMeta' \in [InKeys -> Contents]
    BY <1>5, <2>2 DEF CreateTask, IntakeTypes
  <2> QED  BY <1>5, <1>c, <2>1, <2>3 DEF CreateTask, IntakeTypes
<1>6. ASSUME NEW s \in Submitters, EnqueueTask(s) PROVE IntakeTypes'
  <2>1. submitter' \in [Submitters -> Submission]
    BY <1>0, <1>6, SubmissionMoves DEF EnqueueTask
  <2> QED  BY <1>6, <1>c, <2>1 DEF EnqueueTask, IntakeTypes
<1>7. ASSUME NEW s \in Submitters, notifyTaskAvailable(s) PROVE IntakeTypes'
  <2>1. submitter[s].task \in Nat
    BY DEF IntakeTypes, Submission
  <2>2. submitter' \in [Submitters -> Submission] /\ replies' \subseteq Answers
    BY <1>7, <2>1, SubmissionMoves DEF notifyTaskAvailable
  <2>3. poller' \in [Pollers -> [pc : PollPCs, closed : BOOLEAN]]
    BY <1>7, PollerMoves DEF notifyTaskAvailable
  <2> QED  BY <1>7, <1>c, <2>2, <2>3 DEF notifyTaskAvailable, IntakeTypes
<1>8. ASSUME NEW p \in Pollers, PollTask(p) \/ pollTaskNow(p) \/ PollWaits(p) \/ PollWakes(p) PROVE IntakeTypes'
  <2>1. poller' \in [Pollers -> [pc : PollPCs, closed : BOOLEAN]]
    BY <1>p, <1>8, PollerMoves DEF PollTask, pollTaskNow, PollWaits, PollWakes
  <2>2. backlog' \in Nat
    BY <1>8 DEF PollTask, pollTaskNow, PollWaits, PollWakes, IntakeTypes, taskPart
  <2> QED  BY <1>8, <1>c, <2>1, <2>2 DEF PollTask, pollTaskNow, PollWaits, PollWakes, IntakeTypes, taskPart
<1>9. ASSUME NEW a \in Admins, SetBackpressure(a) PROVE IntakeTypes'
  BY <1>9, <1>d DEF SetBackpressure, IntakeTypes
<1>10. ASSUME NEW a \in Admins, AppendConfigured(a) PROVE IntakeTypes'
  <2>1. admin[a].v \in Limits
    BY <1>10 DEF AppendConfigured, IntakeTypes, Limits
  <2>2. /\ admin' \in [Admins -> [pc : {"rest", "append", "apply"}, v : Watermarks \cup {0}]]
        /\ \A b \in Admins : admin'[b].pc # "rest" => admin'[b].v \in Watermarks
    BY <1>10 DEF AppendConfigured, IntakeTypes
  <2>3. configLog' \in Limits /\ configLost' \in BOOLEAN
    BY <1>10, <2>1 DEF AppendConfigured, IntakeTypes
  <2> QED  BY <1>10, <1>d, <2>2, <2>3 DEF AppendConfigured, IntakeTypes
<1>11. ASSUME NEW a \in Admins, ApplyConfigured(a) PROVE IntakeTypes'
  BY <1>11, <1>d DEF ApplyConfigured, IntakeTypes, Limits
<1>12. CASE WorkerSeen
  <2>1. poller' \in [Pollers -> [pc : PollPCs, closed : BOOLEAN]]
    BY <1>12, PollerMoves DEF WorkerSeen
  <2> QED  BY <1>12, <1>c, <2>1 DEF WorkerSeen, IntakeTypes, taskPart
<1>13. CASE RestartControl
  <2>1. submitter' \in [Submitters -> Submission]
    BY <1>13 DEF RestartControl, Free, Submission, SubmitPCs
  <2>2. poller' \in [Pollers -> [pc : PollPCs, closed : BOOLEAN]]
    BY <1>13, <1>p DEF RestartControl
  <2> QED  BY <1>13, <2>1, <2>2 DEF RestartControl, IntakeTypes
<1>14. CASE UNCHANGED intakeVars
  BY <1>14 DEF intakeVars, IntakeTypes
<1> QED  BY <1>1, <1>2, <1>3, <1>4, <1>5, <1>6, <1>7, <1>8, <1>9, <1>10, <1>11, <1>12, <1>13, <1>14 DEF IntakeNext

-----------------------------------------------------------------------------
(* Intake: the long poll. *)

\* A poller that has found nothing, and whose channel is open, has looked at the queue
\* after the last signal: what is in the queue was put there since, by a submission that
\* has its signal still to give.
EmptySeen ==
    \A p \in Pollers :
        poller[p].pc \in {"empty", "wait"} /\ ~poller[p].closed /\ backlog > 0
            => \E s \in Submitters : submitter[s].pc = "notify"

LEMMA EmptySeenStep == IntakeTypes /\ EmptySeen /\ [IntakeNext]_intakeVars => EmptySeen'
<1> SUFFICES ASSUME IntakeTypes, EmptySeen, [IntakeNext]_intakeVars PROVE EmptySeen'
  OBVIOUS
<1>0. /\ submitter \in [Submitters -> Submission]
      /\ poller \in [Pollers -> [pc : PollPCs, closed : BOOLEAN]] /\ backlog \in Nat
  BY DEF IntakeTypes
\* A step that moves one submission which was not about to signal.
<1>1. ASSUME NEW s \in Submitters, submitter[s].pc # "notify", UNCHANGED <<backlog, poller>>,
             \A u \in Submitters : u # s => submitter'[u] = submitter[u]
      PROVE  EmptySeen'
  BY <1>1 DEF EmptySeen
<1>2. ASSUME NEW s \in Submitters,
             BeginSubmit(s) \/ LookupKey(s) \/ Admit(s) \/ appendLog(s) \/ CreateTask(s)
      PROVE  EmptySeen'
  <2>1. submitter[s].pc # "notify" /\ UNCHANGED <<backlog, poller>>
    BY <1>2 DEF BeginSubmit, LookupKey, Admit, appendLog, CreateTask
  <2>2. \A u \in Submitters : u # s => submitter'[u] = submitter[u]
    BY <1>0, <1>2 DEF BeginSubmit, LookupKey, Admit, appendLog, CreateTask, Done, Goes
  <2> QED  BY <1>1, <2>1, <2>2
<1>3. ASSUME NEW s \in Submitters, EnqueueTask(s) PROVE EmptySeen'
  <2>1. submitter'[s].pc = "notify"
    BY <1>0, <1>3 DEF EnqueueTask, Goes
  <2> QED  BY <2>1 DEF EmptySeen
<1>4. ASSUME \A p \in Pollers : poller'[p].pc \in {"empty", "wait"} => poller'[p].closed PROVE EmptySeen'
  BY <1>4 DEF EmptySeen
<1>5. ASSUME CloseChannel PROVE EmptySeen'
  BY <1>0, <1>4, <1>5 DEF CloseChannel
<1>6. ASSUME NEW p \in Pollers, pollTaskNow(p) PROVE EmptySeen'
  BY <1>0, <1>6 DEF pollTaskNow, PollerGoes, Signal, EmptySeen
<1>7. ASSUME NEW p \in Pollers, PollTask(p) \/ PollWaits(p) \/ PollWakes(p) PROVE EmptySeen'
  BY <1>0, <1>7 DEF PollTask, PollWaits, PollWakes, PollerGoes, Signal, EmptySeen, taskPart
<1>8. ASSUME UNCHANGED <<submitter, backlog, poller>> PROVE EmptySeen'
  BY <1>8 DEF EmptySeen
<1>9. CASE RestartControl
  BY <1>9, <1>4 DEF RestartControl
<1> QED  BY <1>2, <1>3, <1>5, <1>6, <1>7, <1>8, <1>9
         DEF IntakeNext, intakeVars, taskPart, notifyTaskAvailable, WorkerSeen, SetBackpressure, AppendConfigured,
             ApplyConfigured

-----------------------------------------------------------------------------
(* Intake: the backlog. *)

\* Submissions that were admitted and whose task is not in the queue yet.
Admitted == {s \in Submitters : submitter[s].pc \in {"append", "create", "enqueue"}}

\* The queue, with what is on its way into it, passes the highest limit by fewer than
\* there are submitters.
BacklogRoom ==
    /\ watermark <= peak
    /\ backlog + Cardinality(Admitted) <= peak + Cardinality(Submitters) - 1

LEMMA AdmittedCount == /\ IsFiniteSet(Admitted) /\ Cardinality(Admitted) \in Nat
                       /\ Cardinality(Admitted) <= Cardinality(Submitters) /\ Cardinality(Submitters) \in Nat
<1>1. Admitted \subseteq Submitters
  BY DEF Admitted
<1> QED  BY <1>1, IntakeAssumption, FS_Subset, FS_CardinalityType

LEMMA BacklogRoomStep == IntakeTypes /\ BacklogRoom /\ [IntakeNext]_intakeVars => BacklogRoom'
<1> SUFFICES ASSUME IntakeTypes, BacklogRoom, [IntakeNext]_intakeVars PROVE BacklogRoom'
  OBVIOUS
<1>0. /\ submitter \in [Submitters -> Submission]
      /\ backlog \in Nat /\ watermark \in Nat /\ watermark > 0 /\ peak \in Nat
      /\ configLog \in Nat /\ configLog > 0
  BY LimitsPositive DEF IntakeTypes
<1>a. /\ IsFiniteSet(Admitted) /\ Cardinality(Admitted) \in Nat /\ Cardinality(Admitted) <= Cardinality(Submitters)
      /\ Cardinality(Submitters) \in Nat
  BY AdmittedCount
<1>b. /\ IsFiniteSet(Admitted') /\ Cardinality(Admitted') \in Nat /\ Cardinality(Admitted') <= Cardinality(Submitters)
  <2>1. Admitted' \subseteq Submitters
    BY DEF Admitted
  <2> QED  BY <2>1, IntakeAssumption, FS_Subset, FS_CardinalityType
\* A step that admits nobody and queues nothing.
<1>1. ASSUME Admitted' \subseteq Admitted, backlog' \in Nat, backlog' <= backlog, UNCHANGED <<watermark, peak>>
      PROVE  BacklogRoom'
  <2>1. Cardinality(Admitted') <= Cardinality(Admitted)
    BY <1>1, <1>a, FS_Subset
  <2> QED  BY <1>0, <1>1, <1>a, <1>b, <2>1 DEF BacklogRoom
<1>2. ASSUME NEW s \in Submitters, BeginSubmit(s) \/ LookupKey(s) \/ appendLog(s) \/ CreateTask(s) \/ notifyTaskAvailable(s)
      PROVE  BacklogRoom'
  <2>a. \A u \in Submitters : u # s => submitter'[u] = submitter[u]
    BY <1>0, <1>2 DEF BeginSubmit, LookupKey, appendLog, CreateTask, notifyTaskAvailable, Done, Goes
  <2>b. Done(s) => submitter'[s].pc = "rest"
    BY <1>0 DEF Done, Free
  <2>c. \A pc : Goes(s, pc) => submitter'[s].pc = pc
    BY <1>0 DEF Goes, Submission
  <2>d. BeginSubmit(s) => submitter'[s].pc = "lookup"
    BY <1>0 DEF BeginSubmit
  <2>e. submitter'[s].pc \in {"append", "create", "enqueue"} => submitter[s].pc \in {"append", "create", "enqueue"}
    BY <1>2, <2>b, <2>c, <2>d DEF LookupKey, appendLog, CreateTask, notifyTaskAvailable
  <2>1. Admitted' \subseteq Admitted
    BY <2>a, <2>e DEF Admitted
  <2>2. UNCHANGED <<backlog, watermark, peak>>
    BY <1>2 DEF BeginSubmit, LookupKey, appendLog, CreateTask, notifyTaskAvailable, configPart
  <2> QED  BY <1>0, <1>1, <2>1, <2>2
<1>3. ASSUME NEW s \in Submitters, Admit(s) PROVE BacklogRoom'
  <2>0. UNCHANGED <<backlog, watermark, peak>>
    BY <1>3 DEF Admit, configPart
  <2>1. CASE Admits
    <3>1. backlog < watermark
      BY <1>0, <2>1 DEF Admits
    <3> QED  BY <1>0, <1>a, <1>b, <2>0, <3>1 DEF BacklogRoom
  <2>2. CASE ~Admits
    <3>1. Admitted' \subseteq Admitted
      BY <1>0, <1>3, <2>2 DEF Admit, Done, Free, Admitted
    <3> QED  BY <1>0, <1>1, <2>0, <3>1
  <2> QED  BY <2>1, <2>2
<1>4. ASSUME NEW s \in Submitters, EnqueueTask(s) PROVE BacklogRoom'
  <2>1. s \in Admitted /\ Admitted' = Admitted \ {s} /\ backlog' = backlog + 1 /\ UNCHANGED <<watermark, peak>>
    BY <1>0, <1>4 DEF EnqueueTask, Goes, Admitted, configPart
  <2>2. Cardinality(Admitted') = Cardinality(Admitted) - 1
    BY <1>a, <2>1, FS_RemoveElement
  <2> QED  BY <1>0, <1>a, <2>1, <2>2 DEF BacklogRoom
<1>5. ASSUME NEW p \in Pollers, PollTask(p) \/ pollTaskNow(p) \/ PollWaits(p) \/ PollWakes(p) PROVE BacklogRoom'
  <2>1. UNCHANGED <<submitter, watermark, peak>> /\ backlog' \in Nat /\ backlog' <= backlog
    BY <1>0, <1>5 DEF PollTask, pollTaskNow, PollWaits, PollWakes, taskPart, configPart
  <2>2. Admitted' = Admitted
    BY <2>1 DEF Admitted
  <2> QED  BY <1>1, <2>1, <2>2
<1>6. ASSUME UNCHANGED <<submitter, backlog>>, watermark' \in Nat, peak' \in Nat, watermark' <= peak', peak <= peak'
      PROVE  BacklogRoom'
  <2>1. Admitted' = Admitted
    BY <1>6 DEF Admitted
  <2> QED  BY <1>0, <1>6, <1>a, <2>1 DEF BacklogRoom
<1>7. ASSUME NEW a \in Admins, SetBackpressure(a) \/ AppendConfigured(a) PROVE BacklogRoom'
  <2>1. UNCHANGED <<submitter, backlog, watermark, peak>>
    BY <1>7 DEF SetBackpressure, AppendConfigured, taskPart
  <2> QED  BY <1>0, <1>6, <2>1 DEF BacklogRoom
<1>8. ASSUME NEW a \in Admins, ApplyConfigured(a) PROVE BacklogRoom'
  <2>1. admin[a].v \in Nat
    BY <1>8, LimitsPositive DEF IntakeTypes, ApplyConfigured, Limits
  <2> QED  BY <1>0, <1>6, <1>8, <2>1 DEF ApplyConfigured, taskPart
<1>9. CASE RestartControl
  <2>1. Admitted' = {}
    BY <1>9 DEF RestartControl, Admitted, Free
  <2>2. Admitted = {}
    BY <1>9 DEF RestartControl, Admitted
  <2>3. Cardinality(Admitted') = Cardinality(Admitted)
    BY <2>1, <2>2
  <2> QED  BY <1>0, <1>9, <1>a, <2>3 DEF RestartControl, BacklogRoom
<1>10. CASE WorkerSeen \/ UNCHANGED intakeVars
  <2>1. UNCHANGED <<submitter, backlog, watermark, peak>>
    BY <1>10 DEF WorkerSeen, intakeVars, taskPart, configPart
  <2> QED  BY <1>0, <1>6, <2>1 DEF BacklogRoom
<1> QED  BY <1>2, <1>3, <1>4, <1>5, <1>7, <1>8, <1>9, <1>10 DEF IntakeNext

-----------------------------------------------------------------------------
(* Intake: the content of a key. *)

Content(s) == [fp |-> submitter[s].fp, task |-> submitter[s].task]

\* The metadata hold the content that was answered for a key, and the content of a
\* submission that has stored its task; what they hold is never replaced.
AnswersStored ==
    /\ \A r \in replies : inMeta[r.k] = [fp |-> r.fp, task |-> r.task] /\ inMeta[r.k] # NoTaskYet
    /\ \A s \in Submitters : submitter[s].pc # "rest" => submitter[s].task > 0
    /\ \A s \in Submitters : submitter[s].pc \in {"enqueue", "notify"} /\ submitter[s].k # NoKey =>
           inMeta[submitter[s].k] = Content(s)

LEMMA AnswersStoredStep == IntakeTypes /\ AnswersStored /\ [IntakeNext]_intakeVars => AnswersStored'
<1> SUFFICES ASSUME IntakeTypes, AnswersStored, [IntakeNext]_intakeVars PROVE AnswersStored'
  OBVIOUS
<1>0. /\ submitter \in [Submitters -> Submission] /\ inMeta \in [InKeys -> Contents]
      /\ replies \subseteq Answers /\ submitted \in Nat
  BY DEF IntakeTypes
<1>k. \A s \in Submitters : /\ submitter[s].k # NoKey => submitter[s].k \in InKeys
                            /\ submitter[s].task \in Nat
  BY <1>0 DEF Submission
<1>s. ASSUME NEW s \in Submitters
      PROVE  /\ Done(s) => submitter'[s] = Free
             /\ \A pc : Goes(s, pc) => /\ submitter'[s].pc = pc /\ submitter'[s].k = submitter[s].k
                                       /\ submitter'[s].fp = submitter[s].fp /\ submitter'[s].task = submitter[s].task
  BY <1>0 DEF Done, Goes, Submission
<1>u. ASSUME NEW s \in Submitters
      PROVE  /\ Done(s) => \A u \in Submitters : u # s => submitter'[u] = submitter[u]
             /\ \A pc : Goes(s, pc) => \A u \in Submitters : u # s => submitter'[u] = submitter[u]
  BY <1>0 DEF Done, Goes
\* An answer is given from what is stored.
<1>r. ASSUME NEW s \in Submitters, NEW t, Reply(s, t), UNCHANGED inMeta,
             submitter[s].k # NoKey => inMeta[submitter[s].k] = [fp |-> submitter[s].fp, task |-> t] /\ inMeta[submitter[s].k] # NoTaskYet
      PROVE  \A r \in replies' : inMeta'[r.k] = [fp |-> r.fp, task |-> r.task] /\ inMeta'[r.k] # NoTaskYet
  <2>1. \A r \in replies : inMeta[r.k] = [fp |-> r.fp, task |-> r.task] /\ inMeta[r.k] # NoTaskYet
    BY DEF AnswersStored
  <2>2. CASE submitter[s].k = NoKey
    BY <1>r, <2>1, <2>2 DEF Reply
  <2>3. CASE submitter[s].k # NoKey
    <3> DEFINE a == [k |-> submitter[s].k, fp |-> submitter[s].fp, task |-> t]
    <3>1. replies' = replies \cup {a}
      BY <1>r, <2>3 DEF Reply
    <3>2. inMeta[a.k] = [fp |-> a.fp, task |-> a.task] /\ inMeta[a.k] # NoTaskYet
      BY <1>r, <2>3
    <3> HIDE DEF a
    <3> QED  BY <1>r, <2>1, <3>1, <3>2
  <2> QED  BY <2>2, <2>3
<1>e. ASSUME NEW s \in Submitters, ensureIdempotencyFingerprint(s), Known(s), UNCHANGED inMeta
      PROVE  \A r \in replies' : inMeta'[r.k] = [fp |-> r.fp, task |-> r.task] /\ inMeta'[r.k] # NoTaskYet
  <2>1. submitter[s].k \in InKeys /\ inMeta[submitter[s].k] \in Contents /\ inMeta[submitter[s].k] # NoTaskYet
    BY <1>0, <1>k, <1>e DEF Known
  <2>2. inMeta[submitter[s].k] = [fp |-> inMeta[submitter[s].k].fp, task |-> inMeta[submitter[s].k].task]
    BY <2>1 DEF Contents
  <2> QED  BY <1>e, <1>r, <2>1, <2>2 DEF ensureIdempotencyFingerprint, AnswersStored
\* A step that changes neither what is stored nor what was answered, and lets nobody
\* past its store.
<1>q. ASSUME UNCHANGED inMeta,
             \A r \in replies' : inMeta'[r.k] = [fp |-> r.fp, task |-> r.task] /\ inMeta'[r.k] # NoTaskYet,
             \A s \in Submitters : \/ submitter'[s] = submitter[s] \/ submitter'[s] = Free
                                   \/ /\ submitter'[s].task > 0
                                      /\ \/ submitter'[s].pc \notin {"enqueue", "notify"}
                                         \/ /\ submitter[s].pc = "enqueue" /\ submitter'[s].k = submitter[s].k
                                            /\ submitter'[s].fp = submitter[s].fp
                                            /\ submitter'[s].task = submitter[s].task
      PROVE  AnswersStored'
  BY <1>q DEF AnswersStored, Content, Free
<1>1. ASSUME NEW s \in Submitters, BeginSubmit(s) PROVE AnswersStored'
  <2>1. \A u \in Submitters : u # s => submitter'[u] = submitter[u]
    BY <1>0, <1>1 DEF BeginSubmit
  <2>2. submitter'[s].pc = "lookup" /\ submitter'[s].task = submitted + 1
    BY <1>0, <1>1 DEF BeginSubmit
  <2>3. submitter'[s].task > 0
    BY <1>0, <2>2
  <2>4. UNCHANGED <<inMeta, replies>>
    BY <1>1 DEF BeginSubmit
  <2> QED  BY <1>q, <2>1, <2>2, <2>3, <2>4 DEF AnswersStored
<1>2. ASSUME NEW s \in Submitters, LookupKey(s) PROVE AnswersStored'
  <2>1. UNCHANGED inMeta /\ submitter[s].task > 0
    BY <1>2 DEF LookupKey, AnswersStored
  <2>2. CASE Known(s)
    BY <1>2, <1>e, <1>q, <1>s, <1>u, <2>1, <2>2 DEF LookupKey
  <2>3. CASE ~Known(s)
    BY <1>2, <1>q, <1>s, <1>u, <2>1, <2>3 DEF LookupKey, AnswersStored
  <2> QED  BY <2>2, <2>3
<1>3. ASSUME NEW s \in Submitters, Admit(s) \/ appendLog(s) \/ EnqueueTask(s) PROVE AnswersStored'
  <2>1. UNCHANGED <<inMeta, replies>> /\ submitter[s].task > 0
    BY <1>3 DEF Admit, appendLog, EnqueueTask, AnswersStored
  <2>2. CASE Done(s)
    BY <1>q, <1>s, <1>u, <2>1, <2>2 DEF AnswersStored
  <2>3. CASE Goes(s, "append") \/ Goes(s, "create")
    BY <1>q, <1>s, <1>u, <2>1, <2>3 DEF AnswersStored
  <2>4. CASE submitter[s].pc = "enqueue" /\ Goes(s, "notify")
    BY <1>q, <1>s, <1>u, <2>1, <2>4 DEF AnswersStored
  <2> QED  BY <1>3, <2>2, <2>3, <2>4 DEF Admit, appendLog, EnqueueTask
<1>4. ASSUME NEW s \in Submitters, CreateTask(s) PROVE AnswersStored'
  <2>1. CASE Known(s)
    BY <1>4, <1>e, <1>q, <1>s, <1>u, <2>1 DEF CreateTask
  <2>2. CASE ~Known(s)
    <3>1. Store(s) /\ Goes(s, "enqueue") /\ UNCHANGED replies /\ submitter[s].task > 0 /\ submitter[s].task \in Nat
      BY <1>4, <1>k, <2>2 DEF CreateTask, AnswersStored
    <3>2. /\ \A k \in InKeys : k # submitter[s].k => inMeta'[k] = inMeta[k]
          /\ submitter[s].k # NoKey => inMeta'[submitter[s].k] = Content(s) /\ inMeta[submitter[s].k] = NoTaskYet
      BY <1>k, <2>2, <3>1 DEF Store, Content, Known
    <3>3. Content(s) # NoTaskYet
      BY <3>1 DEF Content, NoTaskYet
    <3>4. ASSUME NEW r \in replies PROVE r.k \in InKeys /\ r.k # submitter[s].k
      <4>1. r.k \in InKeys /\ r.k # NoKey
        BY <1>0, IntakeAssumption DEF Answers
      <4>2. inMeta[r.k] # NoTaskYet
        BY DEF AnswersStored
      <4> QED  BY <3>2, <4>1, <4>2
    <3>5. ASSUME NEW u \in Submitters, u # s, submitter[u].pc \in {"enqueue", "notify"}, submitter[u].k # NoKey
          PROVE  inMeta'[submitter[u].k] = Content(u)
      <4>1. inMeta[submitter[u].k] = Content(u) /\ submitter[u].task > 0 /\ submitter[u].k \in InKeys
        BY <1>k, <3>5 DEF AnswersStored
      <4>2. Content(u) # NoTaskYet
        BY <4>1 DEF Content, NoTaskYet
      <4>3. submitter[u].k # submitter[s].k
        BY <3>2, <3>5, <4>1, <4>2
      <4>4. inMeta'[submitter[u].k] = inMeta[submitter[u].k]
        BY <3>2, <4>1, <4>3
      <4> QED  BY <4>1, <4>4
    <3> QED  BY <1>s, <1>u, <3>1, <3>2, <3>3, <3>4, <3>5 DEF AnswersStored, Content
  <2> QED  BY <2>1, <2>2
<1>5. ASSUME NEW s \in Submitters, notifyTaskAvailable(s) PROVE AnswersStored'
  <2>1. Reply(s, submitter[s].task) /\ Done(s) /\ UNCHANGED inMeta /\ submitter[s].task > 0
    BY <1>5 DEF notifyTaskAvailable, AnswersStored
  <2>2. submitter[s].k # NoKey => inMeta[submitter[s].k] = Content(s)
    BY <1>5 DEF notifyTaskAvailable, AnswersStored
  <2>3. Content(s) # NoTaskYet
    BY <1>k, <2>1 DEF Content, NoTaskYet
  <2>4. \A r \in replies' : inMeta'[r.k] = [fp |-> r.fp, task |-> r.task] /\ inMeta'[r.k] # NoTaskYet
    BY <1>r, <2>1, <2>2, <2>3 DEF Content
  <2> QED  BY <1>q, <1>s, <1>u, <2>1, <2>4
<1>6. CASE UNCHANGED <<inMeta, replies, submitter>>
  BY <1>6, <1>q DEF AnswersStored
<1>7. CASE RestartControl
  BY <1>7, <1>q DEF RestartControl, AnswersStored
<1> QED  BY <1>1, <1>2, <1>3, <1>4, <1>5, <1>6, <1>7
         DEF IntakeNext, intakeVars, taskPart, PollTask, pollTaskNow, PollWaits, PollWakes, WorkerSeen,
             SetBackpressure, AppendConfigured, ApplyConfigured

-----------------------------------------------------------------------------
(* Intake: the limits. *)

\* One call of SetBackpressure at a time: two could append in one order and take effect in
\* the other, for nothing holds a lock across both.
OneAdministrator == \A a, b \in Admins : a = b

\* Between its append and its effect a call has the last record in its hands; otherwise the
\* limit in force is that of the last record, unless an answer was lost.
LimitsRecorded ==
    /\ \A a \in Admins : admin[a].pc = "apply" => admin[a].v = configLog
    /\ ~configLost /\ (\A a \in Admins : admin[a].pc # "apply") => watermark = configLog

LEMMA LimitsRecordedStep ==
    ASSUME OneAdministrator
    PROVE  IntakeTypes /\ LimitsRecorded /\ [IntakeNext]_intakeVars => LimitsRecorded'
<1> SUFFICES ASSUME IntakeTypes, LimitsRecorded, [IntakeNext]_intakeVars PROVE LimitsRecorded'
  OBVIOUS
<1>0. admin \in [Admins -> [pc : {"rest", "append", "apply"}, v : Watermarks \cup {0}]]
  BY DEF IntakeTypes
<1>1. ASSUME NEW a \in Admins, SetBackpressure(a) PROVE LimitsRecorded'
  BY <1>0, <1>1 DEF SetBackpressure, LimitsRecorded
<1>2. ASSUME NEW a \in Admins, AppendConfigured(a) PROVE LimitsRecorded'
  <2>1. Admins = {a}
    BY DEF OneAdministrator
  <2> QED  BY <1>0, <1>2, <2>1 DEF AppendConfigured, LimitsRecorded
<1>3. ASSUME NEW a \in Admins, ApplyConfigured(a) PROVE LimitsRecorded'
  <2>1. Admins = {a}
    BY DEF OneAdministrator
  <2> QED  BY <1>0, <1>3, <2>1 DEF ApplyConfigured, LimitsRecorded
<1>4. CASE RestartControl
  BY <1>4 DEF RestartControl, LimitsRecorded
<1>5. CASE UNCHANGED configPart
  BY <1>5 DEF configPart, LimitsRecorded
<1> QED  BY <1>1, <1>2, <1>3, <1>4, <1>5
         DEF IntakeNext, intakeVars, configPart, BeginSubmit, LookupKey, Admit, appendLog, CreateTask, EnqueueTask,
             notifyTaskAvailable, PollTask, pollTaskNow, PollWaits, PollWakes, WorkerSeen

-----------------------------------------------------------------------------
(* Intake: the theorems. *)

IntakeInv == IntakeTypes /\ EmptySeen /\ BacklogRoom /\ AnswersStored

LEMMA IntakeInvariance == IntakeSpec => []IntakeInv
<1>1. IntakeInit => EmptySeen /\ AnswersStored
  BY DEF IntakeInit, EmptySeen, AnswersStored, Free
<1>2. ASSUME IntakeInit PROVE BacklogRoom
  <2>1. Admitted = {} /\ Cardinality({}) = 0
    BY <1>2, FS_EmptySet DEF IntakeInit, Admitted, Free
  <2>2. watermark \in Nat /\ watermark > 0
    BY <1>2, LimitsPositive DEF IntakeInit, Limits
  <2> QED  BY <1>2, <2>1, <2>2, AdmittedCount DEF IntakeInit, BacklogRoom
<1>3. IntakeInit => IntakeInv
  BY <1>1, <1>2, IntakeTypesInit DEF IntakeInv
<1>4. IntakeInv /\ [IntakeNext]_intakeVars => IntakeInv'
  BY IntakeTypesStep, EmptySeenStep, BacklogRoomStep, AnswersStoredStep DEF IntakeInv
<1> QED  BY <1>3, <1>4, PTL DEF IntakeSpec

\* For any number of submitters and pollers: no poller sleeps on an open channel while a
\* task is in the queue and nobody is about to close it (PollTask, notifyTaskAvailable).
THEOREM NoLostWakeupHolds == IntakeSpec => []NoLostWakeup
<1>1. IntakeInv => NoLostWakeup
  BY DEF IntakeInv, EmptySeen, NoLostWakeup
<1> QED  BY <1>1, IntakeInvariance, PTL

\* For any number of concurrent submissions and administrators: the backlog passes the
\* highest limit that was in force by fewer tasks than there are submitters, and two answers
\* for one key name one task and one content (enqueueTaskWithMetadata,
\* ensureIdempotencyFingerprint).
THEOREM SubmissionChecksHold == IntakeSpec => [](BacklogBounded /\ OneContentPerKey)
<1>1. IntakeInv => BacklogBounded
  BY AdmittedCount, LimitsPositive DEF IntakeInv, IntakeTypes, BacklogRoom, BacklogBounded
<1>2. ASSUME IntakeInv PROVE OneContentPerKey
  <2>1. \A r \in replies : inMeta[r.k] = [fp |-> r.fp, task |-> r.task]
    BY <1>2 DEF IntakeInv, AnswersStored
  <2>2. ASSUME NEW r \in replies PROVE r.fp = inMeta[r.k].fp /\ r.task = inMeta[r.k].task
    <3>1. inMeta[r.k] = [fp |-> r.fp, task |-> r.task]
      BY <2>1
    <3> QED  BY <3>1
  <2> QED  BY <2>2 DEF OneContentPerKey
<1> QED  BY <1>1, <1>2, IntakeInvariance, PTL

\* With one administrator, moreover, the limits in force are those a restart would restore,
\* whenever no call is under way and no answer was lost (SetBackpressure,
\* bootstrapBackpressure).
THEOREM ChecksHoldAlways == OneAdministrator => (IntakeSpec => []ChecksHold)
<1> SUFFICES ASSUME OneAdministrator PROVE IntakeSpec => []ChecksHold
  OBVIOUS
<1>1. IntakeInit => LimitsRecorded
  BY DEF IntakeInit, LimitsRecorded
<1>2. IntakeTypes /\ LimitsRecorded /\ [IntakeNext]_intakeVars => LimitsRecorded'
  BY LimitsRecordedStep
<1>3. LimitsRecorded => ConfigReplayed
  BY DEF LimitsRecorded, ConfigReplayed
<1>4. IntakeInv => IntakeTypes
  BY DEF IntakeInv
<1>5. BacklogBounded /\ OneContentPerKey /\ ConfigReplayed => ChecksHold
  BY DEF ChecksHold
<1> QED  BY <1>1, <1>2, <1>3, <1>4, <1>5, IntakeInvariance, SubmissionChecksHold, PTL DEF IntakeSpec

-----------------------------------------------------------------------------
(* Registry: types. *)

RegistrarPCs == {"rest", "part", "find", "put", "append", "remember"}
Parts == FunctionParts \cup LlmParts
Registration == [pc : RegistrarPCs, todo : Seq(Parts), all : Seq(Parts)]
Setting == [pc : {"rest", "append", "apply"}, p : Policies]

\* The kinds of the variables that name a step.
RegTypes ==
    /\ registrar \in [Registrars -> Registration]
    /\ setter \in [PolicySetters -> Setting]
    /\ policyLog \in Policies

\* A part of a submission that any later restart can run.
Durable(p) == IF p.kind = "fn" THEN p.name \in fnObjects \cap fnLog ELSE p.name \in modelLog

\* What is in memory, or about to be, is in the log; what is in the log has its source.
Recorded ==
    /\ functions \subseteq fnLog /\ fnLog \subseteq fnObjects
    /\ models \subseteq modelLog /\ modelCalls \subseteq modelLog

\* Each part of a submission under way is durable or still to be done; at the steps of
\* ensureFunctionRegistered the part at hand has got as far as the step says.
PartsOf(r) ==
    LET g == registrar[r] IN
    g.pc # "rest" =>
        /\ g.todo # <<>>
        /\ \A i \in DOMAIN g.todo : g.todo[i].form = "ref" => g.todo[i].name \in fnObjects
        /\ \A i \in DOMAIN g.all : Durable(g.all[i]) \/ \E j \in DOMAIN g.todo : g.todo[j] = g.all[i]
        /\ g.pc # "part" => g.todo[1].kind = "fn"
        /\ g.pc \in {"append", "remember"} => g.todo[1].name \in fnObjects
        /\ g.pc = "remember" => g.todo[1].name \in fnLog

PartsDone == \A r \in Registrars : PartsOf(r)

RegInv == RegTypes /\ Recorded /\ PartsDone /\ AcceptedRuns

\* No step takes an object or a record away.
Grows == fnObjects \subseteq fnObjects' /\ fnLog \subseteq fnLog' /\ modelLog \subseteq modelLog'

LEMMA RegNextGrows == [RegNext]_regVars => Grows
  BY DEF RegNext, regVars, Grows, BeginNormalize, normalizeWorkflowLLMStep, LockFunctions, FindFunction, PutFunction,
         AppendFunction, RememberFunction, AppendModel, RememberModel, BeginSetPolicy, AppendPolicy, ApplyPolicy,
         BootstrapRegistries, bootstrapModels, bootstrapScheduler, fnPart, modelPart, policyPart, Refuse, PartDone

\* What a submission has reached is not undone by a step of another one.
LEMMA PartsKept ==
    ASSUME Grows, NEW r \in Registrars, PartsOf(r), registrar'[r] = registrar[r] PROVE PartsOf(r)'
<1>1. \A p : Durable(p) => Durable(p)'
  BY DEF Grows, Durable
<1> QED  BY <1>1 DEF Grows, PartsOf

LEMMA AcceptedKept ==
    ASSUME Grows, AcceptedRuns, accepted' = accepted PROVE AcceptedRuns'
  BY DEF Grows, AcceptedRuns

\* A registrar at rest, and one that goes on with the same part.
LEMMA RegistrarMoves ==
    ASSUME RegTypes, NEW r \in Registrars
    PROVE  /\ Refuse(r) => registrar' = [registrar EXCEPT ![r] = AtEase] /\ accepted' = accepted
           /\ registrar' = [registrar EXCEPT ![r] = AtEase] =>
                /\ registrar' \in [Registrars -> Registration] /\ PartsOf(r)'
                /\ \A u \in Registrars : u # r => registrar'[u] = registrar[u]
           /\ \A pc \in RegistrarPCs : RegistrarGoes(r, pc) =>
                /\ registrar' \in [Registrars -> Registration]
                /\ registrar'[r] = [registrar[r] EXCEPT !.pc = pc]
                /\ \A u \in Registrars : u # r => registrar'[u] = registrar[u]
<1>0. registrar \in [Registrars -> Registration]
  BY DEF RegTypes
<1>1. Refuse(r) => registrar' = [registrar EXCEPT ![r] = AtEase] /\ accepted' = accepted
  BY DEF Refuse
<1>2. ASSUME registrar' = [registrar EXCEPT ![r] = AtEase]
      PROVE  /\ registrar' \in [Registrars -> Registration] /\ PartsOf(r)'
             /\ \A u \in Registrars : u # r => registrar'[u] = registrar[u]
  <2>1. AtEase \in Registration
    BY DEF AtEase, Registration, RegistrarPCs
  <2>2. registrar'[r].pc = "rest"
    BY <1>0, <1>2 DEF AtEase
  <2> QED  BY <1>0, <1>2, <2>1, <2>2 DEF PartsOf
<1>3. ASSUME NEW pc \in RegistrarPCs, RegistrarGoes(r, pc)
      PROVE  /\ registrar' \in [Registrars -> Registration]
             /\ registrar'[r] = [registrar[r] EXCEPT !.pc = pc]
             /\ \A u \in Registrars : u # r => registrar'[u] = registrar[u]
  BY <1>0, <1>3 DEF RegistrarGoes, Registration
<1> QED  BY <1>1, <1>2, <1>3

\* What is left of a sequence without its first element.
LEMMA TailParts ==
    ASSUME NEW S, NEW q \in Seq(S), q # <<>>, Len(q) # 1
    PROVE  /\ Tail(q) \in Seq(S) /\ Tail(q) # <<>>
           /\ \A i \in DOMAIN Tail(q) : Tail(q)[i] = q[i + 1] /\ i + 1 \in DOMAIN q
           /\ \A j \in DOMAIN q : j = 1 \/ (j - 1 \in DOMAIN Tail(q) /\ Tail(q)[j - 1] = q[j])
<1>0. Len(q) # 0
  BY EmptySeq
<1>a. Len(q) \in Nat /\ DOMAIN q = 1 .. Len(q)
  BY LenProperties
<1>1. Len(q) \in Nat /\ Len(q) > 1 /\ DOMAIN q = 1 .. Len(q)
  BY <1>0, <1>a
<1>2. Tail(q) \in Seq(S) /\ Len(Tail(q)) = Len(q) - 1 /\ DOMAIN Tail(q) = 1 .. (Len(q) - 1)
  BY <1>1
<1>3. \A i \in 1 .. (Len(q) - 1) : Tail(q)[i] = q[i + 1]
  BY <1>1
<1>4. Tail(q) # <<>>
  BY <1>1, <1>2
<1>5. \A i \in DOMAIN Tail(q) : i + 1 \in DOMAIN q
  BY <1>1, <1>2
<1>6. ASSUME NEW j \in DOMAIN q, j # 1 PROVE j - 1 \in DOMAIN Tail(q) /\ Tail(q)[j - 1] = q[j]
  <2>1. j \in Int /\ j - 1 \in 1 .. (Len(q) - 1) /\ (j - 1) + 1 = j
    BY <1>1, <1>6
  <2> QED  BY <1>2, <1>3, <2>1
<1> QED  BY <1>2, <1>3, <1>4, <1>5, <1>6

\* The end of a part that is durable: the next part follows, or the submission is accepted.
LEMMA PartDoneInv ==
    ASSUME RegTypes, AcceptedRuns, PartsDone, Grows, NEW r \in Registrars, PartDone(r),
           registrar[r].pc # "rest", NEW p, p = Part(r), Durable(p)'
    PROVE  registrar' \in [Registrars -> Registration] /\ PartsDone' /\ AcceptedRuns'
<1>0. registrar \in [Registrars -> Registration] /\ registrar[r] \in Registration
  BY DEF RegTypes
<1> DEFINE todo == registrar[r].todo
           all == registrar[r].all
<1>1. /\ todo \in Seq(Parts) /\ all \in Seq(Parts) /\ todo # <<>>
      /\ \A i \in DOMAIN todo : todo[i].form = "ref" => todo[i].name \in fnObjects
      /\ \A i \in DOMAIN all : Durable(all[i]) \/ \E j \in DOMAIN todo : todo[j] = all[i]
  BY <1>0 DEF PartsDone, PartsOf, Registration
<1>2. \A q : Durable(q) => Durable(q)'
  BY DEF Grows, Durable
<1>3. p = todo[1]
  BY DEF Part
<1>4. \A u \in Registrars : u # r /\ registrar'[u] = registrar[u] => PartsOf(u)'
  BY PartsKept DEF PartsDone
<1>5. CASE Len(todo) = 1
  <2>1. accepted' = accepted \cup ToSet(all) /\ registrar' = [registrar EXCEPT ![r] = AtEase]
    BY <1>5 DEF PartDone
  <2>2. /\ registrar' \in [Registrars -> Registration] /\ PartsOf(r)'
        /\ \A u \in Registrars : u # r => registrar'[u] = registrar[u]
    BY <2>1, RegistrarMoves
  <2>3. ASSUME NEW i \in DOMAIN all PROVE Durable(all[i]) \/ all[i] = p
    <3>1. Durable(all[i]) \/ \E j \in DOMAIN todo : todo[j] = all[i]
      BY <1>1
    <3>2. \A j \in DOMAIN todo : j = 1
      BY <1>1, <1>5
    <3> QED  BY <1>3, <3>1, <3>2
  <2>4. ASSUME NEW q \in ToSet(all) PROVE Durable(q)'
    <3>1. PICK i \in DOMAIN all : q = all[i]
      BY <2>4 DEF ToSet
    <3>2. Durable(q) \/ q = p
      BY <2>3, <3>1
    <3> QED  BY <1>2, <3>2
  <2>5. AcceptedRuns'
    <3>1. \A q \in accepted : Durable(q)
      BY DEF AcceptedRuns, Durable
    <3>2. \A q \in accepted' : Durable(q)'
      BY <1>2, <2>1, <2>4, <3>1
    <3> QED  BY <3>2 DEF AcceptedRuns, Durable
  <2> QED  BY <1>4, <2>2, <2>5 DEF PartsDone
<1>6. CASE Len(todo) # 1
  <2>1. /\ accepted' = accepted
        /\ registrar' = [registrar EXCEPT ![r].pc = "part", ![r].todo = Tail(todo)]
    BY <1>6 DEF PartDone
  <2>2. Tail(todo) \in Seq(Parts) /\ Tail(todo) # <<>>
    BY <1>1, <1>6, TailParts
  <2>3. /\ registrar'[r].pc = "part" /\ registrar'[r].todo = Tail(todo) /\ registrar'[r].all = all
        /\ registrar' \in [Registrars -> Registration]
        /\ \A u \in Registrars : u # r => registrar'[u] = registrar[u]
    BY <1>0, <2>1, <2>2 DEF Registration, RegistrarPCs
  <2>4. \A i \in DOMAIN Tail(todo) : Tail(todo)[i] = todo[i + 1] /\ i + 1 \in DOMAIN todo
    BY <1>1, <1>6, TailParts
  <2>5. \A j \in DOMAIN todo : j = 1 \/ (j - 1 \in DOMAIN Tail(todo) /\ Tail(todo)[j - 1] = todo[j])
    BY <1>1, <1>6, TailParts
  <2>6. ASSUME NEW i \in DOMAIN Tail(todo), Tail(todo)[i].form = "ref" PROVE Tail(todo)[i].name \in fnObjects'
    BY <1>1, <2>4, <2>6 DEF Grows
  <2>7. ASSUME NEW i \in DOMAIN all
        PROVE  \/ Durable(all[i]) \/ all[i] = p
               \/ \E j \in DOMAIN Tail(todo) : Tail(todo)[j] = all[i]
    <3>1. Durable(all[i]) \/ \E j \in DOMAIN todo : todo[j] = all[i]
      BY <1>1
    <3> QED  BY <1>3, <2>5, <3>1
  <2>8. \A q : Durable(q) \/ q = p => Durable(q)'
    BY <1>2
  <2>9. PartsOf(r)'
    <3>1. ASSUME NEW g, g = registrar'[r] PROVE PartsOf(r)'
      <4>1. g.pc = "part" /\ g.todo = Tail(todo) /\ g.all = all
        BY <2>3, <3>1
      <4>2. \A i \in DOMAIN g.all : Durable(g.all[i])' \/ \E j \in DOMAIN g.todo : g.todo[j] = g.all[i]
        BY <2>7, <2>8, <4>1
      <4>3. g.todo # <<>> /\ \A i \in DOMAIN g.todo : g.todo[i].form = "ref" => g.todo[i].name \in fnObjects'
        BY <2>2, <2>6, <4>1
      <4> HIDE DEF all, todo
      <4>4. g.pc = "part"
        BY <4>1
      <4> QED  BY <3>1, <4>2, <4>3, <4>4 DEF PartsOf
    <3> QED  BY <3>1
  <2>10. AcceptedRuns'
    BY <2>1, AcceptedKept
  <2> QED  BY <1>4, <2>3, <2>9, <2>10 DEF PartsDone
<1> QED  BY <1>5, <1>6

-----------------------------------------------------------------------------
(* Registry: the steps. *)

LEMMA RegInvInit == RegInit => RegInv
<1> SUFFICES ASSUME RegInit PROVE RegInv
  OBVIOUS
<1>1. AtEase \in Registration /\ AtEase.pc = "rest"
  BY DEF AtEase, Registration, RegistrarPCs
<1>2. registrar \in [Registrars -> Registration] /\ \A r \in Registrars : registrar[r].pc = "rest"
  BY <1>1 DEF RegInit
<1>3. setter \in [PolicySetters -> Setting]
  BY DEF RegInit, Setting
<1> QED  BY <1>2, <1>3 DEF RegInit, RegInv, RegTypes, Recorded, PartsDone, PartsOf, AcceptedRuns

\* A step of the submission r within one part.
LEMMA SamePartInv ==
    ASSUME RegInv, Grows, NEW r \in Registrars, NEW pc \in RegistrarPCs, RegistrarGoes(r, pc), accepted' = accepted,
           registrar[r].pc # "rest",
           pc # "part" => Part(r).kind = "fn",
           pc \in {"append", "remember"} => Part(r).name \in fnObjects',
           pc = "remember" => Part(r).name \in fnLog'
    PROVE  registrar' \in [Registrars -> Registration] /\ PartsDone' /\ AcceptedRuns'
<1>1. /\ registrar' \in [Registrars -> Registration]
      /\ registrar'[r] = [registrar[r] EXCEPT !.pc = pc]
      /\ \A u \in Registrars : u # r => registrar'[u] = registrar[u]
  BY RegistrarMoves DEF RegInv
<1>2. \A u \in Registrars : u # r => PartsOf(u)'
  BY <1>1, PartsKept DEF RegInv, PartsDone
<1>3. /\ registrar'[r].pc = pc /\ registrar'[r].todo = registrar[r].todo /\ registrar'[r].all = registrar[r].all
  BY <1>1 DEF RegInv, RegTypes, Registration
<1>4. \A q : Durable(q) => Durable(q)'
  BY DEF Grows, Durable
<1>5. PartsOf(r)
  BY DEF RegInv, PartsDone
<1>6. PartsOf(r)'
  BY <1>3, <1>4, <1>5 DEF PartsOf, Part, Grows
<1> QED  BY <1>1, <1>2, <1>6, AcceptedKept DEF RegInv, PartsDone

\* A submission that is refused.
LEMMA RefuseInv ==
    ASSUME RegInv, Grows, NEW r \in Registrars, Refuse(r)
    PROVE  registrar' \in [Registrars -> Registration] /\ PartsDone' /\ AcceptedRuns'
<1>1. registrar' = [registrar EXCEPT ![r] = AtEase] /\ accepted' = accepted
  BY RegistrarMoves DEF RegInv
<1>2. /\ registrar' \in [Registrars -> Registration] /\ PartsOf(r)'
      /\ \A u \in Registrars : u # r => registrar'[u] = registrar[u]
  BY <1>1, RegistrarMoves DEF RegInv
<1>3. \A u \in Registrars : u # r => PartsOf(u)'
  BY <1>2, PartsKept DEF RegInv, PartsDone
<1> QED  BY <1>1, <1>2, <1>3, AcceptedKept DEF RegInv, PartsDone

\* A step that leaves the submissions alone.
LEMMA SubmissionsKept ==
    ASSUME RegInv, Grows, UNCHANGED <<registrar, accepted>>
    PROVE  registrar' \in [Registrars -> Registration] /\ PartsDone' /\ AcceptedRuns'
  BY PartsKept, AcceptedKept DEF RegInv, RegTypes, PartsDone

LEMMA RegInvStep == RegInv /\ [RegNext]_regVars => RegInv'
<1> SUFFICES ASSUME RegInv, [RegNext]_regVars PROVE RegInv'
  OBVIOUS
<1>0. Grows /\ RegTypes /\ Recorded /\ PartsDone /\ AcceptedRuns
  BY RegNextGrows DEF RegInv
<1>g. \A pc : pc \in {"find", "put", "append", "remember"} => pc \in RegistrarPCs /\ pc # "part" /\ pc # "rest"
  BY DEF RegistrarPCs
\* A step of a submission touches nothing of the models and the policy.
<1>a. ASSUME UNCHANGED modelPart, UNCHANGED policyPart, registrar' \in [Registrars -> Registration],
             PartsDone', AcceptedRuns', functions' \subseteq fnLog', fnLog' \subseteq fnObjects'
      PROVE  RegInv'
  BY <1>0, <1>a DEF RegInv, RegTypes, Recorded, modelPart, policyPart
<1>1. ASSUME NEW r \in Registrars, BeginNormalize(r) PROVE RegInv'
  <2>1. PICK n \in 1 .. MaxParts : \E parts \in [1 .. n -> Parts] :
           /\ \A i \in 1 .. n : parts[i].form = "ref" => parts[i].name \in fnObjects
           /\ registrar' = [registrar EXCEPT ![r] = [pc |-> "part", todo |-> parts, all |-> parts]]
    BY <1>1 DEF BeginNormalize, Parts
  <2>2. PICK parts \in [1 .. n -> Parts] :
           /\ \A i \in 1 .. n : parts[i].form = "ref" => parts[i].name \in fnObjects
           /\ registrar' = [registrar EXCEPT ![r] = [pc |-> "part", todo |-> parts, all |-> parts]]
    BY <2>1
  <2>3. n \in Nat /\ n > 0
    BY RegAssumption
  <2>4. parts \in Seq(Parts) /\ Len(parts) = n /\ DOMAIN parts = 1 .. n
    BY <2>3
  <2>5. parts # <<>>
    BY <2>3, <2>4, EmptySeq
  <2>6. [pc |-> "part", todo |-> parts, all |-> parts] \in Registration
    BY <2>4 DEF Registration, RegistrarPCs
  <2>7. /\ registrar' \in [Registrars -> Registration]
        /\ registrar'[r] = [pc |-> "part", todo |-> parts, all |-> parts]
        /\ \A u \in Registrars : u # r => registrar'[u] = registrar[u]
    BY <1>0, <2>2, <2>6 DEF RegTypes
  <2>8. UNCHANGED <<fnObjects, fnLog, functions, accepted>>
    BY <1>1 DEF BeginNormalize
  <2>9. PartsOf(r)'
    BY <2>2, <2>4, <2>5, <2>7, <2>8 DEF PartsOf
  <2>10. PartsDone'
    BY <1>0, <2>7, <2>9, PartsKept DEF PartsDone
  <2> QED  BY <1>0, <1>1, <1>a, <2>7, <2>8, <2>10, AcceptedKept DEF BeginNormalize, Recorded
<1>2. ASSUME NEW r \in Registrars, normalizeWorkflowLLMStep(r) PROVE RegInv'
  <2>1. UNCHANGED <<fnObjects, fnLog, functions>> /\ UNCHANGED modelPart /\ UNCHANGED policyPart
    BY <1>2 DEF normalizeWorkflowLLMStep
  <2>2. CASE Part(r).name \in models
    <3>1. PartDone(r) /\ registrar[r].pc # "rest" /\ Part(r).kind = "llm"
      BY <1>2, <2>2 DEF normalizeWorkflowLLMStep
    <3>2. Part(r).name \in modelLog'
      BY <1>0, <2>1, <2>2 DEF Recorded, modelPart
    <3>3. ASSUME NEW p, p = Part(r) PROVE Durable(p)'
      BY <3>1, <3>2, <3>3 DEF Durable
    <3>4. registrar' \in [Registrars -> Registration] /\ PartsDone' /\ AcceptedRuns'
      BY <1>0, <3>1, <3>3, PartDoneInv
    <3> QED  BY <1>0, <1>a, <2>1, <3>4 DEF Recorded
  <2>3. CASE Part(r).name \notin models
    <3>1. Refuse(r)
      BY <1>2, <2>3 DEF normalizeWorkflowLLMStep
    <3> QED  BY <1>0, <1>a, <2>1, <3>1, RefuseInv DEF Recorded
  <2> QED  BY <2>2, <2>3
<1>3. ASSUME NEW r \in Registrars, LockFunctions(r) PROVE RegInv'
  <2>1. /\ UNCHANGED <<fnObjects, fnLog, functions, accepted>> /\ UNCHANGED modelPart /\ UNCHANGED policyPart
        /\ RegistrarGoes(r, "find") /\ Part(r).kind = "fn" /\ registrar[r].pc # "rest"
    BY <1>3 DEF LockFunctions
  <2>2. registrar' \in [Registrars -> Registration] /\ PartsDone' /\ AcceptedRuns'
    BY <1>0, <1>g, <2>1, SamePartInv
  <2> QED  BY <1>0, <1>a, <2>1, <2>2 DEF Recorded
<1>4. ASSUME NEW r \in Registrars, FindFunction(r) PROVE RegInv'
  <2>1. UNCHANGED <<fnObjects, fnLog, functions>> /\ UNCHANGED modelPart /\ UNCHANGED policyPart
    BY <1>4 DEF FindFunction
  <2>2. registrar[r].pc = "find" /\ registrar[r] \in Registration /\ PartsOf(r)
    BY <1>0, <1>4 DEF FindFunction, RegTypes, PartsDone
  <2>3. registrar[r].todo \in Seq(Parts) /\ registrar[r].todo # <<>> /\ Part(r).kind = "fn"
    BY <2>2 DEF PartsOf, Part, Registration
  <2>4. 1 \in DOMAIN registrar[r].todo /\ Part(r) \in Parts
    BY <2>3, EmptySeq DEF Part
  <2>5. Part(r).form \in Forms
    BY <2>3, <2>4 DEF Parts, FunctionParts, LlmParts
  <2>6. Part(r).form = "ref" => Part(r).name \in fnObjects
    BY <2>2, <2>4 DEF PartsOf, Part
  <2>7. CASE Part(r).name \in functions
    <3>1. PartDone(r)
      BY <1>4, <2>7 DEF FindFunction
    <3>2. Part(r).name \in fnObjects' \cap fnLog'
      BY <1>0, <2>1, <2>7 DEF Recorded
    <3>3. ASSUME NEW p, p = Part(r) PROVE Durable(p)'
      BY <2>3, <3>2, <3>3 DEF Durable
    <3>4. registrar' \in [Registrars -> Registration] /\ PartsDone' /\ AcceptedRuns'
      BY <1>0, <2>2, <3>1, <3>3, PartDoneInv
    <3> QED  BY <1>0, <1>a, <2>1, <3>4 DEF Recorded
  <2>8. CASE Part(r).name \notin functions
    <3>1. \/ Part(r).form = "ref" /\ RegistrarGoes(r, "append") /\ accepted' = accepted
          \/ RegistrarGoes(r, "put") /\ accepted' = accepted
          \/ Refuse(r)
      BY <1>4, <2>5, <2>8 DEF FindFunction, Forms
    <3>2. CASE Part(r).form = "ref" /\ RegistrarGoes(r, "append") /\ accepted' = accepted
      BY <1>0, <1>a, <1>g, <2>1, <2>2, <2>3, <2>6, <3>2, SamePartInv DEF Recorded
    <3>3. CASE RegistrarGoes(r, "put") /\ accepted' = accepted
      BY <1>0, <1>a, <1>g, <2>1, <2>2, <2>3, <3>3, SamePartInv DEF Recorded
    <3>4. CASE Refuse(r)
      BY <1>0, <1>a, <2>1, <3>4, RefuseInv DEF Recorded
    <3> QED  BY <3>1, <3>2, <3>3, <3>4
  <2> QED  BY <2>7, <2>8
<1>5. ASSUME NEW r \in Registrars, PutFunction(r) PROVE RegInv'
  <2>1. /\ UNCHANGED <<fnLog, functions>> /\ UNCHANGED modelPart /\ UNCHANGED policyPart
        /\ registrar[r].pc = "put"
    BY <1>5 DEF PutFunction
  <2>2. Part(r).kind = "fn"
    BY <1>0, <2>1 DEF PartsDone, PartsOf, Part
  <2>3. functions' \subseteq fnLog' /\ fnLog' \subseteq fnObjects'
    BY <1>0, <2>1 DEF Recorded, Grows
  <2>4. CASE Part(r).name \in fnObjects' /\ RegistrarGoes(r, "append") /\ accepted' = accepted
    BY <1>0, <1>a, <1>g, <2>1, <2>2, <2>3, <2>4, SamePartInv
  <2>5. CASE Refuse(r)
    BY <1>0, <1>a, <2>1, <2>3, <2>5, RefuseInv
  <2> QED  BY <1>5, <2>4, <2>5 DEF PutFunction
<1>6. ASSUME NEW r \in Registrars, AppendFunction(r) PROVE RegInv'
  <2>1. /\ UNCHANGED <<fnObjects, functions>> /\ UNCHANGED modelPart /\ UNCHANGED policyPart
        /\ registrar[r].pc = "append" /\ fnLog' \in {fnLog, fnLog \cup {Part(r).name}}
    BY <1>6 DEF AppendFunction
  <2>2. Part(r).kind = "fn" /\ Part(r).name \in fnObjects
    BY <1>0, <2>1 DEF PartsDone, PartsOf, Part
  <2>3. functions' \subseteq fnLog' /\ fnLog' \subseteq fnObjects'
    BY <1>0, <2>1, <2>2 DEF Recorded
  <2>4. CASE Part(r).name \in fnLog' /\ RegistrarGoes(r, "remember") /\ accepted' = accepted
    BY <1>0, <1>a, <1>g, <2>1, <2>2, <2>3, <2>4, SamePartInv
  <2>5. CASE Refuse(r)
    BY <1>0, <1>a, <2>1, <2>3, <2>5, RefuseInv
  <2> QED  BY <1>6, <2>4, <2>5 DEF AppendFunction
<1>7. ASSUME NEW r \in Registrars, RememberFunction(r) PROVE RegInv'
  <2>1. /\ UNCHANGED <<fnObjects, fnLog>> /\ UNCHANGED modelPart /\ UNCHANGED policyPart
        /\ registrar[r].pc = "remember" /\ functions' = functions \cup {Part(r).name} /\ PartDone(r)
    BY <1>7 DEF RememberFunction
  <2>2. Part(r).kind = "fn" /\ Part(r).name \in fnObjects' \cap fnLog'
    BY <1>0, <2>1 DEF PartsDone, PartsOf, Part
  <2>3. ASSUME NEW p, p = Part(r) PROVE Durable(p)'
    BY <2>2, <2>3 DEF Durable
  <2>4. registrar' \in [Registrars -> Registration] /\ PartsDone' /\ AcceptedRuns'
    BY <1>0, <2>1, <2>3, PartDoneInv
  <2> QED  BY <1>0, <1>a, <2>1, <2>2, <2>4 DEF Recorded
<1>8. CASE AppendModel \/ RememberModel
  <2>1. UNCHANGED fnPart /\ UNCHANGED policyPart
    BY <1>8 DEF AppendModel, RememberModel
  <2>2. registrar' \in [Registrars -> Registration] /\ PartsDone' /\ AcceptedRuns'
    BY <1>0, <2>1, SubmissionsKept DEF fnPart
  <2>3. models' \subseteq modelLog' /\ modelCalls' \subseteq modelLog'
    BY <1>0, <1>8 DEF AppendModel, RememberModel, Recorded
  <2> QED  BY <1>0, <2>1, <2>2, <2>3 DEF RegInv, RegTypes, Recorded, fnPart, policyPart
<1>9. ASSUME NEW a \in PolicySetters, BeginSetPolicy(a) \/ AppendPolicy(a) \/ ApplyPolicy(a) PROVE RegInv'
  <2>1. UNCHANGED fnPart /\ UNCHANGED modelPart
    BY <1>9 DEF BeginSetPolicy, AppendPolicy, ApplyPolicy
  <2>2. registrar' \in [Registrars -> Registration] /\ PartsDone' /\ AcceptedRuns'
    BY <1>0, <2>1, SubmissionsKept DEF fnPart
  <2>3. setter' \in [PolicySetters -> Setting] /\ policyLog' \in Policies
    BY <1>0, <1>9 DEF BeginSetPolicy, AppendPolicy, ApplyPolicy, RegTypes, Setting
  <2> QED  BY <1>0, <2>1, <2>2, <2>3 DEF RegInv, RegTypes, Recorded, fnPart, modelPart
<1>10. CASE BootstrapRegistries
  <2>1. AtEase \in Registration /\ AtEase.pc = "rest"
    BY DEF AtEase, Registration, RegistrarPCs
  <2>2. registrar' \in [Registrars -> Registration] /\ \A r \in Registrars : registrar'[r].pc = "rest"
    BY <1>10, <2>1 DEF BootstrapRegistries
  <2>3. PartsDone'
    BY <2>2 DEF PartsDone, PartsOf
  <2>4. setter' \in [PolicySetters -> Setting] /\ policyLog' \in Policies
    BY <1>0, <1>10 DEF BootstrapRegistries, RegTypes, Setting
  <2>5. Recorded' /\ AcceptedRuns'
    BY <1>0, <1>10 DEF BootstrapRegistries, bootstrapModels, Recorded, AcceptedRuns
  <2> QED  BY <2>2, <2>3, <2>4, <2>5 DEF RegInv, RegTypes
<1>11. CASE UNCHANGED regVars
  <2>1. UNCHANGED <<registrar, accepted>>
    BY <1>11 DEF regVars
  <2> QED  BY <1>0, <1>11, <2>1, SubmissionsKept DEF RegInv, RegTypes, Recorded, regVars
<1> QED  BY <1>1, <1>2, <1>3, <1>4, <1>5, <1>6, <1>7, <1>8, <1>9, <1>10, <1>11 DEF RegNext

LEMMA RegInvariance == RegSpec => []RegInv
  BY RegInvInit, RegInvStep, PTL DEF RegSpec

-----------------------------------------------------------------------------
(* Registry: the theorems. *)

\* For any number of concurrent submissions of any number of parts: an accepted one can run
\* after any restart, whatever call failed before or after its effect (ensureFunctionRegistered,
\* normalizeWorkflowDefinition, bootstrapFunctions, bootstrapModels).
THEOREM AcceptedRunsHolds == RegSpec => []AcceptedRuns
<1>1. RegInv => AcceptedRuns
  BY DEF RegInv
<1> QED  BY <1>1, RegInvariance, PTL

\* One call of SetSchedulingPolicy at a time, for the reason given for OneAdministrator.
OnePolicySetter == \A a, b \in PolicySetters : a = b

\* LimitsRecorded, for the policy.
PolicyRecorded ==
    /\ \A a \in PolicySetters : setter[a].pc = "apply" => setter[a].p = policyLog
    /\ ~policyLost /\ (\A a \in PolicySetters : setter[a].pc # "apply") => policy = policyLog

LEMMA PolicyRecordedStep ==
    ASSUME OnePolicySetter PROVE RegTypes /\ PolicyRecorded /\ [RegNext]_regVars => PolicyRecorded'
<1> SUFFICES ASSUME RegTypes, PolicyRecorded, [RegNext]_regVars PROVE PolicyRecorded'
  OBVIOUS
<1>0. setter \in [PolicySetters -> Setting]
  BY DEF RegTypes
<1>1. ASSUME NEW a \in PolicySetters, BeginSetPolicy(a) PROVE PolicyRecorded'
  BY <1>0, <1>1 DEF BeginSetPolicy, PolicyRecorded
<1>2. ASSUME NEW a \in PolicySetters, AppendPolicy(a) PROVE PolicyRecorded'
  <2>1. PolicySetters = {a}
    BY DEF OnePolicySetter
  <2> QED  BY <1>0, <1>2, <2>1 DEF AppendPolicy, PolicyRecorded, Setting
<1>3. ASSUME NEW a \in PolicySetters, ApplyPolicy(a) PROVE PolicyRecorded'
  <2>1. PolicySetters = {a}
    BY DEF OnePolicySetter
  <2> QED  BY <1>0, <1>3, <2>1 DEF ApplyPolicy, PolicyRecorded, Setting
<1>4. CASE BootstrapRegistries
  BY <1>4 DEF BootstrapRegistries, bootstrapScheduler, PolicyRecorded
<1>5. CASE UNCHANGED policyPart
  BY <1>5 DEF policyPart, PolicyRecorded
<1> QED  BY <1>1, <1>2, <1>3, <1>4, <1>5
         DEF RegNext, regVars, policyPart, BeginNormalize, normalizeWorkflowLLMStep, LockFunctions, FindFunction,
             PutFunction, AppendFunction, RememberFunction, AppendModel, RememberModel

\* With one caller of SetSchedulingPolicy, moreover, the policy in force is the one a restart
\* would restore, whenever no call is under way and no answer was lost (bootstrapScheduler).
THEOREM RegistriesDurableHolds == OnePolicySetter => (RegSpec => []RegistriesDurable)
<1> SUFFICES ASSUME OnePolicySetter PROVE RegSpec => []RegistriesDurable
  OBVIOUS
<1>1. RegInit => PolicyRecorded
  BY DEF RegInit, PolicyRecorded
<1>2. RegTypes /\ PolicyRecorded /\ [RegNext]_regVars => PolicyRecorded'
  BY PolicyRecordedStep
<1>3. PolicyRecorded => PolicyReplayed
  BY DEF PolicyRecorded, PolicyReplayed
<1>4. RegInv => RegTypes /\ AcceptedRuns
  BY DEF RegInv
<1>5. AcceptedRuns /\ PolicyReplayed => RegistriesDurable
  BY DEF RegistriesDurable
<1> QED  BY <1>1, <1>2, <1>3, <1>4, <1>5, RegInvariance, PTL DEF RegSpec

-----------------------------------------------------------------------------
(* Placement of LLM requests: the indexes equal what seeding them from the  *)
(* views and statistics of the moment gives, and the statistics follow the  *)
(* log, in whatever order a restart folds it.                               *)

\* Worker views, records, statistics and completion records.
LlmViews == [load : Nat, cached : SUBSET LlmModels]
LlmRecords == [load : Nat, cached : SUBSET LlmModels, reg : SUBSET LlmModels, polls : BOOLEAN]
LlmStatistics == [n : Nat, total : Nat, fetch : Nat, evict : Nat]
Completions == LlmModels \X LlmWorkers \X Nat \X Nat
Leases == LlmModels \X LlmWorkers \X Nat

\* What seeding the indexes of a model gives.
Seeded(h, m, a, s) ==
    /\ h.cached = {<<x, localityBaseScore(a[x], TRUE)>> :
                     x \in {y \in LlmWorkers : hasCapacity(a[y]) /\ m \in a[y].cached}}
    /\ h.cold = {<<x, localityBaseScore(a[x], FALSE)>> :
                   x \in {y \in LlmWorkers : hasCapacity(a[y]) /\ m \notin a[y].cached}}
    /\ h.predicted = {<<x, predictedLatencyMs(m \in a[x].cached, s[<<m, x>>])>> :
                        x \in {y \in LlmWorkers : hasCapacity(a[y])}}
    /\ h = [cached |-> h.cached, cold |-> h.cold, predicted |-> h.predicted]

\* Seed is that.
LEMMA SeedParts ==
    ASSUME NEW m, NEW a, NEW s
    PROVE  Seeded(Seed(m, a, s), m, a, s)
<1>1. {y \in LlmWorkers : hasCapacity(a[y]) /\ (m \in a[y].cached) = TRUE}
      = {y \in LlmWorkers : hasCapacity(a[y]) /\ m \in a[y].cached}
  OBVIOUS
<1>2. {y \in LlmWorkers : hasCapacity(a[y]) /\ (m \in a[y].cached) = FALSE}
      = {y \in LlmWorkers : hasCapacity(a[y]) /\ m \notin a[y].cached}
  OBVIOUS
<1> QED  BY <1>1, <1>2 DEF Seed, Seeded

\* An index is never the absent one.
LEMMA SeedExists ==
    ASSUME NEW m, NEW a, NEW s
    PROVE  Seed(m, a, s) # NoHeaps
<1>1. 0 \notin LlmWorkers
  BY LlmAssumption
<1>2. \A e \in Seed(m, a, s).predicted : e[1] \in LlmWorkers
  <2>1. Seeded(Seed(m, a, s), m, a, s)
    BY SeedParts
  <2> DEFINE f(x) == <<x, predictedLatencyMs(m \in a[x].cached, s[<<m, x>>])>>
             B == {y \in LlmWorkers : hasCapacity(a[y])}
  <2>2. Seed(m, a, s).predicted = {f(x) : x \in B}
    BY <2>1 DEF Seeded
  <2>3. \A x \in B : f(x)[1] = x /\ x \in LlmWorkers
    OBVIOUS
  <2> HIDE DEF f, B
  <2> QED  BY <2>2, <2>3
<1>3. NoHeaps.predicted = {<<0, 0>>}
  BY DEF NoHeaps
<1>4. <<0, 0>> \notin Seed(m, a, s).predicted
  BY <1>1, <1>2
<1> QED  BY <1>3, <1>4

\* Views a, b and statistics s, t of model m that differ at worker w alone.
ButFor(w, m, a, b, s, t) == \A x \in LlmWorkers \ {w} : a[x] = b[x] /\ s[<<m, x>>] = t[<<m, x>>]

\* Placing one worker in a seeded index is seeding it with what is known of the worker now.
LEMMA PlaceSeeded ==
    ASSUME NEW m, NEW w \in LlmWorkers, NEW a, NEW b, NEW s, NEW t,
           ButFor(w, m, a, b, s, t)
    PROVE  PlaceWorker(Seed(m, a, s), m, w, b[w], t[<<m, w>>]) = Seed(m, b, t)
<1> DEFINE o == Seed(m, a, s)
           n == Seed(m, b, t)
           p == PlaceWorker(o, m, w, b[w], t[<<m, w>>])
           hit == m \in b[w].cached
<1>1. /\ p.cached = Without(o.cached, w) \cup
                    (IF hasCapacity(b[w]) /\ hit THEN {<<w, localityBaseScore(b[w], hit)>>} ELSE {})
      /\ p.cold = Without(o.cold, w) \cup
                    (IF hasCapacity(b[w]) /\ ~hit THEN {<<w, localityBaseScore(b[w], hit)>>} ELSE {})
      /\ p.predicted = Without(o.predicted, w) \cup
                    (IF hasCapacity(b[w]) THEN {<<w, predictedLatencyMs(hit, t[<<m, w>>])>>} ELSE {})
      /\ p = [cached |-> p.cached, cold |-> p.cold, predicted |-> p.predicted]
  BY DEF PlaceWorker
<1>0. Seeded(o, m, a, s) /\ Seeded(n, m, b, t)
  BY SeedParts
<1> HIDE DEF o, n, p
<1>2. p.cached = n.cached
  <2> DEFINE f(x) == <<x, localityBaseScore(a[x], TRUE)>>
             g(x) == <<x, localityBaseScore(b[x], TRUE)>>
             A == {y \in LlmWorkers : hasCapacity(a[y]) /\ m \in a[y].cached}
             B == {y \in LlmWorkers : hasCapacity(b[y]) /\ m \in b[y].cached}
  <2>1. o.cached = {f(x) : x \in A} /\ n.cached = {g(x) : x \in B}
    BY <1>0 DEF Seeded
  <2>2. Without(o.cached, w) = {f(x) : x \in A \ {w}}
    <3>1. \A x \in A : f(x)[1] = x
      OBVIOUS
    <3> HIDE DEF f, A
    <3> QED  BY <2>1, <3>1 DEF Without
  <2>3. \A x \in LlmWorkers \ {w} : f(x) = g(x) /\ (x \in A <=> x \in B)
    BY DEF ButFor
  <2>4. {f(x) : x \in A \ {w}} = {g(x) : x \in B \ {w}}
    <3> HIDE DEF f, g
    <3>1. A \subseteq LlmWorkers /\ B \subseteq LlmWorkers
      OBVIOUS
    <3> HIDE DEF A, B
    <3> QED  BY <2>3, <3>1
  <2>5. w \in B <=> hasCapacity(b[w]) /\ hit
    OBVIOUS
  <2>6. hit => localityBaseScore(b[w], hit) = localityBaseScore(b[w], TRUE)
    BY DEF localityBaseScore
  <2>7. CASE w \in B
    <3>1. p.cached = Without(o.cached, w) \cup {g(w)}
      BY <1>1, <2>5, <2>6, <2>7
    <3> HIDE DEF g, f, A, B
    <3> QED  BY <2>1, <2>2, <2>4, <2>7, <3>1
  <2>8. CASE w \notin B
    <3>1. p.cached = Without(o.cached, w)
      BY <1>1, <2>5, <2>8
    <3>2. B \ {w} = B
      BY <2>8
    <3> HIDE DEF g, f, A, B
    <3> QED  BY <2>1, <2>2, <2>4, <3>1, <3>2
  <2> QED  BY <2>7, <2>8
<1>3. p.cold = n.cold
  <2> DEFINE f(x) == <<x, localityBaseScore(a[x], FALSE)>>
             g(x) == <<x, localityBaseScore(b[x], FALSE)>>
             A == {y \in LlmWorkers : hasCapacity(a[y]) /\ m \notin a[y].cached}
             B == {y \in LlmWorkers : hasCapacity(b[y]) /\ m \notin b[y].cached}
  <2>1. o.cold = {f(x) : x \in A} /\ n.cold = {g(x) : x \in B}
    BY <1>0 DEF Seeded
  <2>2. Without(o.cold, w) = {f(x) : x \in A \ {w}}
    <3>1. \A x \in A : f(x)[1] = x
      OBVIOUS
    <3> HIDE DEF f, A
    <3> QED  BY <2>1, <3>1 DEF Without
  <2>3. \A x \in LlmWorkers \ {w} : f(x) = g(x) /\ (x \in A <=> x \in B)
    BY DEF ButFor
  <2>4. {f(x) : x \in A \ {w}} = {g(x) : x \in B \ {w}}
    <3> HIDE DEF f, g
    <3>1. A \subseteq LlmWorkers /\ B \subseteq LlmWorkers
      OBVIOUS
    <3> HIDE DEF A, B
    <3> QED  BY <2>3, <3>1
  <2>5. w \in B <=> hasCapacity(b[w]) /\ ~hit
    OBVIOUS
  <2>6. ~hit => localityBaseScore(b[w], hit) = localityBaseScore(b[w], FALSE)
    BY DEF localityBaseScore
  <2>7. CASE w \in B
    <3>1. p.cold = Without(o.cold, w) \cup {g(w)}
      BY <1>1, <2>5, <2>6, <2>7
    <3> HIDE DEF g, f, A, B
    <3> QED  BY <2>1, <2>2, <2>4, <2>7, <3>1
  <2>8. CASE w \notin B
    <3>1. p.cold = Without(o.cold, w)
      BY <1>1, <2>5, <2>8
    <3>2. B \ {w} = B
      BY <2>8
    <3> HIDE DEF g, f, A, B
    <3> QED  BY <2>1, <2>2, <2>4, <3>1, <3>2
  <2> QED  BY <2>7, <2>8
<1>4. p.predicted = n.predicted
  <2> DEFINE f(x) == <<x, predictedLatencyMs(m \in a[x].cached, s[<<m, x>>])>>
             g(x) == <<x, predictedLatencyMs(m \in b[x].cached, t[<<m, x>>])>>
             A == {y \in LlmWorkers : hasCapacity(a[y])}
             B == {y \in LlmWorkers : hasCapacity(b[y])}
  <2>1. o.predicted = {f(x) : x \in A} /\ n.predicted = {g(x) : x \in B}
    BY <1>0 DEF Seeded
  <2>2. Without(o.predicted, w) = {f(x) : x \in A \ {w}}
    <3>1. \A x \in A : f(x)[1] = x
      OBVIOUS
    <3> HIDE DEF f, A
    <3> QED  BY <2>1, <3>1 DEF Without
  <2>3. \A x \in LlmWorkers \ {w} : f(x) = g(x) /\ (x \in A <=> x \in B)
    BY DEF ButFor
  <2>4. {f(x) : x \in A \ {w}} = {g(x) : x \in B \ {w}}
    <3> HIDE DEF f, g
    <3>1. A \subseteq LlmWorkers /\ B \subseteq LlmWorkers
      OBVIOUS
    <3> HIDE DEF A, B
    <3> QED  BY <2>3, <3>1
  <2>5. w \in B <=> hasCapacity(b[w])
    OBVIOUS
  <2>7. CASE w \in B
    <3>1. p.predicted = Without(o.predicted, w) \cup {g(w)}
      BY <1>1, <2>5, <2>7
    <3> HIDE DEF g, f, A, B
    <3> QED  BY <2>1, <2>2, <2>4, <2>7, <3>1
  <2>8. CASE w \notin B
    <3>1. p.predicted = Without(o.predicted, w)
      BY <1>1, <2>5, <2>8
    <3>2. B \ {w} = B
      BY <2>8
    <3> HIDE DEF g, f, A, B
    <3> QED  BY <2>1, <2>2, <2>4, <3>1, <3>2
  <2> QED  BY <2>7, <2>8
<1>5. n = [cached |-> n.cached, cold |-> n.cold, predicted |-> n.predicted]
  BY <1>0 DEF Seeded
<1> QED  BY <1>1, <1>2, <1>3, <1>4, <1>5 DEF p, n, o

\* Statistics that agree on model m.
SameOf(m, s, t) == \A x \in LlmWorkers : s[<<m, x>>] = t[<<m, x>>]

\* Seeding looks at the views and at the model's own statistics.
LEMMA SeedSame ==
    ASSUME NEW m, NEW a, NEW s, NEW t, SameOf(m, s, t)
    PROVE  Seed(m, a, s) = Seed(m, a, t)
<1> DEFINE o == Seed(m, a, s)
           n == Seed(m, a, t)
<1>0. Seeded(o, m, a, s) /\ Seeded(n, m, a, t)
  BY SeedParts
<1> HIDE DEF o, n
<1>1. o.cached = n.cached /\ o.cold = n.cold
  BY <1>0 DEF Seeded
<1>2. o.predicted = n.predicted
  <2> DEFINE f(x) == <<x, predictedLatencyMs(m \in a[x].cached, s[<<m, x>>])>>
             g(x) == <<x, predictedLatencyMs(m \in a[x].cached, t[<<m, x>>])>>
             B == {y \in LlmWorkers : hasCapacity(a[y])}
  <2>1. \A x \in B : f(x) = g(x)
    BY DEF SameOf
  <2>2. o.predicted = {f(x) : x \in B} /\ n.predicted = {g(x) : x \in B}
    BY <1>0 DEF Seeded
  <2> HIDE DEF f, g, B
  <2> QED  BY <2>1, <2>2
<1>3. o = n
  BY <1>0, <1>1, <1>2 DEF Seeded
<1> QED  BY <1>3 DEF o, n

-----------------------------------------------------------------------------
\* A moving average stays between the former average and the sample.
LEMMA AverageBetween ==
    ASSUME NEW p \in Nat, NEW x \in Nat, NEW n \in Nat
    PROVE  /\ updateEWMA(p, x, n) \in Nat
           /\ n <= 1 => updateEWMA(p, x, n) = x
           /\ p <= updateEWMA(p, x, n) \/ x <= updateEWMA(p, x, n)
           /\ updateEWMA(p, x, n) <= p \/ updateEWMA(p, x, n) <= x
<1>1. CASE n <= 1
  BY <1>1 DEF updateEWMA
<1>2. CASE ~(n <= 1)
  <2> DEFINE e == (p * 7 + x * 3) \div 10
  <2>1. updateEWMA(p, x, n) = e
    BY <1>2 DEF updateEWMA
  <2>2. e \in Nat /\ 10 * e <= p * 7 + x * 3 /\ p * 7 + x * 3 < 10 * e + 10
    OBVIOUS
  <2> HIDE DEF e
  <2> QED  BY <1>2, <2>1, <2>2
<1> QED  BY <1>1, <1>2

\* The records of log, among those numbered in I, that are about model m on worker w.
Mine(log, I, m, w) == {i \in I : log[i][1] = m /\ log[i][2] = w}

\* Statistics that follow the records numbered in I.
Follows(stats, log, I) ==
    \A m \in LlmModels, w \in LlmWorkers :
        /\ stats[<<m, w>>].n = Cardinality(Mine(log, I, m, w))
        /\ Mine(log, I, m, w) # {} => \E i, j \in Mine(log, I, m, w) :
               log[i][3] <= stats[<<m, w>>].total /\ stats[<<m, w>>].total <= log[j][3]

\* One more record folded into the statistics.
LEMMA FoldRecord ==
    ASSUME NEW log \in Seq(Completions), NEW I \in SUBSET (1 .. Len(log)), NEW k \in (1 .. Len(log)) \ I,
           NEW stats \in [Keys -> LlmStatistics], Follows(stats, log, I)
    PROVE  /\ materializeLLMCompleted(stats, log[k]) \in [Keys -> LlmStatistics]
           /\ Follows(materializeLLMCompleted(stats, log[k]), log, I \cup {k})
<1> DEFINE r == log[k]
           key == <<r[1], r[2]>>
           o == stats[key]
           n == o.n + 1
           st == [n |-> n, total |-> updateEWMA(o.total, r[3], n), fetch |-> updateEWMA(o.fetch, r[3], n), evict |-> r[4]]
           new == materializeLLMCompleted(stats, r)
<1>1. r \in Completions /\ Len(log) \in Nat /\ \A i \in 1 .. Len(log) : log[i] \in Completions
  OBVIOUS
<1>2. r[1] \in LlmModels /\ r[2] \in LlmWorkers /\ r[3] \in Nat /\ r[4] \in Nat /\ key \in Keys
  BY <1>1 DEF Completions, Keys
<1>3. o \in LlmStatistics /\ o.n \in Nat /\ o.total \in Nat /\ o.fetch \in Nat /\ n \in Nat
  <2>1. o \in LlmStatistics
    BY <1>2
  <2> HIDE DEF o
  <2> QED  BY <2>1 DEF LlmStatistics
<1>4. new = [stats EXCEPT ![key] = st]
  BY DEF materializeLLMCompleted
<1>5. st.n = n /\ st.total = updateEWMA(o.total, r[3], n) /\ st \in LlmStatistics
  <2>1. updateEWMA(o.total, r[3], n) \in Nat /\ updateEWMA(o.fetch, r[3], n) \in Nat
    BY <1>2, <1>3, AverageBetween
  <2> HIDE DEF n
  <2> QED  BY <1>2, <1>3, <2>1 DEF LlmStatistics
<1> HIDE DEF st, new
<1>6. new \in [Keys -> LlmStatistics] /\ new[key] = st /\ \A x \in Keys : x # key => new[x] = stats[x]
  BY <1>2, <1>4, <1>5
<1> SUFFICES ASSUME NEW m \in LlmModels, NEW w \in LlmWorkers
             PROVE  /\ new[<<m, w>>].n = Cardinality(Mine(log, I \cup {k}, m, w))
                    /\ Mine(log, I \cup {k}, m, w) # {} => \E i, j \in Mine(log, I \cup {k}, m, w) :
                           log[i][3] <= new[<<m, w>>].total /\ new[<<m, w>>].total <= log[j][3]
  BY <1>6 DEF Follows, new
<1> DEFINE A == Mine(log, I, m, w)
           B == Mine(log, I \cup {k}, m, w)
<1>7. /\ stats[<<m, w>>].n = Cardinality(A)
      /\ A # {} => \E i, j \in A : log[i][3] <= stats[<<m, w>>].total /\ stats[<<m, w>>].total <= log[j][3]
  BY DEF Follows
<1>8. IsFiniteSet(A) /\ A \in SUBSET (1 .. Len(log)) /\ k \notin A
  <2>1. A \in SUBSET (1 .. Len(log)) /\ k \notin A
    BY DEF Mine
  <2>2. IsFiniteSet(1 .. Len(log))
    BY <1>1, FS_Interval
  <2> QED  BY <2>1, <2>2, FS_Subset
<1>9. CASE <<m, w>> # key
  <2>1. B = A
    BY <1>9 DEF Mine
  <2>2. new[<<m, w>>] = stats[<<m, w>>]
    BY <1>6, <1>9 DEF Keys
  <2> QED  BY <1>7, <2>1, <2>2
<1>10. CASE <<m, w>> = key
  <2>1. B = A \cup {k} /\ m = r[1] /\ w = r[2]
    BY <1>10 DEF Mine
  <2> HIDE DEF A, B
  <2>2. Cardinality(B) = Cardinality(A) + 1
    BY <1>8, <2>1, FS_AddElement
  <2>3. new[<<m, w>>] = st /\ st.n = Cardinality(B)
    BY <1>5, <1>6, <1>7, <1>10, <2>2
  <2>4. \A i \in A : log[i][3] \in Nat
    BY <1>1, <1>8 DEF Completions
  <2>5. \E i, j \in B : log[i][3] <= st.total /\ st.total <= log[j][3]
    <3> DEFINE e == st.total
               p == o.total
    <3>0. /\ e \in Nat /\ (n <= 1 => e = r[3]) /\ (p <= e \/ r[3] <= e) /\ (e <= p \/ e <= r[3])
      <4>1. /\ updateEWMA(o.total, r[3], n) \in Nat
            /\ n <= 1 => updateEWMA(o.total, r[3], n) = r[3]
            /\ o.total <= updateEWMA(o.total, r[3], n) \/ r[3] <= updateEWMA(o.total, r[3], n)
            /\ updateEWMA(o.total, r[3], n) <= o.total \/ updateEWMA(o.total, r[3], n) <= r[3]
        <5> HIDE DEF n, o, r
        <5> QED  BY <1>2, <1>3, AverageBetween
      <4> QED  BY <1>5, <4>1
    <3>1. CASE A = {}
      <4>1. Cardinality(A) = 0
        BY <3>1, FS_EmptySet
      <4>2. n <= 1
        BY <1>7, <1>10, <4>1
      <4>3. e = r[3] /\ k \in B /\ r[3] <= r[3]
        BY <1>2, <2>1, <3>0, <4>2
      <4> QED  BY <4>3
    <3>2. CASE A # {}
      <4>1. PICK i \in A, j \in A : log[i][3] <= p /\ p <= log[j][3]
        BY <1>7, <1>10, <3>2
      <4>2. log[i][3] \in Nat /\ log[j][3] \in Nat /\ i \in B /\ j \in B /\ k \in B
        BY <2>1, <2>4
      <4> DEFINE a == log[i][3]
                 b == log[j][3]
                 c == log[k][3]
      <4>3. a \in Nat /\ b \in Nat /\ c \in Nat /\ p \in Nat /\ a <= p /\ p <= b /\ (p <= e \/ c <= e) /\ (e <= p \/ e <= c)
        BY <1>2, <1>3, <3>0, <4>1, <4>2
      <4>4. (a <= e \/ c <= e) /\ (e <= b \/ e <= c)
        <5>1. e \in Nat
          BY <3>0
        <5> HIDE DEF a, b, c, p, e
        <5> QED  BY <4>3, <5>1
      <4>5. (\E x \in B : log[x][3] <= e) /\ \E x \in B : e <= log[x][3]
        <5> HIDE DEF e
        <5> QED  BY <4>2, <4>4
      <4> QED  BY <4>5
    <3> QED  BY <3>1, <3>2
  <2>6. B # {} => \E i, j \in B : log[i][3] <= new[<<m, w>>].total /\ new[<<m, w>>].total <= log[j][3]
    BY <2>3, <2>5
  <2>7. new[<<m, w>>].n = Cardinality(B)
    BY <2>3
  <2> QED  BY <2>6, <2>7 DEF B
<1> QED  BY <1>9, <1>10

\* The replay of a restart folds the records one after the other.
LEMMA ReplaySteps ==
    ASSUME llmLog \in Seq(Completions), NEW m \in [Keys -> LlmStatistics], NEW q \in Seq(DOMAIN llmLog),
           \A st \in [Keys -> LlmStatistics], i \in DOMAIN llmLog : ReplayLLM(st, i) \in [Keys -> LlmStatistics]
    PROVE  \E h : /\ h[0] = m /\ \A i \in 1 .. Len(q) : h[i] = ReplayLLM(h[i - 1], q[i])
                  /\ FoldLeft(ReplayLLM, m, q) = h[Len(q)]
<1> DEFINE n == Len(q)
           D == 1 .. n
           V == [Keys -> LlmStatistics]
           Run(g) == g = [s \in SUBSET D |-> IF s = {} THEN m ELSE ReplayLLM(g[s \ {Max(s)}], q[Max(s)])]
           step == [p \in D \X V |-> ReplayLLM(p[2], q[p[1]])]
<1>1. n \in Nat /\ DOMAIN q = D /\ \A i \in D : q[i] \in DOMAIN llmLog
  OBVIOUS
<1>2. FoldLeft(ReplayLLM, m, q) = (CHOOSE g : Run(g))[D]
  BY <1>1 DEF FoldLeft, MapThenFoldSet
<1>3. step \in [D \X V -> V]
  <2> SUFFICES ASSUME NEW p \in D \X V PROVE ReplayLLM(p[2], q[p[1]]) \in V
    OBVIOUS
  <2> QED  BY <1>1
<1>4. \E f \in [SUBSET D -> V] : FoldsLeft(f, n, m, step)
  <2> HIDE DEF step, n, V
  <2>1. m \in V
    BY DEF V
  <2> QED  BY <1>1, <1>3, <2>1, FoldLeftExists
<1>5. PICK f \in [SUBSET D -> V] : \A s \in SUBSET D :
          f[s] = IF s = {} THEN m ELSE step[<<Max(s), f[s \ {Max(s)}]>>]
  BY <1>4 DEF FoldsLeft
<1>6. \A s \in SUBSET D : f[s] = IF s = {} THEN m ELSE ReplayLLM(f[s \ {Max(s)}], q[Max(s)])
  <2> SUFFICES ASSUME NEW s \in SUBSET D, s # {} PROVE f[s] = ReplayLLM(f[s \ {Max(s)}], q[Max(s)])
    BY <1>5
  <2>1. Max(s) \in D /\ s \ {Max(s)} \in SUBSET D
    BY <1>1, MaxOfFinite
  <2> HIDE DEF V
  <2>2. <<Max(s), f[s \ {Max(s)}]>> \in D \X V
    BY <2>1
  <2>3. step[<<Max(s), f[s \ {Max(s)}]>>] = ReplayLLM(f[s \ {Max(s)}], q[Max(s)])
    BY <2>2
  <2> QED  BY <1>5, <2>3
<1>7. Run(f)
  BY <1>6
<1> HIDE DEF step, V
<1>8. PICK g : g = (CHOOSE x : Run(x)) /\ Run(g)
  <2> HIDE DEF Run
  <2> QED  BY <1>7
<1>9. g[{}] = m /\ \A i \in D : g[1 .. i] = ReplayLLM(g[1 .. i - 1], q[i])
  <2>1. {} \in SUBSET D
    OBVIOUS
  <2>2. ASSUME NEW i \in D PROVE g[1 .. i] = ReplayLLM(g[1 .. i - 1], q[i])
    <3>1. 1 .. i \in SUBSET D /\ 1 .. i # {} /\ Max(1 .. i) = i /\ (1 .. i) \ {i} = 1 .. i - 1
      <4>1. i \in Nat \ {0} /\ i \in 1 .. i
        BY <1>1
      <4>2. Max(1 .. i) = i /\ (1 .. i) \ {i} = 1 .. i - 1
        BY <4>1, MaxOfRange
      <4>3. 1 .. i \in SUBSET D
        BY <1>1, <4>1
      <4> QED  BY <4>1, <4>2, <4>3
    <3>2. g[1 .. i] = ReplayLLM(g[(1 .. i) \ {Max(1 .. i)}], q[Max(1 .. i)])
      BY <1>8, <3>1
    <3> QED  BY <3>1, <3>2
  <2> QED  BY <1>8, <2>1, <2>2
<1> DEFINE h == [i \in 0 .. n |-> g[1 .. i]]
<1>10. h[0] = m
  <2>1. 1 .. 0 = {} /\ 0 \in 0 .. n
    BY <1>1
  <2> QED  BY <1>9, <2>1
<1>11. ASSUME NEW i \in D PROVE h[i] = ReplayLLM(h[i - 1], q[i])
  <2>1. i \in 0 .. n /\ i - 1 \in 0 .. n
    BY <1>1
  <2> QED  BY <1>9, <2>1
<1>12. FoldLeft(ReplayLLM, m, q) = h[n]
  BY <1>1, <1>2, <1>8
<1> QED  BY <1>10, <1>11, <1>12

\* However a restart orders the records, the statistics follow them.
LEMMA ReplayFollows ==
    ASSUME llmLog \in Seq(Completions), NEW order \in SetToSeqs(DOMAIN llmLog)
    PROVE  LET st == FoldLeft(ReplayLLM, [k \in Keys |-> NoStats], order)
           IN  st \in [Keys -> LlmStatistics] /\ Follows(st, llmLog, DOMAIN llmLog)
<1> DEFINE N == Len(llmLog)
           m == [k \in Keys |-> NoStats]
<1>1. N \in Nat /\ DOMAIN llmLog = 1 .. N /\ \A i \in 1 .. N : llmLog[i] \in Completions
  OBVIOUS
<1>2. Cardinality(1 .. N) = N /\ IsFiniteSet(1 .. N)
  <2>1. 1 \in Int /\ N \in Int
    BY <1>1
  <2>2. IsFiniteSet(1 .. N) /\ Cardinality(1 .. N) = IF 1 > N THEN 0 ELSE N - 1 + 1
    BY <2>1, FS_Interval
  <2> QED  BY <1>1, <2>2
<1>3. order \in [1 .. N -> 1 .. N] /\ \A i, j \in 1 .. N : i # j => order[i] # order[j]
  BY <1>1, <1>2 DEF SetToSeqs
<1>4. order \in Seq(DOMAIN llmLog) /\ Len(order) = N
  BY <1>1, <1>3
<1>5. \A x \in 1 .. N : \E i \in 1 .. N : order[i] = x
  <2>1. order \in Injection(1 .. N, 1 .. N)
    BY <1>3 DEF Injection, IsInjective
  <2>2. order \in Surjection(1 .. N, 1 .. N)
    BY <1>2, <2>1, FS_Injection
  <2> QED  BY <2>2 DEF Surjection
<1>6. m \in [Keys -> LlmStatistics]
  BY DEF NoStats, LlmStatistics
<1>7. \A st \in [Keys -> LlmStatistics], i \in DOMAIN llmLog : ReplayLLM(st, i) \in [Keys -> LlmStatistics]
  <2> SUFFICES ASSUME NEW st \in [Keys -> LlmStatistics], NEW i \in 1 .. N PROVE ReplayLLM(st, i) \in [Keys -> LlmStatistics]
    BY <1>1
  <2> DEFINE r == llmLog[i]
             key == <<r[1], r[2]>>
             o == st[key]
             n == o.n + 1
             t == [n |-> n, total |-> updateEWMA(o.total, r[3], n), fetch |-> updateEWMA(o.fetch, r[3], n), evict |-> r[4]]
  <2>1. r[1] \in LlmModels /\ r[2] \in LlmWorkers /\ r[3] \in Nat /\ r[4] \in Nat /\ key \in Keys
    BY <1>1 DEF Completions, Keys
  <2>2. o.total \in Nat /\ o.fetch \in Nat /\ n \in Nat
    BY <2>1 DEF LlmStatistics
  <2>3. ReplayLLM(st, i) = [st EXCEPT ![key] = t]
    BY DEF ReplayLLM, materializeLLMCompleted
  <2>4. t \in LlmStatistics
    <3>1. updateEWMA(o.total, r[3], n) \in Nat /\ updateEWMA(o.fetch, r[3], n) \in Nat
      BY <2>1, <2>2, AverageBetween
    <3> HIDE DEF n
    <3> QED  BY <2>1, <2>2, <3>1 DEF LlmStatistics
  <2> HIDE DEF t
  <2> QED  BY <2>3, <2>4
<1> HIDE DEF m
<1>8. PICK h : /\ h[0] = m /\ \A i \in 1 .. Len(order) : h[i] = ReplayLLM(h[i - 1], order[i])
               /\ FoldLeft(ReplayLLM, m, order) = h[Len(order)]
  BY <1>4, <1>6, <1>7, ReplaySteps
<1> DEFINE Upto(i) == {order[j] : j \in 1 .. i}
           P == {i \in 0 .. N : h[i] \in [Keys -> LlmStatistics] /\ Follows(h[i], llmLog, Upto(i))}
<1>9. 0 \in P
  <2>1. Upto(0) = {} /\ 0 \in 0 .. N
    BY <1>1
  <2>2. \A x \in LlmModels, w \in LlmWorkers : Mine(llmLog, {}, x, w) = {} /\ m[<<x, w>>].n = 0
    BY DEF Mine, m, NoStats, Keys
  <2>3. Follows(m, llmLog, {})
    <3>1. Cardinality({}) = 0
      BY FS_EmptySet
    <3>2. ASSUME NEW x \in LlmModels, NEW w \in LlmWorkers
          PROVE  m[<<x, w>>].n = Cardinality(Mine(llmLog, {}, x, w)) /\ Mine(llmLog, {}, x, w) = {}
      <4>1. Mine(llmLog, {}, x, w) = {}
        BY DEF Mine
      <4> QED  BY <2>2, <3>1, <4>1
    <3> QED  BY <3>2 DEF Follows
  <2> QED  BY <1>6, <1>8, <2>1, <2>3
<1>10. ASSUME NEW i \in 0 .. N - 1, i \in P PROVE i + 1 \in P
  <2> DEFINE I == Upto(i)
             k == order[i + 1]
             st == h[i]
  <2>1. i + 1 \in 1 .. N /\ i + 1 \in 0 .. N /\ (i + 1) - 1 = i /\ 1 .. i + 1 = (1 .. i) \cup {i + 1} /\ i \in Nat
    BY <1>1
  <2>2. h[i + 1] = ReplayLLM(st, k)
    BY <1>4, <1>8, <2>1
  <2>3. k \in 1 .. N /\ I \in SUBSET (1 .. N) /\ k \notin I
    BY <1>3, <2>1
  <2>4. Upto(i + 1) = I \cup {k}
    BY <2>1
  <2>5. st \in [Keys -> LlmStatistics] /\ Follows(st, llmLog, I)
    BY <1>10
  <2> HIDE DEF st, I, k, Upto
  <2>6. /\ materializeLLMCompleted(st, llmLog[k]) \in [Keys -> LlmStatistics]
        /\ Follows(materializeLLMCompleted(st, llmLog[k]), llmLog, I \cup {k})
    BY <2>3, <2>5, FoldRecord
  <2>7. h[i + 1] \in [Keys -> LlmStatistics] /\ Follows(h[i + 1], llmLog, Upto(i + 1))
    BY <2>2, <2>4, <2>6 DEF ReplayLLM
  <2> QED  BY <2>1, <2>7
<1>11. N \in P
  <2>1. \A i \in 0 .. N - 1 : i \in P => i + 1 \in P
    BY <1>10
  <2>2. N \in 0 .. N
    BY <1>1
  <2> HIDE DEF P, N
  <2>3. \A i \in 0 .. N : i \in P
    BY <1>1, <1>9, <2>1, StepsTo
  <2> QED  BY <2>2, <2>3
<1>12. Upto(N) = 1 .. N
  <2>1. \A x \in 1 .. N : x \in Upto(N)
    BY <1>5
  <2>2. \A j \in 1 .. N : order[j] \in 1 .. N
    BY <1>3
  <2> HIDE DEF N
  <2> QED  BY <2>1, <2>2
<1> QED  BY <1>1, <1>4, <1>8, <1>11, <1>12 DEF m

-----------------------------------------------------------------------------
(* The invariant: a worker's load counts the requests it runs, so that a    *)
(* completion never takes it below zero, and requests have their numbers.   *)
LlmTypes ==
    /\ lwork \in [LlmWorkers -> LlmRecords]
    /\ lview \in [LlmWorkers -> LlmViews \cup {NoView}]
    /\ llmStats \in [Keys -> LlmStatistics] /\ pstats = llmStats
    /\ byModel = [m \in LlmModels |-> byModel[m]]
    /\ request \in [model : LlmModels, waited : BOOLEAN] \cup {NoRequest}
    /\ requests \in Nat
    /\ running \in SUBSET Leases /\ IsFiniteSet(running)
    /\ llmLog \in Seq(Completions)

\* The requests that worker w runs.
RunBy(w) == {r \in running : r[2] = w}

\* A worker carries the load of the requests it runs.
LoadCounts == \A w \in LlmWorkers : lwork[w].load = Cardinality(RunBy(w))

\* A request still in the queue has the last number, and no lease has it yet.
Numbered == \A r \in running : r[3] <= requests /\ (request # NoRequest => r[3] < requests)

\* The inductive invariant.
LlmInv ==
    LlmTypes /\ LoadCounts /\ Numbered /\ PlacementExact /\ Follows(llmStats, llmLog, DOMAIN llmLog)

\* It holds at the start.
LEMMA LlmInitInv ==
    LlmInit => LlmInv
<1> SUFFICES ASSUME LlmInit PROVE LlmInv
  OBVIOUS
<1>1. LlmTypes
  <2>1. IsFiniteSet(running) /\ running \in SUBSET Leases
    BY FS_EmptySet DEF LlmInit
  <2>2. lwork \in [LlmWorkers -> LlmRecords]
    BY DEF LlmInit, LlmRecords
  <2>3. llmStats \in [Keys -> LlmStatistics] /\ pstats = llmStats
    BY DEF LlmInit, LlmStatistics, NoStats
  <2>4. /\ lview \in [LlmWorkers -> LlmViews \cup {NoView}]
        /\ byModel = [m \in LlmModels |-> byModel[m]]
        /\ request = NoRequest /\ requests \in Nat /\ llmLog \in Seq(Completions)
    BY DEF LlmInit
  <2> QED  BY <2>1, <2>2, <2>3, <2>4 DEF LlmTypes
<1>2. LoadCounts
  <2>1. \A w \in LlmWorkers : RunBy(w) = {} /\ lwork[w].load = 0
    BY DEF LlmInit, RunBy
  <2>2. Cardinality({}) = 0
    BY FS_EmptySet
  <2> QED  BY <2>1, <2>2 DEF LoadCounts
<1>3. Numbered /\ PlacementExact
  BY DEF LlmInit, Numbered, PlacementExact
<1>4. Follows(llmStats, llmLog, DOMAIN llmLog)
  <2>1. DOMAIN llmLog = {}
    BY DEF LlmInit
  <2>2. Cardinality({}) = 0
    BY FS_EmptySet
  <2>3. ASSUME NEW x \in LlmModels, NEW w \in LlmWorkers
        PROVE  /\ llmStats[<<x, w>>].n = Cardinality(Mine(llmLog, DOMAIN llmLog, x, w))
               /\ Mine(llmLog, DOMAIN llmLog, x, w) = {}
    <3>1. Mine(llmLog, DOMAIN llmLog, x, w) = {}
      BY <2>1 DEF Mine
    <3>2. llmStats[<<x, w>>].n = 0
      BY DEF LlmInit, NoStats, Keys
    <3> QED  BY <2>2, <3>1, <3>2
  <2> QED  BY <2>3 DEF Follows
<1> QED  BY <1>1, <1>2, <1>3, <1>4 DEF LlmInv

\* The indexes of refreshWorkerPlacementLocked are those of the new views.
LEMMA RefreshedExact ==
    ASSUME PlacementExact, lview \in [LlmWorkers -> LlmViews \cup {NoView}], NEW w \in LlmWorkers, NEW v, NEW views,
           views[w] = v, \A x \in LlmWorkers \ {w} : views[x] = lview[x]
    PROVE  \A m \in LlmModels : Refreshed(w, v, views)[m] # NoHeaps => Refreshed(w, v, views)[m] = Seed(m, views, pstats)
<1> SUFFICES ASSUME NEW m \in LlmModels, Refreshed(w, v, views)[m] # NoHeaps
             PROVE  Refreshed(w, v, views)[m] = Seed(m, views, pstats)
  OBVIOUS
<1>1. Refreshed(w, v, views)[m] =
          IF m \notin Affected(w, v) THEN byModel[m]
          ELSE IF byModel[m] = NoHeaps THEN Seed(m, views, pstats)
          ELSE PlaceWorker(byModel[m], m, w, v, pstats[<<m, w>>])
  BY DEF Refreshed
<1>2. byModel[m] # NoHeaps => m \in Affected(w, v)
  BY DEF Affected
<1>3. CASE byModel[m] = NoHeaps
  BY <1>1, <1>3
<1>4. CASE byModel[m] # NoHeaps
  <2>1. byModel[m] = Seed(m, lview, pstats)
    BY <1>4 DEF PlacementExact
  <2>2. ButFor(w, m, lview, views, pstats, pstats)
    BY DEF ButFor
  <2>3. PlaceWorker(Seed(m, lview, pstats), m, w, views[w], pstats[<<m, w>>]) = Seed(m, views, pstats)
    BY <2>2, PlaceSeeded
  <2>4. views[w] = v
    OBVIOUS
  <2> QED  BY <1>1, <1>2, <1>4, <2>1, <2>3, <2>4
<1> QED  BY <1>3, <1>4

\* A registration or a heartbeat.
LEMMA ReportInv ==
    ASSUME LlmInv, NEW w \in LlmWorkers, NEW c \in SUBSET LlmModels, NEW reg \in SUBSET LlmModels,
           ReportWorker(w, c, reg)
    PROVE  LlmInv'
<1> DEFINE v == [load |-> lwork[w].load, cached |-> c]
           rec == [lwork[w] EXCEPT !.cached = c, !.reg = reg, !.polls = TRUE]
<1>0. /\ lview' = [lview EXCEPT ![w] = v] /\ byModel' = Refreshed(w, v, lview')
      /\ lwork' = [lwork EXCEPT ![w] = rec]
      /\ llmStats' = llmStats /\ pstats' = pstats /\ request' = request /\ running' = running
      /\ llmLog' = llmLog /\ requests' = requests
  BY DEF ReportWorker, UpsertWorker
<1>1. rec \in LlmRecords /\ rec.load = lwork[w].load /\ lwork[w].load \in Nat
  BY DEF LlmInv, LlmTypes, LlmRecords
<1>2. v \in LlmViews
  BY <1>1 DEF LlmViews
<1> HIDE DEF v, rec
<1>3. LlmTypes'
  <2>1. byModel' = [m \in LlmModels |-> byModel'[m]]
    BY <1>0 DEF Refreshed
  <2> QED  BY <1>0, <1>1, <1>2, <2>1 DEF LlmInv, LlmTypes
<1>4. LoadCounts'
  <2>1. \A x \in LlmWorkers : lwork'[x].load = lwork[x].load
    BY <1>0, <1>1 DEF LlmInv, LlmTypes
  <2>2. \A x \in LlmWorkers : RunBy(x)' = RunBy(x)
    BY <1>0 DEF RunBy
  <2> QED  BY <2>1, <2>2 DEF LlmInv, LoadCounts
<1>5. Numbered'
  BY <1>0 DEF LlmInv, Numbered
<1>6. PlacementExact'
  <2>1. \A m \in LlmModels : Refreshed(w, v, lview')[m] # NoHeaps => Refreshed(w, v, lview')[m] = Seed(m, lview', pstats)
    <3>1. lview'[w] = v /\ \A x \in LlmWorkers \ {w} : lview'[x] = lview[x]
      BY <1>0 DEF LlmInv, LlmTypes
    <3> QED  BY <3>1, RefreshedExact DEF LlmInv, LlmTypes
  <2> QED  BY <1>0, <2>1 DEF PlacementExact
<1>7. Follows(llmStats, llmLog, DOMAIN llmLog)'
  BY <1>0 DEF LlmInv
<1> QED  BY <1>3, <1>4, <1>5, <1>6, <1>7 DEF LlmInv

\* A worker stops, a request comes or has waited: neither views nor statistics change.
LEMMA CalmInv ==
    ASSUME LlmInv,
           (\E w \in LlmWorkers : WorkerStops(w)) \/ (\E m \in LlmModels : SubmitLLM(m)) \/ LlmWait
    PROVE  LlmInv'
<1>0. /\ lview' = lview /\ byModel' = byModel /\ llmStats' = llmStats /\ pstats' = pstats
      /\ running' = running /\ llmLog' = llmLog
  BY DEF WorkerStops, SubmitLLM, LlmWait
<1>1. lwork' \in [LlmWorkers -> LlmRecords] /\ \A x \in LlmWorkers : lwork'[x].load = lwork[x].load
  <2>1. lwork \in [LlmWorkers -> LlmRecords]
    BY DEF LlmInv, LlmTypes
  <2>2. CASE lwork' = lwork
    BY <2>1, <2>2
  <2>3. ASSUME NEW w \in LlmWorkers, WorkerStops(w)
        PROVE  lwork' \in [LlmWorkers -> LlmRecords] /\ \A x \in LlmWorkers : lwork'[x].load = lwork[x].load
    <3> DEFINE rec == [lwork[w] EXCEPT !.polls = FALSE]
    <3>1. rec \in LlmRecords /\ rec.load = lwork[w].load
      BY <2>1 DEF LlmRecords
    <3>2. lwork' = [lwork EXCEPT ![w] = rec]
      BY <2>3 DEF WorkerStops
    <3> HIDE DEF rec
    <3> QED  BY <2>1, <3>1, <3>2
  <2> QED  BY <2>2, <2>3 DEF SubmitLLM, LlmWait
<1>2. /\ request' \in [model : LlmModels, waited : BOOLEAN] \cup {NoRequest} /\ requests' \in Nat
      /\ requests <= requests' /\ (request' # NoRequest => request # NoRequest \/ requests < requests')
  <2>1. requests \in Nat /\ request \in [model : LlmModels, waited : BOOLEAN] \cup {NoRequest}
    BY DEF LlmInv, LlmTypes
  <2>2. CASE \E w \in LlmWorkers : WorkerStops(w)
    BY <2>1, <2>2 DEF WorkerStops
  <2>3. CASE \E m \in LlmModels : SubmitLLM(m)
    BY <2>1, <2>3 DEF SubmitLLM
  <2>4. CASE LlmWait
    <3>1. request \in [model : LlmModels, waited : BOOLEAN]
      BY <2>1, <2>4 DEF LlmWait
    <3>2. [request EXCEPT !.waited = TRUE] \in [model : LlmModels, waited : BOOLEAN]
      BY <3>1
    <3> QED  BY <2>1, <2>4, <3>2 DEF LlmWait
  <2> QED  BY <2>2, <2>3, <2>4
<1>3. LlmTypes'
  BY <1>0, <1>1, <1>2 DEF LlmInv, LlmTypes
<1>4. LoadCounts'
  <2>1. \A x \in LlmWorkers : RunBy(x)' = RunBy(x)
    BY <1>0 DEF RunBy
  <2> QED  BY <1>1, <2>1 DEF LlmInv, LoadCounts
<1>5. Numbered'
  <2> SUFFICES ASSUME NEW r \in running PROVE r[3] <= requests' /\ (request' # NoRequest => r[3] < requests')
    BY <1>0 DEF Numbered
  <2>1. r[3] \in Nat /\ requests \in Nat /\ r[3] <= requests /\ (request # NoRequest => r[3] < requests)
    BY DEF LlmInv, LlmTypes, Numbered, Leases
  <2> QED  BY <1>2, <2>1
<1>6. PlacementExact'
  BY <1>0 DEF LlmInv, PlacementExact
<1>7. Follows(llmStats, llmLog, DOMAIN llmLog)'
  BY <1>0 DEF LlmInv
<1> QED  BY <1>3, <1>4, <1>5, <1>6, <1>7 DEF LlmInv

\* The indexes a poll asks for, new or not, are exact.
LEMMA EnsuredExact ==
    ASSUME PlacementExact, NEW m \in LlmModels
    PROVE  Ensured(m) = Seed(m, lview, pstats)
BY DEF Ensured, PlacementExact

\* A poll.
LEMMA PollLLMInv ==
    ASSUME LlmInv, NEW w \in LlmWorkers, PollLLM(w)
    PROVE  LlmInv'
<1> DEFINE m == request.model
           lease == <<m, w, requests>>
<1>0. /\ lview' = lview /\ llmStats' = llmStats /\ pstats' = pstats /\ llmLog' = llmLog /\ requests' = requests
      /\ request # NoRequest
  BY DEF PollLLM
<1>1. m \in LlmModels /\ requests \in Nat
  BY <1>0 DEF LlmInv, LlmTypes
<1>2. byModel' = byModel \/ byModel' = [byModel EXCEPT ![m] = Ensured(m)]
  BY DEF PollLLM
<1>3. \/ lwork' = lwork /\ running' = running /\ request' = request
      \/ lwork' = [lwork EXCEPT ![w].load = @ + 1] /\ running' = running \cup {lease} /\ request' = NoRequest
  BY DEF PollLLM
<1> HIDE DEF m
<1>4. PlacementExact' /\ byModel' = [x \in LlmModels |-> byModel'[x]]
  <2>1. Ensured(m) = Seed(m, lview, pstats)
    BY <1>1, EnsuredExact DEF LlmInv
  <2>2. PlacementExact /\ byModel = [x \in LlmModels |-> byModel[x]]
    BY DEF LlmInv, LlmTypes
  <2>3. \A x \in LlmModels : byModel'[x] = byModel[x] \/ byModel'[x] = Seed(x, lview, pstats)
    <3> SUFFICES ASSUME NEW x \in LlmModels PROVE byModel'[x] = byModel[x] \/ byModel'[x] = Seed(x, lview, pstats)
      OBVIOUS
    <3>1. DOMAIN byModel = LlmModels
      BY <2>2
    <3>2. CASE byModel' = byModel
      BY <3>2
    <3>3. CASE byModel' = [byModel EXCEPT ![m] = Ensured(m)]
      <4>1. x # m => byModel'[x] = byModel[x]
        BY <3>1, <3>3
      <4>2. x = m => byModel'[x] = Ensured(m)
        BY <3>1, <3>3
      <4> QED  BY <2>1, <4>1, <4>2
    <3> QED  BY <1>2, <3>2, <3>3
  <2>4. PlacementExact'
    BY <1>0, <2>2, <2>3 DEF PlacementExact
  <2>5. byModel' = [x \in LlmModels |-> byModel'[x]]
    BY <1>2, <2>2
  <2> QED  BY <2>4, <2>5
<1>5. CASE lwork' = lwork /\ running' = running /\ request' = request
  <2>1. LlmTypes'
    BY <1>0, <1>4, <1>5 DEF LlmInv, LlmTypes
  <2>2. LoadCounts'
    <3>1. \A x \in LlmWorkers : RunBy(x)' = RunBy(x)
      BY <1>5 DEF RunBy
    <3> QED  BY <1>5, <3>1 DEF LlmInv, LoadCounts
  <2>3. Numbered'
    BY <1>0, <1>5 DEF LlmInv, Numbered
  <2>4. Follows(llmStats, llmLog, DOMAIN llmLog)'
    BY <1>0 DEF LlmInv
  <2> QED  BY <1>4, <2>1, <2>2, <2>3, <2>4 DEF LlmInv
<1>6. CASE lwork' = [lwork EXCEPT ![w].load = @ + 1] /\ running' = running \cup {lease} /\ request' = NoRequest
  <2> DEFINE rec == [lwork[w] EXCEPT !.load = @ + 1]
  <2>0. lwork \in [LlmWorkers -> LlmRecords] /\ running \in SUBSET Leases /\ IsFiniteSet(running)
    BY DEF LlmInv, LlmTypes
  <2>1. rec \in LlmRecords /\ rec.load = lwork[w].load + 1 /\ lwork' = [lwork EXCEPT ![w] = rec]
    BY <1>6, <2>0 DEF LlmRecords
  <2> HIDE DEF rec
  <2>2. lease \notin running
    <3>1. \A r \in running : r[3] < requests
      BY <1>0 DEF LlmInv, Numbered
    <3>2. lease[3] = requests /\ ~(requests < requests)
      BY <1>1
    <3> QED  BY <3>1, <3>2
  <2>3. lease \in Leases /\ lease[2] = w /\ lease[3] = requests
    BY <1>1 DEF Leases
  <2> HIDE DEF lease
  <2>4. LlmTypes'
    <3>1. lwork' \in [LlmWorkers -> LlmRecords]
      BY <2>0, <2>1
    <3>2. running' \in SUBSET Leases /\ IsFiniteSet(running')
      BY <1>6, <2>0, <2>3, FS_AddElement
    <3> QED  BY <1>0, <1>4, <1>6, <3>1, <3>2 DEF LlmInv, LlmTypes
  <2>5. LoadCounts'
    <3> SUFFICES ASSUME NEW x \in LlmWorkers PROVE lwork'[x].load = Cardinality(RunBy(x)')
      BY DEF LoadCounts
    <3>1. lwork[x].load = Cardinality(RunBy(x)) /\ IsFiniteSet(RunBy(x))
      <4>1. RunBy(x) \subseteq running
        BY DEF RunBy
      <4> QED  BY <2>0, <4>1, FS_Subset DEF LlmInv, LoadCounts
    <3>2. CASE x # w
      <4>1. RunBy(x)' = RunBy(x)
        BY <1>6, <2>3, <3>2 DEF RunBy
      <4>2. lwork'[x] = lwork[x]
        BY <2>0, <2>1, <3>2
      <4> QED  BY <3>1, <4>1, <4>2
    <3>3. CASE x = w
      <4>1. RunBy(x)' = RunBy(x) \cup {lease} /\ lease \notin RunBy(x)
        BY <1>6, <2>2, <2>3, <3>3 DEF RunBy
      <4>2. Cardinality(RunBy(x)') = Cardinality(RunBy(x)) + 1
        BY <3>1, <4>1, FS_AddElement
      <4>3. lwork'[x].load = lwork[x].load + 1
        BY <2>0, <2>1, <3>3
      <4> QED  BY <3>1, <4>2, <4>3
    <3> QED  BY <3>2, <3>3
  <2>6. Numbered'
    <3> SUFFICES ASSUME NEW r \in running' PROVE r[3] <= requests
      BY <1>0, <1>6 DEF Numbered
    <3> QED  BY <1>1, <1>6, <2>3 DEF LlmInv, Numbered
  <2>7. Follows(llmStats, llmLog, DOMAIN llmLog)'
    BY <1>0 DEF LlmInv
  <2> QED  BY <1>4, <2>4, <2>5, <2>6, <2>7 DEF LlmInv
<1> QED  BY <1>3, <1>5, <1>6

\* Indexes that are exact for the views and the statistics given.
ExactFor(heaps, views, s) ==
    /\ heaps = [x \in LlmModels |-> heaps[x]]
    /\ \A x \in LlmModels : heaps[x] # NoHeaps => heaps[x] = Seed(x, views, s)

\* The statistics of one model change on one worker: the other indexes stay exact, and
\* placing the worker in the model's own makes it exact again.
LEMMA StatsPlaced ==
    ASSUME NEW heaps, NEW m \in LlmModels, NEW w \in LlmWorkers, NEW views, views[w] # NoView,
           NEW s \in [Keys -> LlmStatistics], NEW t, \A k \in Keys \ {<<m, w>>} : t[k] = s[k],
           ExactFor(heaps, views, s)
    PROVE  ExactFor(UpdateLLMStats(heaps, m, w, views, t), views, t)
<1> DEFINE new == UpdateLLMStats(heaps, m, w, views, t)
           old == IF heaps[m] = NoHeaps THEN Seed(m, views, t) ELSE heaps[m]
<1>1. new = [heaps EXCEPT ![m] = PlaceWorker(old, m, w, views[w], t[<<m, w>>])]
  BY DEF UpdateLLMStats
<1>2. /\ heaps = [x \in LlmModels |-> heaps[x]]
      /\ \A x \in LlmModels : heaps[x] # NoHeaps => heaps[x] = Seed(x, views, s)
  BY DEF ExactFor
<1>3. PlaceWorker(old, m, w, views[w], t[<<m, w>>]) = Seed(m, views, t)
  <2>1. ButFor(w, m, views, views, s, t)
    BY DEF ButFor, Keys
  <2>2. ButFor(w, m, views, views, t, t)
    BY DEF ButFor
  <2>3. PlaceWorker(Seed(m, views, s), m, w, views[w], t[<<m, w>>]) = Seed(m, views, t)
    BY <2>1, PlaceSeeded
  <2>4. PlaceWorker(Seed(m, views, t), m, w, views[w], t[<<m, w>>]) = Seed(m, views, t)
    BY <2>2, PlaceSeeded
  <2>5. old = Seed(m, views, s) \/ old = Seed(m, views, t)
    BY <1>2
  <2> QED  BY <2>3, <2>4, <2>5
<1>4. ASSUME NEW x \in LlmModels, x # m PROVE Seed(x, views, s) = Seed(x, views, t)
  <2>1. SameOf(x, s, t)
    BY <1>4 DEF Keys, SameOf
  <2> QED  BY <2>1, SeedSame
<1> HIDE DEF new, old
<1>5. new = [x \in LlmModels |-> new[x]]
  BY <1>1, <1>2
<1>6. ASSUME NEW x \in LlmModels, new[x] # NoHeaps PROVE new[x] = Seed(x, views, t)
  <2>0. DOMAIN heaps = LlmModels
    BY <1>2
  <2>1. CASE x = m
    BY <1>1, <1>3, <2>0, <2>1
  <2>2. CASE x # m
    <3>1. new[x] = heaps[x]
      BY <1>1, <2>0, <2>2
    <3> QED  BY <1>2, <1>4, <1>6, <2>2, <3>1
  <2> QED  BY <2>1, <2>2
<1> QED  BY <1>5, <1>6 DEF new, ExactFor

\* One more record at the end of the log.
LEMMA AppendFollows ==
    ASSUME NEW log \in Seq(Completions), NEW r \in Completions, NEW stats \in [Keys -> LlmStatistics],
           Follows(stats, log, DOMAIN log)
    PROVE  /\ materializeLLMCompleted(stats, r) \in [Keys -> LlmStatistics]
           /\ Follows(materializeLLMCompleted(stats, r), Append(log, r), DOMAIN Append(log, r))
<1> DEFINE new == Append(log, r)
           n == Len(log)
<1>1. /\ n \in Nat /\ new \in Seq(Completions) /\ Len(new) = n + 1 /\ DOMAIN log = 1 .. n /\ DOMAIN new = 1 .. n + 1
      /\ new[n + 1] = r /\ \A i \in 1 .. n : new[i] = log[i]
  OBVIOUS
<1> HIDE DEF new, n
<1>2. 1 .. n \in SUBSET (1 .. Len(new)) /\ n + 1 \in (1 .. Len(new)) \ (1 .. n) /\ 1 .. n + 1 = (1 .. n) \cup {n + 1}
  BY <1>1
<1>3. Follows(stats, new, 1 .. n)
  <2>1. \A m, w : Mine(new, 1 .. n, m, w) = Mine(log, 1 .. n, m, w)
    BY <1>1 DEF Mine
  <2>2. Follows(stats, log, 1 .. n)
    BY <1>1
  <2> SUFFICES ASSUME NEW m \in LlmModels, NEW w \in LlmWorkers
               PROVE  /\ stats[<<m, w>>].n = Cardinality(Mine(new, 1 .. n, m, w))
                      /\ Mine(new, 1 .. n, m, w) # {} => \E i, j \in Mine(new, 1 .. n, m, w) :
                             new[i][3] <= stats[<<m, w>>].total /\ stats[<<m, w>>].total <= new[j][3]
    BY DEF Follows
  <2> DEFINE A == Mine(log, 1 .. n, m, w)
  <2>3. /\ stats[<<m, w>>].n = Cardinality(A)
        /\ A # {} => \E i, j \in A : log[i][3] <= stats[<<m, w>>].total /\ stats[<<m, w>>].total <= log[j][3]
    BY <2>2 DEF Follows
  <2>4. \A i \in A : new[i] = log[i]
    BY <1>1 DEF Mine
  <2> HIDE DEF A
  <2>5. A # {} => \E i, j \in A : new[i][3] <= stats[<<m, w>>].total /\ stats[<<m, w>>].total <= new[j][3]
    BY <2>3, <2>4
  <2> QED  BY <2>1, <2>3, <2>5 DEF A
<1>4. /\ materializeLLMCompleted(stats, new[n + 1]) \in [Keys -> LlmStatistics]
      /\ Follows(materializeLLMCompleted(stats, new[n + 1]), new, (1 .. n) \cup {n + 1})
  BY <1>1, <1>2, <1>3, FoldRecord
<1>5. DOMAIN new = (1 .. n) \cup {n + 1} /\ new[n + 1] = r
  BY <1>1, <1>2
<1> QED  BY <1>4, <1>5 DEF new

\* A completion.
LEMMA CompleteLLMInv ==
    ASSUME LlmInv, NEW r \in running, NEW ms \in LlmLatencies, NEW ev \in 0 .. 1, CompleteLLM(r, ms, ev)
    PROVE  LlmInv'
<1> DEFINE m == r[1]
           w == r[2]
           done == <<m, w, ms, ev>>
           st == materializeLLMCompleted(llmStats, done)[<<m, w>>]
           v == [load |-> lwork[w].load - 1, cached |-> lwork[w].cached]
           rec == [lwork[w] EXCEPT !.load = @ - 1]
<1>0. /\ lwork \in [LlmWorkers -> LlmRecords] /\ running \in SUBSET Leases /\ IsFiniteSet(running)
      /\ lview \in [LlmWorkers -> LlmViews \cup {NoView}] /\ llmStats \in [Keys -> LlmStatistics] /\ pstats = llmStats
      /\ llmLog \in Seq(Completions) /\ PlacementExact
  BY DEF LlmInv, LlmTypes
<1>1. m \in LlmModels /\ w \in LlmWorkers /\ ms \in Nat /\ ev \in Nat /\ done \in Completions /\ <<m, w>> \in Keys
  BY <1>0, LlmAssumption DEF Leases, Completions, Keys
<1>2. /\ lwork' = [lwork EXCEPT ![w].load = @ - 1] /\ running' = running \ {r}
      /\ llmStats' = [llmStats EXCEPT ![<<m, w>>] = st] /\ pstats' = [pstats EXCEPT ![<<m, w>>] = st]
      /\ lview' = [lview EXCEPT ![w] = v]
      /\ byModel' = UpdateLLMStats(Refreshed(w, v, lview'), m, w, lview', pstats')
      /\ llmLog' = Append(llmLog, done) /\ request' = request /\ requests' = requests
  BY DEF CompleteLLM
<1>3. RunBy(w) \subseteq running /\ IsFiniteSet(RunBy(w)) /\ r \in RunBy(w) /\ lwork[w].load = Cardinality(RunBy(w))
  <2>1. RunBy(w) \subseteq running /\ r \in RunBy(w)
    BY DEF RunBy
  <2> QED  BY <1>0, <1>1, <2>1, FS_Subset DEF LlmInv, LoadCounts
<1>4. lwork[w].load \in Nat /\ lwork[w].load >= 1 /\ Cardinality(RunBy(w) \ {r}) = lwork[w].load - 1
  BY <1>3, OneLess
<1>5. rec \in LlmRecords /\ rec.load = lwork[w].load - 1 /\ lwork' = [lwork EXCEPT ![w] = rec]
  <2>1. lwork[w] \in LlmRecords
    BY <1>0, <1>1
  <2>2. lwork' = [lwork EXCEPT ![w] = rec]
    BY <1>2
  <2> HIDE DEF w
  <2>3. lwork[w].load - 1 \in Nat
    BY <1>4
  <2> DEFINE o == lwork[w]
  <2>4. rec = [o EXCEPT !.load = o.load - 1] /\ o \in LlmRecords /\ o.load - 1 \in Nat
    BY <2>1, <2>3
  <2> HIDE DEF o, rec
  <2>5. rec \in LlmRecords /\ rec.load = o.load - 1
    BY <2>4 DEF LlmRecords
  <2> QED  BY <2>2, <2>5 DEF o
<1>6. v \in LlmViews /\ v # NoView
  <2>1. v.load \in Nat /\ NoView.load = -1
    BY <1>4 DEF NoView
  <2>2. lwork[w].cached \in SUBSET LlmModels
    BY <1>0, <1>1 DEF LlmRecords
  <2> QED  BY <1>4, <2>1, <2>2 DEF LlmViews
<1>7. llmStats' = materializeLLMCompleted(llmStats, done)
  <2> DEFINE y == [n |-> llmStats[<<m, w>>].n + 1,
                   total |-> updateEWMA(llmStats[<<m, w>>].total, ms, llmStats[<<m, w>>].n + 1),
                   fetch |-> updateEWMA(llmStats[<<m, w>>].fetch, ms, llmStats[<<m, w>>].n + 1), evict |-> ev]
  <2>1. materializeLLMCompleted(llmStats, done) = [llmStats EXCEPT ![<<m, w>>] = y]
    BY DEF materializeLLMCompleted
  <2> HIDE DEF y, done
  <2>2. st = y
    BY <1>0, <1>1, <2>1
  <2> QED  BY <1>2, <2>1, <2>2
<1>8. llmStats' \in [Keys -> LlmStatistics] /\ Follows(llmStats, llmLog, DOMAIN llmLog)'
  <2>1. Follows(llmStats, llmLog, DOMAIN llmLog)
    BY DEF LlmInv
  <2> HIDE DEF done, st
  <2>2. /\ materializeLLMCompleted(llmStats, done) \in [Keys -> LlmStatistics]
        /\ Follows(materializeLLMCompleted(llmStats, done), Append(llmLog, done), DOMAIN Append(llmLog, done))
    BY <1>0, <1>1, <2>1, AppendFollows
  <2> QED  BY <1>2, <1>7, <2>2
<1> HIDE DEF st, v, rec, done, m, w
<1>9. PlacementExact' /\ byModel' = [x \in LlmModels |-> byModel'[x]]
  <2> DEFINE heaps == Refreshed(w, v, lview')
  <2>1. lview'[w] = v /\ \A x \in LlmWorkers \ {w} : lview'[x] = lview[x]
    BY <1>0, <1>1, <1>2
  <2>2. \A x \in LlmModels : heaps[x] # NoHeaps => heaps[x] = Seed(x, lview', pstats)
    <3>1. PlacementExact /\ lview \in [LlmWorkers -> LlmViews \cup {NoView}] /\ w \in LlmWorkers
      BY <1>0, <1>1
    <3> QED  BY <2>1, <3>1, RefreshedExact
  <2>3. heaps = [x \in LlmModels |-> heaps[x]]
    BY DEF Refreshed
  <2>4. lview'[w] # NoView /\ pstats \in [Keys -> LlmStatistics] /\ \A k \in Keys \ {<<m, w>>} : pstats'[k] = pstats[k]
    BY <1>0, <1>2, <1>6, <2>1
  <2>5. byModel' = UpdateLLMStats(heaps, m, w, lview', pstats')
    BY <1>2
  <2> HIDE DEF heaps
  <2>6. ExactFor(heaps, lview', pstats)
    BY <2>2, <2>3 DEF ExactFor
  <2>7. ExactFor(UpdateLLMStats(heaps, m, w, lview', pstats'), lview', pstats')
    BY <1>1, <2>4, <2>6, StatsPlaced
  <2>8. ExactFor(byModel', lview', pstats')
    BY <2>5, <2>7
  <2> QED  BY <2>8 DEF PlacementExact, ExactFor
<1>10. LlmTypes'
  <2>1. lwork' \in [LlmWorkers -> LlmRecords] /\ lview' \in [LlmWorkers -> LlmViews \cup {NoView}]
    BY <1>0, <1>1, <1>2, <1>5, <1>6
  <2>2. llmStats' \in [Keys -> LlmStatistics] /\ pstats' = llmStats'
    BY <1>0, <1>2, <1>8
  <2>3. running' \in SUBSET Leases /\ IsFiniteSet(running')
    BY <1>0, <1>2, FS_RemoveElement
  <2>4. llmLog' \in Seq(Completions)
    BY <1>0, <1>1, <1>2
  <2> QED  BY <1>2, <1>9, <2>1, <2>2, <2>3, <2>4 DEF LlmInv, LlmTypes
<1>11. LoadCounts'
  <2> SUFFICES ASSUME NEW x \in LlmWorkers PROVE lwork'[x].load = Cardinality(RunBy(x)')
    BY DEF LoadCounts
  <2>1. CASE x = w
    <3>1. RunBy(x)' = RunBy(w) \ {r}
      BY <1>2, <2>1 DEF RunBy
    <3>2. lwork'[x].load = lwork[w].load - 1
      BY <1>0, <1>5, <2>1
    <3> QED  BY <1>4, <3>1, <3>2
  <2>2. CASE x # w
    <3>1. RunBy(x)' = RunBy(x)
      BY <1>2, <2>2 DEF RunBy, w
    <3>2. lwork'[x] = lwork[x]
      BY <1>0, <1>5, <2>2
    <3> QED  BY <3>1, <3>2 DEF LlmInv, LoadCounts
  <2> QED  BY <2>1, <2>2
<1>12. Numbered'
  BY <1>2 DEF LlmInv, Numbered
<1> QED  BY <1>8, <1>9, <1>10, <1>11, <1>12 DEF LlmInv

\* A restart of the control plane.
LEMMA RestartLLMInv ==
    ASSUME LlmInv, RestartLLM
    PROVE  LlmInv'
<1>0. /\ lwork \in [LlmWorkers -> LlmRecords] /\ lview \in [LlmWorkers -> LlmViews \cup {NoView}]
      /\ llmLog \in Seq(Completions)
  BY DEF LlmInv, LlmTypes
<1>1. PICK order \in SetToSeqs(DOMAIN llmLog) : llmStats' = FoldLeft(ReplayLLM, [k \in Keys |-> NoStats], order)
  BY DEF RestartLLM
<1>2. /\ pstats' = llmStats' /\ running = {} /\ running' = running /\ llmLog' = llmLog /\ request' = request
      /\ requests' = requests
      /\ lwork' = [w \in LlmWorkers |-> [lwork[w] EXCEPT !.cached = lwork[w].reg, !.load = 0]]
      /\ lview' = [w \in LlmWorkers |-> IF lview[w] = NoView THEN NoView ELSE [load |-> 0, cached |-> lwork[w].reg]]
  BY DEF RestartLLM
<1>3. llmStats' \in [Keys -> LlmStatistics] /\ Follows(llmStats, llmLog, DOMAIN llmLog)'
  <2>1. LET s == FoldLeft(ReplayLLM, [k \in Keys |-> NoStats], order)
        IN  s \in [Keys -> LlmStatistics] /\ Follows(s, llmLog, DOMAIN llmLog)
    BY <1>0, ReplayFollows
  <2> QED  BY <1>1, <1>2, <2>1
<1>4. PlacementExact' /\ byModel' = [x \in LlmModels |-> byModel'[x]]
  BY <1>2 DEF RestartLLM, PlacementExact
<1>5. lwork' \in [LlmWorkers -> LlmRecords] /\ \A w \in LlmWorkers : lwork'[w].load = 0
  <2> SUFFICES ASSUME NEW w \in LlmWorkers PROVE lwork'[w] \in LlmRecords /\ lwork'[w].load = 0
    BY <1>2
  <2>1. lwork'[w] = [lwork[w] EXCEPT !.cached = lwork[w].reg, !.load = 0]
    BY <1>2
  <2>2. lwork[w] \in LlmRecords
    BY <1>0
  <2> DEFINE o == lwork[w]
  <2>3. o \in LlmRecords /\ lwork'[w] = [o EXCEPT !.cached = o.reg, !.load = 0]
    BY <2>1, <2>2
  <2> HIDE DEF o
  <2>4. o.reg \in SUBSET LlmModels
    BY <2>3 DEF LlmRecords
  <2>5. [o EXCEPT !.cached = o.reg, !.load = 0].load = 0
    BY <2>3 DEF LlmRecords
  <2>6. [o EXCEPT !.cached = o.reg, !.load = 0] \in LlmRecords
    BY <2>3, <2>4 DEF LlmRecords
  <2> QED  BY <2>3, <2>5, <2>6
<1>6. lview' \in [LlmWorkers -> LlmViews \cup {NoView}]
  <2> SUFFICES ASSUME NEW w \in LlmWorkers PROVE [load |-> 0, cached |-> lwork[w].reg] \in LlmViews
    BY <1>2
  <2> QED  BY <1>0 DEF LlmRecords, LlmViews
<1>7. LlmTypes'
  BY <1>2, <1>3, <1>4, <1>5, <1>6 DEF LlmInv, LlmTypes
<1>8. LoadCounts'
  <2>1. \A w \in LlmWorkers : RunBy(w)' = {}
    BY <1>2 DEF RunBy
  <2>2. Cardinality({}) = 0
    BY FS_EmptySet
  <2> QED  BY <1>5, <2>1, <2>2 DEF LoadCounts
<1>9. Numbered'
  BY <1>2 DEF Numbered
<1> QED  BY <1>3, <1>4, <1>7, <1>8, <1>9 DEF LlmInv

\* Every step keeps the invariant.
LEMMA LlmNextInv ==
    LlmInv /\ [LlmNext]_llmVars => LlmInv'
<1> SUFFICES ASSUME LlmInv, [LlmNext]_llmVars PROVE LlmInv'
  OBVIOUS
<1>1. ASSUME NEW w \in LlmWorkers, NEW ms \in SUBSET LlmModels, RegisterWorker(w, ms) \/ Heartbeat(w, ms)
      PROVE  LlmInv'
  <2>1. lwork[w].reg \in SUBSET LlmModels
    BY DEF LlmInv, LlmTypes, LlmRecords
  <2> QED  BY <1>1, <2>1, ReportInv DEF RegisterWorker, Heartbeat
<1>2. ASSUME NEW w \in LlmWorkers, PollLLM(w) PROVE LlmInv'
  BY <1>2, PollLLMInv
<1>3. CASE (\E w \in LlmWorkers : WorkerStops(w)) \/ (\E m \in LlmModels : SubmitLLM(m)) \/ LlmWait
  BY <1>3, CalmInv
<1>4. ASSUME NEW r \in running, NEW ms \in LlmLatencies, NEW ev \in 0 .. 1, CompleteLLM(r, ms, ev) PROVE LlmInv'
  BY <1>4, CompleteLLMInv
<1>5. CASE RestartLLM
  BY <1>5, RestartLLMInv
<1>6. CASE UNCHANGED llmVars
  <2>1. \A x \in LlmWorkers : RunBy(x)' = RunBy(x)
    BY <1>6 DEF llmVars, RunBy
  <2>2. LlmTypes' /\ LoadCounts' /\ Numbered'
    BY <1>6, <2>1 DEF llmVars, LlmInv, LlmTypes, LoadCounts, Numbered
  <2>3. PlacementExact' /\ Follows(llmStats, llmLog, DOMAIN llmLog)'
    BY <1>6 DEF llmVars, LlmInv, PlacementExact
  <2> QED  BY <2>2, <2>3 DEF LlmInv
<1> QED  BY <1>1, <1>2, <1>3, <1>4, <1>5, <1>6 DEF LlmNext

\* ScoresExact holds in every reachable state: whatever reports, polls, completions and
\* restarts interleave, the indexes are those of the present views and statistics
\* (refreshWorkerPlacementLocked, UpdateLLMStats), and the statistics count the
\* completions of the log and average within their latencies (materializeLLMCompleted).
THEOREM ScoresExactHolds == LlmSpec => []ScoresExact
<1>1. LlmInv => ScoresExact
  <2> SUFFICES ASSUME LlmInv PROVE StatsOfLog
    BY DEF LlmInv, ScoresExact
  <2>1. Follows(llmStats, llmLog, DOMAIN llmLog)
    BY DEF LlmInv
  <2> QED  BY <2>1 DEF Follows, Mine, StatsOfLog
<1> QED  BY <1>1, LlmInitInv, LlmNextInv, PTL DEF LlmSpec

-----------------------------------------------------------------------------
(* The preferred worker of a request.                                       *)

\* Among finitely many scored workers one is best, ties going to the smaller id.
LEMMA BestOf ==
    ASSUME NEW B \in SUBSET LlmWorkers, B # {}, NEW f \in [B -> Int]
    PROVE  \E x \in B : \A y \in B : f[x] > f[y] \/ (f[x] = f[y] /\ x <= y)
<1> DEFINE Best(x, s) == x \in s /\ \A y \in s : f[x] > f[y] \/ (f[x] = f[y] /\ x <= y)
           P == {s \in SUBSET B : s = {} \/ \E x \in s : Best(x, s)}
           pick == [s \in SUBSET B |-> CHOOSE x \in s : TRUE]
<1>1. IsFiniteSet(B) /\ \A x \in B : x \in Nat /\ f[x] \in Int
  BY LlmAssumption, FS_Subset
<1>2. {} \in P
  OBVIOUS
<1>3. ASSUME NEW s \in SUBSET B, s # {} PROVE pick[s] \in s /\ (s \ {pick[s]} \in P => s \in P)
  <2> DEFINE p == pick[s]
             t == s \ {p}
  <2>1. p \in s
    BY <1>3
  <2> HIDE DEF pick, p
  <2>2. ASSUME t \in P PROVE \E x \in s : Best(x, s)
    <3>1. CASE t = {}
      <4>1. s = {p} /\ f[p] = f[p] /\ p <= p
        BY <1>1, <2>1, <3>1
      <4> QED  BY <2>1, <4>1
    <3>2. ASSUME NEW x \in t, Best(x, t) PROVE \E z \in s : Best(z, s)
      <4>1. \A y \in s : y = p \/ y \in t
        OBVIOUS
      <4>2. f[x] \in Int /\ f[p] \in Int /\ x \in Nat /\ p \in Nat /\ x \in s /\ p \in s
        BY <1>1, <2>1, <3>2
      <4>3. CASE f[x] > f[p] \/ (f[x] = f[p] /\ x <= p)
        <5>1. Best(x, s)
          BY <3>2, <4>1, <4>2, <4>3
        <5> QED  BY <4>2, <5>1
      <4>4. CASE ~(f[x] > f[p] \/ (f[x] = f[p] /\ x <= p))
        <5>1. f[p] > f[x] \/ (f[p] = f[x] /\ p <= x)
          BY <4>2, <4>4
        <5>2. ASSUME NEW y \in s PROVE f[p] > f[y] \/ (f[p] = f[y] /\ p <= y)
          <6>1. f[y] \in Int /\ y \in Nat
            BY <1>1
          <6>2. CASE y = p
            BY <4>2, <6>2
          <6>3. CASE y \in t
            <7>1. f[x] > f[y] \/ (f[x] = f[y] /\ x <= y)
              BY <3>2, <6>3
            <7> QED  BY <4>2, <5>1, <6>1, <7>1
          <6> QED  BY <4>1, <6>2, <6>3
        <5> QED  BY <4>2, <5>2
      <4> QED  BY <4>3, <4>4
    <3> QED  BY <2>2, <3>1, <3>2
  <2> HIDE DEF t, Best
  <2> QED  BY <2>1, <2>2 DEF p, t
<1>4. B \in P
  <2>1. \A s \in SUBSET B : s # {} => pick[s] \in s /\ (s \ {pick[s]} \in P => s \in P)
    BY <1>3
  <2>3. IsFiniteSet(B)
    BY <1>1
  <2> HIDE DEF P, pick, Best
  <2>2. \A s \in SUBSET B : s \in P
    BY <1>2, <2>1, <2>3, SubsetsByPick
  <2> QED  BY <2>2
<1> QED  BY <1>4

\* The best entry of an index that is not empty is one of its workers.
LEMMA BestEntryIn ==
    ASSUME NEW B \in SUBSET LlmWorkers, B # {}, NEW f \in [B -> Int]
    PROVE  BestEntry({<<x, f[x]>> : x \in B}) \in B
<1> DEFINE S == {<<x, f[x]>> : x \in B}
           Top(e) == \A z \in S : e[2] > z[2] \/ (e[2] = z[2] /\ e[1] <= z[1])
<1>1. PICK x \in B : \A y \in B : f[x] > f[y] \/ (f[x] = f[y] /\ x <= y)
  BY BestOf
<1>2. \A z \in S : z[1] \in B /\ z[2] = f[z[1]]
  OBVIOUS
<1>3. <<x, f[x]>> \in S /\ Top(<<x, f[x]>>)
  BY <1>1, <1>2
<1>4. \E e \in S : Top(e)
  BY <1>3
<1>5. (CHOOSE e \in S : Top(e)) \in S
  <2> HIDE DEF S, Top
  <2> QED  BY <1>4
<1>6. BestEntry(S) = (CHOOSE e \in S : Top(e))[1]
  BY DEF BestEntry
<1> HIDE DEF Top
<1>7. BestEntry(S) \in B
  BY <1>2, <1>5, <1>6
<1> QED  BY <1>7

\* A worker the rules may prefer: 0 when there is none, else one with a free slot.
MayPrefer(p) == p = 0 \/ (p \in LlmWorkers /\ hasCapacity(lview[p]))

\* The locality rules prefer such a worker.
LEMMA LocalityPrefers ==
    ASSUME LlmInv, NEW m \in LlmModels
    PROVE  MayPrefer(PreferredLocalityWorker(m))
<1> DEFINE H == Seed(m, lview, pstats)
           A == {y \in LlmWorkers : hasCapacity(lview[y]) /\ m \in lview[y].cached}
           B == {y \in LlmWorkers : hasCapacity(lview[y]) /\ m \notin lview[y].cached}
           f == [x \in A |-> localityBaseScore(lview[x], TRUE)]
           g == [x \in B |-> localityBaseScore(lview[x], FALSE)]
<1>1. Ensured(m) = H
  BY EnsuredExact DEF LlmInv
<1>2. Seeded(H, m, lview, pstats)
  BY SeedParts
<1>3. A \in SUBSET LlmWorkers /\ B \in SUBSET LlmWorkers
  OBVIOUS
<1>4. \A x \in A \cup B : x \in LlmWorkers /\ hasCapacity(lview[x])
  OBVIOUS
<1>5. f \in [A -> Int] /\ g \in [B -> Int]
  <2>1. \A x \in LlmWorkers : hasCapacity(lview[x]) => lview[x].load \in Nat
    BY DEF hasCapacity, LlmInv, LlmTypes, LlmViews
  <2>2. LlmCapacity \in Nat
    BY LlmAssumption
  <2>3. \A v : v.load \in Nat => localityBaseScore(v, TRUE) \in Int /\ localityBaseScore(v, FALSE) \in Int
    BY <2>2 DEF localityBaseScore
  <2>4. (\A x \in A : localityBaseScore(lview[x], TRUE) \in Int) /\ \A x \in B : localityBaseScore(lview[x], FALSE) \in Int
    <3>1. \A x \in A \cup B : lview[x].load \in Nat
      BY <1>4, <2>1
    <3> HIDE DEF A, B
    <3> QED  BY <2>3, <3>1
  <2> HIDE DEF A, B
  <2> QED  BY <2>4
<1>6. H.cached = {<<x, f[x]>> : x \in A} /\ H.cold = {<<x, g[x]>> : x \in B}
  <2>1. /\ H.cached = {<<x, localityBaseScore(lview[x], TRUE)>> : x \in A}
        /\ H.cold = {<<x, localityBaseScore(lview[x], FALSE)>> : x \in B}
    BY <1>2 DEF Seeded
  <2>2. (\A x \in A : f[x] = localityBaseScore(lview[x], TRUE)) /\ \A x \in B : g[x] = localityBaseScore(lview[x], FALSE)
    OBVIOUS
  <2> HIDE DEF A, B, f, g, H
  <2>3. H.cached = {<<x, f[x]>> : x \in A}
    BY <2>1, <2>2
  <2>4. H.cold = {<<x, g[x]>> : x \in B}
    BY <2>1, <2>2
  <2> QED  BY <2>3, <2>4
<1> HIDE DEF A, B, f, g, H
<1>7. Usable(H.cached) = H.cached /\ Usable(H.cold) = H.cold
  <2>1. (\A e \in H.cached : e[1] \in A) /\ \A e \in H.cold : e[1] \in B
    BY <1>6
  <2> QED  BY <1>4, <2>1 DEF Usable
<1>8. H.cached # {} => BestEntry(H.cached) \in A
  <2>1. H.cached # {} => A # {}
    BY <1>6
  <2>2. A # {} => BestEntry({<<x, f[x]>> : x \in A}) \in A
    BY <1>3, <1>5, BestEntryIn
  <2> QED  BY <1>6, <2>1, <2>2
<1>9. H.cold # {} => BestEntry(H.cold) \in B
  <2>1. H.cold # {} => B # {}
    BY <1>6
  <2>2. B # {} => BestEntry({<<x, g[x]>> : x \in B}) \in B
    BY <1>3, <1>5, BestEntryIn
  <2> QED  BY <1>6, <2>1, <2>2
<1> QED  BY <1>1, <1>4, <1>7, <1>8, <1>9 DEF PreferredLocalityWorker, MayPrefer

\* So do those of the predicted latency.
LEMMA PredictedPrefers ==
    ASSUME LlmInv, NEW m \in LlmModels, NEW waited \in BOOLEAN
    PROVE  MayPrefer(PreferredPredictedWorker(m, waited))
<1> DEFINE H == Seed(m, lview, pstats)
           B == {y \in LlmWorkers : hasCapacity(lview[y])}
           p(x) == predictedLatencyMs(m \in lview[x].cached, pstats[<<m, x>>])
           late(x, y) == Discount(m, x, waited) - y - 50 * lview[x].load
           f == [x \in B |-> late(x, p(x))]
           S == {<<e[1], late(e[1], e[2])>> : e \in Usable(Ensured(m).predicted)}
<1>1. Ensured(m) = H
  BY EnsuredExact DEF LlmInv
<1>2. H.predicted = {<<x, p(x)>> : x \in B}
  <2>1. Seeded(H, m, lview, pstats)
    BY SeedParts
  <2> QED  BY <2>1 DEF Seeded
<1>3. B \in SUBSET LlmWorkers /\ \A x \in B : x \in LlmWorkers /\ hasCapacity(lview[x])
  OBVIOUS
<1>4. f \in [B -> Int]
  <2> SUFFICES ASSUME NEW x \in B PROVE late(x, p(x)) \in Int
    OBVIOUS
  <2>1. lview[x].load \in Nat
    BY <1>3 DEF hasCapacity, LlmInv, LlmTypes, LlmViews
  <2>2. Discount(m, x, waited) \in Nat
    BY DEF Discount
  <2>3. pstats[<<m, x>>] \in LlmStatistics
    BY <1>3 DEF LlmInv, LlmTypes, Keys
  <2>4. \A st \in LlmStatistics : st.n \in Nat /\ st.total \in Nat /\ st.fetch \in Nat /\ st.evict \in Nat
    BY DEF LlmStatistics
  <2>5. \A st \in LlmStatistics : \A hit : predictedLatencyMs(hit, st) \in Int
    BY <2>4 DEF predictedLatencyMs
  <2>6. p(x) \in Int
    BY <2>3, <2>5
  <2> HIDE DEF p
  <2> QED  BY <2>1, <2>2, <2>6
<1>5. S = {<<x, f[x]>> : x \in B}
  <2>1. \A x \in B : f[x] = late(x, p(x))
    OBVIOUS
  <2> HIDE DEF B, f, p, late, H
  <2>2. \A e \in H.predicted : e[1] \in B /\ e[2] = p(e[1])
    BY <1>2
  <2>3. Usable(H.predicted) = H.predicted
    BY <1>3, <2>2 DEF Usable
  <2>4. \A x \in B : <<x, p(x)>> \in H.predicted
    BY <1>2
  <2>5. S = {<<e[1], late(e[1], e[2])>> : e \in H.predicted}
    BY <1>1, <2>3
  <2>6. \A z : z \in S => \E x \in B : z = <<x, f[x]>>
    BY <2>1, <2>2, <2>5
  <2>7. ASSUME NEW x \in B PROVE <<x, f[x]>> \in S
    <3> DEFINE e == <<x, p(x)>>
    <3>1. e \in H.predicted /\ e[1] = x /\ e[2] = p(x)
      BY <2>4
    <3>2. f[x] = late(e[1], e[2]) /\ x = e[1]
      BY <2>1, <3>1
    <3> HIDE DEF e, S
    <3> QED  BY <2>5, <3>1, <3>2
  <2> HIDE DEF S
  <2> QED  BY <2>6, <2>7
<1>6. S # {} => BestEntry(S) \in B
  <2> HIDE DEF B, f, S
  <2>1. S # {} => B # {}
    BY <1>5
  <2>2. B # {} => BestEntry({<<x, f[x]>> : x \in B}) \in B
    BY <1>3, <1>4, BestEntryIn
  <2> QED  BY <1>5, <2>1, <2>2
<1>7. PreferredPredictedWorker(m, waited) = IF S = {} THEN 0 ELSE BestEntry(S)
  BY DEF PreferredPredictedWorker
<1> HIDE DEF S, B
<1> QED  BY <1>3, <1>6, <1>7 DEF MayPrefer

\* SomeoneEligible holds in every reachable state: with the loads mirrored, a worker with
\* a free slot is turned away only for one that is taken in, under each of the policies
\* (canAssignTaskToWorker), whatever the scores.
THEOREM SomeoneEligibleHolds == LlmSpec => []SomeoneEligible
<1>1. LlmInv => SomeoneEligible
  <2> SUFFICES ASSUME LlmInv, request # NoRequest, \A w \in LlmWorkers : lview[w].load \in {-1, lwork[w].load},
                      NEW w \in LlmWorkers, hasCapacity(lview[w])
               PROVE  \E x \in LlmWorkers : lview[x] # NoView
                          /\ canAssignTaskToWorker(request.model, request.waited, x)
    BY DEF SomeoneEligible
  <2> DEFINE m == request.model
             q == request.waited
             p == IF llmPolicy = "PREDICTED_LATENCY" THEN PreferredPredictedWorker(m, q) ELSE PreferredLocalityWorker(m)
  <2>1. m \in LlmModels /\ q \in BOOLEAN
    BY DEF LlmInv, LlmTypes
  <2>2. ASSUME NEW x \in LlmWorkers, hasCapacity(lview[x]) PROVE lview[x] # NoView /\ lwork[x].load < LlmCapacity
    <3>1. lview[x] # NoView /\ lview[x] \in LlmViews /\ lview[x].load < LlmCapacity
      BY <2>2 DEF hasCapacity, LlmInv, LlmTypes
    <3>2. lview[x].load = lwork[x].load
      BY <3>1 DEF LlmViews
    <3> QED  BY <3>1, <3>2
  <2>3. MayPrefer(p)
    <3> HIDE DEF m, q
    <3> QED  BY <2>1, LocalityPrefers, PredictedPrefers
  <2>4. \A x \in LlmWorkers : lwork[x].load < LlmCapacity /\ p \in {0, x} => canAssignTaskToWorker(m, q, x)
    BY DEF canAssignTaskToWorker
  <2> HIDE DEF p, m, q
  <2>5. \E x \in LlmWorkers : lview[x] # NoView /\ canAssignTaskToWorker(m, q, x)
    BY <2>2, <2>3, <2>4 DEF MayPrefer
  <2> QED  BY <2>5 DEF m, q
<1> QED  BY <1>1, LlmInitInv, LlmNextInv, PTL DEF LlmSpec

-----------------------------------------------------------------------------
(* The step graph of a workflow.  Kahn's queue holds, once, every step     *)
(* whose remaining dependencies are all taken out, so a step it never      *)
(* reaches waits for another such step: a cycle.  The search for a back    *)
(* edge finds one exactly when there is a cycle.  At run time the counters *)
(* count the dependencies that have not succeeded.                         *)

\* The number of steps.
NSteps == Cardinality(DagSteps)

\* Keep takes one entry after the other.
KeepRuns(list, S) ==
    \E h : /\ h[0] = <<>> /\ Keep(list, S) = h[Len(list)]
           /\ \A i \in 1 .. Len(list) : h[i] = (IF list[i] \in S THEN Append(h[i - 1], list[i]) ELSE h[i - 1])
KeepStays(list, S) == \A x \in Seq(DagSteps) : \A i \in 1 .. Len(list) : (IF list[i] \in S THEN Append(x, list[i]) ELSE x) \in Seq(DagSteps)

LEMMA KeepSteps ==
    ASSUME NEW S, NEW list \in Seq(DagSteps), KeepStays(list, S)
    PROVE  KeepRuns(list, S)
<1> DEFINE n == Len(list)
           D == 1 .. n
           V == Seq(DagSteps)
           Run(g) == g = [s \in SUBSET D |-> IF s = {} THEN <<>> ELSE (IF list[Max(s)] \in S THEN Append(g[s \ {Max(s)}], list[Max(s)]) ELSE g[s \ {Max(s)}])]
           step == [p \in D \X V |-> (IF list[p[1]] \in S THEN Append(p[2], list[p[1]]) ELSE p[2])]
<1>1. n \in Nat /\ DOMAIN list = D
  OBVIOUS
<1>2. Keep(list, S) = (CHOOSE g : Run(g))[D]
  BY <1>1 DEF Keep, FoldLeft, MapThenFoldSet
<1>3. step \in [D \X V -> V]
  <2> SUFFICES ASSUME NEW p \in D \X V PROVE (IF list[p[1]] \in S THEN Append(p[2], list[p[1]]) ELSE p[2]) \in V
    OBVIOUS
  <2>1. p[1] \in D /\ p[2] \in V
    OBVIOUS
  <2> QED  BY <2>1 DEF KeepStays
<1>4. \E f \in [SUBSET D -> V] : FoldsLeft(f, n, <<>>, step)
  <2> HIDE DEF step, n
  <2>1. <<>> \in V
    OBVIOUS
  <2> HIDE DEF V
  <2> QED  BY <1>1, <1>3, <2>1, FoldLeftExists
<1>5. PICK f \in [SUBSET D -> V] : \A s \in SUBSET D :
          f[s] = IF s = {} THEN <<>> ELSE step[<<Max(s), f[s \ {Max(s)}]>>]
  BY <1>4 DEF FoldsLeft
<1>6. \A s \in SUBSET D : f[s] = IF s = {} THEN <<>> ELSE (IF list[Max(s)] \in S THEN Append(f[s \ {Max(s)}], list[Max(s)]) ELSE f[s \ {Max(s)}])
  <2> SUFFICES ASSUME NEW s \in SUBSET D, s # {} PROVE f[s] = (IF list[Max(s)] \in S THEN Append(f[s \ {Max(s)}], list[Max(s)]) ELSE f[s \ {Max(s)}])
    BY <1>5
  <2>1. Max(s) \in D /\ s \ {Max(s)} \in SUBSET D
    BY <1>1, MaxOfFinite
  <2> HIDE DEF V
  <2>2. <<Max(s), f[s \ {Max(s)}]>> \in D \X V
    BY <2>1
  <2>3. step[<<Max(s), f[s \ {Max(s)}]>>] = (IF list[Max(s)] \in S THEN Append(f[s \ {Max(s)}], list[Max(s)]) ELSE f[s \ {Max(s)}])
    BY <2>2
  <2> QED  BY <1>5, <2>3
<1>7. Run(f)
  BY <1>6
<1> HIDE DEF step, V
<1>8. PICK g : g = (CHOOSE x : Run(x)) /\ Run(g)
  <2> HIDE DEF Run
  <2> QED  BY <1>7
<1>9. g[{}] = <<>> /\ \A i \in D : g[1 .. i] = (IF list[i] \in S THEN Append(g[1 .. i - 1], list[i]) ELSE g[1 .. i - 1])
  <2>1. {} \in SUBSET D
    OBVIOUS
  <2>2. ASSUME NEW i \in D PROVE g[1 .. i] = (IF list[i] \in S THEN Append(g[1 .. i - 1], list[i]) ELSE g[1 .. i - 1])
    <3>1. 1 .. i \in SUBSET D /\ 1 .. i # {} /\ Max(1 .. i) = i /\ (1 .. i) \ {i} = 1 .. i - 1
      BY <1>1, MaxOfRange
    <3>2. \A s \in SUBSET D : s # {} => g[s] = (IF list[Max(s)] \in S THEN Append(g[s \ {Max(s)}], list[Max(s)]) ELSE g[s \ {Max(s)}])
      BY <1>8
    <3> HIDE DEF Run
    <3> QED  BY <3>1, <3>2
  <2> QED  BY <1>8, <2>1, <2>2
<1> DEFINE h == [i \in 0 .. n |-> g[1 .. i]]
<1>10. h[0] = <<>>
  <2>1. 1 .. 0 = {} /\ 0 \in 0 .. n
    BY <1>1
  <2> QED  BY <1>9, <2>1
<1>11. ASSUME NEW i \in D PROVE h[i] = (IF list[i] \in S THEN Append(h[i - 1], list[i]) ELSE h[i - 1])
  <2>1. i \in 0 .. n /\ i - 1 \in 0 .. n
    BY <1>1
  <2> QED  BY <1>9, <2>1
<1>12. Keep(list, S) = h[n]
  <2>1. h[n] = g[D]
    BY <1>1
  <2> HIDE DEF Run, h
  <2> QED  BY <1>2, <1>8, <2>1
<1> QED  BY <1>10, <1>11, <1>12 DEF KeepRuns

\* Outgoing takes one step after the other.
OutgoingRuns(s0) ==
    \E h : /\ h[0] = <<>> /\ Outgoing(s0) = h[Len(InOrder)]
           /\ \A i \in 1 .. Len(InOrder) : h[i] = (h[i - 1] \o [k \in 1 .. Occurrences(s0, dependsOn[InOrder[i]]) |-> InOrder[i]])
OutgoingStays(s0) == \A x \in Seq(DagSteps) : \A i \in 1 .. Len(InOrder) : (x \o [k \in 1 .. Occurrences(s0, dependsOn[InOrder[i]]) |-> InOrder[i]]) \in Seq(DagSteps)

LEMMA OutgoingSteps ==
    ASSUME NEW s0, InOrder \in Seq(DagSteps), OutgoingStays(s0)
    PROVE  OutgoingRuns(s0)
<1> DEFINE n == Len(InOrder)
           D == 1 .. n
           V == Seq(DagSteps)
           Run(g) == g = [s \in SUBSET D |-> IF s = {} THEN <<>> ELSE (g[s \ {Max(s)}] \o [k \in 1 .. Occurrences(s0, dependsOn[InOrder[Max(s)]]) |-> InOrder[Max(s)]])]
           step == [p \in D \X V |-> (p[2] \o [k \in 1 .. Occurrences(s0, dependsOn[InOrder[p[1]]]) |-> InOrder[p[1]]])]
<1>1. n \in Nat /\ DOMAIN InOrder = D
  OBVIOUS
<1>2. Outgoing(s0) = (CHOOSE g : Run(g))[D]
  BY <1>1 DEF Outgoing, FoldLeft, MapThenFoldSet
<1>3. step \in [D \X V -> V]
  <2> SUFFICES ASSUME NEW p \in D \X V PROVE (p[2] \o [k \in 1 .. Occurrences(s0, dependsOn[InOrder[p[1]]]) |-> InOrder[p[1]]]) \in V
    OBVIOUS
  <2>1. p[1] \in D /\ p[2] \in V
    OBVIOUS
  <2> QED  BY <2>1 DEF OutgoingStays
<1>4. \E f \in [SUBSET D -> V] : FoldsLeft(f, n, <<>>, step)
  <2> HIDE DEF step, n
  <2>1. <<>> \in V
    OBVIOUS
  <2> HIDE DEF V
  <2> QED  BY <1>1, <1>3, <2>1, FoldLeftExists
<1>5. PICK f \in [SUBSET D -> V] : \A s \in SUBSET D :
          f[s] = IF s = {} THEN <<>> ELSE step[<<Max(s), f[s \ {Max(s)}]>>]
  BY <1>4 DEF FoldsLeft
<1>6. \A s \in SUBSET D : f[s] = IF s = {} THEN <<>> ELSE (f[s \ {Max(s)}] \o [k \in 1 .. Occurrences(s0, dependsOn[InOrder[Max(s)]]) |-> InOrder[Max(s)]])
  <2> SUFFICES ASSUME NEW s \in SUBSET D, s # {} PROVE f[s] = (f[s \ {Max(s)}] \o [k \in 1 .. Occurrences(s0, dependsOn[InOrder[Max(s)]]) |-> InOrder[Max(s)]])
    BY <1>5
  <2>1. Max(s) \in D /\ s \ {Max(s)} \in SUBSET D
    BY <1>1, MaxOfFinite
  <2> HIDE DEF V
  <2>2. <<Max(s), f[s \ {Max(s)}]>> \in D \X V
    BY <2>1
  <2>3. step[<<Max(s), f[s \ {Max(s)}]>>] = (f[s \ {Max(s)}] \o [k \in 1 .. Occurrences(s0, dependsOn[InOrder[Max(s)]]) |-> InOrder[Max(s)]])
    BY <2>2
  <2> QED  BY <1>5, <2>3
<1>7. Run(f)
  BY <1>6
<1> HIDE DEF step, V
<1>8. PICK g : g = (CHOOSE x : Run(x)) /\ Run(g)
  <2> HIDE DEF Run
  <2> QED  BY <1>7
<1>9. g[{}] = <<>> /\ \A i \in D : g[1 .. i] = (g[1 .. i - 1] \o [k \in 1 .. Occurrences(s0, dependsOn[InOrder[i]]) |-> InOrder[i]])
  <2>1. {} \in SUBSET D
    OBVIOUS
  <2>2. ASSUME NEW i \in D PROVE g[1 .. i] = (g[1 .. i - 1] \o [k \in 1 .. Occurrences(s0, dependsOn[InOrder[i]]) |-> InOrder[i]])
    <3>1. 1 .. i \in SUBSET D /\ 1 .. i # {} /\ Max(1 .. i) = i /\ (1 .. i) \ {i} = 1 .. i - 1
      BY <1>1, MaxOfRange
    <3>2. \A s \in SUBSET D : s # {} => g[s] = (g[s \ {Max(s)}] \o [k \in 1 .. Occurrences(s0, dependsOn[InOrder[Max(s)]]) |-> InOrder[Max(s)]])
      BY <1>8
    <3> HIDE DEF Run
    <3> QED  BY <3>1, <3>2
  <2> QED  BY <1>8, <2>1, <2>2
<1> DEFINE h == [i \in 0 .. n |-> g[1 .. i]]
<1>10. h[0] = <<>>
  <2>1. 1 .. 0 = {} /\ 0 \in 0 .. n
    BY <1>1
  <2> QED  BY <1>9, <2>1
<1>11. ASSUME NEW i \in D PROVE h[i] = (h[i - 1] \o [k \in 1 .. Occurrences(s0, dependsOn[InOrder[i]]) |-> InOrder[i]])
  <2>1. i \in 0 .. n /\ i - 1 \in 0 .. n
    BY <1>1
  <2> QED  BY <1>9, <2>1
<1>12. Outgoing(s0) = h[n]
  <2>1. h[n] = g[D]
    BY <1>1
  <2> HIDE DEF Run, h
  <2> QED  BY <1>2, <1>8, <2>1
<1> QED  BY <1>10, <1>11, <1>12 DEF OutgoingRuns

\* The edges of a step go one by one.
LoseRuns(k0, q) ==
    \E h : /\ h[0] = k0 /\ FoldLeft(LoseEdge, k0, q) = h[Len(q)]
           /\ \A i \in 1 .. Len(q) : h[i] = LoseEdge(h[i - 1], q[i])
LoseStays(V0, q) == \A x \in V0 : \A i \in 1 .. Len(q) : LoseEdge(x, q[i]) \in V0

LEMMA LoseSteps ==
    ASSUME NEW V0, NEW k0 \in V0, NEW q \in Seq(DagSteps), LoseStays(V0, q)
    PROVE  LoseRuns(k0, q)
<1> DEFINE n == Len(q)
           D == 1 .. n
           V == V0
           Run(g) == g = [s \in SUBSET D |-> IF s = {} THEN k0 ELSE LoseEdge(g[s \ {Max(s)}], q[Max(s)])]
           step == [p \in D \X V |-> LoseEdge(p[2], q[p[1]])]
<1>1. n \in Nat /\ DOMAIN q = D
  OBVIOUS
<1>2. FoldLeft(LoseEdge, k0, q) = (CHOOSE g : Run(g))[D]
  BY <1>1 DEF FoldLeft, MapThenFoldSet
<1>3. step \in [D \X V -> V]
  <2> SUFFICES ASSUME NEW p \in D \X V PROVE LoseEdge(p[2], q[p[1]]) \in V
    OBVIOUS
  <2>1. p[1] \in D /\ p[2] \in V
    OBVIOUS
  <2> QED  BY <2>1 DEF LoseStays
<1>4. \E f \in [SUBSET D -> V] : FoldsLeft(f, n, k0, step)
  <2> HIDE DEF step, n
  <2>1. k0 \in V
    OBVIOUS
  <2> HIDE DEF V
  <2> QED  BY <1>1, <1>3, <2>1, FoldLeftExists
<1>5. PICK f \in [SUBSET D -> V] : \A s \in SUBSET D :
          f[s] = IF s = {} THEN k0 ELSE step[<<Max(s), f[s \ {Max(s)}]>>]
  BY <1>4 DEF FoldsLeft
<1>6. \A s \in SUBSET D : f[s] = IF s = {} THEN k0 ELSE LoseEdge(f[s \ {Max(s)}], q[Max(s)])
  <2> SUFFICES ASSUME NEW s \in SUBSET D, s # {} PROVE f[s] = LoseEdge(f[s \ {Max(s)}], q[Max(s)])
    BY <1>5
  <2>1. Max(s) \in D /\ s \ {Max(s)} \in SUBSET D
    BY <1>1, MaxOfFinite
  <2> HIDE DEF V
  <2>2. <<Max(s), f[s \ {Max(s)}]>> \in D \X V
    BY <2>1
  <2>3. step[<<Max(s), f[s \ {Max(s)}]>>] = LoseEdge(f[s \ {Max(s)}], q[Max(s)])
    BY <2>2
  <2> QED  BY <1>5, <2>3
<1>7. Run(f)
  BY <1>6
<1> HIDE DEF step, V
<1>8. PICK g : g = (CHOOSE x : Run(x)) /\ Run(g)
  <2> HIDE DEF Run
  <2> QED  BY <1>7
<1>9. g[{}] = k0 /\ \A i \in D : g[1 .. i] = LoseEdge(g[1 .. i - 1], q[i])
  <2>1. {} \in SUBSET D
    OBVIOUS
  <2>2. ASSUME NEW i \in D PROVE g[1 .. i] = LoseEdge(g[1 .. i - 1], q[i])
    <3>1. 1 .. i \in SUBSET D /\ 1 .. i # {} /\ Max(1 .. i) = i /\ (1 .. i) \ {i} = 1 .. i - 1
      BY <1>1, MaxOfRange
    <3>2. \A s \in SUBSET D : s # {} => g[s] = LoseEdge(g[s \ {Max(s)}], q[Max(s)])
      BY <1>8
    <3> HIDE DEF Run
    <3> QED  BY <3>1, <3>2
  <2> QED  BY <1>8, <2>1, <2>2
<1> DEFINE h == [i \in 0 .. n |-> g[1 .. i]]
<1>10. h[0] = k0
  <2>1. 1 .. 0 = {} /\ 0 \in 0 .. n
    BY <1>1
  <2> QED  BY <1>9, <2>1
<1>11. ASSUME NEW i \in D PROVE h[i] = LoseEdge(h[i - 1], q[i])
  <2>1. i \in 0 .. n /\ i - 1 \in 0 .. n
    BY <1>1
  <2> QED  BY <1>9, <2>1
<1>12. FoldLeft(LoseEdge, k0, q) = h[n]
  <2>1. h[n] = g[D]
    BY <1>1
  <2> HIDE DEF Run, h
  <2> QED  BY <1>2, <1>8, <2>1
<1> QED  BY <1>10, <1>11, <1>12 DEF LoseRuns

\* The queue is taken one step after the other.
VisitRuns ==
    \E h : /\ h[0] = Roots /\ FoldLeft(Visited, Roots, InOrder) = h[Len(InOrder)]
           /\ \A i \in 1 .. Len(InOrder) : h[i] = Visited(h[i - 1], InOrder[i])
VisitStays(V0) == \A x \in V0 : \A i \in 1 .. Len(InOrder) : Visited(x, InOrder[i]) \in V0

LEMMA VisitSteps ==
    ASSUME NEW V0, Roots \in V0, InOrder \in Seq(DagSteps), VisitStays(V0)
    PROVE  VisitRuns
<1> DEFINE n == Len(InOrder)
           D == 1 .. n
           V == V0
           Run(g) == g = [s \in SUBSET D |-> IF s = {} THEN Roots ELSE Visited(g[s \ {Max(s)}], InOrder[Max(s)])]
           step == [p \in D \X V |-> Visited(p[2], InOrder[p[1]])]
<1>1. n \in Nat /\ DOMAIN InOrder = D
  OBVIOUS
<1>2. FoldLeft(Visited, Roots, InOrder) = (CHOOSE g : Run(g))[D]
  BY <1>1 DEF FoldLeft, MapThenFoldSet
<1>3. step \in [D \X V -> V]
  <2> SUFFICES ASSUME NEW p \in D \X V PROVE Visited(p[2], InOrder[p[1]]) \in V
    OBVIOUS
  <2>1. p[1] \in D /\ p[2] \in V
    OBVIOUS
  <2> QED  BY <2>1 DEF VisitStays
<1>4. \E f \in [SUBSET D -> V] : FoldsLeft(f, n, Roots, step)
  <2> HIDE DEF step, n
  <2>1. Roots \in V
    OBVIOUS
  <2> HIDE DEF V
  <2> QED  BY <1>1, <1>3, <2>1, FoldLeftExists
<1>5. PICK f \in [SUBSET D -> V] : \A s \in SUBSET D :
          f[s] = IF s = {} THEN Roots ELSE step[<<Max(s), f[s \ {Max(s)}]>>]
  BY <1>4 DEF FoldsLeft
<1>6. \A s \in SUBSET D : f[s] = IF s = {} THEN Roots ELSE Visited(f[s \ {Max(s)}], InOrder[Max(s)])
  <2> SUFFICES ASSUME NEW s \in SUBSET D, s # {} PROVE f[s] = Visited(f[s \ {Max(s)}], InOrder[Max(s)])
    BY <1>5
  <2>1. Max(s) \in D /\ s \ {Max(s)} \in SUBSET D
    BY <1>1, MaxOfFinite
  <2> HIDE DEF V
  <2>2. <<Max(s), f[s \ {Max(s)}]>> \in D \X V
    BY <2>1
  <2>3. step[<<Max(s), f[s \ {Max(s)}]>>] = Visited(f[s \ {Max(s)}], InOrder[Max(s)])
    BY <2>2
  <2> QED  BY <1>5, <2>3
<1>7. Run(f)
  BY <1>6
<1> HIDE DEF step, V
<1>8. PICK g : g = (CHOOSE x : Run(x)) /\ Run(g)
  <2> HIDE DEF Run
  <2> QED  BY <1>7
<1>9. g[{}] = Roots /\ \A i \in D : g[1 .. i] = Visited(g[1 .. i - 1], InOrder[i])
  <2>1. {} \in SUBSET D
    OBVIOUS
  <2>2. ASSUME NEW i \in D PROVE g[1 .. i] = Visited(g[1 .. i - 1], InOrder[i])
    <3>1. 1 .. i \in SUBSET D /\ 1 .. i # {} /\ Max(1 .. i) = i /\ (1 .. i) \ {i} = 1 .. i - 1
      BY <1>1, MaxOfRange
    <3>2. \A s \in SUBSET D : s # {} => g[s] = Visited(g[s \ {Max(s)}], InOrder[Max(s)])
      BY <1>8
    <3> HIDE DEF Run
    <3> QED  BY <3>1, <3>2
  <2> QED  BY <1>8, <2>1, <2>2
<1> DEFINE h == [i \in 0 .. n |-> g[1 .. i]]
<1>10. h[0] = Roots
  <2>1. 1 .. 0 = {} /\ 0 \in 0 .. n
    BY <1>1
  <2> QED  BY <1>9, <2>1
<1>11. ASSUME NEW i \in D PROVE h[i] = Visited(h[i - 1], InOrder[i])
  <2>1. i \in 0 .. n /\ i - 1 \in 0 .. n
    BY <1>1
  <2> QED  BY <1>9, <2>1
<1>12. FoldLeft(Visited, Roots, InOrder) = h[n]
  <2>1. h[n] = g[D]
    BY <1>1
  <2> HIDE DEF Run, h
  <2> QED  BY <1>2, <1>8, <2>1
<1> QED  BY <1>10, <1>11, <1>12 DEF VisitRuns

\* The edges of a step that succeeded are released one by one.
ReleaseRuns(k0, q) ==
    \E h : /\ h[0] = k0 /\ FoldLeft(Released, k0, q) = h[Len(q)]
           /\ \A i \in 1 .. Len(q) : h[i] = Released(h[i - 1], q[i])
ReleaseStays(V0, q) == \A x \in V0 : \A i \in 1 .. Len(q) : Released(x, q[i]) \in V0

LEMMA ReleaseSteps ==
    ASSUME NEW V0, NEW k0 \in V0, NEW q \in Seq(DagSteps), ReleaseStays(V0, q)
    PROVE  ReleaseRuns(k0, q)
<1> DEFINE n == Len(q)
           D == 1 .. n
           V == V0
           Run(g) == g = [s \in SUBSET D |-> IF s = {} THEN k0 ELSE Released(g[s \ {Max(s)}], q[Max(s)])]
           step == [p \in D \X V |-> Released(p[2], q[p[1]])]
<1>1. n \in Nat /\ DOMAIN q = D
  OBVIOUS
<1>2. FoldLeft(Released, k0, q) = (CHOOSE g : Run(g))[D]
  BY <1>1 DEF FoldLeft, MapThenFoldSet
<1>3. step \in [D \X V -> V]
  <2> SUFFICES ASSUME NEW p \in D \X V PROVE Released(p[2], q[p[1]]) \in V
    OBVIOUS
  <2>1. p[1] \in D /\ p[2] \in V
    OBVIOUS
  <2> QED  BY <2>1 DEF ReleaseStays
<1>4. \E f \in [SUBSET D -> V] : FoldsLeft(f, n, k0, step)
  <2> HIDE DEF step, n
  <2>1. k0 \in V
    OBVIOUS
  <2> HIDE DEF V
  <2> QED  BY <1>1, <1>3, <2>1, FoldLeftExists
<1>5. PICK f \in [SUBSET D -> V] : \A s \in SUBSET D :
          f[s] = IF s = {} THEN k0 ELSE step[<<Max(s), f[s \ {Max(s)}]>>]
  BY <1>4 DEF FoldsLeft
<1>6. \A s \in SUBSET D : f[s] = IF s = {} THEN k0 ELSE Released(f[s \ {Max(s)}], q[Max(s)])
  <2> SUFFICES ASSUME NEW s \in SUBSET D, s # {} PROVE f[s] = Released(f[s \ {Max(s)}], q[Max(s)])
    BY <1>5
  <2>1. Max(s) \in D /\ s \ {Max(s)} \in SUBSET D
    BY <1>1, MaxOfFinite
  <2> HIDE DEF V
  <2>2. <<Max(s), f[s \ {Max(s)}]>> \in D \X V
    BY <2>1
  <2>3. step[<<Max(s), f[s \ {Max(s)}]>>] = Released(f[s \ {Max(s)}], q[Max(s)])
    BY <2>2
  <2> QED  BY <1>5, <2>3
<1>7. Run(f)
  BY <1>6
<1> HIDE DEF step, V
<1>8. PICK g : g = (CHOOSE x : Run(x)) /\ Run(g)
  <2> HIDE DEF Run
  <2> QED  BY <1>7
<1>9. g[{}] = k0 /\ \A i \in D : g[1 .. i] = Released(g[1 .. i - 1], q[i])
  <2>1. {} \in SUBSET D
    OBVIOUS
  <2>2. ASSUME NEW i \in D PROVE g[1 .. i] = Released(g[1 .. i - 1], q[i])
    <3>1. 1 .. i \in SUBSET D /\ 1 .. i # {} /\ Max(1 .. i) = i /\ (1 .. i) \ {i} = 1 .. i - 1
      BY <1>1, MaxOfRange
    <3>2. \A s \in SUBSET D : s # {} => g[s] = Released(g[s \ {Max(s)}], q[Max(s)])
      BY <1>8
    <3> HIDE DEF Run
    <3> QED  BY <3>1, <3>2
  <2> QED  BY <1>8, <2>1, <2>2
<1> DEFINE h == [i \in 0 .. n |-> g[1 .. i]]
<1>10. h[0] = k0
  <2>1. 1 .. 0 = {} /\ 0 \in 0 .. n
    BY <1>1
  <2> QED  BY <1>9, <2>1
<1>11. ASSUME NEW i \in D PROVE h[i] = Released(h[i - 1], q[i])
  <2>1. i \in 0 .. n /\ i - 1 \in 0 .. n
    BY <1>1
  <2> QED  BY <1>9, <2>1
<1>12. FoldLeft(Released, k0, q) = h[n]
  <2>1. h[n] = g[D]
    BY <1>1
  <2> HIDE DEF Run, h
  <2> QED  BY <1>2, <1>8, <2>1
<1> QED  BY <1>10, <1>11, <1>12 DEF ReleaseRuns

\* Failed steps are put back one by one.
RetryRuns(k0, q) ==
    \E h : /\ h[0] = k0 /\ FoldLeft(Retried, k0, q) = h[Len(q)]
           /\ \A i \in 1 .. Len(q) : h[i] = Retried(h[i - 1], q[i])
RetryStays(V0, q) == \A x \in V0 : \A i \in 1 .. Len(q) : Retried(x, q[i]) \in V0

LEMMA RetrySteps ==
    ASSUME NEW V0, NEW k0 \in V0, NEW q \in Seq(DagSteps), RetryStays(V0, q)
    PROVE  RetryRuns(k0, q)
<1> DEFINE n == Len(q)
           D == 1 .. n
           V == V0
           Run(g) == g = [s \in SUBSET D |-> IF s = {} THEN k0 ELSE Retried(g[s \ {Max(s)}], q[Max(s)])]
           step == [p \in D \X V |-> Retried(p[2], q[p[1]])]
<1>1. n \in Nat /\ DOMAIN q = D
  OBVIOUS
<1>2. FoldLeft(Retried, k0, q) = (CHOOSE g : Run(g))[D]
  BY <1>1 DEF FoldLeft, MapThenFoldSet
<1>3. step \in [D \X V -> V]
  <2> SUFFICES ASSUME NEW p \in D \X V PROVE Retried(p[2], q[p[1]]) \in V
    OBVIOUS
  <2>1. p[1] \in D /\ p[2] \in V
    OBVIOUS
  <2> QED  BY <2>1 DEF RetryStays
<1>4. \E f \in [SUBSET D -> V] : FoldsLeft(f, n, k0, step)
  <2> HIDE DEF step, n
  <2>1. k0 \in V
    OBVIOUS
  <2> HIDE DEF V
  <2> QED  BY <1>1, <1>3, <2>1, FoldLeftExists
<1>5. PICK f \in [SUBSET D -> V] : \A s \in SUBSET D :
          f[s] = IF s = {} THEN k0 ELSE step[<<Max(s), f[s \ {Max(s)}]>>]
  BY <1>4 DEF FoldsLeft
<1>6. \A s \in SUBSET D : f[s] = IF s = {} THEN k0 ELSE Retried(f[s \ {Max(s)}], q[Max(s)])
  <2> SUFFICES ASSUME NEW s \in SUBSET D, s # {} PROVE f[s] = Retried(f[s \ {Max(s)}], q[Max(s)])
    BY <1>5
  <2>1. Max(s) \in D /\ s \ {Max(s)} \in SUBSET D
    BY <1>1, MaxOfFinite
  <2> HIDE DEF V
  <2>2. <<Max(s), f[s \ {Max(s)}]>> \in D \X V
    BY <2>1
  <2>3. step[<<Max(s), f[s \ {Max(s)}]>>] = Retried(f[s \ {Max(s)}], q[Max(s)])
    BY <2>2
  <2> QED  BY <1>5, <2>3
<1>7. Run(f)
  BY <1>6
<1> HIDE DEF step, V
<1>8. PICK g : g = (CHOOSE x : Run(x)) /\ Run(g)
  <2> HIDE DEF Run
  <2> QED  BY <1>7
<1>9. g[{}] = k0 /\ \A i \in D : g[1 .. i] = Retried(g[1 .. i - 1], q[i])
  <2>1. {} \in SUBSET D
    OBVIOUS
  <2>2. ASSUME NEW i \in D PROVE g[1 .. i] = Retried(g[1 .. i - 1], q[i])
    <3>1. 1 .. i \in SUBSET D /\ 1 .. i # {} /\ Max(1 .. i) = i /\ (1 .. i) \ {i} = 1 .. i - 1
      BY <1>1, MaxOfRange
    <3>2. \A s \in SUBSET D : s # {} => g[s] = Retried(g[s \ {Max(s)}], q[Max(s)])
      BY <1>8
    <3> HIDE DEF Run
    <3> QED  BY <3>1, <3>2
  <2> QED  BY <1>8, <2>1, <2>2
<1> DEFINE h == [i \in 0 .. n |-> g[1 .. i]]
<1>10. h[0] = k0
  <2>1. 1 .. 0 = {} /\ 0 \in 0 .. n
    BY <1>1
  <2> QED  BY <1>9, <2>1
<1>11. ASSUME NEW i \in D PROVE h[i] = Retried(h[i - 1], q[i])
  <2>1. i \in 0 .. n /\ i - 1 \in 0 .. n
    BY <1>1
  <2> QED  BY <1>9, <2>1
<1>12. FoldLeft(Retried, k0, q) = h[n]
  <2>1. h[n] = g[D]
    BY <1>1
  <2> HIDE DEF Run, h
  <2> QED  BY <1>2, <1>8, <2>1
<1> QED  BY <1>10, <1>11, <1>12 DEF RetryRuns

-----------------------------------------------------------------------------
(* Lists of steps. *)

\* Step x is in list q; no step is in it twice.
Listed(x, q) == \E k \in 1 .. Len(q) : q[k] = x
NoTwice(q) == \A i, j \in 1 .. Len(q) : q[i] = q[j] => i = j

\* The positions up to n at which list q has step x.
Places(x, q, n) == {k \in 1 .. n : q[k] = x}

\* The number of steps is a number, and their order is a list of them.
LEMMA StepsFacts ==
    /\ NSteps \in Nat /\ IsFiniteSet(DagSteps) /\ DagSteps = 1 .. NSteps
    /\ InOrder \in Seq(DagSteps) /\ Len(InOrder) = NSteps /\ \A i \in 1 .. NSteps : InOrder[i] = i
<1>1. NSteps \in Nat /\ IsFiniteSet(DagSteps) /\ DagSteps = 1 .. NSteps
  BY DagAssumption, FS_CardinalityType DEF NSteps
<1>2. InOrder = [i \in 1 .. NSteps |-> i]
  BY DEF InOrder, NSteps
<1> QED  BY <1>1, <1>2

\* One more entry at the end of a list.
LEMMA AppendFacts ==
    ASSUME NEW q \in Seq(DagSteps), NEW x \in DagSteps
    PROVE  /\ Append(q, x) \in Seq(DagSteps)
           /\ \A y : Listed(y, Append(q, x)) <=> Listed(y, q) \/ y = x
           /\ NoTwice(q) /\ ~Listed(x, q) => NoTwice(Append(q, x))
<1> DEFINE n == Len(q)
           r == Append(q, x)
<1>1. n \in Nat /\ r \in Seq(DagSteps) /\ Len(r) = n + 1 /\ r[n + 1] = x /\ \A k \in 1 .. n : r[k] = q[k]
  OBVIOUS
<1> HIDE DEF r, n
<1>2. 1 .. n + 1 = (1 .. n) \cup {n + 1} /\ n + 1 \notin 1 .. n
  BY <1>1
<1>3. \A y : Listed(y, r) <=> Listed(y, q) \/ y = x
  BY <1>1, <1>2 DEF Listed, n
<1>4. NoTwice(q) /\ ~Listed(x, q) => NoTwice(r)
  <2> SUFFICES ASSUME NoTwice(q), ~Listed(x, q), NEW i \in 1 .. n + 1, NEW j \in 1 .. n + 1, r[i] = r[j]
               PROVE  i = j
    BY <1>1 DEF NoTwice
  <2>1. \A k \in 1 .. n : q[k] # x
    BY DEF Listed, n
  <2>2. CASE i \in 1 .. n /\ j \in 1 .. n
    BY <1>1, <2>2 DEF NoTwice, n
  <2>3. CASE i = n + 1 \/ j = n + 1
    BY <1>1, <1>2, <2>1, <2>3
  <2> QED  BY <1>2, <2>2, <2>3
<1> QED  BY <1>1, <1>3, <1>4 DEF r

\* What Keep keeps.
LEMMA KeepFacts ==
    ASSUME NEW list \in Seq(DagSteps), NEW S
    PROVE  /\ Keep(list, S) \in Seq(DagSteps)
           /\ \A x : Listed(x, Keep(list, S)) <=> x \in S /\ Listed(x, list)
           /\ NoTwice(list) => NoTwice(Keep(list, S))
<1> DEFINE n == Len(list)
<1>1. n \in Nat /\ \A i \in 1 .. n : list[i] \in DagSteps
  OBVIOUS
<1>2. KeepRuns(list, S)
  <2>1. KeepStays(list, S)
    BY <1>1, AppendFacts DEF KeepStays
  <2> QED  BY <2>1, KeepSteps
<1>3. PICK h : /\ h[0] = <<>> /\ \A i \in 1 .. n : h[i] = (IF list[i] \in S THEN Append(h[i - 1], list[i]) ELSE h[i - 1])
               /\ Keep(list, S) = h[n]
  BY <1>2 DEF KeepRuns
<1> DEFINE Seen(i) == {list[k] : k \in 1 .. i}
           P == {i \in 0 .. n : /\ h[i] \in Seq(DagSteps) /\ \A x : Listed(x, h[i]) <=> x \in S /\ x \in Seen(i)
                                /\ NoTwice(list) => NoTwice(h[i])}
<1>4. 0 \in P
  <2>1. 0 \in 0 .. n /\ <<>> \in Seq(DagSteps) /\ Len(<<>>) = 0 /\ 1 .. 0 = {}
    BY <1>1
  <2>2. (\A x : ~Listed(x, <<>>)) /\ NoTwice(<<>>)
    BY <2>1 DEF Listed, NoTwice
  <2>3. Seen(0) = {}
    BY <2>1
  <2> QED  BY <1>3, <2>1, <2>2, <2>3
<1>5. ASSUME NEW i \in 0 .. n - 1, i \in P PROVE i + 1 \in P
  <2> DEFINE y == list[i + 1]
             q == h[i]
  <2>1. i + 1 \in 1 .. n /\ i + 1 \in 0 .. n /\ (i + 1) - 1 = i /\ 1 .. i + 1 = (1 .. i) \cup {i + 1} /\ i + 1 \notin 1 .. i
    BY <1>1
  <2>2. y \in DagSteps
    BY <1>1, <2>1
  <2>3. q \in Seq(DagSteps) /\ (\A x : Listed(x, q) <=> x \in S /\ x \in Seen(i)) /\ (NoTwice(list) => NoTwice(q))
    BY <1>5
  <2>4. h[i + 1] = IF y \in S THEN Append(q, y) ELSE q
    BY <1>3, <2>1
  <2>5. Seen(i + 1) = Seen(i) \cup {y}
    BY <2>1
  <2>6. NoTwice(list) => y \notin Seen(i)
    <3> SUFFICES ASSUME NoTwice(list), NEW k \in 1 .. i, list[k] = list[i + 1] PROVE FALSE
      OBVIOUS
    <3>1. k \in 1 .. n
      BY <1>1
    <3> QED  BY <2>1, <3>1 DEF NoTwice
  <2> HIDE DEF y, q, Seen
  <2>7. CASE y \in S
    <3>1. /\ Append(q, y) \in Seq(DagSteps) /\ \A x : Listed(x, Append(q, y)) <=> Listed(x, q) \/ x = y
          /\ NoTwice(q) /\ ~Listed(y, q) => NoTwice(Append(q, y))
      BY <2>2, <2>3, AppendFacts
    <3> QED  BY <2>1, <2>3, <2>4, <2>5, <2>6, <2>7, <3>1
  <2>8. CASE y \notin S
    BY <2>1, <2>3, <2>4, <2>5, <2>8
  <2> QED  BY <2>7, <2>8
<1>6. n \in P
  <2>1. \A i \in 0 .. n - 1 : i \in P => i + 1 \in P
    BY <1>5
  <2>2. n \in 0 .. n
    BY <1>1
  <2> HIDE DEF P, n
  <2>3. \A i \in 0 .. n : i \in P
    BY <1>1, <1>4, <2>1, StepsTo
  <2> QED  BY <2>2, <2>3
<1>7. \A x : x \in Seen(n) <=> Listed(x, list)
  BY DEF Listed
<1> HIDE DEF Seen
<1> QED  BY <1>3, <1>6, <1>7

\* The places of a step in a list grow by the next entry.
LEMMA PlacesGrow ==
    ASSUME NEW x, NEW q, NEW n \in Nat
    PROVE  /\ IsFiniteSet(Places(x, q, n)) /\ Cardinality(Places(x, q, n)) \in Nat
           /\ Cardinality(Places(x, q, n + 1)) = Cardinality(Places(x, q, n)) + (IF q[n + 1] = x THEN 1 ELSE 0)
           /\ Cardinality(Places(x, q, 0)) = 0
<1>1. 1 .. n + 1 = (1 .. n) \cup {n + 1} /\ n + 1 \notin 1 .. n /\ 1 .. 0 = {}
  OBVIOUS
<1>2. IsFiniteSet(Places(x, q, n)) /\ Cardinality(Places(x, q, n)) \in Nat
  <2>1. Places(x, q, n) \subseteq 1 .. n
    BY DEF Places
  <2>2. IsFiniteSet(1 .. n)
    BY FS_Interval
  <2> QED  BY <2>1, <2>2, FS_Subset, FS_CardinalityType
<1>0. Cardinality(Places(x, q, 0)) = 0
  <2>1. Places(x, q, 0) = {}
    BY <1>1 DEF Places
  <2> QED  BY <2>1, FS_EmptySet
<1>3. CASE q[n + 1] = x
  <2>1. Places(x, q, n + 1) = Places(x, q, n) \cup {n + 1} /\ n + 1 \notin Places(x, q, n)
    BY <1>1, <1>3 DEF Places
  <2>2. Cardinality(Places(x, q, n + 1)) = Cardinality(Places(x, q, n)) + 1
    BY <1>2, <2>1, FS_AddElement
  <2> QED  BY <1>0, <1>2, <1>3, <2>2
<1>4. CASE q[n + 1] # x
  <2>1. Places(x, q, n + 1) = Places(x, q, n)
    BY <1>1, <1>4 DEF Places
  <2> QED  BY <1>0, <1>2, <1>4, <2>1
<1> QED  BY <1>3, <1>4

-----------------------------------------------------------------------------
(* Edges and counts. *)

\* The dependencies of every step are a list of steps.
GoodGraph == dependsOn \in [DagSteps -> Seq(DagSteps)]

\* The dependencies of step t outside D, each as often as it is declared.
Waits(t, D) == {k \in DOMAIN dependsOn[t] : dependsOn[t][k] \notin D}
Left(t, D) == Cardinality(Waits(t, D))

\* A step has as many places in its successor's edges as it is declared there.
EdgesOf(s, q) == \A t \in DagSteps : Cardinality(Places(t, q, Len(q))) = Occurrences(s, dependsOn[t])

\* The counts are numbers; a step that waits for nothing has all it depends on.
LEMMA LeftFacts ==
    ASSUME GoodGraph, NEW t \in DagSteps, NEW D
    PROVE  /\ dependsOn[t] \in Seq(DagSteps) /\ IsFiniteSet(Waits(t, D)) /\ Left(t, D) \in Nat
           /\ Left(t, D) = 0 <=> \A k \in DOMAIN dependsOn[t] : dependsOn[t][k] \in D
<1>1. dependsOn[t] \in Seq(DagSteps)
  BY DEF GoodGraph
<1>2. DOMAIN dependsOn[t] = 1 .. Len(dependsOn[t]) /\ Len(dependsOn[t]) \in Nat
  BY <1>1
<1>3. IsFiniteSet(DOMAIN dependsOn[t]) /\ Waits(t, D) \in SUBSET DOMAIN dependsOn[t]
  BY <1>2, FS_Interval DEF Waits
<1>4. IsFiniteSet(Waits(t, D))
  BY <1>3, FS_Subset
<1>5. Left(t, D) \in Nat /\ (Left(t, D) = 0 <=> Waits(t, D) = {})
  BY <1>4, FS_CardinalityType, FS_EmptySet DEF Left
<1>6. Waits(t, D) = {} <=> \A k \in DOMAIN dependsOn[t] : dependsOn[t][k] \in D
  BY DEF Waits
<1> QED  BY <1>1, <1>4, <1>5, <1>6

\* When a step joins D, a step that depends on it waits for that many less.
LEMMA LeftDrops ==
    ASSUME GoodGraph, NEW t \in DagSteps, NEW D, NEW s, s \notin D
    PROVE  /\ Occurrences(s, dependsOn[t]) \in Nat
           /\ Left(t, D \cup {s}) = Left(t, D) - Occurrences(s, dependsOn[t])
<1> DEFINE O == {k \in DOMAIN dependsOn[t] : dependsOn[t][k] = s}
           A == Waits(t, D \cup {s})
           B == Waits(t, D)
<1>1. IsFiniteSet(A) /\ IsFiniteSet(B)
  BY LeftFacts
<1>2. B = A \cup O /\ A \cap O = {} /\ O \in SUBSET B
  BY DEF Waits
<1>3. IsFiniteSet(O)
  BY <1>1, <1>2, FS_Subset
<1>4. Cardinality(A) \in Nat /\ Cardinality(O) \in Nat
  BY <1>1, <1>3, FS_CardinalityType
<1>5. Cardinality(B) = Cardinality(A) + Cardinality(O)
  <2>1. Cardinality(A \cup O) = Cardinality(A) + Cardinality(O) - Cardinality(A \cap O)
    BY <1>1, <1>3, FS_Union
  <2>2. Cardinality({}) = 0
    BY FS_EmptySet
  <2>3. Cardinality(A \cap O) = 0 /\ Cardinality(B) = Cardinality(A \cup O)
    BY <1>2, <2>2
  <2> HIDE DEF A, B, O
  <2> QED  BY <1>4, <2>1, <2>3
<1>6. Occurrences(s, dependsOn[t]) = Cardinality(O) /\ Left(t, D) = Cardinality(B) /\ Left(t, D \cup {s}) = Cardinality(A)
  BY DEF Occurrences, Left
<1> HIDE DEF A, B, O
<1> QED  BY <1>4, <1>5, <1>6

\* A block of m copies of x at the end of a list.
LEMMA BlockPlaces ==
    ASSUME NEW q \in Seq(DagSteps), NEW x \in DagSteps, NEW m \in Nat
    PROVE  LET r == q \o [k \in 1 .. m |-> x] IN
           /\ r \in Seq(DagSteps)
           /\ \A t \in DagSteps : Cardinality(Places(t, r, Len(r))) =
                Cardinality(Places(t, q, Len(q))) + (IF t = x THEN m ELSE 0)
<1> DEFINE b == [k \in 1 .. m |-> x]
           r == q \o b
           n == Len(q)
<1>1. b \in Seq(DagSteps) /\ Len(b) = m /\ n \in Nat
  OBVIOUS
<1>2. /\ r \in Seq(DagSteps) /\ Len(r) = n + m
      /\ \A i \in 1 .. n : r[i] = q[i]
      /\ \A i \in n + 1 .. n + m : r[i] = x
  <2>1. r \in Seq(DagSteps) /\ Len(r) = n + m /\ \A i \in 1 .. n : r[i] = q[i]
    BY <1>1
  <2>2. ASSUME NEW i \in n + 1 .. n + m PROVE r[i] = x
    <3>1. i - n \in 1 .. m /\ i \in 1 .. Len(q) + Len(b) /\ ~(i <= Len(q))
      BY <1>1
    <3> QED  BY <1>1, <3>1
  <2> QED  BY <2>1, <2>2
<1> HIDE DEF r, b
<1>3. 1 .. n + m = (1 .. n) \cup (n + 1 .. n + m) /\ (1 .. n) \cap (n + 1 .. n + m) = {}
  BY <1>1
<1>4. ASSUME NEW t \in DagSteps
      PROVE  Cardinality(Places(t, r, n + m)) = Cardinality(Places(t, q, n)) + (IF t = x THEN m ELSE 0)
  <2> DEFINE A == Places(t, q, n)
             B == n + 1 .. n + m
  <2>1. IsFiniteSet(A) /\ Cardinality(A) \in Nat
    BY <1>1, PlacesGrow
  <2>2. CASE t = x
    <3>1. Places(t, r, n + m) = A \cup B /\ A \cap B = {}
      BY <1>2, <1>3, <2>2 DEF Places
    <3>2. IsFiniteSet(B) /\ Cardinality(B) = m
      <4>0. n + 1 \in Int /\ n + m \in Int
        BY <1>1
      <4> HIDE DEF n
      <4>1. IsFiniteSet(B) /\ Cardinality(B) = IF n + 1 > n + m THEN 0 ELSE (n + m) - (n + 1) + 1
        BY <4>0, FS_Interval
      <4> QED  BY <1>1, <4>1
    <3>3. Cardinality(A \cup B) = Cardinality(A) + Cardinality(B) - Cardinality(A \cap B)
      BY <2>1, <3>2, FS_Union
    <3>4. Cardinality({}) = 0
      BY FS_EmptySet
    <3>5. Cardinality(A \cap B) = 0 /\ Cardinality(Places(t, r, n + m)) = Cardinality(A \cup B)
      BY <3>1, <3>4
    <3>6. Cardinality(Places(t, r, n + m)) = Cardinality(A) + m
      <4> HIDE DEF A, B
      <4> QED  BY <2>1, <3>2, <3>3, <3>5
    <3> QED  BY <2>2, <3>6
  <2>3. CASE t # x
    <3>1. Places(t, r, n + m) = A
      BY <1>2, <1>3, <2>3 DEF Places
    <3>2. Cardinality(Places(t, r, n + m)) = Cardinality(A) /\ Cardinality(A) = Cardinality(A) + 0
      BY <2>1, <3>1
    <3> QED  BY <2>3, <3>2
  <2> QED  BY <2>2, <2>3
<1> QED  BY <1>2, <1>4 DEF r, b

\* Outgoing has one entry per dependency on s.
LEMMA OutgoingFacts ==
    ASSUME GoodGraph, NEW s \in DagSteps
    PROVE  Outgoing(s) \in Seq(DagSteps) /\ EdgesOf(s, Outgoing(s))
<1> DEFINE N == NSteps
           Occ(t) == Occurrences(s, dependsOn[t])
<1>1. N \in Nat /\ InOrder \in Seq(DagSteps) /\ Len(InOrder) = N /\ DagSteps = 1 .. N /\ \A i \in 1 .. N : InOrder[i] = i
  BY StepsFacts
<1>2. \A t \in DagSteps : Occ(t) \in Nat
  <2>1. s \notin {}
    OBVIOUS
  <2> QED  BY <2>1, LeftDrops
<1>3. OutgoingRuns(s)
  <2>1. OutgoingStays(s)
    <3> SUFFICES ASSUME NEW x \in Seq(DagSteps), NEW i \in 1 .. N
                 PROVE  (x \o [k \in 1 .. Occurrences(s, dependsOn[InOrder[i]]) |-> InOrder[i]]) \in Seq(DagSteps)
      BY <1>1 DEF OutgoingStays
    <3>1. InOrder[i] \in DagSteps /\ Occurrences(s, dependsOn[InOrder[i]]) \in Nat
      BY <1>1, <1>2
    <3> QED  BY <3>1, BlockPlaces
  <2> QED  BY <1>1, <2>1, OutgoingSteps
<1>4. PICK h : /\ h[0] = <<>> /\ Outgoing(s) = h[N]
               /\ \A i \in 1 .. N : h[i] = (h[i - 1] \o [k \in 1 .. Occurrences(s, dependsOn[InOrder[i]]) |-> InOrder[i]])
  BY <1>1, <1>3 DEF OutgoingRuns
<1>5. \A i \in 1 .. N : h[i] = h[i - 1] \o [k \in 1 .. Occ(i) |-> i]
  BY <1>1, <1>4
<1> DEFINE P == {i \in 0 .. N : /\ h[i] \in Seq(DagSteps)
                                /\ \A t \in DagSteps : Cardinality(Places(t, h[i], Len(h[i]))) = IF t <= i THEN Occ(t) ELSE 0}
<1>6. 0 \in P
  <2>1. 0 \in 0 .. N /\ <<>> \in Seq(DagSteps) /\ Len(<<>>) = 0
    BY <1>1
  <2>2. ASSUME NEW t \in DagSteps PROVE Cardinality(Places(t, <<>>, 0)) = 0 /\ ~(t <= 0)
    <3>1. 0 \in Nat
      OBVIOUS
    <3> QED  BY <1>1, <3>1, PlacesGrow
  <2> HIDE DEF Occ
  <2> QED  BY <1>4, <2>1, <2>2
<1>7. ASSUME NEW i \in 0 .. N - 1, i \in P PROVE i + 1 \in P
  <2> DEFINE x == i + 1
             q == h[i]
  <2>1. x \in DagSteps /\ x \in 1 .. N /\ x \in 0 .. N /\ x - 1 = i
    BY <1>1
  <2>2. q \in Seq(DagSteps) /\ \A t \in DagSteps : Cardinality(Places(t, q, Len(q))) = IF t <= i THEN Occ(t) ELSE 0
    BY <1>7
  <2>3. h[x] = q \o [k \in 1 .. Occ(x) |-> x]
    BY <1>5, <2>1
  <2>4. Occ(x) \in Nat
    BY <1>2, <2>1
  <2> HIDE DEF q, Occ
  <2>5. h[x] \in Seq(DagSteps) /\ \A t \in DagSteps : Cardinality(Places(t, h[x], Len(h[x]))) =
                Cardinality(Places(t, q, Len(q))) + (IF t = x THEN Occ(x) ELSE 0)
    <3> HIDE DEF x
    <3>1. LET r == q \o [k \in 1 .. Occ(x) |-> x] IN
          /\ r \in Seq(DagSteps)
          /\ \A t \in DagSteps : Cardinality(Places(t, r, Len(r))) =
                Cardinality(Places(t, q, Len(q))) + (IF t = x THEN Occ(x) ELSE 0)
      BY <2>1, <2>2, <2>4, BlockPlaces
    <3> QED  BY <2>3, <3>1
  <2>6. ASSUME NEW t \in DagSteps PROVE Cardinality(Places(t, h[x], Len(h[x]))) = IF t <= x THEN Occ(t) ELSE 0
    <3>1. t \in Int /\ i \in Int /\ Occ(t) \in Nat
      BY <1>1, <1>2
    <3>2. Cardinality(Places(t, h[x], Len(h[x]))) = (IF t <= i THEN Occ(t) ELSE 0) + (IF t = x THEN Occ(x) ELSE 0)
      BY <2>2, <2>5
    <3> QED  BY <3>1, <3>2
  <2> HIDE DEF x
  <2>7. x \in P
    BY <2>1, <2>5, <2>6
  <2> QED  BY <2>7 DEF x
<1>8. N \in P
  <2>1. \A i \in 0 .. N - 1 : i \in P => i + 1 \in P
    BY <1>7
  <2>2. N \in 0 .. N
    BY <1>1
  <2> HIDE DEF P, N
  <2>3. \A i \in 0 .. N : i \in P
    BY <1>1, <1>6, <2>1, StepsTo
  <2> QED  BY <2>2, <2>3
<1>9. \A t \in DagSteps : t <= N
  BY <1>1
<1> QED  BY <1>4, <1>8, <1>9 DEF EdgesOf

-----------------------------------------------------------------------------
(* Kahn's algorithm. *)

\* A queue of steps and the dependencies each step still has.
Kahns == [queue : Seq(DagSteps), indegree : [DagSteps -> Int]]

\* A step is queued, once, as soon as it has no dependency left.
Queued(k) ==
    /\ k \in Kahns /\ NoTwice(k.queue)
    /\ \A t \in DagSteps : k.indegree[t] \in Nat /\ (Listed(t, k.queue) <=> k.indegree[t] = 0)

\* Queue q with more entries behind it.
Grown(q, r) == Len(q) <= Len(r) /\ \A p \in 1 .. Len(q) : r[p] = q[p]

\* What is left of a step's edges to lose.
LoseFrom(k, q, j, r) ==
    /\ Queued(r) /\ Grown(k.queue, r.queue)
    /\ \A t \in DagSteps : r.indegree[t] = k.indegree[t] - Cardinality(Places(t, q, j))

\* One edge less.
LEMMA LoseIn ==
    ASSUME NEW k \in Kahns, NEW t \in DagSteps
    PROVE  /\ LoseEdge(k, t) \in Kahns
           /\ LoseEdge(k, t).queue = IF k.indegree[t] - 1 = 0 THEN Append(k.queue, t) ELSE k.queue
           /\ LoseEdge(k, t).indegree = [k.indegree EXCEPT ![t] = k.indegree[t] - 1]
<1> DEFINE q == IF k.indegree[t] - 1 = 0 THEN Append(k.queue, t) ELSE k.queue
           d == [k.indegree EXCEPT ![t] = k.indegree[t] - 1]
<1>1. k.queue \in Seq(DagSteps) /\ k.indegree \in [DagSteps -> Int]
  BY DEF Kahns
<1>2. q \in Seq(DagSteps) /\ d \in [DagSteps -> Int]
  BY <1>1
<1>3. LoseEdge(k, t) = [queue |-> q, indegree |-> d]
  BY DEF LoseEdge
<1> HIDE DEF q, d
<1>4. LoseEdge(k, t) \in Kahns /\ LoseEdge(k, t).queue = q /\ LoseEdge(k, t).indegree = d
  BY <1>2, <1>3 DEF Kahns
<1> QED  BY <1>4 DEF q, d

\* Grown queues grow further.
LEMMA GrownOn ==
    ASSUME NEW q \in Seq(DagSteps), NEW r \in Seq(DagSteps), Grown(q, r), NEW x \in DagSteps
    PROVE  Grown(q, Append(r, x)) /\ Grown(q, q)
<1> DEFINE a == Append(r, x)
<1>1. Len(q) \in Nat /\ Len(r) \in Nat /\ Len(a) = Len(r) + 1 /\ \A p \in 1 .. Len(r) : a[p] = r[p]
  OBVIOUS
<1> HIDE DEF a
<1>2. Len(q) <= Len(r) /\ \A p \in 1 .. Len(q) : r[p] = q[p]
  BY DEF Grown
<1>3. \A p \in 1 .. Len(q) : p \in 1 .. Len(r)
  BY <1>1, <1>2
<1>4. Len(q) <= Len(a) /\ Len(q) <= Len(q)
  BY <1>1, <1>2
<1>5. Grown(q, a) /\ Grown(q, q)
  BY <1>1, <1>2, <1>3, <1>4 DEF Grown
<1> QED  BY <1>5 DEF a

\* An edge of a step that still has one.
LEMMA LoseOne ==
    ASSUME NEW k \in Kahns, NEW q \in Seq(DagSteps), NEW j \in Nat, j + 1 <= Len(q), NEW r, LoseFrom(k, q, j, r),
           \A t \in DagSteps : Cardinality(Places(t, q, Len(q))) <= k.indegree[t]
    PROVE  LoseFrom(k, q, j + 1, LoseEdge(r, q[j + 1]))
<1> DEFINE x == q[j + 1]
           e == LoseEdge(r, x)
<1>1. x \in DagSteps /\ Len(q) \in Nat
  OBVIOUS
<1>2. /\ Queued(r) /\ Grown(k.queue, r.queue) /\ r \in Kahns
      /\ \A t \in DagSteps : r.indegree[t] = k.indegree[t] - Cardinality(Places(t, q, j))
  BY DEF LoseFrom, Queued
<1>3. r.queue \in Seq(DagSteps) /\ r.indegree \in [DagSteps -> Int] /\ k.queue \in Seq(DagSteps) /\ k.indegree \in [DagSteps -> Int]
  BY <1>2 DEF Kahns
<1>4. \A t \in DagSteps : /\ Cardinality(Places(t, q, j)) \in Nat
                          /\ Cardinality(Places(t, q, j + 1)) = Cardinality(Places(t, q, j)) + (IF x = t THEN 1 ELSE 0)
  BY PlacesGrow
<1>5. /\ e \in Kahns /\ e.queue = IF r.indegree[x] - 1 = 0 THEN Append(r.queue, x) ELSE r.queue
      /\ e.indegree = [r.indegree EXCEPT ![x] = r.indegree[x] - 1]
  BY <1>1, <1>2, LoseIn
<1>6. r.indegree[x] \in Nat /\ r.indegree[x] >= 1
  <2>1. Places(x, q, j + 1) \in SUBSET Places(x, q, Len(q)) /\ IsFiniteSet(Places(x, q, Len(q)))
    <3>1. IsFiniteSet(Places(x, q, Len(q)))
      BY <1>1, PlacesGrow
    <3>2. \A p \in 1 .. j + 1 : p \in 1 .. Len(q)
      BY <1>1
    <3> QED  BY <3>1, <3>2 DEF Places
  <2>2. Cardinality(Places(x, q, j + 1)) <= Cardinality(Places(x, q, Len(q)))
    BY <2>1, FS_Subset
  <2>3. Cardinality(Places(x, q, Len(q))) \in Nat /\ Cardinality(Places(x, q, Len(q))) <= k.indegree[x]
    BY <1>1, PlacesGrow
  <2>4. Cardinality(Places(x, q, j + 1)) = Cardinality(Places(x, q, j)) + 1 /\ Cardinality(Places(x, q, j)) \in Nat
    BY <1>1, <1>4
  <2>5. r.indegree[x] = k.indegree[x] - Cardinality(Places(x, q, j)) /\ r.indegree[x] \in Int /\ k.indegree[x] \in Int
    BY <1>1, <1>2, <1>3
  <2> QED  BY <2>2, <2>3, <2>4, <2>5
<1>7. \A t \in DagSteps : e.indegree[t] = IF t = x THEN r.indegree[x] - 1 ELSE r.indegree[t]
  BY <1>3, <1>5
<1>8. ASSUME NEW t \in DagSteps
      PROVE  e.indegree[t] \in Nat /\ e.indegree[t] = k.indegree[t] - Cardinality(Places(t, q, j + 1))
  <2>1. /\ r.indegree[t] \in Nat /\ r.indegree[t] = k.indegree[t] - Cardinality(Places(t, q, j)) /\ k.indegree[t] \in Int
        /\ Cardinality(Places(t, q, j)) \in Nat
        /\ Cardinality(Places(t, q, j + 1)) = Cardinality(Places(t, q, j)) + (IF x = t THEN 1 ELSE 0)
    BY <1>2, <1>3, <1>4 DEF Queued
  <2>2. CASE t = x
    BY <1>6, <1>7, <2>1, <2>2
  <2>3. CASE t # x
    BY <1>7, <2>1, <2>3
  <2> QED  BY <2>2, <2>3
<1>9. NoTwice(r.queue) /\ ~Listed(x, r.queue) /\ \A t \in DagSteps : Listed(t, r.queue) <=> r.indegree[t] = 0
  BY <1>1, <1>2, <1>6 DEF Queued
<1>10. NoTwice(e.queue) /\ Grown(k.queue, e.queue) /\ \A t \in DagSteps : Listed(t, e.queue) <=> e.indegree[t] = 0
  <2>1. CASE r.indegree[x] - 1 = 0
    <3>1. e.queue = Append(r.queue, x)
      BY <1>5, <2>1
    <3>2. NoTwice(Append(r.queue, x)) /\ \A t : Listed(t, Append(r.queue, x)) <=> Listed(t, r.queue) \/ t = x
      BY <1>1, <1>3, <1>9, AppendFacts
    <3>3. Grown(k.queue, Append(r.queue, x))
      BY <1>1, <1>2, <1>3, GrownOn
    <3> QED  BY <1>7, <1>9, <2>1, <3>1, <3>2, <3>3
  <2>2. CASE r.indegree[x] - 1 # 0
    BY <1>2, <1>5, <1>6, <1>7, <1>9, <2>2
  <2> QED  BY <2>1, <2>2
<1>11. Queued(e)
  BY <1>5, <1>8, <1>10 DEF Queued
<1>12. LoseFrom(k, q, j + 1, e)
  BY <1>8, <1>10, <1>11 DEF LoseFrom
<1> QED  BY <1>12 DEF e, x

\* All edges of a step.
LEMMA LoseAll ==
    ASSUME NEW k, Queued(k), NEW q \in Seq(DagSteps),
           \A t \in DagSteps : Cardinality(Places(t, q, Len(q))) <= k.indegree[t]
    PROVE  LoseFrom(k, q, Len(q), FoldLeft(LoseEdge, k, q))
<1> DEFINE n == Len(q)
<1>1. k \in Kahns /\ n \in Nat /\ \A i \in 1 .. n : q[i] \in DagSteps
  BY DEF Queued
<1>2. LoseRuns(k, q)
  <2>1. LoseStays(Kahns, q)
    BY <1>1, LoseIn DEF LoseStays
  <2> QED  BY <1>1, <2>1, LoseSteps
<1>3. PICK h : /\ h[0] = k /\ FoldLeft(LoseEdge, k, q) = h[n]
               /\ \A i \in 1 .. n : h[i] = LoseEdge(h[i - 1], q[i])
  BY <1>2 DEF LoseRuns
<1> DEFINE P == {i \in 0 .. n : LoseFrom(k, q, i, h[i])}
<1>4. 0 \in P
  <2>1. \A t \in DagSteps : Cardinality(Places(t, q, 0)) = 0
    <3>1. 0 \in Nat
      OBVIOUS
    <3> QED  BY <3>1, PlacesGrow
  <2>2. \A t \in DagSteps : k.indegree[t] = k.indegree[t] - Cardinality(Places(t, q, 0))
    BY <1>1, <2>1 DEF Kahns
  <2>3. Grown(k.queue, k.queue)
    <3>1. Len(k.queue) \in Nat
      BY <1>1 DEF Kahns
    <3> QED  BY <3>1 DEF Grown
  <2>4. LoseFrom(k, q, 0, k)
    BY <2>2, <2>3 DEF LoseFrom
  <2> QED  BY <1>1, <1>3, <2>4
<1>5. ASSUME NEW i \in 0 .. n - 1, i \in P PROVE i + 1 \in P
  <2>1. i \in Nat /\ i + 1 <= n /\ i + 1 \in 1 .. n /\ i + 1 \in 0 .. n /\ (i + 1) - 1 = i
    BY <1>1
  <2>2. h[i + 1] = LoseEdge(h[i], q[i + 1])
    BY <1>3, <2>1
  <2>3. LoseFrom(k, q, i, h[i])
    BY <1>5
  <2>4. LoseFrom(k, q, i + 1, LoseEdge(h[i], q[i + 1]))
    BY <1>1, <2>1, <2>3, LoseOne
  <2> QED  BY <2>1, <2>2, <2>4
<1>6. n \in P
  <2>1. \A i \in 0 .. n - 1 : i \in P => i + 1 \in P
    BY <1>5
  <2>2. n \in 0 .. n
    BY <1>1
  <2> HIDE DEF P, n
  <2>3. \A i \in 0 .. n : i \in P
    BY <1>1, <1>4, <2>1, StepsTo
  <2> QED  BY <2>2, <2>3
<1> QED  BY <1>3, <1>6

\* The algorithm stays with queues and counts, whatever they are.
LEMMA VisitIn ==
    ASSUME GoodGraph, NEW k \in Kahns, NEW i \in 1 .. NSteps
    PROVE  Visited(k, i) \in Kahns
<1>1. k.queue \in Seq(DagSteps) /\ NSteps \in Nat /\ Len(k.queue) \in Nat
  BY StepsFacts DEF Kahns
<1>2. CASE i > Len(k.queue)
  BY <1>2 DEF Visited
<1>3. CASE ~(i > Len(k.queue))
  <2> DEFINE q == Outgoing(k.queue[i])
  <2>1. i \in 1 .. Len(k.queue)
    BY <1>1, <1>3
  <2>2. k.queue[i] \in DagSteps
    BY <1>1, <2>1
  <2>3. q \in Seq(DagSteps)
    BY <2>2, OutgoingFacts
  <2> HIDE DEF q
  <2>4. LoseStays(Kahns, q)
    <3>1. \A p \in 1 .. Len(q) : q[p] \in DagSteps
      BY <2>3
    <3> QED  BY <3>1, LoseIn DEF LoseStays
  <2>5. LoseRuns(k, q)
    BY <2>3, <2>4, LoseSteps
  <2>6. PICK h : /\ h[0] = k /\ FoldLeft(LoseEdge, k, q) = h[Len(q)]
                 /\ \A p \in 1 .. Len(q) : h[p] = LoseEdge(h[p - 1], q[p])
    BY <2>5 DEF LoseRuns
  <2> DEFINE n == Len(q)
             P == {p \in 0 .. n : h[p] \in Kahns}
  <2>7. n \in Nat /\ 0 \in P
    BY <2>3, <2>6
  <2>8. ASSUME NEW p \in 0 .. n - 1, p \in P PROVE p + 1 \in P
    <3>1. p + 1 \in 1 .. n /\ p + 1 \in 0 .. n /\ (p + 1) - 1 = p
      BY <2>7
    <3>2. h[p + 1] = LoseEdge(h[p], q[p + 1]) /\ h[p] \in Kahns /\ q[p + 1] \in DagSteps
      BY <2>3, <2>6, <2>8, <3>1
    <3>3. h[p + 1] \in Kahns
      <4> DEFINE x == h[p]
                 y == q[p + 1]
      <4>1. x \in Kahns /\ y \in DagSteps /\ h[p + 1] = LoseEdge(x, y)
        BY <3>2
      <4> HIDE DEF x, y
      <4>2. LoseEdge(x, y) \in Kahns
        BY <4>1, LoseIn
      <4> QED  BY <4>1, <4>2
    <3> QED  BY <3>1, <3>3
  <2>9. n \in P
    <3>1. \A p \in 0 .. n - 1 : p \in P => p + 1 \in P
      BY <2>8
    <3>2. n \in 0 .. n
      BY <2>7
    <3> HIDE DEF P, n
    <3>3. \A p \in 0 .. n : p \in P
      BY <2>7, <3>1, StepsTo
    <3> QED  BY <3>2, <3>3
  <2>10. Visited(k, i) = FoldLeft(LoseEdge, k, q)
    BY <1>3 DEF Visited, q
  <2> QED  BY <2>6, <2>9, <2>10
<1> QED  BY <1>2, <1>3

\* The steps among the first i of a queue.
Taken(q, i) == {q[p] : p \in {p \in 1 .. Len(q) : p <= i}}

\* In queue q a step is behind everything it depends on.
Behind(q) == \A p \in 1 .. Len(q) : \A k \in DOMAIN dependsOn[q[p]] : \E j \in 1 .. p - 1 : q[j] = dependsOn[q[p]][k]

\* After i steps were taken out of the graph.
KahnAt(k, i) ==
    /\ Queued(k) /\ Behind(k.queue)
    /\ \A t \in DagSteps : k.indegree[t] = Left(t, Taken(k.queue, i))

\* At the start the steps without dependencies are queued.
LEMMA KahnStarts ==
    ASSUME GoodGraph
    PROVE  Roots \in Kahns /\ KahnAt(Roots, 0)
<1> DEFINE S == {s \in DagSteps : dependsOn[s] = <<>>}
           q == Keep(InOrder, S)
           d == [s \in DagSteps |-> Len(dependsOn[s])]
<1>1. /\ NSteps \in Nat /\ InOrder \in Seq(DagSteps) /\ Len(InOrder) = NSteps /\ DagSteps = 1 .. NSteps
      /\ \A i \in 1 .. NSteps : InOrder[i] = i
  BY StepsFacts
<1>2. NoTwice(InOrder) /\ \A t \in DagSteps : Listed(t, InOrder)
  BY <1>1 DEF NoTwice, Listed
<1>3. q \in Seq(DagSteps) /\ NoTwice(q) /\ \A x : Listed(x, q) <=> x \in S /\ Listed(x, InOrder)
  BY <1>1, <1>2, KeepFacts
<1>4. \A t \in DagSteps : dependsOn[t] \in Seq(DagSteps) /\ Len(dependsOn[t]) \in Nat
  BY DEF GoodGraph
<1>5. d \in [DagSteps -> Nat] /\ d \in [DagSteps -> Int] /\ \A t \in DagSteps : d[t] = Len(dependsOn[t])
  BY <1>4
<1>6. Roots = [queue |-> q, indegree |-> d]
  BY DEF Roots
<1> HIDE DEF q, d
<1>7. Roots \in Kahns /\ Roots.queue = q /\ Roots.indegree = d
  BY <1>3, <1>5, <1>6 DEF Kahns
<1>8. \A t \in DagSteps : (Len(dependsOn[t]) = 0 <=> dependsOn[t] = <<>>) /\ (dependsOn[t] = <<>> => DOMAIN dependsOn[t] = {})
  <2> SUFFICES ASSUME NEW t \in DagSteps
               PROVE  (Len(dependsOn[t]) = 0 <=> dependsOn[t] = <<>>) /\ (dependsOn[t] = <<>> => DOMAIN dependsOn[t] = {})
    OBVIOUS
  <2>1. dependsOn[t] \in Seq(DagSteps)
    BY <1>4
  <2>2. Len(dependsOn[t]) = 0 <=> dependsOn[t] = <<>>
    BY <2>1, EmptySeq
  <2>3. DOMAIN dependsOn[t] = 1 .. Len(dependsOn[t])
    BY <2>1
  <2>4. 1 .. 0 = {}
    OBVIOUS
  <2> QED  BY <2>2, <2>3, <2>4
<1>9. \A t \in DagSteps : d[t] \in Nat /\ (Listed(t, q) <=> d[t] = 0)
  BY <1>2, <1>3, <1>5, <1>8
<1>10. Queued(Roots)
  BY <1>3, <1>7, <1>9 DEF Queued
<1>11. Behind(q)
  <2> SUFFICES ASSUME NEW p \in 1 .. Len(q) PROVE DOMAIN dependsOn[q[p]] = {}
    BY DEF Behind
  <2>1. q[p] \in DagSteps /\ Listed(q[p], q)
    BY <1>3 DEF Listed
  <2>2. q[p] \in S
    BY <1>3, <2>1
  <2> QED  BY <1>8, <2>1, <2>2
<1>12. Taken(q, 0) = {}
  <2>1. \A p \in 1 .. Len(q) : ~(p <= 0)
    BY <1>3
  <2> QED  BY <2>1 DEF Taken
<1>13. ASSUME NEW t \in DagSteps PROVE d[t] = Left(t, {})
  <2>1. Waits(t, {}) = 1 .. Len(dependsOn[t])
    BY <1>4 DEF Waits
  <2>2. Len(dependsOn[t]) \in Nat
    BY <1>4
  <2> DEFINE m == Len(dependsOn[t])
  <2> HIDE DEF m
  <2>3. Cardinality(1 .. m) = m
    <3>1. m \in Nat /\ m \in Int /\ 1 \in Int
      BY <2>2 DEF m
    <3>2. Cardinality(1 .. m) = IF 1 > m THEN 0 ELSE m - 1 + 1
      BY <3>1, FS_Interval
    <3> QED  BY <3>1, <3>2
  <2>4. Left(t, {}) = m
    BY <2>1, <2>3 DEF Left, m
  <2> QED  BY <1>5, <2>4 DEF m
<1>14. \A t \in DagSteps : Roots.indegree[t] = Left(t, Taken(Roots.queue, 0))
  BY <1>7, <1>12, <1>13
<1>15. KahnAt(Roots, 0)
  BY <1>7, <1>10, <1>11, <1>14 DEF KahnAt
<1> QED  BY <1>7, <1>15

\* One step more.
LEMMA KahnSteps ==
    ASSUME GoodGraph, NEW i \in Nat, NEW k, KahnAt(k, i)
    PROVE  KahnAt(Visited(k, i + 1), i + 1)
<1> DEFINE q == k.queue
           D == Taken(q, i)
<1>1. /\ k \in Kahns /\ Queued(k) /\ NoTwice(q) /\ Behind(q) /\ \A t \in DagSteps : k.indegree[t] = Left(t, D)
      /\ q \in Seq(DagSteps) /\ Len(q) \in Nat
  BY DEF KahnAt, Queued, Kahns
<1>2. CASE i + 1 > Len(q)
  <2>1. Visited(k, i + 1) = k
    BY <1>2 DEF Visited
  <2>2. Taken(q, i + 1) = D
    <3>1. \A p \in 1 .. Len(q) : p <= i + 1 <=> p <= i
      BY <1>1, <1>2
    <3> QED  BY <3>1 DEF Taken
  <2> QED  BY <1>1, <2>1, <2>2 DEF KahnAt
<1>3. CASE ~(i + 1 > Len(q))
  <2> DEFINE s == q[i + 1]
             out == Outgoing(s)
             e == FoldLeft(LoseEdge, k, out)
             r == e.queue
  <2>1. i + 1 \in 1 .. Len(q) /\ s \in DagSteps
    BY <1>1, <1>3
  <2>2. out \in Seq(DagSteps) /\ EdgesOf(s, out)
    BY <2>1, OutgoingFacts
  <2>3. s \notin D
    <3> SUFFICES ASSUME NEW p \in 1 .. Len(q), p <= i, q[p] = q[i + 1] PROVE FALSE
      BY DEF Taken
    <3>1. p = i + 1
      BY <1>1, <2>1 DEF NoTwice
    <3> QED  BY <3>1
  <2>4. \A t \in DagSteps : /\ Left(t, D) \in Nat /\ Left(t, D \cup {s}) \in Nat /\ Occurrences(s, dependsOn[t]) \in Nat
                            /\ Left(t, D \cup {s}) = Left(t, D) - Occurrences(s, dependsOn[t])
    <3> HIDE DEF D, s
    <3> QED  BY <2>3, LeftFacts, LeftDrops
  <2>5. \A t \in DagSteps : Cardinality(Places(t, out, Len(out))) = Occurrences(s, dependsOn[t])
    BY <2>2 DEF EdgesOf
  <2>6. \A t \in DagSteps : Cardinality(Places(t, out, Len(out))) <= k.indegree[t]
    <3> SUFFICES ASSUME NEW t \in DagSteps PROVE Cardinality(Places(t, out, Len(out))) <= k.indegree[t]
      OBVIOUS
    <3> DEFINE a == Left(t, D)
               b == Left(t, D \cup {s})
               c == Occurrences(s, dependsOn[t])
    <3>1. a \in Nat /\ b \in Nat /\ c \in Nat /\ b = a - c
      BY <2>4
    <3>2. Cardinality(Places(t, out, Len(out))) = c /\ k.indegree[t] = a
      BY <1>1, <2>5
    <3> HIDE DEF a, b, c
    <3> QED  BY <3>1, <3>2
  <2>7. LoseFrom(k, out, Len(out), e)
    <3> HIDE DEF out
    <3> QED  BY <1>1, <2>2, <2>6, LoseAll
  <2> HIDE DEF out, e
  <2>8. /\ Queued(e) /\ Grown(q, r) /\ r \in Seq(DagSteps) /\ Len(r) \in Nat /\ NoTwice(r)
        /\ \A t \in DagSteps : e.indegree[t] = k.indegree[t] - Cardinality(Places(t, out, Len(out)))
    BY <2>7 DEF LoseFrom, Queued, Kahns
  <2>9. Len(q) <= Len(r) /\ \A p \in 1 .. Len(q) : r[p] = q[p]
    BY <2>8 DEF Grown
  <2>10. Taken(r, i + 1) = D \cup {s}
    <3>1. \A p : p \in 1 .. Len(r) /\ p <= i + 1 <=> (p \in 1 .. Len(q) /\ p <= i) \/ p = i + 1
      BY <1>1, <2>1, <2>8, <2>9
    <3>2. \A p : p \in 1 .. Len(r) /\ p <= i + 1 => r[p] = q[p]
      BY <1>1, <2>1, <2>9, <3>1
    <3>3. Taken(r, i + 1) \subseteq D \cup {s}
      BY <3>1, <3>2 DEF Taken
    <3>4. s \in Taken(r, i + 1)
      BY <3>1, <3>2 DEF Taken
    <3>5. D \subseteq Taken(r, i + 1)
      <4> SUFFICES ASSUME NEW p \in 1 .. Len(q), p <= i PROVE q[p] \in Taken(r, i + 1)
        BY DEF Taken
      <4>1. p \in 1 .. Len(r) /\ p <= i + 1 /\ r[p] = q[p]
        BY <3>1, <3>2
      <4> QED  BY <4>1 DEF Taken
    <3> QED  BY <3>3, <3>4, <3>5
  <2>11. \A t \in DagSteps : e.indegree[t] = Left(t, Taken(r, i + 1))
    BY <1>1, <2>4, <2>5, <2>8, <2>10
  <2>12. Behind(r)
    <3> SUFFICES ASSUME NEW p \in 1 .. Len(r), NEW m \in DOMAIN dependsOn[r[p]]
                 PROVE  \E j \in 1 .. p - 1 : r[j] = dependsOn[r[p]][m]
      BY DEF Behind
    <3>1. CASE p <= Len(q)
      <4>1. p \in 1 .. Len(q) /\ r[p] = q[p]
        BY <1>1, <2>8, <2>9, <3>1
      <4>2. PICK j \in 1 .. p - 1 : q[j] = dependsOn[r[p]][m]
        <5>1. Behind(q) /\ m \in DOMAIN dependsOn[q[p]]
          BY <1>1, <4>1
        <5>2. \E j \in 1 .. p - 1 : q[j] = dependsOn[q[p]][m]
          BY <4>1, <5>1 DEF Behind
        <5> QED  BY <4>1, <5>2
      <4>3. j \in 1 .. Len(q)
        BY <1>1, <4>1
      <4> QED  BY <2>9, <4>2, <4>3
    <3>2. CASE ~(p <= Len(q))
      <4>1. r[p] \in DagSteps /\ Listed(r[p], r)
        BY <2>8 DEF Listed
      <4>2. Left(r[p], Taken(r, i + 1)) = 0
        BY <2>8, <2>11, <4>1 DEF Queued
      <4>3. dependsOn[r[p]][m] \in Taken(r, i + 1)
        BY <4>1, <4>2, LeftFacts
      <4>4. PICK j \in 1 .. Len(r) : j <= i + 1 /\ r[j] = dependsOn[r[p]][m]
        BY <4>3 DEF Taken
      <4>5. j \in 1 .. p - 1
        BY <1>1, <2>1, <2>8, <3>2, <4>4
      <4> QED  BY <4>4, <4>5
    <3> QED  BY <3>1, <3>2
  <2>13. Visited(k, i + 1) = e
    BY <1>3 DEF Visited, e, out
  <2>14. KahnAt(e, i + 1)
    BY <2>8, <2>11, <2>12 DEF KahnAt
  <2> QED  BY <2>13, <2>14
<1> QED  BY <1>2, <1>3

\* The order Kahn's algorithm finds.
LEMMA KahnEnds ==
    ASSUME GoodGraph
    PROVE  /\ topologicalStepDefinitions \in Seq(DagSteps) /\ NoTwice(topologicalStepDefinitions)
           /\ Behind(topologicalStepDefinitions)
           /\ ~Cyclic => /\ Len(topologicalStepDefinitions) = NSteps
                         /\ \A t \in DagSteps : Listed(t, topologicalStepDefinitions)
<1> DEFINE N == NSteps
           top == topologicalStepDefinitions
<1>1. N \in Nat /\ IsFiniteSet(DagSteps) /\ InOrder \in Seq(DagSteps) /\ Len(InOrder) = N /\ \A i \in 1 .. N : InOrder[i] = i
  BY StepsFacts
<1>2. VisitRuns
  <2>1. VisitStays(Kahns)
    BY <1>1, VisitIn DEF VisitStays
  <2>2. Roots \in Kahns
    BY KahnStarts
  <2> QED  BY <1>1, <2>1, <2>2, VisitSteps
<1>3. PICK h : /\ h[0] = Roots /\ FoldLeft(Visited, Roots, InOrder) = h[N]
               /\ \A i \in 1 .. N : h[i] = Visited(h[i - 1], InOrder[i])
  BY <1>1, <1>2 DEF VisitRuns
<1> DEFINE P == {i \in 0 .. N : KahnAt(h[i], i)}
<1>4. 0 \in P
  BY <1>1, <1>3, KahnStarts
<1>5. ASSUME NEW i \in 0 .. N - 1, i \in P PROVE i + 1 \in P
  <2>1. i \in Nat /\ i + 1 \in 1 .. N /\ i + 1 \in 0 .. N /\ (i + 1) - 1 = i
    BY <1>1
  <2>2. h[i + 1] = Visited(h[i], i + 1) /\ KahnAt(h[i], i)
    BY <1>1, <1>3, <1>5, <2>1
  <2>3. KahnAt(h[i + 1], i + 1)
    BY <2>1, <2>2, KahnSteps
  <2> QED  BY <2>1, <2>3
<1>6. KahnAt(h[N], N)
  <2>1. \A i \in 0 .. N - 1 : i \in P => i + 1 \in P
    BY <1>5
  <2>2. N \in 0 .. N
    BY <1>1
  <2>3. \A i \in 0 .. N : i \in P
    <3> HIDE DEF P, N
    <3> QED  BY <1>1, <1>4, <2>1, StepsTo
  <2> QED  BY <2>2, <2>3
<1>7. top = h[N].queue
  BY <1>3 DEF topologicalStepDefinitions
<1> HIDE DEF top
<1>8. /\ top \in Seq(DagSteps) /\ NoTwice(top) /\ Behind(top) /\ Len(top) \in Nat
      /\ \A t \in DagSteps : Listed(t, top) <=> Left(t, Taken(top, N)) = 0
  BY <1>6, <1>7 DEF KahnAt, Queued, Kahns
<1>9. top \in Injection(1 .. Len(top), DagSteps)
  <2>1. top \in [1 .. Len(top) -> DagSteps]
    BY <1>8
  <2> QED  BY <1>8, <2>1 DEF NoTwice, Injection, IsInjective
<1>10. Cardinality(1 .. Len(top)) = Len(top)
  <2>1. Len(top) \in Int /\ 1 \in Int
    BY <1>8
  <2> DEFINE m == Len(top)
  <2> HIDE DEF m
  <2>2. Cardinality(1 .. m) = IF 1 > m THEN 0 ELSE m - 1 + 1
    BY <2>1, FS_Interval DEF m
  <2>3. Cardinality(1 .. m) = m
    BY <1>8, <2>2 DEF m
  <2> QED  BY <2>3 DEF m
<1>11. Len(top) <= N /\ (Len(top) = N <=> top \in Surjection(1 .. Len(top), DagSteps))
  <2> DEFINE U == 1 .. Len(top)
  <2> HIDE DEF U
  <2>1. top \in Injection(U, DagSteps)
    BY <1>9 DEF U
  <2>2. Cardinality(U) <= Cardinality(DagSteps) /\ (Cardinality(U) = Cardinality(DagSteps) <=> top \in Surjection(U, DagSteps))
    BY <1>1, <2>1, FS_Injection
  <2> QED  BY <1>10, <2>2 DEF U, NSteps
<1>12. Taken(top, N) = {x \in DagSteps : Listed(x, top)}
  <2>1. \A p \in 1 .. Len(top) : p <= N /\ top[p] \in DagSteps
    BY <1>1, <1>8, <1>11
  <2> QED  BY <2>1 DEF Taken, Listed
<1>13. ASSUME ~Cyclic PROVE \A t \in DagSteps : Listed(t, top)
  <2> DEFINE C == {x \in DagSteps : ~Listed(x, top)}
  <2>1. ASSUME NEW x \in C PROVE \E k \in DOMAIN dependsOn[x] : dependsOn[x][k] \in C
    <3>1. x \in DagSteps /\ Left(x, Taken(top, N)) # 0
      BY <1>8
    <3>2. PICK k \in DOMAIN dependsOn[x] : dependsOn[x][k] \notin Taken(top, N)
      BY <3>1, LeftFacts
    <3>3. dependsOn[x][k] \in DagSteps
      BY <3>1 DEF GoodGraph
    <3> QED  BY <1>12, <3>2, <3>3
  <2>2. C \in SUBSET DagSteps
    OBVIOUS
  <2>3. C = {}
    <3> HIDE DEF C
    <3> QED  BY <1>13, <2>1, <2>2 DEF Cyclic
  <2> QED  BY <2>3
<1>14. ASSUME ~Cyclic PROVE Len(top) = N
  <2>1. top \in [1 .. Len(top) -> DagSteps] /\ \A t \in DagSteps : \E k \in 1 .. Len(top) : top[k] = t
    BY <1>8, <1>13, <1>14 DEF Listed
  <2>2. top \in Surjection(1 .. Len(top), DagSteps)
    BY <2>1 DEF Surjection
  <2> QED  BY <1>11, <2>2
<1> QED  BY <1>8, <1>13, <1>14 DEF top

-----------------------------------------------------------------------------
(* The search for a back edge. *)

\* A path of steps being visited and the step it reaches.
Paths == (SUBSET DagSteps) \X DagSteps

\* Where the search goes from p by the k-th dependency.
Onward(p, k) == <<p[1] \cup {p[2]}, dependsOn[p[2]][k]>>

\* A back edge is at hand, or one that R knows of follows.
BackFrom(R, p) == p[2] \in p[1] \/ \E k \in DOMAIN dependsOn[p[2]] : Onward(p, k) \in R

\* The search goes on at a path.
LEMMA OnwardIn ==
    ASSUME GoodGraph, NEW p \in Paths, NEW k \in DOMAIN dependsOn[p[2]]
    PROVE  /\ Onward(p, k) \in Paths /\ p[1] \in SUBSET DagSteps /\ p[2] \in DagSteps
           /\ Onward(p, k)[1] = p[1] \cup {p[2]} /\ Onward(p, k)[2] = dependsOn[p[2]][k]
<1>1. p[1] \in SUBSET DagSteps /\ p[2] \in DagSteps
  BY DEF Paths
<1>2. dependsOn[p[2]] \in Seq(DagSteps)
  BY <1>1 DEF GoodGraph
<1>3. dependsOn[p[2]][k] \in DagSteps /\ p[1] \cup {p[2]} \in SUBSET DagSteps
  BY <1>1, <1>2
<1> QED  BY <1>1, <1>3 DEF Onward, Paths

\* The search is well defined: the least set of paths from which a back edge follows.
LEMMA SearchExists ==
    ASSUME GoodGraph
    PROVE  \E L \in SUBSET Paths : \A p \in Paths : p \in L <=> BackFrom(L, p)
<1> DEFINE Closed(R) == \A p \in Paths : BackFrom(R, p) => p \in R
           L == {p \in Paths : \A R \in SUBSET Paths : Closed(R) => p \in R}
           M == {p \in Paths : BackFrom(L, p)}
<1>1. ASSUME NEW p, NEW Q, NEW R, Q \subseteq R, BackFrom(Q, p) PROVE BackFrom(R, p)
  BY <1>1 DEF BackFrom
<1>2. ASSUME NEW p \in Paths, BackFrom(L, p) PROVE p \in L
  <2> SUFFICES ASSUME NEW R \in SUBSET Paths, Closed(R) PROVE p \in R
    OBVIOUS
  <2>1. L \subseteq R
    OBVIOUS
  <2> HIDE DEF L
  <2> QED  BY <1>1, <1>2, <2>1
<1>3. M \subseteq L
  BY <1>2
<1>4. ASSUME NEW p \in Paths, BackFrom(M, p) PROVE p \in M
  <2> HIDE DEF L
  <2>1. BackFrom(L, p)
    <3> HIDE DEF M
    <3> QED  BY <1>1, <1>3, <1>4
  <2> QED  BY <2>1
<1>5. L \subseteq M
  <2>1. M \in SUBSET Paths /\ Closed(M)
    <3> HIDE DEF L
    <3>1. M \in SUBSET Paths
      OBVIOUS
    <3> HIDE DEF M
    <3> QED  BY <1>4, <3>1
  <2> HIDE DEF M
  <2> QED  BY <2>1
<1>6. L \in SUBSET Paths
  OBVIOUS
<1>7. \A p \in Paths : p \in L <=> BackFrom(L, p)
  <2> HIDE DEF L
  <2> QED  BY <1>2, <1>5
<1> HIDE DEF L
<1> QED  BY <1>6, <1>7

\* What visit answers.
LEMMA VisitAnswers ==
    ASSUME GoodGraph
    PROVE  \A p \in Paths : visit[p] <=> \/ p[2] \in p[1]
                                         \/ \E k \in DOMAIN dependsOn[p[2]] : visit[Onward(p, k)]
<1> DEFINE Is(g) == g = [p \in (SUBSET DagSteps) \X DagSteps |->
                           \/ p[2] \in p[1]
                           \/ \E k \in DOMAIN dependsOn[p[2]] : g[<<p[1] \cup {p[2]}, dependsOn[p[2]][k]>>]]
<1>1. visit = CHOOSE g : Is(g)
  BY DEF visit
<1>2. PICK L \in SUBSET Paths : \A p \in Paths : p \in L <=> BackFrom(L, p)
  BY SearchExists
<1> DEFINE f == [p \in (SUBSET DagSteps) \X DagSteps |-> p \in L]
<1>3. Is(f)
  <2> SUFFICES ASSUME NEW p \in Paths
               PROVE  (p \in L) = (p[2] \in p[1] \/ \E k \in DOMAIN dependsOn[p[2]] : f[<<p[1] \cup {p[2]}, dependsOn[p[2]][k]>>])
    BY DEF Paths
  <2>1. \A k \in DOMAIN dependsOn[p[2]] : f[<<p[1] \cup {p[2]}, dependsOn[p[2]][k]>>] = (Onward(p, k) \in L)
    <3> SUFFICES ASSUME NEW k \in DOMAIN dependsOn[p[2]] PROVE f[Onward(p, k)] = (Onward(p, k) \in L)
      BY DEF Onward
    <3>1. Onward(p, k) \in Paths
      BY OnwardIn
    <3> QED  BY <3>1 DEF Paths
  <2>2. p \in L <=> p[2] \in p[1] \/ \E k \in DOMAIN dependsOn[p[2]] : Onward(p, k) \in L
    BY <1>2 DEF BackFrom
  <2> HIDE DEF f
  <2>3. (\E k \in DOMAIN dependsOn[p[2]] : f[<<p[1] \cup {p[2]}, dependsOn[p[2]][k]>>])
          <=> \E k \in DOMAIN dependsOn[p[2]] : Onward(p, k) \in L
    BY <2>1, Zenon
  <2> QED  BY <2>2, <2>3
<1> HIDE DEF f
<1>4. Is(visit)
  <2> HIDE DEF Is
  <2> QED  BY <1>1, <1>3
<1> QED  BY <1>4 DEF Paths, Onward

\* Steps outside a path; one more step on the path is one less outside.
LEMMA OutsideDrops ==
    ASSUME NEW A \in SUBSET DagSteps, NEW s \in DagSteps, s \notin A
    PROVE  /\ Cardinality(DagSteps \ A) \in Nat /\ Cardinality(DagSteps \ (A \cup {s})) \in Nat
           /\ Cardinality(DagSteps \ (A \cup {s})) < Cardinality(DagSteps \ A)
<1>1. IsFiniteSet(DagSteps \ A)
  BY StepsFacts, FS_Difference
<1>2. DagSteps \ (A \cup {s}) = (DagSteps \ A) \ {s} /\ s \in DagSteps \ A
  OBVIOUS
<1> DEFINE S == DagSteps \ A
<1> HIDE DEF S
<1>3. IsFiniteSet(S) /\ s \in S
  BY <1>1, <1>2 DEF S
<1>4. /\ Cardinality(S \ {s}) = Cardinality(S) - 1 /\ Cardinality(S) \in Nat /\ Cardinality(S \ {s}) \in Nat
  BY <1>3, OneLess
<1>5. Cardinality(S \ {s}) < Cardinality(S)
  BY <1>4
<1> QED  BY <1>2, <1>4, <1>5 DEF S

\* From a cycle the search finds a back edge, whatever path led there.
LEMMA CycleFound ==
    ASSUME GoodGraph, Cyclic
    PROVE  ~ValidateDefinition
<1>1. PICK C \in SUBSET DagSteps : C # {} /\ \A s \in C : \E k \in DOMAIN dependsOn[s] : dependsOn[s][k] \in C
  BY DEF Cyclic
<1> DEFINE Out(A) == Cardinality(DagSteps \ A)
           Missed == {A \in SUBSET DagSteps : \E s \in C : ~visit[<<A, s>>]}
           Counts == {Out(A) : A \in Missed}
<1>2. \A A \in SUBSET DagSteps : Out(A) \in Nat
  BY StepsFacts, FS_Difference, FS_CardinalityType
<1>3. Missed = {}
  <2> SUFFICES ASSUME Missed # {} PROVE FALSE
    OBVIOUS
  <2>1. Counts \in SUBSET Nat /\ Counts # {}
    <3> HIDE DEF Out
    <3> QED  BY <1>2
  <2>2. PICK m \in Counts : \A y \in Counts : m <= y
    <3> HIDE DEF Counts
    <3> QED  BY <2>1, LeastNat
  <2>3. PICK A \in Missed : Out(A) = m
    BY <2>2
  <2>4. PICK s \in C : ~visit[<<A, s>>]
    BY <2>3
  <2>5. A \in SUBSET DagSteps /\ s \in DagSteps /\ <<A, s>> \in Paths /\ <<A, s>>[1] = A /\ <<A, s>>[2] = s
    BY <1>1, <2>3, <2>4 DEF Paths
  <2>6. PICK k \in DOMAIN dependsOn[s] : dependsOn[s][k] \in C
    BY <1>1, <2>4
  <2>7. s \notin A /\ ~visit[Onward(<<A, s>>, k)]
    <3> DEFINE p == <<A, s>>
    <3>1. ~visit[p] /\ p \in Paths /\ p[1] = A /\ p[2] = s
      BY <2>4, <2>5
    <3> HIDE DEF p
    <3>2. visit[p] <=> p[2] \in p[1] \/ \E j \in DOMAIN dependsOn[p[2]] : visit[Onward(p, j)]
      BY <3>1, VisitAnswers
    <3>3. s \notin A /\ ~visit[Onward(p, k)]
      BY <2>6, <3>1, <3>2
    <3> QED  BY <3>3 DEF p
  <2>8. Onward(<<A, s>>, k) = <<A \cup {s}, dependsOn[s][k]>>
    BY <2>5 DEF Onward
  <2>9. A \cup {s} \in Missed
    BY <2>5, <2>6, <2>7, <2>8
  <2>10. Out(A \cup {s}) < Out(A) /\ Out(A) \in Nat /\ Out(A \cup {s}) \in Nat
    BY <2>5, <2>7, OutsideDrops
  <2>11. m <= Out(A \cup {s})
    BY <2>2, <2>9
  <2> HIDE DEF Out
  <2> QED  BY <2>3, <2>10, <2>11
<1>4. PICK s \in C : s \in DagSteps
  BY <1>1
<1>5. visit[<<{}, s>>]
  <2>1. {} \in SUBSET DagSteps
    OBVIOUS
  <2> QED  BY <1>3, <1>4, <2>1
<1> QED  BY <1>4, <1>5 DEF ValidateDefinition

\* Every step of path A depends on another of A or on s.
Leads(A, s) == \A a \in A : \E k \in DOMAIN dependsOn[a] : dependsOn[a][k] \in A \cup {s}

\* A back edge that the search finds closes a cycle.
LEMMA FoundCycle ==
    ASSUME GoodGraph, ~ValidateDefinition
    PROVE  Cyclic
<1> SUFFICES ASSUME ~Cyclic PROVE FALSE
  OBVIOUS
<1> DEFINE Out(A) == Cardinality(DagSteps \ A)
           Hit == {p \in Paths : visit[p] /\ Leads(p[1], p[2])}
           Counts == {Out(p[1]) : p \in Hit}
<1>1. \A A \in SUBSET DagSteps : Out(A) \in Nat
  BY StepsFacts, FS_Difference, FS_CardinalityType
<1>2. Hit # {}
  <2>1. PICK s \in DagSteps : visit[<<{}, s>>]
    BY DEF ValidateDefinition
  <2>2. <<{}, s>> \in Paths /\ <<{}, s>>[1] = {} /\ <<{}, s>>[2] = s
    BY DEF Paths
  <2>3. Leads({}, s)
    BY DEF Leads
  <2>4. <<{}, s>> \in Hit
    BY <2>1, <2>2, <2>3
  <2> QED  BY <2>4
<1>3. Counts \in SUBSET Nat /\ Counts # {}
  <2>1. \A p \in Hit : p[1] \in SUBSET DagSteps
    BY DEF Paths
  <2> HIDE DEF Hit, Out
  <2> QED  BY <1>1, <1>2, <2>1
<1>4. PICK m \in Counts : \A y \in Counts : m <= y
  <2> HIDE DEF Counts
  <2> QED  BY <1>3, LeastNat
<1>5. PICK p \in Hit : Out(p[1]) = m
  BY <1>4
<1> DEFINE A == p[1]
           s == p[2]
<1>6. p \in Paths /\ A \in SUBSET DagSteps /\ s \in DagSteps /\ visit[p] /\ Leads(A, s)
  BY <1>5 DEF Paths
<1>7. s \notin A
  <2> SUFFICES ASSUME s \in A PROVE FALSE
    OBVIOUS
  <2>1. \A a \in A : \E k \in DOMAIN dependsOn[a] : dependsOn[a][k] \in A
    BY <1>6 DEF Leads
  <2>2. A \in (SUBSET DagSteps) \ {{}}
    BY <1>6
  <2> HIDE DEF A, s
  <2> QED  BY <2>1, <2>2 DEF Cyclic
<1>8. PICK k \in DOMAIN dependsOn[s] : visit[Onward(p, k)]
  BY <1>6, <1>7, VisitAnswers
<1> DEFINE r == Onward(p, k)
<1>9. r \in Paths /\ r[1] = A \cup {s} /\ r[2] = dependsOn[s][k]
  BY <1>6, OnwardIn
<1>10. Leads(r[1], r[2])
  <2>1. \A a \in A : \E j \in DOMAIN dependsOn[a] : dependsOn[a][j] \in A \cup {s}
    BY <1>6 DEF Leads
  <2> HIDE DEF A, s, r
  <2>2. ASSUME NEW a \in A \cup {s} PROVE \E j \in DOMAIN dependsOn[a] : dependsOn[a][j] \in (A \cup {s}) \cup {dependsOn[s][k]}
    BY <1>8, <2>1
  <2> QED  BY <1>9, <2>2 DEF Leads
<1>11. r \in Hit
  BY <1>8, <1>9, <1>10
<1>12. Out(r[1]) < Out(A) /\ Out(A) \in Nat /\ Out(r[1]) \in Nat
  <2> HIDE DEF A, s, r
  <2> QED  BY <1>6, <1>7, <1>9, OutsideDrops
<1>13. m <= Out(r[1])
  <2> HIDE DEF Out, Hit
  <2> QED  BY <1>4, <1>11
<1> HIDE DEF Out
<1> QED  BY <1>5, <1>12, <1>13

-----------------------------------------------------------------------------
(* The runtime graph. *)

\* The kinds of its fields.
DagStatuses == {"SCHEDULED", "STARTED", "SUCCEEDED", "FAILED"}
DagStates ==
    [order : Seq(DagSteps), status : [DagSteps -> DagStatuses], task : [DagSteps -> BOOLEAN],
     attempts : [DagSteps -> Nat], remaining : [DagSteps -> Nat], ready : Seq(DagSteps)]

\* The steps that succeeded.
Ended(d) == {s \in DagSteps : d.status[s] = "SUCCEEDED"}

\* The counters count the dependencies that have not succeeded; what may be popped is in the queue.
Counted(d) == \A t \in DagSteps : d.remaining[t] = Left(t, Ended(d))
AllReady(d) == \A t \in DagSteps : stepReady(d, t) => Listed(t, d.ready)
GoodDag(d) == d \in DagStates /\ Counted(d) /\ AllReady(d)

\* The fields that releasing an edge leaves alone.
SameSteps(r, d) == r.order = d.order /\ r.status = d.status /\ r.task = d.task /\ r.attempts = d.attempts

\* The fields of a graph.
LEMMA DagFields ==
    ASSUME NEW d \in DagStates
    PROVE  /\ d.order \in Seq(DagSteps) /\ d.status \in [DagSteps -> DagStatuses] /\ d.task \in [DagSteps -> BOOLEAN]
           /\ d.attempts \in [DagSteps -> Nat] /\ d.remaining \in [DagSteps -> Nat] /\ d.ready \in Seq(DagSteps)
  BY DEF DagStates

\* The counters replaced.
LEMMA DagRecounted ==
    ASSUME NEW d \in DagStates, NEW rem \in [DagSteps -> Nat]
    PROVE  /\ [d EXCEPT !.remaining = rem] \in DagStates /\ SameSteps([d EXCEPT !.remaining = rem], d)
           /\ [d EXCEPT !.remaining = rem].remaining = rem /\ [d EXCEPT !.remaining = rem].ready = d.ready
  BY DEF DagStates, SameSteps

\* The queue replaced.
LEMMA DagRequeued ==
    ASSUME NEW d \in DagStates, NEW rd \in Seq(DagSteps)
    PROVE  /\ [d EXCEPT !.ready = rd] \in DagStates /\ SameSteps([d EXCEPT !.ready = rd], d)
           /\ [d EXCEPT !.ready = rd].remaining = d.remaining /\ [d EXCEPT !.ready = rd].ready = rd
  BY DEF DagStates, SameSteps

\* One edge of a step released.
LEMMA ReleasedFacts ==
    ASSUME NEW d \in DagStates, NEW t \in DagSteps
    PROVE  LET r == Released(d, t)
               left == IF d.remaining[t] > 0 THEN d.remaining[t] - 1 ELSE 0
           IN  /\ r \in DagStates /\ SameSteps(r, d)
               /\ \A u \in DagSteps : r.remaining[u] = IF u = t THEN left ELSE d.remaining[u]
               /\ r.ready = IF left = 0 /\ d.status[t] = "SCHEDULED" /\ ~d.task[t] THEN Append(d.ready, t) ELSE d.ready
<1> DEFINE left == IF d.remaining[t] > 0 THEN d.remaining[t] - 1 ELSE 0
           rem == [d.remaining EXCEPT ![t] = left]
           rd == Append(d.ready, t)
           e == [d EXCEPT !.remaining = rem]
           f == [e EXCEPT !.ready = rd]
           r == Released(d, t)
<1>1. rem \in [DagSteps -> Nat] /\ rd \in Seq(DagSteps) /\ rem[t] = left /\ \A u \in DagSteps : rem[u] = IF u = t THEN left ELSE d.remaining[u]
  <2>1. d.remaining \in [DagSteps -> Nat] /\ d.ready \in Seq(DagSteps)
    BY DagFields
  <2>2. left \in Nat
    BY <2>1
  <2> HIDE DEF left
  <2> QED  BY <2>1, <2>2
<1>2. [d EXCEPT !.remaining[t] = left] = e
  BY DEF DagStates
<1>3. r = IF stepReady(e, t) THEN [e EXCEPT !.ready = Append(e.ready, t)] ELSE e
  BY <1>2 DEF Released
<1> HIDE DEF rem, rd, left
<1>8. e \in DagStates /\ SameSteps(e, d) /\ e.remaining = rem /\ e.ready = d.ready
  BY <1>1, DagRecounted
<1> HIDE DEF e, r
<1>9. f \in DagStates /\ SameSteps(f, e) /\ f.remaining = e.remaining /\ f.ready = rd
  BY <1>1, <1>8, DagRequeued
<1>4. /\ e \in DagStates /\ SameSteps(e, d) /\ e.remaining = rem /\ e.ready = d.ready
      /\ f \in DagStates /\ SameSteps(f, d) /\ f.remaining = rem /\ f.ready = rd
  <2> HIDE DEF f
  <2> QED  BY <1>8, <1>9 DEF SameSteps
<1>5. stepReady(e, t) <=> left = 0 /\ d.status[t] = "SCHEDULED" /\ ~d.task[t]
  BY <1>1, <1>4 DEF stepReady, SameSteps
<1>6. r = IF stepReady(e, t) THEN f ELSE e
  BY <1>3, <1>4 DEF rd
<1> HIDE DEF f
<1>7. /\ r \in DagStates /\ SameSteps(r, d) /\ r.remaining = rem
      /\ r.ready = IF left = 0 /\ d.status[t] = "SCHEDULED" /\ ~d.task[t] THEN rd ELSE d.ready
  BY <1>4, <1>5, <1>6
<1> QED  BY <1>1, <1>7 DEF r, rd, left

\* Edges released, up to the j-th.
ReleaseFrom(b, q, j, r) ==
    /\ r \in DagStates /\ SameSteps(r, b) /\ AllReady(r)
    /\ \A t \in DagSteps : r.remaining[t] = b.remaining[t] - Cardinality(Places(t, q, j))

\* An edge more.
LEMMA ReleaseOne ==
    ASSUME NEW b \in DagStates, NEW q \in Seq(DagSteps), NEW j \in Nat, j + 1 <= Len(q), NEW r, ReleaseFrom(b, q, j, r),
           \A t \in DagSteps : Cardinality(Places(t, q, Len(q))) <= b.remaining[t]
    PROVE  ReleaseFrom(b, q, j + 1, Released(r, q[j + 1]))
<1> DEFINE x == q[j + 1]
           e == Released(r, x)
           left == IF r.remaining[x] > 0 THEN r.remaining[x] - 1 ELSE 0
<1>1. x \in DagSteps /\ Len(q) \in Nat
  OBVIOUS
<1>2. /\ r \in DagStates /\ SameSteps(r, b) /\ AllReady(r)
      /\ \A t \in DagSteps : r.remaining[t] = b.remaining[t] - Cardinality(Places(t, q, j))
  BY DEF ReleaseFrom
<1>3. \A t \in DagSteps : r.remaining[t] \in Nat /\ b.remaining[t] \in Nat
  BY <1>2, DagFields
<1>4. \A t \in DagSteps : /\ Cardinality(Places(t, q, j)) \in Nat
                          /\ Cardinality(Places(t, q, j + 1)) = Cardinality(Places(t, q, j)) + (IF x = t THEN 1 ELSE 0)
  BY PlacesGrow
<1>5. /\ e \in DagStates /\ SameSteps(e, r)
      /\ \A u \in DagSteps : e.remaining[u] = IF u = x THEN left ELSE r.remaining[u]
      /\ e.ready = IF left = 0 /\ r.status[x] = "SCHEDULED" /\ ~r.task[x] THEN Append(r.ready, x) ELSE r.ready
  <2> HIDE DEF x
  <2> QED  BY <1>1, <1>2, ReleasedFacts
<1>6. r.remaining[x] >= 1
  <2>1. Places(x, q, j + 1) \in SUBSET Places(x, q, Len(q)) /\ IsFiniteSet(Places(x, q, Len(q)))
    <3>1. IsFiniteSet(Places(x, q, Len(q)))
      BY <1>1, PlacesGrow
    <3>2. \A p \in 1 .. j + 1 : p \in 1 .. Len(q)
      BY <1>1
    <3> QED  BY <3>1, <3>2 DEF Places
  <2>2. Cardinality(Places(x, q, j + 1)) <= Cardinality(Places(x, q, Len(q)))
    BY <2>1, FS_Subset
  <2>3. Cardinality(Places(x, q, Len(q))) \in Nat /\ Cardinality(Places(x, q, Len(q))) <= b.remaining[x]
    BY <1>1, PlacesGrow
  <2>4. Cardinality(Places(x, q, j + 1)) = Cardinality(Places(x, q, j)) + 1 /\ Cardinality(Places(x, q, j)) \in Nat
    BY <1>1, <1>4
  <2>5. r.remaining[x] = b.remaining[x] - Cardinality(Places(x, q, j)) /\ r.remaining[x] \in Nat /\ b.remaining[x] \in Nat
    BY <1>1, <1>2, <1>3
  <2> QED  BY <2>2, <2>3, <2>4, <2>5
<1>7. left = r.remaining[x] - 1
  BY <1>1, <1>3, <1>6
<1> HIDE DEF x, e, left
<1>8. SameSteps(e, b)
  BY <1>2, <1>5 DEF SameSteps
<1>9. ASSUME NEW t \in DagSteps PROVE e.remaining[t] = b.remaining[t] - Cardinality(Places(t, q, j + 1))
  <2>1. /\ r.remaining[t] \in Nat /\ b.remaining[t] \in Nat /\ r.remaining[t] = b.remaining[t] - Cardinality(Places(t, q, j))
        /\ Cardinality(Places(t, q, j)) \in Nat
        /\ Cardinality(Places(t, q, j + 1)) = Cardinality(Places(t, q, j)) + (IF x = t THEN 1 ELSE 0)
    BY <1>2, <1>3, <1>4
  <2>2. CASE t = x
    <3>1. e.remaining[t] = r.remaining[t] - 1
      BY <1>5, <1>7, <2>2
    <3>2. Cardinality(Places(t, q, j + 1)) = Cardinality(Places(t, q, j)) + 1
      BY <2>1, <2>2
    <3> DEFINE c == Cardinality(Places(t, q, j))
               m == b.remaining[t]
    <3>3. c \in Nat /\ m \in Nat /\ e.remaining[t] = (m - c) - 1 /\ Cardinality(Places(t, q, j + 1)) = c + 1
      BY <2>1, <3>1, <3>2
    <3> HIDE DEF c, m
    <3>4. (m - c) - 1 = m - (c + 1)
      BY <3>3
    <3> QED  BY <3>3, <3>4 DEF m
  <2>3. CASE t # x
    BY <1>5, <2>1, <2>3
  <2> QED  BY <2>2, <2>3
<1>10. AllReady(e)
  <2> SUFFICES ASSUME NEW t \in DagSteps, stepReady(e, t) PROVE Listed(t, e.ready)
    BY DEF AllReady
  <2>1. r.ready \in Seq(DagSteps)
    BY <1>2, DagFields
  <2>2. \A y : Listed(y, Append(r.ready, x)) <=> Listed(y, r.ready) \/ y = x
    BY <1>1, <2>1, AppendFacts
  <2>3. e.remaining[t] = 0 /\ r.status[t] = "SCHEDULED" /\ ~r.task[t]
    BY <1>5 DEF stepReady, SameSteps
  <2>4. CASE t = x
    BY <1>5, <2>2, <2>3, <2>4
  <2>5. CASE t # x
    <3>1. stepReady(r, t)
      BY <1>5, <2>3, <2>5 DEF stepReady
    <3>2. Listed(t, r.ready)
      BY <1>2, <3>1 DEF AllReady
    <3> QED  BY <1>5, <2>2, <3>2
  <2> QED  BY <2>4, <2>5
<1>11. ReleaseFrom(b, q, j + 1, e)
  BY <1>5, <1>8, <1>9, <1>10 DEF ReleaseFrom
<1> QED  BY <1>11 DEF e, x

\* All edges of a step.
LEMMA ReleaseAll ==
    ASSUME NEW b \in DagStates, AllReady(b), NEW q \in Seq(DagSteps),
           \A t \in DagSteps : Cardinality(Places(t, q, Len(q))) <= b.remaining[t]
    PROVE  ReleaseFrom(b, q, Len(q), FoldLeft(Released, b, q))
<1> DEFINE n == Len(q)
<1>1. n \in Nat /\ \A i \in 1 .. n : q[i] \in DagSteps
  OBVIOUS
<1>2. ReleaseRuns(b, q)
  <2>1. ReleaseStays(DagStates, q)
    BY <1>1, ReleasedFacts DEF ReleaseStays
  <2> QED  BY <1>1, <2>1, ReleaseSteps
<1>3. PICK h : /\ h[0] = b /\ FoldLeft(Released, b, q) = h[n]
               /\ \A i \in 1 .. n : h[i] = Released(h[i - 1], q[i])
  BY <1>2 DEF ReleaseRuns
<1> DEFINE P == {i \in 0 .. n : ReleaseFrom(b, q, i, h[i])}
<1>4. 0 \in P
  <2>1. \A t \in DagSteps : Cardinality(Places(t, q, 0)) = 0
    <3>1. 0 \in Nat
      OBVIOUS
    <3> QED  BY <3>1, PlacesGrow
  <2>2. \A t \in DagSteps : b.remaining[t] = b.remaining[t] - Cardinality(Places(t, q, 0))
    BY <2>1, DagFields
  <2>3. ReleaseFrom(b, q, 0, b)
    BY <2>2 DEF ReleaseFrom, SameSteps
  <2> QED  BY <1>1, <1>3, <2>3
<1>5. ASSUME NEW i \in 0 .. n - 1, i \in P PROVE i + 1 \in P
  <2>1. i \in Nat /\ i + 1 <= n /\ i + 1 \in 1 .. n /\ i + 1 \in 0 .. n /\ (i + 1) - 1 = i
    BY <1>1
  <2>2. h[i + 1] = Released(h[i], q[i + 1])
    BY <1>3, <2>1
  <2>3. ReleaseFrom(b, q, i, h[i])
    BY <1>5
  <2>4. ReleaseFrom(b, q, i + 1, Released(h[i], q[i + 1]))
    BY <1>1, <2>1, <2>3, ReleaseOne
  <2> QED  BY <2>1, <2>2, <2>4
<1>6. n \in P
  <2>1. \A i \in 0 .. n - 1 : i \in P => i + 1 \in P
    BY <1>5
  <2>2. n \in 0 .. n
    BY <1>1
  <2> HIDE DEF P, n
  <2>3. \A i \in 0 .. n : i \in P
    BY <1>1, <1>4, <2>1, StepsTo
  <2> QED  BY <2>2, <2>3
<1> QED  BY <1>3, <1>6

\* Success, reported once or again.
LEMMA UnlockGood ==
    ASSUME GoodGraph, NEW d, GoodDag(d), NEW s \in DagSteps
    PROVE  GoodDag(Unlock(d, s)) /\ Unlock(d, s).order = d.order
<1>1. d \in DagStates /\ Counted(d) /\ AllReady(d)
  BY DEF GoodDag
<1>2. CASE d.status[s] = "SUCCEEDED"
  BY <1>2 DEF Unlock
<1>3. CASE d.status[s] # "SUCCEEDED"
  <2> DEFINE b == [d EXCEPT !.status[s] = "SUCCEEDED"]
             q == Outgoing(s)
             r == FoldLeft(Released, b, q)
             D == Ended(d)
  <2>1. /\ b \in DagStates /\ b.remaining = d.remaining /\ b.ready = d.ready /\ b.task = d.task /\ b.order = d.order
        /\ b.status = [d.status EXCEPT ![s] = "SUCCEEDED"]
    BY <1>1 DEF DagStates, DagStatuses
  <2>2. \A t \in DagSteps : b.status[t] = IF t = s THEN "SUCCEEDED" ELSE d.status[t]
    BY <1>1, <2>1, DagFields
  <2>3. Unlock(d, s) = r
    BY <1>3 DEF Unlock
  <2> HIDE DEF b
  <2>4. Ended(b) = D \cup {s} /\ s \notin D
    BY <1>3, <2>2 DEF Ended
  <2>5. AllReady(b)
    <3> SUFFICES ASSUME NEW t \in DagSteps, stepReady(b, t) PROVE Listed(t, b.ready)
      BY DEF AllReady
    <3>1. stepReady(d, t)
      BY <2>1, <2>2 DEF stepReady
    <3> QED  BY <1>1, <2>1, <3>1 DEF AllReady
  <2>6. q \in Seq(DagSteps) /\ \A t \in DagSteps : Cardinality(Places(t, q, Len(q))) = Occurrences(s, dependsOn[t])
    BY OutgoingFacts DEF EdgesOf
  <2> HIDE DEF q, D
  <2>7. \A t \in DagSteps : /\ Left(t, D) \in Nat /\ Left(t, D \cup {s}) \in Nat /\ Occurrences(s, dependsOn[t]) \in Nat
                            /\ Left(t, D \cup {s}) = Left(t, D) - Occurrences(s, dependsOn[t])
    BY <2>4, LeftFacts, LeftDrops
  <2>8. \A t \in DagSteps : b.remaining[t] = Left(t, D)
    BY <1>1, <2>1 DEF Counted, D
  <2>9. ASSUME NEW t \in DagSteps PROVE Cardinality(Places(t, q, Len(q))) <= b.remaining[t]
    <3> DEFINE x == Left(t, D)
               y == Left(t, D \cup {s})
               z == Occurrences(s, dependsOn[t])
    <3>1. x \in Nat /\ y \in Nat /\ z \in Nat /\ y = x - z
      BY <2>7
    <3>2. Cardinality(Places(t, q, Len(q))) = z /\ b.remaining[t] = x
      BY <2>6, <2>8
    <3> HIDE DEF x, y, z
    <3> QED  BY <3>1, <3>2
  <2>10. ReleaseFrom(b, q, Len(q), r)
    BY <2>1, <2>5, <2>6, <2>9, ReleaseAll
  <2> HIDE DEF r
  <2>11. /\ r \in DagStates /\ AllReady(r) /\ r.order = b.order /\ r.status = b.status
         /\ \A t \in DagSteps : r.remaining[t] = b.remaining[t] - Cardinality(Places(t, q, Len(q)))
    BY <2>10 DEF ReleaseFrom, SameSteps
  <2>12. Ended(r) = D \cup {s}
    BY <2>4, <2>11 DEF Ended
  <2>13. Counted(r)
    BY <2>6, <2>7, <2>8, <2>11, <2>12 DEF Counted
  <2> QED  BY <2>1, <2>3, <2>11, <2>13 DEF GoodDag
<1> QED  BY <1>2, <1>3

\* A failed step put back.
LEMMA RetriedGood ==
    ASSUME GoodGraph, NEW d, GoodDag(d), NEW s \in DagSteps, d.status[s] # "SUCCEEDED"
    PROVE  GoodDag(Retried(d, s)) /\ Retried(d, s).order = d.order /\ Ended(Retried(d, s)) = Ended(d)
<1> DEFINE b == [d EXCEPT !.status[s] = "SCHEDULED", !.task[s] = FALSE]
           f == [b EXCEPT !.ready = Append(b.ready, s)]
           r == Retried(d, s)
<1>1. d \in DagStates /\ Counted(d) /\ AllReady(d)
  BY DEF GoodDag
<1>2. /\ b \in DagStates /\ b.remaining = d.remaining /\ b.ready = d.ready /\ b.order = d.order
      /\ b.status = [d.status EXCEPT ![s] = "SCHEDULED"] /\ b.task = [d.task EXCEPT ![s] = FALSE]
  BY <1>1 DEF DagStates, DagStatuses
<1>3. r = IF stepReady(b, s) THEN f ELSE b
  BY DEF Retried
<1> HIDE DEF b, r
<1>4. \A t \in DagSteps : /\ b.status[t] = IF t = s THEN "SCHEDULED" ELSE d.status[t]
                          /\ t # s => b.task[t] = d.task[t]
  BY <1>1, <1>2, DagFields
<1>5. Ended(b) = Ended(d)
  BY <1>4 DEF Ended
<1>6. Counted(b)
  BY <1>1, <1>2, <1>5 DEF Counted
<1>7. \A t \in DagSteps : t # s /\ stepReady(b, t) => Listed(t, d.ready)
  <2> SUFFICES ASSUME NEW t \in DagSteps, t # s, stepReady(b, t) PROVE Listed(t, d.ready)
    OBVIOUS
  <2>1. stepReady(d, t)
    BY <1>2, <1>4 DEF stepReady
  <2> QED  BY <1>1, <2>1 DEF AllReady
<1>8. CASE stepReady(b, s)
  <2>1. b.ready \in Seq(DagSteps)
    BY <1>2, DagFields
  <2>2. Append(b.ready, s) \in Seq(DagSteps) /\ \A y : Listed(y, Append(b.ready, s)) <=> Listed(y, b.ready) \/ y = s
    BY <2>1, AppendFacts
  <2>3. f \in DagStates /\ SameSteps(f, b) /\ f.remaining = b.remaining /\ f.ready = Append(b.ready, s)
    BY <1>2, <2>2, DagRequeued
  <2> HIDE DEF f
  <2>4. Ended(f) = Ended(d)
    BY <1>5, <2>3 DEF Ended, SameSteps
  <2>5. Counted(f)
    BY <1>5, <1>6, <2>3, <2>4 DEF Counted
  <2>6. \A t \in DagSteps : stepReady(f, t) => stepReady(b, t)
    BY <2>3 DEF stepReady, SameSteps
  <2>7. AllReady(f)
    BY <1>2, <1>7, <2>2, <2>3, <2>6 DEF AllReady
  <2>8. f.order = d.order
    BY <1>2, <2>3 DEF SameSteps
  <2>9. r = f
    BY <1>3, <1>8
  <2> QED  BY <2>3, <2>4, <2>5, <2>7, <2>8, <2>9 DEF GoodDag, r
<1>9. CASE ~stepReady(b, s)
  <2>1. r = b
    BY <1>3, <1>9
  <2>2. AllReady(b)
    BY <1>2, <1>7, <1>9 DEF AllReady
  <2> QED  BY <1>2, <1>5, <1>6, <2>1, <2>2 DEF GoodDag, r
<1> QED  BY <1>8, <1>9

\* A graph built from an order that has every step.
LEMMA BuiltGood ==
    ASSUME GoodGraph, NEW d \in DagStates, \A t \in DagSteps : Listed(t, d.order)
    PROVE  /\ GoodDag(buildRuntimeDAG(d)) /\ buildRuntimeDAG(d).order = d.order
           /\ Ended(buildRuntimeDAG(d)) = Ended(d)
<1> DEFINE rem == [s \in DagSteps |-> Cardinality({k \in DOMAIN dependsOn[s] : d.status[dependsOn[s][k]] # "SUCCEEDED"})]
           e == [d EXCEPT !.remaining = rem]
           rd == Keep(d.order, {s \in DagSteps : stepReady(e, s)})
           r == [e EXCEPT !.ready = rd]
<1>1. buildRuntimeDAG(d) = r
  BY DEF buildRuntimeDAG
<1>2. ASSUME NEW t \in DagSteps PROVE rem[t] = Left(t, Ended(d)) /\ rem[t] \in Nat
  <2>1. \A k \in DOMAIN dependsOn[t] : dependsOn[t][k] \in DagSteps
    BY DEF GoodGraph
  <2>2. Waits(t, Ended(d)) = {k \in DOMAIN dependsOn[t] : d.status[dependsOn[t][k]] # "SUCCEEDED"}
    BY <2>1 DEF Waits, Ended
  <2>3. Left(t, Ended(d)) \in Nat
    BY LeftFacts
  <2> QED  BY <2>2, <2>3 DEF Left
<1>3. rem \in [DagSteps -> Nat]
  <2>1. rem = [s \in DagSteps |-> rem[s]]
    OBVIOUS
  <2>2. \A t \in DagSteps : rem[t] \in Nat
    BY <1>2
  <2> HIDE DEF rem
  <2> QED  BY <2>1, <2>2
<1> HIDE DEF rem
<1>4. e \in DagStates /\ SameSteps(e, d) /\ e.remaining = rem
  BY <1>3, DagRecounted
<1> HIDE DEF e
<1>5. d.order \in Seq(DagSteps)
  BY DagFields
<1>6. rd \in Seq(DagSteps) /\ \A x : Listed(x, rd) <=> x \in {s \in DagSteps : stepReady(e, s)} /\ Listed(x, d.order)
  BY <1>5, KeepFacts
<1> HIDE DEF rd
<1>7. r \in DagStates /\ SameSteps(r, e) /\ r.remaining = e.remaining /\ r.ready = rd
  BY <1>4, <1>6, DagRequeued
<1> HIDE DEF r
<1>8. Ended(r) = Ended(d) /\ r.order = d.order
  BY <1>4, <1>7 DEF SameSteps, Ended
<1>9. Counted(r)
  BY <1>2, <1>4, <1>7, <1>8 DEF Counted
<1>10. \A t \in DagSteps : stepReady(r, t) => stepReady(e, t)
  BY <1>7 DEF stepReady, SameSteps
<1>11. AllReady(r)
  BY <1>6, <1>7, <1>10 DEF AllReady
<1> QED  BY <1>1, <1>7, <1>8, <1>9, <1>11 DEF GoodDag

\* Failed steps put back one by one.
LEMMA RetryAll ==
    ASSUME GoodGraph, NEW b, GoodDag(b), NEW q \in Seq(DagSteps), \A i \in 1 .. Len(q) : b.status[q[i]] # "SUCCEEDED"
    PROVE  GoodDag(FoldLeft(Retried, b, q)) /\ FoldLeft(Retried, b, q).order = b.order
<1> DEFINE n == Len(q)
           V == {d \in DagStates : GoodDag(d) /\ Ended(d) = Ended(b) /\ d.order = b.order}
<1>1. n \in Nat /\ (\A i \in 1 .. n : q[i] \in DagSteps) /\ b \in V
  BY DEF GoodDag
<1>2. ASSUME NEW d \in V, NEW i \in 1 .. n PROVE Retried(d, q[i]) \in V
  <2>1. q[i] \in DagSteps /\ q[i] \notin Ended(b)
    BY <1>1 DEF Ended
  <2>2. d.status[q[i]] # "SUCCEEDED" /\ GoodDag(d)
    BY <2>1 DEF Ended
  <2>3. GoodDag(Retried(d, q[i])) /\ Retried(d, q[i]).order = d.order /\ Ended(Retried(d, q[i])) = Ended(d)
    BY <2>1, <2>2, RetriedGood
  <2> QED  BY <2>3 DEF GoodDag
<1>3. RetryRuns(b, q)
  <2> HIDE DEF V
  <2>1. RetryStays(V, q)
    BY <1>2 DEF RetryStays
  <2> QED  BY <1>1, <2>1, RetrySteps
<1>4. PICK h : /\ h[0] = b /\ FoldLeft(Retried, b, q) = h[n]
               /\ \A i \in 1 .. n : h[i] = Retried(h[i - 1], q[i])
  BY <1>3 DEF RetryRuns
<1> DEFINE P == {i \in 0 .. n : h[i] \in V}
<1> HIDE DEF V
<1>5. 0 \in P
  BY <1>1, <1>4
<1>6. ASSUME NEW i \in 0 .. n - 1, i \in P PROVE i + 1 \in P
  <2>1. i + 1 \in 1 .. n /\ i + 1 \in 0 .. n /\ (i + 1) - 1 = i
    BY <1>1
  <2>2. h[i + 1] = Retried(h[i], q[i + 1]) /\ h[i] \in V
    BY <1>4, <1>6, <2>1
  <2> QED  BY <1>2, <2>1, <2>2
<1>7. n \in P
  <2>1. \A i \in 0 .. n - 1 : i \in P => i + 1 \in P
    BY <1>6
  <2>2. n \in 0 .. n
    BY <1>1
  <2> HIDE DEF P, n
  <2>3. \A i \in 0 .. n : i \in P
    BY <1>1, <1>5, <2>1, StepsTo
  <2> QED  BY <2>2, <2>3
<1> QED  BY <1>4, <1>7 DEF V

\* An order that has every step once, behind what it depends on.
Sorted(q) == q \in Seq(DagSteps) /\ Len(q) = NSteps /\ NoTwice(q) /\ Behind(q) /\ \A t \in DagSteps : Listed(t, q)

\* The inductive invariant.
DagInv ==
    /\ dagPhase \in {"submitted", "rejected", "running"} /\ GoodGraph
    /\ dagPhase = "rejected" => Cyclic
    /\ dagPhase = "running" => ~Cyclic /\ GoodDag(dag) /\ Sorted(dag.order)

\* A step that leaves the definition alone and leaves a good graph keeps the invariant.
LEMMA DagKept ==
    ASSUME DagInv, dependsOn' = dependsOn, dagPhase = "running", dagPhase' = dagPhase,
           NEW d, dag' = d, GoodDag(d), Sorted(d.order)
    PROVE  DagInv'
<1>1. GoodGraph' /\ ~Cyclic'
  BY DEF DagInv, GoodGraph, Cyclic
<1>2. \A t, D : Waits(t, D)' = Waits(t, D)
  BY DEF Waits
<1>3. \A t, D : Left(t, D)' = Left(t, D)
  BY <1>2 DEF Left
<1>4. d \in DagStates /\ (\A t \in DagSteps : d.remaining[t] = Left(t, Ended(d))) /\ AllReady(d)
  BY DEF GoodDag, Counted
<1>5. Ended(dag)' = Ended(d)
  BY DEF Ended
<1>6. Counted(dag)'
  BY <1>3, <1>4, <1>5 DEF Counted
<1>7. AllReady(dag)'
  BY <1>4 DEF AllReady, stepReady, Listed
<1>8. GoodDag(dag)'
  BY <1>4, <1>6, <1>7 DEF GoodDag
<1>9. Behind(d.order)'
  BY DEF Sorted, Behind
<1>10. Sorted(dag.order)'
  BY <1>9 DEF Sorted, NoTwice, Listed, Behind
<1> QED  BY <1>1, <1>8, <1>10 DEF DagInv

\* It holds at the start.
LEMMA DagInvInit == DagInit => DagInv
<1> SUFFICES ASSUME DagInit PROVE DagInv
  OBVIOUS
<1>1. dagPhase = "submitted" /\ dependsOn \in [DagSteps -> DagDepends]
  BY DEF DagInit
<1>2. GoodGraph
  BY <1>1, DagAssumption DEF GoodGraph
<1> QED  BY <1>1, <1>2 DEF DagInv

\* A definition is accepted when it has no cycle, and then has an order.
LEMMA ParseKeeps == DagInv /\ ParseDefinition => DagInv'
<1> SUFFICES ASSUME DagInv, ParseDefinition PROVE DagInv'
  OBVIOUS
<1>1. GoodGraph /\ dependsOn' = dependsOn
  BY DEF DagInv, ParseDefinition
<1> DEFINE top == topologicalStepDefinitions
<1>2. ~Cyclic => ValidateDefinition /\ Sorted(top)
  BY <1>1, KahnEnds, FoundCycle DEF Sorted
<1>3. Cyclic => ~ValidateDefinition
  BY <1>1, CycleFound
<1>4. GoodGraph' /\ (Cyclic' <=> Cyclic)
  BY <1>1 DEF GoodGraph, Cyclic
<1>5. CASE Cyclic
  <2>1. dagPhase' = "rejected"
    BY <1>3, <1>5 DEF ParseDefinition
  <2> QED  BY <1>4, <1>5, <2>1 DEF DagInv
<1>6. CASE ~Cyclic
  <2> DEFINE b == [order |-> top,
                     status |-> [s \in DagSteps |-> "SCHEDULED"], task |-> [s \in DagSteps |-> FALSE],
                     attempts |-> [s \in DagSteps |-> 0],
                     remaining |-> [s \in DagSteps |-> 0], ready |-> <<>>]
             d == buildRuntimeDAG(b)
  <2>1. ValidateDefinition /\ Sorted(top)
    BY <1>2, <1>6
  <2>2. Len(top) = Cardinality(DagSteps)
    BY <2>1 DEF Sorted, NSteps
  <2>3. dagPhase' = "running" /\ dag' = NewState
    BY <2>1, <2>2 DEF ParseDefinition
  <2>4. NewState = d
    BY DEF NewState
  <2>5. b \in DagStates /\ b.order = top
    <3>1. top \in Seq(DagSteps)
      BY <2>1 DEF Sorted
    <3> HIDE DEF top
    <3>2. <<>> \in Seq(DagSteps) /\ [s \in DagSteps |-> 0] \in [DagSteps -> Nat]
      OBVIOUS
    <3> QED  BY <3>1, <3>2 DEF DagStates, DagStatuses
  <2> HIDE DEF b, top
  <2>6. \A t \in DagSteps : Listed(t, b.order)
    BY <2>1, <2>5 DEF Sorted
  <2>7. GoodDag(d) /\ d.order = top
    BY <1>1, <2>5, <2>6, BuiltGood
  <2> HIDE DEF d
  <2>8. \A t, D : Waits(t, D)' = Waits(t, D)
    BY <1>1 DEF Waits
  <2>9. \A t, D : Left(t, D)' = Left(t, D)
    BY <2>8 DEF Left
  <2>10. d \in DagStates /\ (\A t \in DagSteps : d.remaining[t] = Left(t, Ended(d))) /\ AllReady(d)
    BY <2>7 DEF GoodDag, Counted
  <2>11. dag' = d
    BY <2>3, <2>4
  <2>12. Ended(dag)' = Ended(d)
    BY <2>11 DEF Ended
  <2>13. Counted(dag)'
    BY <2>9, <2>10, <2>11, <2>12 DEF Counted
  <2>14. AllReady(dag)'
    BY <2>10, <2>11 DEF AllReady, stepReady, Listed
  <2>15. GoodDag(dag)'
    BY <2>10, <2>11, <2>13, <2>14 DEF GoodDag
  <2>16. Sorted(dag.order)'
    <3>1. PICK o : o = dag'.order /\ Sorted(o)
      BY <2>1, <2>7, <2>11
    <3>2. o \in Seq(DagSteps) /\ Len(o) = NSteps /\ NoTwice(o) /\ Behind(o) /\ \A t \in DagSteps : Listed(t, o)
      BY <3>1 DEF Sorted
    <3>3. Behind(dag.order)'
      BY <1>1, <3>1, <3>2 DEF Behind
    <3>4. NoTwice(dag.order)'
      BY <3>1, <3>2 DEF NoTwice
    <3>5. (\A t \in DagSteps : Listed(t, dag.order))'
      BY <3>1, <3>2 DEF Listed
    <3> QED  BY <3>1, <3>2, <3>3, <3>4, <3>5 DEF Sorted
  <2> QED  BY <1>4, <1>6, <2>3, <2>15, <2>16 DEF DagInv
<1> QED  BY <1>5, <1>6

\* A task for a ready step.
LEMMA ScheduledKeeps == DagInv /\ SetStepScheduled => DagInv'
<1> SUFFICES ASSUME DagInv, SetStepScheduled PROVE DagInv'
  OBVIOUS
<1> DEFINE s == popReady(dag)
           d == [dag EXCEPT !.task[s] = TRUE, !.attempts[s] = dag.attempts[s] + 1]
<1>1. /\ dagPhase = "running" /\ dagPhase' = dagPhase /\ dependsOn' = dependsOn /\ dag \in DagStates /\ dag' = d
      /\ Counted(dag) /\ AllReady(dag) /\ Sorted(dag.order)
  BY DEF SetStepScheduled, DagInv, GoodDag
<1> DEFINE ta == [dag.task EXCEPT ![s] = TRUE]
           at == [dag.attempts EXCEPT ![s] = dag.attempts[s] + 1]
<1>2. ta \in [DagSteps -> BOOLEAN] /\ at \in [DagSteps -> Nat] /\ \A t \in DagSteps : ~ta[t] => ~dag.task[t]
  <2>1. dag.task \in [DagSteps -> BOOLEAN] /\ dag.attempts \in [DagSteps -> Nat]
    BY <1>1, DagFields
  <2> HIDE DEF s
  <2>2. at \in [DagSteps -> Nat]
    <3> DEFINE f == dag.attempts
    <3> HIDE DEF f
    <3>1. f \in [DagSteps -> Nat]
      BY <2>1 DEF f
    <3>2. CASE s \in DagSteps
      <4>1. [f EXCEPT ![s] = f[s] + 1] \in [DagSteps -> Nat]
        BY <3>1, <3>2
      <4> QED  BY <4>1 DEF f
    <3>3. CASE s \notin DagSteps
      <4>1. [f EXCEPT ![s] = f[s] + 1] = f
        BY <3>1, <3>3
      <4> QED  BY <3>1, <4>1 DEF f
    <3> QED  BY <3>2, <3>3
  <2>3. \A t \in DagSteps : (t # s => ta[t] = dag.task[t]) /\ (t = s => ta[t])
    BY <2>1, Zenon
  <2>4. ta \in [DagSteps -> BOOLEAN]
    BY <2>1
  <2>5. ASSUME NEW t \in DagSteps, ~ta[t] PROVE ~dag.task[t]
    <3>1. CASE t = s
      BY <2>3, <2>5, <3>1
    <3>2. CASE t # s
      BY <2>3, <2>5, <3>2
    <3> QED  BY <3>1, <3>2
  <2> QED  BY <2>2, <2>4, <2>5
<1>3. d = [dag EXCEPT !.task = ta, !.attempts = at]
  BY <1>1 DEF DagStates
<1> HIDE DEF d, ta, at, s
<1>4. /\ d \in DagStates /\ d.task = ta /\ d.order = dag.order /\ d.status = dag.status
      /\ d.remaining = dag.remaining /\ d.ready = dag.ready
  BY <1>1, <1>2, <1>3 DEF DagStates
<1>5. Counted(d)
  BY <1>1, <1>4 DEF Counted, Ended
<1>6. \A t \in DagSteps : stepReady(d, t) => stepReady(dag, t)
  BY <1>2, <1>4 DEF stepReady
<1>7. AllReady(d)
  BY <1>1, <1>4, <1>6 DEF AllReady
<1>8. GoodDag(d) /\ Sorted(d.order)
  BY <1>1, <1>4, <1>5, <1>7 DEF GoodDag
<1> QED  BY <1>1, <1>8, DagKept

\* A status that is neither the end of a step nor ready.
LEMMA StatusKeeps ==
    ASSUME NEW s \in DagSteps, NEW x \in {"STARTED", "FAILED"}, GoodDag(dag), dag.status[s] # "SUCCEEDED"
    PROVE  GoodDag([dag EXCEPT !.status[s] = x]) /\ [dag EXCEPT !.status[s] = x].order = dag.order
<1> DEFINE d == [dag EXCEPT !.status[s] = x]
<1>1. dag \in DagStates /\ Counted(dag) /\ AllReady(dag)
  BY DEF GoodDag
<1>2. /\ d \in DagStates /\ d.task = dag.task /\ d.order = dag.order /\ d.status = [dag.status EXCEPT ![s] = x]
      /\ d.remaining = dag.remaining /\ d.ready = dag.ready
  BY <1>1 DEF DagStates, DagStatuses
<1> HIDE DEF d
<1>3. \A t \in DagSteps : d.status[t] = IF t = s THEN x ELSE dag.status[t]
  BY <1>1, <1>2, DagFields
<1>4. Ended(d) = Ended(dag)
  BY <1>3 DEF Ended
<1>5. Counted(d)
  BY <1>1, <1>2, <1>4 DEF Counted
<1>6. \A t \in DagSteps : stepReady(d, t) => stepReady(dag, t)
  BY <1>2, <1>3 DEF stepReady
<1>7. AllReady(d)
  BY <1>1, <1>2, <1>6 DEF AllReady
<1>8. GoodDag(d) /\ d.order = dag.order
  BY <1>2, <1>5, <1>7 DEF GoodDag
<1> QED  BY <1>8 DEF d

\* A restart builds the graph anew.
LEMMA RebuildKeeps == DagInv /\ RebuildRuntime => DagInv'
<1> SUFFICES ASSUME DagInv, RebuildRuntime PROVE DagInv'
  OBVIOUS
<1> DEFINE again == {s \in DagSteps : dag.status[s] = "SCHEDULED" /\ ~dag.task[s] /\ dag.attempts[s] > 0}
           st == [s \in DagSteps |-> IF s \in again THEN "FAILED" ELSE dag.status[s]]
           b == [dag EXCEPT !.status = st]
           r == buildRuntimeDAG(b)
           q == Keep(dag.order, again)
           d == FoldLeft(Retried, r, q)
<1>1. /\ dagPhase = "running" /\ dagPhase' = dagPhase /\ dependsOn' = dependsOn /\ dag \in DagStates /\ dag' = d
      /\ GoodGraph /\ Sorted(dag.order)
  BY DEF RebuildRuntime, DagInv, GoodDag
<1>2. st \in [DagSteps -> DagStatuses] /\ \A t \in DagSteps : t \in again => st[t] = "FAILED"
  <2>1. dag.status \in [DagSteps -> DagStatuses]
    BY <1>1, DagFields
  <2> HIDE DEF again
  <2> QED  BY <2>1 DEF DagStatuses
<1> HIDE DEF st
<1>3. b \in DagStates /\ b.order = dag.order /\ b.status = st
  BY <1>1, <1>2 DEF DagStates
<1> HIDE DEF b
<1>4. \A t \in DagSteps : Listed(t, b.order)
  BY <1>1, <1>3 DEF Sorted
<1>5. GoodDag(r) /\ r.order = dag.order /\ Ended(r) = Ended(b)
  BY <1>1, <1>3, <1>4, BuiltGood
<1> HIDE DEF r
<1>6. dag.order \in Seq(DagSteps)
  BY <1>1, DagFields
<1>7. q \in Seq(DagSteps) /\ \A x : Listed(x, q) <=> x \in again /\ Listed(x, dag.order)
  <2> HIDE DEF again
  <2> QED  BY <1>6, KeepFacts
<1> HIDE DEF q, again
<1>8. \A i \in 1 .. Len(q) : r.status[q[i]] # "SUCCEEDED"
  <2> SUFFICES ASSUME NEW i \in 1 .. Len(q) PROVE r.status[q[i]] # "SUCCEEDED"
    OBVIOUS
  <2>1. q[i] \in DagSteps /\ Listed(q[i], q)
    BY <1>7 DEF Listed
  <2>2. q[i] \in again
    BY <1>7, <2>1
  <2>3. q[i] \notin Ended(b)
    BY <1>2, <1>3, <2>1, <2>2 DEF Ended
  <2> QED  BY <1>5, <2>1, <2>3 DEF Ended
<1>9. GoodDag(d) /\ d.order = r.order
  BY <1>1, <1>5, <1>7, <1>8, RetryAll
<1> HIDE DEF d
<1>10. Sorted(d.order)
  BY <1>1, <1>5, <1>9
<1> QED  BY <1>1, <1>9, <1>10, DagKept

\* Every step keeps the invariant.
LEMMA DagInvNext == DagInv /\ [DagNext]_dagVars => DagInv'
<1> SUFFICES ASSUME DagInv, [DagNext]_dagVars PROVE DagInv'
  OBVIOUS
<1>1. CASE ParseDefinition
  BY <1>1, ParseKeeps
<1>2. CASE SetStepScheduled
  BY <1>2, ScheduledKeeps
<1>3. CASE RebuildRuntime
  BY <1>3, RebuildKeeps
<1>4. ASSUME NEW s \in DagSteps, SetStepStarted(s) PROVE DagInv'
  <2> DEFINE d == [dag EXCEPT !.status[s] = "STARTED"]
  <2>1. /\ dagPhase = "running" /\ dagPhase' = dagPhase /\ dependsOn' = dependsOn /\ dag.status[s] # "SUCCEEDED"
        /\ GoodDag(dag) /\ Sorted(dag.order) /\ dag' = d
    BY <1>4 DEF SetStepStarted, DagInv
  <2>2. GoodDag(d) /\ d.order = dag.order
    BY <2>1, StatusKeeps
  <2> HIDE DEF d
  <2>3. Sorted(d.order)
    BY <2>1, <2>2
  <2> QED  BY <2>1, <2>2, <2>3, DagKept
<1>5. ASSUME NEW s \in DagSteps, SetStepSucceeded(s) PROVE DagInv'
  <2> DEFINE d == Unlock(dag, s)
  <2>1. /\ dagPhase = "running" /\ dagPhase' = dagPhase /\ dependsOn' = dependsOn /\ GoodGraph
        /\ GoodDag(dag) /\ Sorted(dag.order) /\ dag' = d
    BY <1>5 DEF SetStepSucceeded, DagInv
  <2>2. GoodDag(d) /\ d.order = dag.order
    BY <2>1, UnlockGood
  <2> HIDE DEF d
  <2>3. Sorted(d.order)
    BY <2>1, <2>2
  <2> QED  BY <2>1, <2>2, <2>3, DagKept
<1>6. ASSUME NEW s \in DagSteps, SetStepFailed(s) PROVE DagInv'
  <2> DEFINE d == IF dag.attempts[s] < DagAttempts THEN Retried(dag, s) ELSE [dag EXCEPT !.status[s] = "FAILED"]
  <2>1. /\ dagPhase = "running" /\ dagPhase' = dagPhase /\ dependsOn' = dependsOn /\ GoodGraph
        /\ dag.status[s] # "SUCCEEDED" /\ GoodDag(dag) /\ Sorted(dag.order) /\ dag' = d
    BY <1>6 DEF SetStepFailed, DagInv
  <2>2. GoodDag(Retried(dag, s)) /\ Retried(dag, s).order = dag.order
    BY <2>1, RetriedGood
  <2>3. GoodDag([dag EXCEPT !.status[s] = "FAILED"]) /\ [dag EXCEPT !.status[s] = "FAILED"].order = dag.order
    BY <2>1, StatusKeeps
  <2>4. GoodDag(d) /\ d.order = dag.order
    BY <2>2, <2>3
  <2> HIDE DEF d
  <2>5. Sorted(d.order)
    BY <2>1, <2>4
  <2> QED  BY <2>1, <2>4, <2>5, DagKept
<1>7. CASE UNCHANGED dagVars
  <2>1. dagPhase' = dagPhase /\ dependsOn' = dependsOn /\ dag' = dag
    BY <1>7 DEF dagVars
  <2>2. CASE dagPhase = "running"
    <3>1. PICK d : d = dag
      OBVIOUS
    <3>2. dag' = d /\ GoodDag(d) /\ Sorted(d.order)
      BY <2>1, <2>2, <3>1 DEF DagInv
    <3> QED  BY <2>1, <2>2, <3>2, DagKept
  <2>3. CASE dagPhase # "running"
    BY <2>1, <2>3 DEF DagInv, GoodGraph, Cyclic
  <2> QED  BY <2>2, <2>3
<1> QED  BY <1>1, <1>2, <1>3, <1>4, <1>5, <1>6, <1>7 DEF DagNext

\* The invariant implies what the run checks.
LEMMA DagInvExact == DagInv => GraphExact
<1> SUFFICES ASSUME DagInv PROVE TopologicalOrder /\ ReadyExact
  BY DEF GraphExact
<1>1. ASSUME dagPhase = "running"
      PROVE  /\ Len(dag.order) = Cardinality(DagSteps) /\ ToSet(dag.order) = DagSteps
             /\ \A i, j \in DOMAIN dag.order :
                  (\E k \in DOMAIN dependsOn[dag.order[i]] : dependsOn[dag.order[i]][k] = dag.order[j]) => j < i
  <2> DEFINE q == dag.order
  <2>1. q \in Seq(DagSteps) /\ Len(q) = NSteps /\ NoTwice(q) /\ Behind(q) /\ \A t \in DagSteps : Listed(t, q)
    BY <1>1 DEF DagInv, Sorted
  <2>2. DOMAIN q = 1 .. Len(q) /\ Len(q) \in Nat
    BY <2>1
  <2> HIDE DEF q
  <2>3. ToSet(q) = DagSteps
    <3>1. ToSet(q) = {q[i] : i \in 1 .. Len(q)}
      BY <2>2 DEF ToSet
    <3>2. \A i \in 1 .. Len(q) : q[i] \in DagSteps
      BY <2>1
    <3> QED  BY <2>1, <3>1, <3>2 DEF Listed
  <2>4. ASSUME NEW i \in 1 .. Len(q), NEW j \in 1 .. Len(q), NEW k \in DOMAIN dependsOn[q[i]], dependsOn[q[i]][k] = q[j]
        PROVE  j < i
    <3>1. PICK m \in 1 .. i - 1 : q[m] = q[j]
      BY <2>1, <2>4 DEF Behind
    <3>2. m \in 1 .. Len(q)
      BY <2>2
    <3>3. m = j
      BY <2>1, <3>1, <3>2 DEF NoTwice
    <3> QED  BY <3>1, <3>3
  <2>5. \A i, j \in DOMAIN q : (\E k \in DOMAIN dependsOn[q[i]] : dependsOn[q[i]][k] = q[j]) => j < i
    BY <2>2, <2>4
  <2> QED  BY <2>1, <2>3, <2>5 DEF q, NSteps
<1>2. TopologicalOrder
  BY <1>1 DEF TopologicalOrder, DagInv
<1>3. ReadyExact
  <2> SUFFICES ASSUME dagPhase = "running", NEW s \in DagSteps
               PROVE  s \in Poppable(dag) <=>
                        /\ dag.status[s] = "SCHEDULED" /\ ~dag.task[s]
                        /\ \A k \in DOMAIN dependsOn[s] : dag.status[dependsOn[s][k]] = "SUCCEEDED"
    BY DEF ReadyExact, Poppable
  <2>1. GoodGraph /\ dag \in DagStates /\ Counted(dag) /\ AllReady(dag)
    BY DEF DagInv, GoodDag
  <2>2. dag.remaining[s] = 0 <=> \A k \in DOMAIN dependsOn[s] : dependsOn[s][k] \in Ended(dag)
    BY <2>1, LeftFacts DEF Counted
  <2>3. \A k \in DOMAIN dependsOn[s] : dependsOn[s][k] \in DagSteps
    BY <2>1 DEF GoodGraph
  <2>4. dag.remaining[s] = 0 <=> \A k \in DOMAIN dependsOn[s] : dag.status[dependsOn[s][k]] = "SUCCEEDED"
    BY <2>2, <2>3 DEF Ended
  <2>5. stepReady(dag, s) => \E k \in DOMAIN dag.ready : dag.ready[k] = s
    <3>1. DOMAIN dag.ready = 1 .. Len(dag.ready)
      BY <2>1, DagFields
    <3> QED  BY <2>1, <3>1 DEF AllReady, Listed
  <2>6. s \in Poppable(dag) <=> stepReady(dag, s)
    BY <2>5 DEF Poppable
  <2> QED  BY <2>4, <2>6 DEF stepReady
<1> QED  BY <1>2, <1>3

\* Exactly the definitions without a cycle run; a workflow's order has every step once
\* and behind what it depends on, and the steps offered are at every moment those whose
\* dependencies have succeeded, for any definition and through repeated reports, retries
\* and restarts (model.go).
THEOREM GraphExactHolds == DagSpec => []GraphExact
<1>1. DagInit => DagInv
  BY DagInvInit
<1>2. DagInv /\ [DagNext]_dagVars => DagInv'
  BY DagInvNext
<1>3. DagInv => GraphExact
  BY DagInvExact
<1> QED  BY <1>1, <1>2, <1>3, PTL DEF DagSpec

-----------------------------------------------------------------------------
(* Checkpoint: the newest checkpoint and the tail of its stream. *)

\* The kinds of streams.
KindNames == {"task", "wf", "actor", "llm"}

\* What a stream of each kind holds and what replay makes of it.
TaskRecs == [type : {"TaskSubmitted", "TaskStarted", "TaskRedelivered", "TaskCompleted"}, epoch : Nat,
             worker : Workers \cup {NoWorker}]
TaskStates == [ok : BOOLEAN, status : {"QUEUED", "RUNNING", "SUCCEEDED"}, leaseEpoch : Nat, redelivered : Nat,
               worker : Workers \cup {NoWorker}]
ActorStates == [epoch : Nat, submitted : Nat, count : Nat]
CkRecs(k) ==
    IF k = "task" THEN TaskRecs
    ELSE IF k = "actor" THEN [type : {"granted", "submitted", "applied"}, n : Nat]
    ELSE [type : {"step", "completed"}, n : Nat]
CkStates(k) == IF k = "task" THEN TaskStates ELSE IF k = "actor" THEN ActorStates ELSE Nat
\* What a table holds: no fence, and a row exists once the task was submitted.
IsRow(k, r) == r \in CkStates(k) /\ (k = "task" => r.redelivered = 0 /\ (r.ok \/ r = InitReplay))

\* The replay of a whole stream q; the records before the tail of a checkpoint with last
\* sequence number s, that tail, and the replay from a checkpoint with row x.
Full(k, q) == Replay(k, Empty[k], q)
TailAt(k, s) == IF k # "llm" /\ s = 0 THEN 1 ELSE s
TailSeg(k, s, q) == SubSeq(q, TailAt(k, s) + 1, Len(q))
Covers(k, x) == k = "llm" \/ x # Empty[k]
FromRow(k, x, s, q) == IF Covers(k, x) THEN Replay(k, x, TailSeg(k, s, q)) ELSE Full(k, q)

Finished(r) == r.status = "SUCCEEDED"
\* A handler is at work, its record is the last one of q and of this type.
Handling(q, p, t) == p /\ q[Len(q)].type = t
\* StartFenced of a stream.
Fenced(q) ==
    \E i, j \in 1..Len(q) :
        /\ i < j /\ q[i].type = "TaskRedelivered" /\ q[j].type = "TaskStarted" /\ q[j].epoch <= q[i].epoch

\* A task's stream q begins with its submission, and a handler works for the lease it read
\* in the row m; b is the replay of the stream.
TaskBase(q, m, p, b) ==
    /\ m.ok <=> Len(q) > 0 /\ ~(p /\ Len(q) = 1)
    /\ m.status = "RUNNING" => m.leaseEpoch > 0
    /\ \A j \in 1 .. Len(q) : q[j].type = "TaskSubmitted" <=> j = 1
    /\ Len(q) > 0 => q[1].epoch = 0
    /\ p /\ Len(q) > 1 => /\ m.status = "RUNNING" /\ q[Len(q)].epoch = m.leaseEpoch
                          /\ q[Len(q)].worker = m.worker
    /\ b.ok <=> Len(q) > 0
    /\ b.redelivered > 0 => \E i \in 1 .. Len(q) : q[i].type = "TaskRedelivered" /\ q[i].epoch = b.redelivered
    /\ ~Fenced(q) => Finished(b) \/ \A j \in 1 .. Len(q) : q[j].type = "TaskStarted" => q[j].epoch <= b.leaseEpoch

\* The whole stream b runs the lease of the row m.
Runs(m, b) == b.status = "RUNNING" /\ b.leaseEpoch = m.leaseEpoch /\ b.redelivered < m.leaseEpoch
HasStart(q, m) == Contains(q, Event("TaskStarted", m.leaseEpoch, m.worker))

TaskSound(q, m, p, b) ==
    /\ b.leaseEpoch <= m.leaseEpoch
    /\ Finished(m) => Finished(b) \/ Fenced(q)
    /\ Finished(b) => Finished(m) \/ Handling(q, p, "TaskCompleted")
    /\ ~Fenced(q) /\ Handling(q, p, "TaskCompleted") => Finished(b)
    /\ ~Fenced(q) /\ m.status = "RUNNING" /\ HasStart(q, m) =>
          Handling(q, p, "TaskRedelivered") \/ Finished(b) \/ Runs(m, b)

\* A replay a from a checkpoint, the row m and the whole stream b.
TaskKept(q, m, p, b, a) ==
    /\ a.ok /\ m.ok
    /\ b.leaseEpoch <= a.leaseEpoch /\ a.leaseEpoch <= m.leaseEpoch
    /\ Finished(b) \/ a.redelivered <= b.redelivered
    /\ Finished(b) => Finished(a)
    /\ Finished(a) => Finished(m) \/ Handling(q, p, "TaskCompleted")
    /\ Finished(a) => Finished(b) \/ Fenced(q)
    /\ m.status = "RUNNING" /\ Runs(m, b) => Finished(a) \/ (a.status = "RUNNING" /\ a.leaseEpoch = m.leaseEpoch)

\* What the tail of a draft makes of any row x that the table may yet hold.
TaskTail(q, m, p, b, x, a) ==
    /\ a.ok /\ a.leaseEpoch = x.leaseEpoch
    /\ Finished(x) => Finished(a)
    /\ Finished(b) \/ a.redelivered <= b.redelivered
    /\ Finished(a) /\ ~Finished(x) => Finished(m) \/ Handling(q, p, "TaskCompleted")
    /\ /\ m.status = "RUNNING" /\ x.status = "RUNNING" /\ x.leaseEpoch = m.leaseEpoch
       /\ Finished(b) \/ Runs(m, b)
       => Finished(a) \/ (~Finished(b) /\ a.status = "RUNNING")

WorkflowTail(m, b, x, a) == a = b \/ (x = 3 /\ a = 3) \/ (a = x /\ m = b)

ActorTail(m, b, x, a) ==
    /\ a.submitted = IF x.submitted >= b.submitted THEN x.submitted ELSE b.submitted
    /\ a.epoch = b.epoch \/ (a.epoch = x.epoch /\ m.epoch = b.epoch)
    /\ a.count = b.count \/ (a.count = x.count /\ m.count = b.count)

\* The rows the table may yet hold.
MayBecome(k, m, x) ==
    /\ IsRow(k, x)
    /\ k = "task" => x.ok /\ x.leaseEpoch >= m.leaseEpoch
    /\ k = "actor" => x.submitted >= m.submitted

TailFits(k, q, m, p, b, s, x, a) ==
    /\ k = "task" => TaskTail(q, m, p, b, x, a)
    /\ k = "wf" => WorkflowTail(m, b, x, a)
    /\ k = "actor" => ActorTail(m, b, x, a)
    /\ k = "llm" => a = x + (Len(q) - s)

\* The tail of a draft with last sequence number s.
Tracks(k, q, m, p, s) ==
    \A x \in CkStates(k) : MayBecome(k, m, x) => TailFits(k, q, m, p, Full(k, q), s, x, Replay(k, x, TailSeg(k, s, q)))

\* A checkpoint that fits: row x, last sequence number s.
Kept(k, q, m, p, x, s) ==
    IF k # "task" THEN FromRow(k, x, s, q) = Full(k, q)
    ELSE Covers(k, x) => TaskKept(q, m, p, Full(k, q), FromRow(k, x, s, q))

\* The row of a stream of another kind is its replay, up to the record a handler has appended.
RowCurrent(k, q, m, p, n) ==
    /\ Full(k, q) = IF p THEN Apply(k, m, q[Len(q)]) ELSE m
    /\ k = "llm" => m = n
    /\ n = 0 => m = Empty[k]
    /\ p /\ k = "wf" => m # 3

\* The state of the stream, the row and the handlers.
CkTypes ==
    /\ ckKind \in CkKinds /\ ckLog \in Seq(CkRecs(ckKind)) /\ IsRow(ckKind, ckMeta)
    /\ pending \in BOOLEAN /\ whole \in BOOLEAN /\ applied \in Nat
    /\ Len(ckLog) = applied + (IF pending THEN 1 ELSE 0)

\* A draft or checkpoint: its row comes from the stream.
CpRecs(k) == [step : {1, 2}, seq : Nat, state : CkStates(k), fit : BOOLEAN]
GoodCp(k, q, cp) ==
    /\ cp \in CpRecs(k) /\ cp.seq <= Len(q) /\ IsRow(k, cp.state)
    /\ k = "task" /\ cp.state # InitReplay => Len(q) > 0

\* The draft and the checkpoints kept.
CkStored ==
    /\ draft = NoDraft \/ GoodCp(ckKind, ckLog, draft)
    /\ draft.step = 2 /\ draft.fit => whole
    /\ ckpts \in Seq(CpRecs(ckKind)) /\ \A i \in 1 .. Len(ckpts) : GoodCp(ckKind, ckLog, ckpts[i])
    /\ created \in Nat /\ Len(ckpts) <= created
    /\ (IF created >= Retention THEN Retention ELSE created) <= Len(ckpts)

\* The metadata is known to agree with the stream.
Sound == whole \/ (ckpts # <<>> /\ Latest.fit)

CkInv ==
    /\ CkTypes
    /\ CkStored
    /\ ckKind = "task" => TaskBase(ckLog, ckMeta, pending, Full(ckKind, ckLog))
    /\ ckKind = "task" /\ Sound => TaskSound(ckLog, ckMeta, pending, Full(ckKind, ckLog))
    /\ ckKind # "task" /\ whole => RowCurrent(ckKind, ckLog, ckMeta, pending, applied)
    /\ ckKind = "llm" => Full(ckKind, ckLog) = Len(ckLog)
    /\ draft.step = 1 /\ whole /\ applied >= TailAt(ckKind, draft.seq) =>
          Tracks(ckKind, ckLog, ckMeta, pending, draft.seq)
    /\ draft.step = 2 /\ draft.fit => Kept(ckKind, ckLog, ckMeta, pending, draft.state, draft.seq)
    /\ ckpts # <<>> /\ Latest.fit => Kept(ckKind, ckLog, ckMeta, pending, Latest.state, Latest.seq)

\* Replay stays among the states of its kind.
LEMMA ApplyType ==
    ASSUME NEW k \in KindNames, NEW r \in CkStates(k), NEW rec \in CkRecs(k)
    PROVE  Apply(k, r, rec) \in CkStates(k)
<1>1. CASE k = "task"
  <2>1. r \in TaskStates /\ rec \in TaskRecs /\ CkStates(k) = TaskStates
    BY <1>1 DEF CkStates, CkRecs
  <2>2. Apply(k, r, rec) = applyRaw(r, rec)
    BY <1>1 DEF Apply
  <2>7. rec.type \in {"TaskSubmitted", "TaskStarted", "TaskRedelivered", "TaskCompleted"}
    BY <2>1 DEF TaskRecs
  <2>8. applyRaw(r, rec) \in TaskStates
    <3>1. CASE rec.type = "TaskSubmitted"
      <4>1. applyRaw(r, rec) = ApplySubmitted(r, rec)
        BY <3>1 DEF applyRaw
      <4> QED  BY <2>1, <4>1 DEF ApplySubmitted, TaskStates, TaskRecs
    <3>2. CASE rec.type = "TaskStarted"
      <4>1. applyRaw(r, rec) = ApplyStarted(r, rec)
        BY <3>2 DEF applyRaw
      <4> QED  BY <2>1, <4>1 DEF ApplyStarted, TaskStates, TaskRecs
    <3>3. CASE rec.type = "TaskRedelivered"
      <4>1. applyRaw(r, rec) = ApplyRedelivered(r, rec)
        BY <3>3 DEF applyRaw
      <4> QED  BY <2>1, <4>1 DEF ApplyRedelivered, TaskStates, TaskRecs
    <3>4. CASE rec.type = "TaskCompleted"
      <4>1. applyRaw(r, rec) = ApplyTerminal(r, rec, "SUCCEEDED")
        BY <3>4 DEF applyRaw
      <4> QED  BY <2>1, <4>1 DEF ApplyTerminal, TaskStates, TaskRecs
    <3> QED  BY <2>7, <3>1, <3>2, <3>3, <3>4
  <2> QED  BY <2>1, <2>2, <2>8
<1>2. CASE k = "wf"
  BY <1>2 DEF CkStates, CkRecs, Apply, applyWorkflow
<1>3. CASE k = "actor"
  <2>1. r \in ActorStates /\ rec \in [type : {"granted", "submitted", "applied"}, n : Nat] /\ CkStates(k) = ActorStates
    BY <1>3 DEF CkStates, CkRecs
  <2>2. Apply(k, r, rec) = applyActor(r, rec)
    BY <1>3 DEF Apply
  <2>3. applyActor(r, rec) \in ActorStates
    BY <2>1 DEF applyActor, ActorStates
  <2> QED  BY <2>1, <2>2, <2>3
<1>4. CASE k = "llm"
  BY <1>4 DEF CkStates, CkRecs, Apply, materializeLLMStreamFromSeq
<1> QED  BY <1>1, <1>2, <1>3, <1>4 DEF KindNames

\* The values replay goes through.
GoesThrough(h, k, r, q) ==
    h[0] = r /\ \A i \in 1 .. Len(q) : h[i] = Apply(k, h[i - 1], q[i])

\* Replay ends at the last of those values.
LEMMA RunsThrough ==
    ASSUME NEW k \in KindNames, NEW r \in CkStates(k), NEW q \in Seq(CkRecs(k))
    PROVE  \E h : GoesThrough(h, k, r, q) /\ Replay(k, r, q) = h[Len(q)]
<1> DEFINE n == Len(q)
           D == 1 .. n
           V == CkStates(k)
           Run(g) == g = [s \in SUBSET D |-> IF s = {} THEN r ELSE Apply(k, g[s \ {Max(s)}], q[Max(s)])]
           step == [p \in D \X V |-> Apply(k, p[2], q[p[1]])]
<1>1. n \in Nat /\ DOMAIN q = D /\ \A i \in D : q[i] \in CkRecs(k)
  OBVIOUS
<1>2. Replay(k, r, q) = (CHOOSE g : Run(g))[D]
  BY <1>1 DEF Replay, FoldLeft, MapThenFoldSet
<1>3. step \in [D \X V -> V]
  <2> SUFFICES ASSUME NEW p \in D \X V PROVE Apply(k, p[2], q[p[1]]) \in V
    OBVIOUS
  <2> QED  BY <1>1, ApplyType
<1>4. \E f \in [SUBSET D -> V] : FoldsLeft(f, n, r, step)
  <2> HIDE DEF step, n, V
  <2>1. r \in V
    BY DEF V
  <2> QED  BY <1>1, <1>3, <2>1, FoldLeftExists
<1>5. PICK f \in [SUBSET D -> V] : \A s \in SUBSET D :
          f[s] = IF s = {} THEN r ELSE step[<<Max(s), f[s \ {Max(s)}]>>]
  BY <1>4 DEF FoldsLeft
<1>6. \A s \in SUBSET D : f[s] = IF s = {} THEN r ELSE Apply(k, f[s \ {Max(s)}], q[Max(s)])
  <2> SUFFICES ASSUME NEW s \in SUBSET D, s # {} PROVE f[s] = Apply(k, f[s \ {Max(s)}], q[Max(s)])
    BY <1>5
  <2>1. Max(s) \in D /\ s \ {Max(s)} \in SUBSET D
    BY <1>1, MaxOfFinite
  <2> HIDE DEF V
  <2>2. <<Max(s), f[s \ {Max(s)}]>> \in D \X V
    BY <2>1
  <2>3. step[<<Max(s), f[s \ {Max(s)}]>>] = Apply(k, f[s \ {Max(s)}], q[Max(s)])
    BY <2>2
  <2> QED  BY <1>5, <2>3
<1>7. Run(f)
  BY <1>6
<1> HIDE DEF step, V
<1>8. PICK g : g = (CHOOSE x : Run(x)) /\ Run(g)
  <2> HIDE DEF Run
  <2> QED  BY <1>7
<1>9. g[{}] = r /\ \A i \in D : g[1 .. i] = Apply(k, g[1 .. i - 1], q[i])
  <2>1. {} \in SUBSET D
    OBVIOUS
  <2>2. ASSUME NEW i \in D PROVE g[1 .. i] = Apply(k, g[1 .. i - 1], q[i])
    <3>1. 1 .. i \in SUBSET D /\ 1 .. i # {} /\ Max(1 .. i) = i /\ (1 .. i) \ {i} = 1 .. i - 1
      BY <1>1, MaxOfRange
    <3>2. g[1 .. i] = Apply(k, g[(1 .. i) \ {Max(1 .. i)}], q[Max(1 .. i)])
      BY <1>8, <3>1
    <3> QED  BY <3>1, <3>2
  <2> QED  BY <1>8, <2>1, <2>2
<1> DEFINE h == [i \in 0 .. n |-> g[1 .. i]]
<1>10. h[0] = r
  <2>1. 1 .. 0 = {} /\ 0 \in 0 .. n
    BY <1>1
  <2> QED  BY <1>9, <2>1
<1>11. ASSUME NEW i \in D PROVE h[i] = Apply(k, h[i - 1], q[i])
  <2>1. i \in 0 .. n /\ i - 1 \in 0 .. n
    BY <1>1
  <2> QED  BY <1>9, <2>1
<1>12. Replay(k, r, q) = h[n]
  BY <1>1, <1>2, <1>8
<1>13. GoesThrough(h, k, r, q)
  BY <1>10, <1>11 DEF GoesThrough
<1> QED  BY <1>12, <1>13

\* Replay starts with the state it is given and takes one record after the other.
LEMMA ReplayNone ==
    ASSUME NEW k \in KindNames, NEW r \in CkStates(k), NEW q \in Seq(CkRecs(k)), Len(q) = 0
    PROVE  Replay(k, r, q) = r
<1>1. PICK h : GoesThrough(h, k, r, q) /\ Replay(k, r, q) = h[Len(q)]
  BY RunsThrough
<1>2. h[0] = r
  BY <1>1 DEF GoesThrough
<1> QED  BY <1>1, <1>2

\* Replay stays among the states of its kind, record after record.
LEMMA ReplayType ==
    ASSUME NEW k \in KindNames, NEW r \in CkStates(k), NEW q \in Seq(CkRecs(k))
    PROVE  Replay(k, r, q) \in CkStates(k)
<1>1. PICK h : GoesThrough(h, k, r, q) /\ Replay(k, r, q) = h[Len(q)]
  BY RunsThrough
<1> DEFINE n == Len(q)
           P == {i \in 0 .. n : h[i] \in CkStates(k)}
<1>2. n \in Nat /\ \A i \in 1 .. n : q[i] \in CkRecs(k)
  OBVIOUS
<1>3. 0 \in P
  BY <1>1, <1>2 DEF GoesThrough
<1>4. ASSUME NEW i \in 0 .. n - 1, i \in P PROVE i + 1 \in P
  <2>1. i + 1 \in 1 .. n /\ (i + 1) - 1 = i /\ i + 1 \in 0 .. n
    BY <1>2
  <2>2. h[i + 1] = Apply(k, h[i], q[i + 1])
    BY <1>1, <2>1 DEF GoesThrough
  <2> QED  BY <1>2, <1>4, <2>1, <2>2, ApplyType
<1> HIDE DEF P, n
<1>5. \A i \in 0 .. n : i \in P
  BY <1>2, <1>3, <1>4, StepsTo
<1>6. n \in P
  BY <1>2, <1>5
<1> QED  BY <1>1, <1>6 DEF P, n

\* One more record is applied to what the others give.
LEMMA ReplayAppend ==
    ASSUME NEW k \in KindNames, NEW r \in CkStates(k), NEW q \in Seq(CkRecs(k)), NEW rec \in CkRecs(k)
    PROVE  Replay(k, r, Append(q, rec)) = Apply(k, Replay(k, r, q), rec)
<1> DEFINE q1 == Append(q, rec)
           n == Len(q)
<1>1. q1 \in Seq(CkRecs(k)) /\ Len(q1) = n + 1 /\ n \in Nat /\ q1[n + 1] = rec /\ \A i \in 1 .. n : q1[i] = q[i]
  OBVIOUS
<1>2. PICK h : GoesThrough(h, k, r, q) /\ Replay(k, r, q) = h[n]
  BY RunsThrough
<1> HIDE DEF q1, n
<1>3. PICK g : GoesThrough(g, k, r, q1) /\ Replay(k, r, q1) = g[Len(q1)]
  BY <1>1, RunsThrough
<1> DEFINE P == {i \in 0 .. n : h[i] = g[i]}
<1>4. 0 \in P
  BY <1>1, <1>2, <1>3 DEF GoesThrough
<1>5. ASSUME NEW i \in 0 .. n - 1, i \in P PROVE i + 1 \in P
  <2>1. i + 1 \in 1 .. n /\ i + 1 \in 1 .. n + 1 /\ (i + 1) - 1 = i /\ i + 1 \in 0 .. n
    BY <1>1
  <2>2. h[i + 1] = Apply(k, h[i], q[i + 1])
    BY <1>2, <2>1 DEF GoesThrough, n
  <2>3. g[i + 1] = Apply(k, g[i], q[i + 1])
    BY <1>1, <1>3, <2>1 DEF GoesThrough
  <2> QED  BY <1>5, <2>1, <2>2, <2>3
<1> HIDE DEF P
<1>6. \A i \in 0 .. n : i \in P
  BY <1>1, <1>4, <1>5, StepsTo
<1>7. h[n] = g[n]
  <2>1. n \in 0 .. n
    BY <1>1
  <2> QED  BY <1>6, <2>1 DEF P
<1>8. g[n + 1] = Apply(k, g[n], rec)
  <2>1. n + 1 \in 1 .. n + 1 /\ (n + 1) - 1 = n
    BY <1>1
  <2> QED  BY <1>1, <1>3, <2>1 DEF GoesThrough
<1> QED  BY <1>1, <1>2, <1>3, <1>7, <1>8 DEF q1

\* What a record of a lease does to a replay state, field by field.
TaskStep(r, ev, r1) ==
    /\ r1.ok = r.ok
    /\ ev.type = "TaskStarted" =>
          /\ r1.redelivered = r.redelivered
          /\ IF ~Finished(r) /\ ev.epoch > r.redelivered /\ ev.epoch >= r.leaseEpoch
             THEN r1.status = "RUNNING" /\ r1.leaseEpoch = ev.epoch
             ELSE r1.status = r.status /\ r1.leaseEpoch = r.leaseEpoch
    /\ ev.type = "TaskRedelivered" =>
          /\ r1.leaseEpoch = r.leaseEpoch
          /\ IF Finished(r) THEN r1.status = r.status /\ r1.redelivered = r.redelivered
             ELSE /\ r1.redelivered = (IF ev.epoch > r.redelivered THEN ev.epoch ELSE r.redelivered)
                  /\ r1.status = (IF ev.epoch >= r.leaseEpoch THEN "QUEUED" ELSE r.status)
    /\ ev.type = "TaskCompleted" =>
          /\ r1.leaseEpoch = r.leaseEpoch /\ r1.redelivered = r.redelivered
          /\ r1.status = IF r.status = "RUNNING" /\ ev.epoch = r.leaseEpoch /\ ev.epoch > r.redelivered
                         THEN "SUCCEEDED" ELSE r.status

\* applyRaw does that.
LEMMA AppliedStep ==
    ASSUME NEW r \in TaskStates, NEW ev \in TaskRecs, ev.epoch > 0, ev.type # "TaskSubmitted"
    PROVE  TaskStep(r, ev, applyRaw(r, ev))
<1>1. /\ ev.type \in {"TaskStarted", "TaskRedelivered", "TaskCompleted"} /\ ev.epoch \in Nat
      /\ r.status \in {"QUEUED", "RUNNING", "SUCCEEDED"} /\ r.leaseEpoch \in Nat /\ r.redelivered \in Nat
  BY DEF TaskStates, TaskRecs
<1>2. isTerminalTaskStatus(r.status) <=> Finished(r)
  BY <1>1 DEF isTerminalTaskStatus, Outcomes, Finished
<1>3. CASE ev.type = "TaskStarted"
  <2>1. applyRaw(r, ev) = ApplyStarted(r, ev)
    BY <1>3 DEF applyRaw
  <2>2. StartedApplies(r, ev) <=> ~Finished(r) /\ ev.epoch > r.redelivered /\ ev.epoch >= r.leaseEpoch
    BY <1>1, <1>2 DEF StartedApplies
  <2> QED  BY <1>1, <1>3, <2>1, <2>2 DEF ApplyStarted, TaskStep, TaskStates
<1>4. CASE ev.type = "TaskRedelivered"
  <2>1. applyRaw(r, ev) = ApplyRedelivered(r, ev)
    BY <1>4 DEF applyRaw
  <2> QED  BY <1>1, <1>2, <1>4, <2>1 DEF ApplyRedelivered, TaskStep, TaskStates
<1>5. CASE ev.type = "TaskCompleted"
  <2>1. applyRaw(r, ev) = ApplyTerminal(r, ev, "SUCCEEDED")
    BY <1>5 DEF applyRaw
  <2>2. taskTerminalEventApplies(r, ev.epoch) <=>
            r.status = "RUNNING" /\ ev.epoch = r.leaseEpoch /\ ev.epoch > r.redelivered
    BY <1>1, <1>2 DEF taskTerminalEventApplies, Finished
  <2> QED  BY <1>1, <1>5, <2>1, <2>2 DEF ApplyTerminal, TaskStep, TaskStates
<1> QED  BY <1>1, <1>3, <1>4, <1>5

\* A record a handler may append for the row m to a stream q.
Due(q, m, rec) ==
    \/ ~m.ok /\ rec.type = "TaskSubmitted" /\ rec.epoch = 0
    \/ /\ m.ok /\ m.status = "RUNNING" /\ rec.epoch = m.leaseEpoch /\ rec.worker = m.worker
       /\ rec.type \in {"TaskStarted", "TaskRedelivered", "TaskCompleted"}
       /\ rec.type = "TaskCompleted" => HasStart(q, m)

\* One more record in a stream.
LEMMA FencedAppend ==
    ASSUME NEW q \in Seq(TaskRecs), NEW rec \in TaskRecs
    PROVE  /\ Fenced(q) => Fenced(Append(q, rec))
           /\ rec.type = "TaskStarted" /\ (\E i \in 1 .. Len(q) : q[i].type = "TaskRedelivered" /\ rec.epoch <= q[i].epoch)
                => Fenced(Append(q, rec))
<1> DEFINE q1 == Append(q, rec)
<1>1. /\ Len(q1) = Len(q) + 1 /\ Len(q) \in Nat /\ q1[Len(q) + 1] = rec /\ \A i \in 1 .. Len(q) : q1[i] = q[i]
  OBVIOUS
<1>2. ASSUME Fenced(q) PROVE Fenced(q1)
  <2>1. PICK i \in 1 .. Len(q), j \in 1 .. Len(q) : 
          /\ i < j /\ q[i].type = "TaskRedelivered" /\ q[j].type = "TaskStarted" /\ q[j].epoch <= q[i].epoch
    BY <1>2 DEF Fenced
  <2>2. i \in 1 .. Len(q1) /\ j \in 1 .. Len(q1)
    BY <1>1
  <2> HIDE DEF q1
  <2> QED  BY <1>1, <2>1, <2>2 DEF Fenced
<1>3. ASSUME rec.type = "TaskStarted", NEW i \in 1 .. Len(q), q[i].type = "TaskRedelivered", rec.epoch <= q[i].epoch
      PROVE  Fenced(q1)
  <2>1. i \in 1 .. Len(q1) /\ Len(q) + 1 \in 1 .. Len(q1) /\ i < Len(q) + 1
    BY <1>1
  <2> HIDE DEF q1
  <2> QED  BY <1>1, <1>3, <2>1 DEF Fenced
<1> QED  BY <1>2, <1>3

\* A start in the longer stream is in the shorter one or is its last record.
LEMMA HasStartAppend ==
    ASSUME NEW q \in Seq(TaskRecs), NEW rec \in TaskRecs, NEW m, HasStart(Append(q, rec), m)
    PROVE  HasStart(q, m) \/ rec.type = "TaskStarted"
BY DEF HasStart, Contains, Event

\* The stream grows by a record its handler may append (AppendRecord).
LEMMA AppendBase ==
    ASSUME NEW q \in Seq(TaskRecs), NEW rec \in TaskRecs, NEW m \in TaskStates, NEW b \in TaskStates,
           NEW b1 \in TaskStates, TaskBase(q, m, FALSE, b), Due(q, m, rec),
           rec.type = "TaskSubmitted" => b1 = applyRaw(b, rec), rec.type # "TaskSubmitted" => TaskStep(b, rec, b1)
    PROVE  TaskBase(Append(q, rec), m, TRUE, b1)
<1> DEFINE q1 == Append(q, rec)
<1>1. /\ Len(q1) = Len(q) + 1 /\ Len(q) \in Nat /\ q1[Len(q) + 1] = rec /\ \A i \in 1 .. Len(q) : q1[i] = q[i]
  OBVIOUS
<1>2. ~Fenced(q1) => ~Fenced(q)
  BY FencedAppend
<1>3. rec.epoch \in Nat /\ b.leaseEpoch \in Nat /\ b.redelivered \in Nat /\ m.leaseEpoch \in Nat
      /\ b1.leaseEpoch \in Nat /\ b1.redelivered \in Nat
  BY DEF TaskRecs, TaskStates
<1>4. CASE rec.type = "TaskSubmitted"
  <2>1. b1 = ApplySubmitted(b, rec)
    BY <1>4 DEF applyRaw
  <2>2. b1.ok /\ b1.leaseEpoch = rec.epoch /\ b1.redelivered = 0
    BY <2>1 DEF ApplySubmitted
  <2>3. ~m.ok /\ rec.epoch = 0 /\ Len(q) = 0
    BY <1>1, <1>4 DEF Due, TaskBase
  <2>4. Len(q1) = 1 /\ q1[1] = rec
    BY <1>1, <2>3
  <2> HIDE DEF q1
  <2>5. TaskBase(q1, m, TRUE, b1)
    BY <1>4, <2>2, <2>3, <2>4 DEF TaskBase
  <2> QED  BY <2>5 DEF q1
<1>5. CASE rec.type # "TaskSubmitted"
  <2>1. m.ok /\ m.status = "RUNNING" /\ rec.epoch = m.leaseEpoch /\ rec.worker = m.worker /\ Len(q) > 0 /\ m.leaseEpoch > 0
    BY <1>5 DEF Due, TaskBase
  <2>2. \A j \in 1 .. Len(q1) : q1[j].type = "TaskSubmitted" <=> j = 1
    <3> SUFFICES ASSUME NEW j \in 1 .. Len(q1) PROVE q1[j].type = "TaskSubmitted" <=> j = 1
      OBVIOUS
    <3>1. CASE j = Len(q) + 1
      BY <1>1, <1>5, <2>1, <3>1
    <3>2. CASE j \in 1 .. Len(q)
      BY <1>1, <3>2 DEF TaskBase
    <3> QED  BY <1>1, <3>1, <3>2
  <2>3. q1[1].epoch = 0
    BY <1>1, <2>1 DEF TaskBase
  <2>4. b1.ok
    BY <1>5, <2>1 DEF TaskStep, TaskBase
  <2> HIDE DEF q1
  <2>5. b1.redelivered > 0 => \E i \in 1 .. Len(q1) : q1[i].type = "TaskRedelivered" /\ q1[i].epoch = b1.redelivered
    <3>1. CASE b1.redelivered = b.redelivered
      <4> SUFFICES ASSUME b.redelivered > 0 PROVE \E i \in 1 .. Len(q1) : q1[i].type = "TaskRedelivered" /\ q1[i].epoch = b1.redelivered
        BY <3>1
      <4>1. PICK i \in 1 .. Len(q) : q[i].type = "TaskRedelivered" /\ q[i].epoch = b.redelivered
        BY DEF TaskBase
      <4> QED  BY <1>1, <3>1, <4>1
    <3>2. CASE b1.redelivered # b.redelivered
      <4>1. rec.type = "TaskRedelivered" /\ b1.redelivered = rec.epoch
        BY <1>3, <1>5, <3>2 DEF TaskStep, TaskRecs
      <4>2. Len(q) + 1 \in 1 .. Len(q1)
        BY <1>1
      <4> QED  BY <1>1, <4>1, <4>2
    <3> QED  BY <3>1, <3>2
  <2>6. ~Fenced(q1) => Finished(b1) \/ \A j \in 1 .. Len(q1) : q1[j].type = "TaskStarted" => q1[j].epoch <= b1.leaseEpoch
    <3> SUFFICES ASSUME ~Fenced(q1), ~Finished(b1) 
                 PROVE  \A j \in 1 .. Len(q1) : q1[j].type = "TaskStarted" => q1[j].epoch <= b1.leaseEpoch
      OBVIOUS
    <3>1. ~Finished(b)
      BY <1>5 DEF TaskStep, Finished, TaskRecs
    <3>2. \A j \in 1 .. Len(q) : q[j].type = "TaskStarted" => q[j].epoch <= b.leaseEpoch
      BY <1>2, <3>1 DEF TaskBase
    <3>3. rec.type = "TaskStarted" => rec.epoch > b.redelivered
      <4> SUFFICES ASSUME rec.type = "TaskStarted", rec.epoch <= b.redelivered PROVE FALSE
        BY <1>3
      <4>1. b.redelivered > 0
        BY <1>3, <2>1
      <4>2. PICK i \in 1 .. Len(q) : q[i].type = "TaskRedelivered" /\ q[i].epoch = b.redelivered
        BY <4>1 DEF TaskBase
      <4> QED  BY <4>2, FencedAppend DEF q1
    <3>4. b.leaseEpoch <= b1.leaseEpoch
      BY <1>3, <1>5 DEF TaskStep, TaskRecs
    <3>5. rec.type = "TaskStarted" => rec.epoch <= b1.leaseEpoch
      BY <1>3, <3>1, <3>3, <1>5 DEF TaskStep
    <3> TAKE j \in 1 .. Len(q1)
    <3>6. CASE j = Len(q) + 1
      BY <1>1, <3>5, <3>6
    <3>7. CASE j \in 1 .. Len(q)
      <4>1. q[j] \in TaskRecs
        BY <3>7
      <4>2. q[j].epoch \in Nat
        BY <4>1 DEF TaskRecs
      <4> QED  BY <1>1, <1>3, <3>2, <3>4, <3>7, <4>2
    <3> QED  BY <1>1, <3>6, <3>7
  <2>7. m.ok <=> Len(q1) > 0 /\ ~(TRUE /\ Len(q1) = 1)
    BY <1>1, <2>1
  <2>8. Len(q1) > 0 /\ q1[Len(q1)] = rec
    BY <1>1
  <2>9. q1[Len(q1)].epoch = m.leaseEpoch /\ q1[Len(q1)].worker = m.worker
    BY <2>1, <2>8
  <2>10. TaskBase(q1, m, TRUE, b1)
    BY <2>1, <2>2, <2>3, <2>4, <2>5, <2>6, <2>7, <2>8, <2>9 DEF TaskBase
  <2> QED  BY <2>10 DEF q1
<1> QED  BY <1>4, <1>5

\* The fields of a replay state.
LEMMA TaskFields ==
    ASSUME NEW r \in TaskStates
    PROVE  /\ r.ok \in BOOLEAN /\ r.status \in {"QUEUED", "RUNNING", "SUCCEEDED"}
           /\ r.leaseEpoch \in Nat /\ r.redelivered \in Nat
BY DEF TaskStates

\* A record for a lease is appended.
LEMMA AppendSound ==
    ASSUME NEW q \in Seq(TaskRecs), NEW rec \in TaskRecs, NEW m \in TaskStates, NEW b \in TaskStates,
           NEW b1 \in TaskStates, TaskBase(q, m, FALSE, b), TaskSound(q, m, FALSE, b), Due(q, m, rec),
           rec.type # "TaskSubmitted", TaskStep(b, rec, b1)
    PROVE  TaskSound(Append(q, rec), m, TRUE, b1)
<1> DEFINE q1 == Append(q, rec)
<1>1. q1[Len(q1)] = rec
  OBVIOUS
<1>2. ~Fenced(q1) => ~Fenced(q)
  BY FencedAppend
<1>3. rec.epoch \in Nat
  BY DEF TaskRecs
<1>4. /\ m.ok /\ m.status = "RUNNING" /\ rec.epoch = m.leaseEpoch /\ m.leaseEpoch > 0
      /\ rec.type \in {"TaskStarted", "TaskRedelivered", "TaskCompleted"}
      /\ rec.type = "TaskCompleted" => HasStart(q, m)
  BY DEF Due, TaskBase
<1>5. ~Finished(m) /\ ~Finished(b) /\ b.leaseEpoch <= m.leaseEpoch
  BY <1>4 DEF TaskSound, Handling, Finished
<1>6. ~Fenced(q1) /\ rec.type = "TaskStarted" => rec.epoch > b.redelivered
  <2> SUFFICES ASSUME ~Fenced(q1), rec.type = "TaskStarted", rec.epoch <= b.redelivered PROVE FALSE
    BY <1>3, TaskFields
  <2>1. b.redelivered > 0
    BY <1>3, <1>4, TaskFields
  <2>2. PICK i \in 1 .. Len(q) : q[i].type = "TaskRedelivered" /\ q[i].epoch = b.redelivered
    BY <2>1 DEF TaskBase
  <2> QED  BY <2>2, FencedAppend
<1>7. ~Fenced(q) /\ HasStart(q, m) => Runs(m, b)
  BY <1>4, <1>5 DEF TaskSound, Handling
<1>8. HasStart(q1, m) => HasStart(q, m) \/ rec.type = "TaskStarted"
  BY HasStartAppend
<1>9. (Handling(q1, TRUE, "TaskCompleted") <=> rec.type = "TaskCompleted")
      /\ (Handling(q1, TRUE, "TaskRedelivered") <=> rec.type = "TaskRedelivered")
  BY <1>1 DEF Handling
<1>10. /\ b.status \in {"QUEUED", "RUNNING", "SUCCEEDED"} /\ b.leaseEpoch \in Nat /\ b.redelivered \in Nat
       /\ m.leaseEpoch \in Nat /\ b1.leaseEpoch \in Nat /\ b1.redelivered \in Nat
  BY TaskFields
<1> HIDE DEF q1
<1>11. CASE rec.type = "TaskStarted"
  <2>1. b1.leaseEpoch <= m.leaseEpoch /\ ~Finished(b1)
    BY <1>3, <1>4, <1>5, <1>10, <1>11 DEF TaskStep, Finished
  <2>2. ~Fenced(q1) => Runs(m, b1)
    BY <1>3, <1>4, <1>5, <1>6, <1>10, <1>11 DEF TaskStep, Runs
  <2>3. ~Handling(q1, TRUE, "TaskCompleted")
    BY <1>9, <1>11
  <2>4. TaskSound(q1, m, TRUE, b1)
    BY <1>5, <2>1, <2>2, <2>3 DEF TaskSound
  <2> QED  BY <2>4 DEF q1
<1>12. CASE rec.type = "TaskRedelivered"
  <2>1. b1.leaseEpoch <= m.leaseEpoch /\ ~Finished(b1)
    BY <1>3, <1>4, <1>5, <1>10, <1>12 DEF TaskStep, Finished
  <2>2. ~Handling(q1, TRUE, "TaskCompleted") /\ Handling(q1, TRUE, "TaskRedelivered")
    BY <1>9, <1>12
  <2>3. TaskSound(q1, m, TRUE, b1)
    BY <1>5, <2>1, <2>2 DEF TaskSound
  <2> QED  BY <2>3 DEF q1
<1>13. CASE rec.type = "TaskCompleted"
  <2>1. b1.leaseEpoch <= m.leaseEpoch
    BY <1>5, <1>10, <1>13 DEF TaskStep
  <2>2. ~Fenced(q1) => Finished(b1)
    BY <1>2, <1>4, <1>7, <1>10, <1>13 DEF TaskStep, Runs, Finished
  <2>3. Handling(q1, TRUE, "TaskCompleted")
    BY <1>9, <1>13
  <2>4. TaskSound(q1, m, TRUE, b1)
    BY <1>5, <2>1, <2>2, <2>3 DEF TaskSound
  <2> QED  BY <2>4 DEF q1
<1> QED  BY <1>4, <1>11, <1>12, <1>13

\* A replay from a checkpoint keeps up with the whole stream.
LEMMA AppendKept ==
    ASSUME NEW q \in Seq(TaskRecs), NEW rec \in TaskRecs, NEW m \in TaskStates, NEW b \in TaskStates,
           NEW b1 \in TaskStates, NEW a \in TaskStates, NEW a1 \in TaskStates, TaskBase(q, m, FALSE, b),
           TaskSound(Append(q, rec), m, TRUE, b1), TaskKept(q, m, FALSE, b, a), Due(q, m, rec),
           TaskStep(b, rec, b1), TaskStep(a, rec, a1)
    PROVE  TaskKept(Append(q, rec), m, TRUE, b1, a1)
<1> DEFINE q1 == Append(q, rec)
<1>1. q1[Len(q1)] = rec
  OBVIOUS
<1>2. ~Fenced(q1) => ~Fenced(q)
  BY FencedAppend
<1>3. rec.epoch \in Nat
  BY DEF TaskRecs
<1>4. /\ m.ok /\ m.status = "RUNNING" /\ rec.epoch = m.leaseEpoch /\ m.leaseEpoch > 0
      /\ rec.type \in {"TaskStarted", "TaskRedelivered", "TaskCompleted"}
  BY DEF Due, TaskBase, TaskKept
<1>5. /\ ~Finished(m) /\ ~Finished(b) /\ ~Finished(a)
      /\ b.leaseEpoch <= a.leaseEpoch /\ a.leaseEpoch <= m.leaseEpoch /\ a.redelivered <= b.redelivered
      /\ Runs(m, b) => a.status = "RUNNING" /\ a.leaseEpoch = m.leaseEpoch
  BY <1>4 DEF TaskKept, Handling, Finished
<1>6. (Handling(q1, TRUE, "TaskCompleted") <=> rec.type = "TaskCompleted")
      /\ (Handling(q1, TRUE, "TaskRedelivered") <=> rec.type = "TaskRedelivered")
  BY <1>1 DEF Handling
<1>7. /\ b.status \in {"QUEUED", "RUNNING", "SUCCEEDED"} /\ b.leaseEpoch \in Nat /\ b.redelivered \in Nat
      /\ m.leaseEpoch \in Nat /\ b1.leaseEpoch \in Nat /\ b1.redelivered \in Nat
      /\ a.status \in {"QUEUED", "RUNNING", "SUCCEEDED"} /\ a.leaseEpoch \in Nat /\ a.redelivered \in Nat
      /\ a1.leaseEpoch \in Nat /\ a1.redelivered \in Nat
  BY TaskFields
<1>8. a1.ok
  BY DEF TaskStep, TaskKept
<1>9. ~Fenced(q1) /\ rec.type = "TaskCompleted" => Finished(b1)
  BY <1>6 DEF TaskSound
<1> HIDE DEF q1
<1>10. CASE rec.type = "TaskStarted"
  <2>1. /\ ~Finished(b1) /\ ~Finished(a1) /\ b1.leaseEpoch <= a1.leaseEpoch /\ a1.leaseEpoch <= m.leaseEpoch
        /\ a1.redelivered <= b1.redelivered
    BY <1>3, <1>4, <1>5, <1>7, <1>10 DEF TaskStep, Finished
  <2>2. Runs(m, b1) => a1.status = "RUNNING" /\ a1.leaseEpoch = m.leaseEpoch
    BY <1>3, <1>4, <1>5, <1>7, <1>10 DEF TaskStep, Finished, Runs
  <2> QED  BY <1>4, <1>8, <2>1, <2>2 DEF TaskKept, q1
<1>11. CASE rec.type = "TaskRedelivered"
  <2>1. /\ ~Finished(b1) /\ ~Finished(a1) /\ b1.leaseEpoch <= a1.leaseEpoch /\ a1.leaseEpoch <= m.leaseEpoch
        /\ a1.redelivered <= b1.redelivered /\ ~Runs(m, b1)
    BY <1>3, <1>4, <1>5, <1>7, <1>11 DEF TaskStep, Finished, Runs
  <2> QED  BY <1>4, <1>8, <2>1 DEF TaskKept, q1
<1>12. CASE rec.type = "TaskCompleted"
  <2>1. b1.leaseEpoch <= a1.leaseEpoch /\ a1.leaseEpoch <= m.leaseEpoch /\ a1.redelivered <= b1.redelivered
    BY <1>5, <1>7, <1>12 DEF TaskStep
  <2>2. (Finished(b1) => Finished(a1)) /\ ~Runs(m, b1)
    BY <1>3, <1>4, <1>5, <1>7, <1>12 DEF TaskStep, Finished, Runs
  <2>3. Handling(q1, TRUE, "TaskCompleted")
    BY <1>6, <1>12
  <2> QED  BY <1>4, <1>8, <1>9, <1>12, <2>1, <2>2, <2>3 DEF TaskKept, q1
<1> QED  BY <1>4, <1>10, <1>11, <1>12

\* So does what a tail makes of a row the table may yet hold.
LEMMA AppendTail ==
    ASSUME NEW q \in Seq(TaskRecs), NEW rec \in TaskRecs, NEW m \in TaskStates, NEW b \in TaskStates,
           NEW b1 \in TaskStates, NEW x \in TaskStates, NEW a \in TaskStates, NEW a1 \in TaskStates,
           TaskBase(q, m, FALSE, b), TaskSound(q, m, FALSE, b), TaskTail(q, m, FALSE, b, x, a), Due(q, m, rec),
           m.ok, x.leaseEpoch >= m.leaseEpoch, TaskStep(b, rec, b1), TaskStep(a, rec, a1)
    PROVE  TaskTail(Append(q, rec), m, TRUE, b1, x, a1)
<1> DEFINE q1 == Append(q, rec)
<1>1. q1[Len(q1)] = rec
  OBVIOUS
<1>3. rec.epoch \in Nat
  BY DEF TaskRecs
<1>4. /\ m.status = "RUNNING" /\ rec.epoch = m.leaseEpoch /\ m.leaseEpoch > 0
      /\ rec.type \in {"TaskStarted", "TaskRedelivered", "TaskCompleted"}
  BY DEF Due, TaskBase
<1>5. /\ ~Finished(b) /\ (Finished(a) <=> Finished(x)) /\ a.leaseEpoch = x.leaseEpoch /\ a.redelivered <= b.redelivered
      /\ x.status = "RUNNING" /\ x.leaseEpoch = m.leaseEpoch /\ Runs(m, b) => a.status = "RUNNING"
  BY <1>4 DEF TaskTail, TaskSound, Handling, Finished
<1>6. (Handling(q1, TRUE, "TaskCompleted") <=> rec.type = "TaskCompleted")
      /\ (Handling(q1, TRUE, "TaskRedelivered") <=> rec.type = "TaskRedelivered")
  BY <1>1 DEF Handling
<1>7. /\ b.status \in {"QUEUED", "RUNNING", "SUCCEEDED"} /\ b.leaseEpoch \in Nat /\ b.redelivered \in Nat
      /\ m.leaseEpoch \in Nat /\ b1.leaseEpoch \in Nat /\ b1.redelivered \in Nat
      /\ a.status \in {"QUEUED", "RUNNING", "SUCCEEDED"} /\ a.leaseEpoch \in Nat /\ a.redelivered \in Nat
      /\ a1.leaseEpoch \in Nat /\ a1.redelivered \in Nat /\ x.leaseEpoch \in Nat /\ b.leaseEpoch <= m.leaseEpoch
  BY TaskFields DEF TaskSound
<1>8. a1.ok
  BY DEF TaskStep, TaskTail
<1> HIDE DEF q1
<1>9. a1.leaseEpoch = x.leaseEpoch /\ (Finished(x) => Finished(a1))
  BY <1>3, <1>4, <1>5, <1>7 DEF TaskStep, Finished
<1>10. Finished(a1) /\ ~Finished(x) => rec.type = "TaskCompleted"
  BY <1>4, <1>5 DEF TaskStep, Finished
<1>11. a1.redelivered <= b1.redelivered
  BY <1>3, <1>4, <1>5, <1>7 DEF TaskStep
<1>12. ASSUME x.status = "RUNNING", x.leaseEpoch = m.leaseEpoch, Finished(b1) \/ Runs(m, b1)
       PROVE  Finished(a1) \/ (~Finished(b1) /\ a1.status = "RUNNING")
  <2>1. ~Finished(a)
    BY <1>5, <1>12 DEF Finished
  <2>2. CASE rec.type = "TaskStarted"
    BY <1>3, <1>4, <1>5, <1>7, <1>12, <2>1, <2>2 DEF TaskStep, Finished, Runs
  <2>3. CASE rec.type = "TaskRedelivered"
    BY <1>3, <1>4, <1>5, <1>7, <1>12, <2>1, <2>3 DEF TaskStep, Finished, Runs
  <2>4. CASE rec.type = "TaskCompleted"
    BY <1>3, <1>4, <1>5, <1>7, <1>12, <2>1, <2>4 DEF TaskStep, Finished, Runs
  <2> QED  BY <1>4, <2>2, <2>3, <2>4
<1> QED  BY <1>6, <1>8, <1>9, <1>10, <1>11, <1>12 DEF TaskTail, q1

\* The handler whose record is the last one of q updates the row m to m1.
Updated(q, m, m1) ==
    LET last == q[Len(q)]
    IN  /\ m1.ok /\ m1.leaseEpoch = m.leaseEpoch
        /\ last.type = "TaskSubmitted" => m1.status = "QUEUED" /\ m.status = "QUEUED" /\ ~m.ok
        /\ last.type # "TaskSubmitted" => m.ok /\ m.status = "RUNNING"
        /\ last.type = "TaskStarted" => m1.status = "RUNNING" /\ m1.worker = m.worker
        /\ last.type = "TaskRedelivered" => m1.status = "QUEUED"
        /\ last.type = "TaskCompleted" => Finished(m1)
        /\ last.type \in {"TaskSubmitted", "TaskStarted", "TaskRedelivered", "TaskCompleted"}

\* UpdateMetadata does that.
LEMMA UpdatedRow ==
    ASSUME NEW q \in Seq(TaskRecs), Len(q) > 0, NEW m, IsRow("task", m), NEW b, TaskBase(q, m, TRUE, b)
    PROVE  LET m1 == Row("task", applyRaw(m, q[Len(q)])) IN IsRow("task", m1) /\ Updated(q, m, m1)
<1> DEFINE last == q[Len(q)]
           r == applyRaw(m, last)
           m1 == Row("task", r)
<1>1. m \in TaskStates /\ m.redelivered = 0 /\ (m.ok \/ m = InitReplay)
  BY DEF IsRow, CkStates
<1>2. last \in TaskRecs /\ Len(q) \in Nat
  OBVIOUS
<1>3. m1 = [r EXCEPT !.redelivered = 0]
  BY DEF Row, taskReplayStateFromCheckpoint
<1>4. last.type \in {"TaskSubmitted", "TaskStarted", "TaskRedelivered", "TaskCompleted"} /\ last.epoch \in Nat
  BY <1>2 DEF TaskRecs
<1>5. last.type = "TaskSubmitted" <=> Len(q) = 1
  <2>1. Len(q) \in 1 .. Len(q)
    BY <1>2
  <2> QED  BY <2>1 DEF TaskBase
<1> HIDE DEF last
<1>6. r \in TaskStates
  <2>1. "task" \in KindNames /\ m \in CkStates("task") /\ last \in CkRecs("task")
    BY <1>1, <1>2 DEF KindNames, CkStates, CkRecs
  <2>2. Apply("task", m, last) \in CkStates("task")
    BY <2>1, ApplyType
  <2> QED  BY <2>2 DEF Apply, CkStates
<1>7. /\ m1 \in TaskStates /\ m1.redelivered = 0 /\ m1.ok = r.ok /\ m1.status = r.status
      /\ m1.leaseEpoch = r.leaseEpoch /\ m1.worker = r.worker
  <2> HIDE DEF r, m1
  <2> QED  BY <1>3, <1>6 DEF TaskStates
<1>8. CASE last.type = "TaskSubmitted"
  <2>1. r = ApplySubmitted(m, last)
    BY <1>8 DEF applyRaw
  <2>2. ~m.ok
    BY <1>5, <1>8 DEF TaskBase
  <2>3. m.status = "QUEUED" /\ m.leaseEpoch = 0
    BY <1>1, <2>2 DEF InitReplay
  <2>4. last.epoch = 0
    BY <1>5, <1>8 DEF TaskBase, last
  <2>5. r.ok /\ r.status = "QUEUED" /\ r.leaseEpoch = 0
    BY <2>1, <2>4 DEF ApplySubmitted
  <2>6. IsRow("task", m1)
    BY <1>7, <2>5 DEF IsRow, CkStates
  <2> HIDE DEF r, m1
  <2>7. Updated(q, m, m1)
    BY <1>7, <1>8, <2>2, <2>3, <2>5 DEF Updated, last
  <2> QED  BY <2>6, <2>7 DEF m1, r, last
<1>9. CASE last.type # "TaskSubmitted"
  <2>1. Len(q) > 1
    <3>1. Len(q) # 1
      BY <1>5, <1>9
    <3>2. \A n \in Nat : n > 0 /\ n # 1 => n > 1
      OBVIOUS
    <3> QED  BY <1>2, <3>1, <3>2
  <2>2. m.ok /\ m.status = "RUNNING" /\ m.leaseEpoch > 0 /\ last.epoch = m.leaseEpoch /\ last.worker = m.worker
    BY <2>1 DEF TaskBase, last
  <2>3. TaskStep(m, last, r)
    BY <1>1, <1>2, <1>4, <1>9, <2>2, AppliedStep
  <2>4. last.type = "TaskStarted" => r.worker = m.worker
    <3> SUFFICES ASSUME last.type = "TaskStarted" PROVE r.worker = m.worker
      OBVIOUS
    <3>1. r = ApplyStarted(m, last)
      BY DEF applyRaw
    <3> QED  BY <1>1, <2>2, <3>1 DEF ApplyStarted, TaskStates
  <2>5. m.leaseEpoch \in Nat
    BY <1>1 DEF TaskStates
  <2> HIDE DEF r, m1
  <2>6. /\ r.ok /\ r.leaseEpoch = m.leaseEpoch
        /\ last.type = "TaskStarted" => r.status = "RUNNING"
        /\ last.type = "TaskRedelivered" => r.status = "QUEUED"
        /\ last.type = "TaskCompleted" => r.status = "SUCCEEDED"
    BY <1>1, <1>4, <1>9, <2>2, <2>3, <2>5 DEF TaskStep, Finished
  <2>7. IsRow("task", m1)
    BY <1>7, <2>6 DEF IsRow, CkStates
  <2>8. Updated(q, m, m1)
    BY <1>4, <1>7, <1>9, <2>2, <2>4, <2>6 DEF Updated, Finished, last
  <2> QED  BY <2>7, <2>8 DEF m1, r, last
<1> QED  BY <1>8, <1>9

\* The row is updated: each part of the task invariant is kept.
LEMMA UpdateBase ==
    ASSUME NEW q \in Seq(TaskRecs), Len(q) > 0, NEW m, NEW m1, NEW b, TaskBase(q, m, TRUE, b), Updated(q, m, m1)
    PROVE  TaskBase(q, m1, FALSE, b)
<1>1. m1.ok /\ (m1.status = "RUNNING" => m1.leaseEpoch > 0)
  BY DEF TaskBase, Updated, Finished
<1> QED  BY <1>1 DEF TaskBase

\* As UpdateBase, for a row that agrees with the stream.
LEMMA UpdateSound ==
    ASSUME NEW q, NEW m, NEW m1, NEW b, TaskSound(q, m, TRUE, b), Updated(q, m, m1)
    PROVE  TaskSound(q, m1, FALSE, b)
<1>1. ~Finished(m) /\ m1.leaseEpoch = m.leaseEpoch
  BY DEF Updated, Finished
<1>2. Finished(m1) <=> Handling(q, TRUE, "TaskCompleted")
  BY DEF Updated, Finished, Handling
<1>3. m1.status = "RUNNING" => m.status = "RUNNING" /\ m1.worker = m.worker /\ ~Handling(q, TRUE, "TaskRedelivered")
  BY DEF Updated, Finished, Handling
<1>4. m1.status = "RUNNING" => (HasStart(q, m1) <=> HasStart(q, m)) /\ (Runs(m, b) => Runs(m1, b))
  BY <1>1, <1>3 DEF HasStart, Runs
<1>5. ~Handling(q, FALSE, "TaskCompleted") /\ ~Handling(q, FALSE, "TaskRedelivered")
  BY DEF Handling
<1>6. Finished(b) <=> Finished(m1) /\ (Fenced(q) => Finished(b))
  BY <1>1, <1>2 DEF TaskSound
<1>7. ~Fenced(q) /\ m1.status = "RUNNING" /\ HasStart(q, m1) => Finished(b) \/ Runs(m1, b)
  BY <1>3, <1>4 DEF TaskSound
<1>8. b.leaseEpoch <= m1.leaseEpoch
  BY <1>1 DEF TaskSound
<1> QED  BY <1>2, <1>5, <1>6, <1>7, <1>8 DEF TaskSound

\* As UpdateBase, for a replay from a checkpoint.
LEMMA UpdateKept ==
    ASSUME NEW q, NEW m, NEW m1, NEW b, NEW a, TaskKept(q, m, TRUE, b, a), Updated(q, m, m1)
    PROVE  TaskKept(q, m1, FALSE, b, a)
<1>1. ~Finished(m) /\ m1.leaseEpoch = m.leaseEpoch /\ m1.ok
  BY DEF Updated, Finished
<1>2. Finished(m1) <=> Handling(q, TRUE, "TaskCompleted")
  BY DEF Updated, Finished, Handling
<1>3. m1.status = "RUNNING" /\ Runs(m1, b) => m.status = "RUNNING" /\ Runs(m, b)
  BY DEF Updated, Finished, Runs
<1> QED  BY <1>1, <1>2, <1>3 DEF TaskKept

\* As UpdateBase, for the tail of a draft.
LEMMA UpdateTail ==
    ASSUME NEW q, NEW m, NEW m1, NEW b, NEW x, NEW a, TaskTail(q, m, TRUE, b, x, a), Updated(q, m, m1)
    PROVE  TaskTail(q, m1, FALSE, b, x, a)
<1>1. ~Finished(m) /\ m1.leaseEpoch = m.leaseEpoch /\ m1.ok
  BY DEF Updated, Finished
<1>2. Finished(m1) <=> Handling(q, TRUE, "TaskCompleted")
  BY DEF Updated, Finished, Handling
<1>3. m1.status = "RUNNING" => m.status = "RUNNING" /\ (Runs(m1, b) => Runs(m, b))
  BY DEF Updated, Finished, Runs
<1> QED  BY <1>1, <1>2, <1>3 DEF TaskTail

-----------------------------------------------------------------------------
\* A lease is granted in the row.
Leased(m, m1) ==
    /\ m.ok /\ m.status = "QUEUED" /\ m1.ok /\ m1.status = "RUNNING" /\ m1.leaseEpoch = m.leaseEpoch + 1

\* A lease in the row is in no record yet: each part of the task invariant is kept.
LEMMA LeaseBase ==
    ASSUME NEW q, NEW m \in TaskStates, NEW m1, NEW b, TaskBase(q, m, FALSE, b), Leased(m, m1)
    PROVE  TaskBase(q, m1, FALSE, b)
<1>1. m1.leaseEpoch > 0
  BY TaskFields DEF Leased
<1> QED  BY <1>1 DEF TaskBase, Leased

\* As LeaseBase, for a row that agrees with the stream: no start of the new epoch is recorded.
LEMMA LeaseSound ==
    ASSUME NEW q \in Seq(TaskRecs), NEW m \in TaskStates, NEW m1 \in TaskStates, NEW b \in TaskStates, TaskBase(q, m, FALSE, b),
           TaskSound(q, m, FALSE, b), Leased(m, m1)
    PROVE  TaskSound(q, m1, FALSE, b)
<1>1. ~Finished(m1) /\ ~Finished(b) /\ b.leaseEpoch <= m1.leaseEpoch /\ b.leaseEpoch < m1.leaseEpoch
  BY TaskFields DEF Leased, TaskSound, Finished, Handling
<1>2. ~Fenced(q) => ~HasStart(q, m1)
  <2> SUFFICES ASSUME ~Fenced(q), HasStart(q, m1) PROVE FALSE
    OBVIOUS
  <2>1. PICK j \in 1 .. Len(q) : q[j] = Event("TaskStarted", m1.leaseEpoch, m1.worker)
    BY DEF HasStart, Contains
  <2>2. q[j].type = "TaskStarted" /\ q[j].epoch = m1.leaseEpoch
    BY <2>1 DEF Event
  <2>3. q[j].epoch <= b.leaseEpoch
    BY <1>1, <2>2 DEF TaskBase
  <2> QED  BY <1>1, <2>2, <2>3, TaskFields
<1> QED  BY <1>1, <1>2 DEF TaskSound, Handling

\* As LeaseBase, for a replay from a checkpoint.
LEMMA LeaseKept ==
    ASSUME NEW q, NEW m \in TaskStates, NEW m1 \in TaskStates, NEW b \in TaskStates, NEW a \in TaskStates,
           TaskKept(q, m, FALSE, b, a), Leased(m, m1)
    PROVE  TaskKept(q, m1, FALSE, b, a)
<1>1. ~Finished(a) /\ ~Finished(b) /\ a.leaseEpoch <= m1.leaseEpoch /\ b.leaseEpoch < m1.leaseEpoch
  BY TaskFields DEF Leased, TaskKept, Finished, Handling
<1>2. ~Runs(m1, b)
  BY <1>1, TaskFields DEF Runs
<1> QED  BY <1>1, <1>2 DEF TaskKept, Leased

\* As LeaseBase, for the tail of a draft.
LEMMA LeaseTail ==
    ASSUME NEW q, NEW m \in TaskStates, NEW m1 \in TaskStates, NEW b \in TaskStates, NEW x, NEW a,
           TaskSound(q, m, FALSE, b), TaskTail(q, m, FALSE, b, x, a), Leased(m, m1)
    PROVE  TaskTail(q, m1, FALSE, b, x, a)
<1>1. ~Finished(m) /\ ~Finished(b) /\ b.leaseEpoch < m1.leaseEpoch
  BY TaskFields DEF Leased, TaskSound, Finished, Handling
<1>2. ~Runs(m1, b)
  BY <1>1, TaskFields DEF Runs
<1>3. Finished(a) => Finished(x)
  BY <1>1 DEF TaskTail, Handling
<1> QED  BY <1>1, <1>2, <1>3 DEF TaskTail

-----------------------------------------------------------------------------
\* A restart makes the row of a replay r.
Final(r) ==
    IF r.status = "RUNNING" THEN [Row("task", r) EXCEPT !.status = "QUEUED", !.worker = NoWorker] ELSE Row("task", r)

\* Nothing but the lease and the fence is lost.
LEMMA FinalFields ==
    ASSUME NEW r \in TaskStates
    PROVE  /\ Final(r) \in TaskStates /\ Final(r).ok = r.ok /\ Final(r).leaseEpoch = r.leaseEpoch
           /\ Final(r).redelivered = 0 /\ Final(r).status # "RUNNING" /\ (Finished(Final(r)) <=> Finished(r))
<1>1. Row("task", r) = [r EXCEPT !.redelivered = 0]
  BY DEF Row, taskReplayStateFromCheckpoint
<1>2. PICK f : f = Row("task", r)
  OBVIOUS
<1>3. /\ f \in TaskStates /\ f.ok = r.ok /\ f.leaseEpoch = r.leaseEpoch /\ f.redelivered = 0 /\ f.status = r.status
  BY <1>1, <1>2 DEF TaskStates
<1>4. CASE r.status = "RUNNING"
  <2>1. Final(r) = [f EXCEPT !.status = "QUEUED", !.worker = NoWorker]
    BY <1>2, <1>4 DEF Final
  <2> QED  BY <1>3, <1>4, <2>1 DEF TaskStates, Finished
<1>5. CASE r.status # "RUNNING"
  <2>1. Final(r) = f
    BY <1>2, <1>5 DEF Final
  <2> QED  BY <1>3, <1>5, <2>1 DEF Finished
<1> QED  BY <1>4, <1>5

\* What a restart needs of the replay a it restores.
Agrees(q, b, a) ==
    /\ b.leaseEpoch <= a.leaseEpoch
    /\ Finished(b) => Finished(a)
    /\ Finished(a) => Finished(b) \/ Fenced(q)

\* After a restart: each part of the task invariant.
LEMMA RestartBase ==
    ASSUME NEW q, NEW m, NEW p, NEW b, NEW m1, TaskBase(q, m, p, b), m1.ok <=> Len(q) > 0, m1.status # "RUNNING"
    PROVE  TaskBase(q, m1, FALSE, b)
BY DEF TaskBase

\* As RestartBase, for a row that agrees with the stream.
LEMMA RestartSound ==
    ASSUME NEW q, NEW b, NEW a \in TaskStates, Agrees(q, b, a)
    PROVE  TaskSound(q, Final(a), FALSE, b)
<1>1. Final(a).leaseEpoch = a.leaseEpoch /\ Final(a).status # "RUNNING" /\ (Finished(Final(a)) <=> Finished(a))
  BY FinalFields
<1> QED  BY <1>1 DEF TaskSound, Agrees, Handling

\* As RestartBase, for a replay from a checkpoint.
LEMMA RestartKept ==
    ASSUME NEW q, NEW m, NEW p, NEW b, NEW a \in TaskStates, TaskKept(q, m, p, b, a)
    PROVE  TaskKept(q, Final(a), FALSE, b, a) /\ Agrees(q, b, a)
<1>1. /\ Final(a).leaseEpoch = a.leaseEpoch /\ Final(a).status # "RUNNING" /\ (Finished(Final(a)) <=> Finished(a))
      /\ Final(a).ok = a.ok /\ a.leaseEpoch \in Nat
  BY FinalFields, TaskFields
<1>2. Final(a).ok /\ a.ok /\ Agrees(q, b, a)
  BY <1>1 DEF TaskKept, Agrees
<1>3. Finished(a) => Finished(Final(a)) \/ Handling(q, FALSE, "TaskCompleted")
  BY <1>1
<1>4. b.leaseEpoch <= a.leaseEpoch /\ a.leaseEpoch <= Final(a).leaseEpoch
  BY <1>1 DEF TaskKept
<1>5. (Finished(b) \/ a.redelivered <= b.redelivered) /\ (Finished(b) => Finished(a)) /\ (Finished(a) => Finished(b) \/ Fenced(q))
  BY DEF TaskKept
<1>6. ~(Final(a).status = "RUNNING")
  BY <1>1
<1> QED  BY <1>2, <1>3, <1>4, <1>5, <1>6 DEF TaskKept

-----------------------------------------------------------------------------
\* The row is copied, and a row met by an empty tail.
LEMMA CopiedKept ==
    ASSUME NEW q \in Seq(TaskRecs), NEW m \in TaskStates, NEW p \in BOOLEAN, NEW b \in TaskStates, NEW a \in TaskStates,
           m.ok, TaskBase(q, m, p, b), TaskSound(q, m, p, b), TaskTail(q, m, p, b, m, a)
    PROVE  TaskKept(q, m, p, b, a)
<1>1. b.leaseEpoch <= a.leaseEpoch /\ a.leaseEpoch <= m.leaseEpoch /\ a.ok /\ a.leaseEpoch = m.leaseEpoch
  BY TaskFields DEF TaskSound, TaskTail
<1>2. Handling(q, p, "TaskCompleted") => m.status = "RUNNING"
  <2> SUFFICES ASSUME Handling(q, p, "TaskCompleted") PROVE m.status = "RUNNING"
    OBVIOUS
  <2>1. p /\ Len(q) > 0 /\ Len(q) # 1 /\ Len(q) \in Nat
    BY DEF Handling, TaskBase
  <2>2. Len(q) > 1
    <3>1. \A n \in Nat : n > 0 /\ n # 1 => n > 1
      OBVIOUS
    <3> QED  BY <2>1, <3>1
  <2> QED  BY <2>1, <2>2 DEF TaskBase
<1>3. Finished(b) => Finished(a)
  BY <1>2 DEF TaskSound, TaskTail
<1>4. Finished(a) => Finished(m) \/ Handling(q, p, "TaskCompleted")
  BY DEF TaskTail
<1>5. Finished(a) => Finished(b) \/ Fenced(q)
  BY <1>4 DEF TaskSound
<1>6. Finished(b) \/ a.redelivered <= b.redelivered
  BY DEF TaskTail
<1>7. m.status = "RUNNING" /\ Runs(m, b) => Finished(a) \/ (a.status = "RUNNING" /\ a.leaseEpoch = m.leaseEpoch)
  BY <1>1 DEF TaskTail
<1> QED  BY <1>1, <1>3, <1>4, <1>5, <1>6, <1>7 DEF TaskKept

\* A row that reflects the whole stream, met by an empty tail.
LEMMA FreshTail ==
    ASSUME NEW q, NEW m, NEW b \in TaskStates, NEW x, x.ok, x.redelivered = 0, TaskSound(q, m, FALSE, b)
    PROVE  TaskTail(q, m, FALSE, b, x, x)
<1>1. x.redelivered <= b.redelivered
  BY TaskFields
<1>2. m.status = "RUNNING" => ~Finished(b)
  BY DEF TaskSound, Handling, Finished
<1> QED  BY <1>1, <1>2 DEF TaskTail

\* A table without a row.
LEMMA EmptyRow ==
    ASSUME NEW k \in KindNames
    PROVE  Empty[k] \in CkStates(k) /\ IsRow(k, Empty[k])
<1>1. CASE k = "task"
  <2>1. Empty[k] = InitReplay
    BY <1>1 DEF Empty
  <2> QED  BY <1>1, <2>1 DEF CkStates, IsRow, TaskStates, InitReplay
<1>2. CASE k = "actor"
  <2>1. Empty[k] = [epoch |-> 0, submitted |-> 0, count |-> 0]
    BY <1>2 DEF Empty
  <2> QED  BY <1>2, <2>1 DEF CkStates, IsRow, ActorStates
<1>3. CASE k \in {"wf", "llm"}
  BY <1>3 DEF Empty, CkStates, IsRow
<1> QED  BY <1>1, <1>2, <1>3 DEF KindNames

\* The replay of an empty stream.
LEMMA FullNone ==
    ASSUME NEW k \in KindNames, NEW q \in Seq(CkRecs(k)), Len(q) = 0
    PROVE  Full(k, q) = Empty[k]
BY EmptyRow, ReplayNone DEF Full

\* The replay of a stream is a state of its kind.
LEMMA FullType ==
    ASSUME NEW k \in KindNames, NEW q \in Seq(CkRecs(k))
    PROVE  Full(k, q) \in CkStates(k)
BY EmptyRow, ReplayType DEF Full

\* The replay of a stream that grows.
LEMMA FullAppend ==
    ASSUME NEW k \in KindNames, NEW q \in Seq(CkRecs(k)), NEW rec \in CkRecs(k)
    PROVE  Full(k, Append(q, rec)) = Apply(k, Full(k, q), rec)
BY EmptyRow, ReplayAppend DEF Full

\* A tail is a sequence of records.
LEMMA TailType ==
    ASSUME NEW k, NEW S, NEW q \in Seq(S), NEW s \in Nat
    PROVE  TailSeg(k, s, q) \in Seq(S) /\ TailAt(k, s) \in Nat
<1>1. TailAt(k, s) \in Nat
  BY DEF TailAt
<1>2. PICK t \in Nat : t = TailAt(k, s)
  BY <1>1
<1>3. Len(q) \in Nat /\ \A i \in 1 .. Len(q) : q[i] \in S
  OBVIOUS
<1>4. SubSeq(q, t + 1, Len(q)) \in Seq(S)
  BY <1>3, SubSeqProperties
<1> QED  BY <1>1, <1>2, <1>4 DEF TailSeg

\* The tail of a stream that grows, and the tail of one that has not.
LEMMA TailAppend ==
    ASSUME NEW k, NEW S, NEW q \in Seq(S), NEW rec \in S, NEW s \in Nat, TailAt(k, s) <= Len(q)
    PROVE  TailSeg(k, s, Append(q, rec)) = Append(TailSeg(k, s, q), rec)
<1>1. PICK t \in Nat : t = TailAt(k, s)
  BY DEF TailAt
<1> DEFINE q1 == Append(q, rec)
           n == Len(q)
           u == SubSeq(q, t + 1, n)
           v == SubSeq(q1, t + 1, n + 1)
<1>2. /\ q1 \in Seq(S) /\ Len(q1) = n + 1 /\ n \in Nat /\ q1[n + 1] = rec /\ (\A i \in 1 .. n : q1[i] = q[i]) /\ t <= n
  BY <1>1
<1>3. u = [i \in 1 .. n - t |-> q[i + t]] /\ v = [i \in 1 .. n + 1 - t |-> q1[i + t]]
  <2>1. (n - (t + 1)) + 1 = n - t /\ (n + 1 - (t + 1)) + 1 = n + 1 - t /\ \A i \in Nat : (i + (t + 1)) - 1 = i + t
    BY <1>2
  <2> HIDE DEF n, q1
  <2> QED  BY <1>2, <2>1
<1>4. u \in Seq(S) /\ Len(u) = n - t
  <2> HIDE DEF n, q1, u, v
  <2>1. \A i \in 1 .. n - t : q[i + t] \in S
    <3> TAKE i \in 1 .. n - t
    <3>1. i + t \in 1 .. n
      BY <1>2
    <3>2. i + t \in 1 .. Len(q)
      BY <3>1 DEF n
    <3> QED  BY <3>2
  <2>2. n - t \in Nat
    BY <1>2
  <2> QED  BY <1>3, <2>1, <2>2
<1>5. Append(u, rec) = [i \in 1 .. Len(u) + 1 |-> IF i \in 1 .. Len(u) THEN u[i] ELSE rec]
  <2> DEFINE w == Append(u, rec)
  <2> HIDE DEF u, n, v, q1
  <2>1. /\ w \in Seq(S) /\ Len(w) = Len(u) + 1 /\ Len(u) \in Nat
        /\ (\A i \in 1 .. Len(u) : w[i] = u[i]) /\ w[Len(u) + 1] = rec
    BY <1>4
  <2> HIDE DEF w
  <2>2. w = [i \in 1 .. Len(u) + 1 |-> w[i]]
    BY <2>1
  <2>3. \A i \in 1 .. Len(u) + 1 : w[i] = IF i \in 1 .. Len(u) THEN u[i] ELSE rec
    <3> TAKE i \in 1 .. Len(u) + 1
    <3>1. i \notin 1 .. Len(u) => i = Len(u) + 1
      BY <2>1
    <3> QED  BY <2>1, <3>1
  <2>4. w = [i \in 1 .. Len(u) + 1 |-> IF i \in 1 .. Len(u) THEN u[i] ELSE rec]
    BY <2>2, <2>3
  <2> QED  BY <2>4 DEF w
<1>6. (n - t) + 1 = n + 1 - t /\ n - t \in Nat
  BY <1>2
<1>7. ASSUME NEW i \in 1 .. n + 1 - t
      PROVE  q1[i + t] = IF i \in 1 .. n - t THEN u[i] ELSE rec
  <2> HIDE DEF u, v, q1, n
  <2>1. CASE i \in 1 .. n - t
    <3>1. i + t \in 1 .. n /\ u[i] = q[i + t]
      BY <1>2, <1>3, <2>1
    <3> QED  BY <1>2, <2>1, <3>1
  <2>2. CASE i \notin 1 .. n - t
    <3>1. i + t = n + 1
      BY <1>2, <1>6, <2>2
    <3> QED  BY <1>2, <2>2, <3>1
  <2> QED  BY <2>1, <2>2
<1> HIDE DEF u, v, q1, n
<1>8. Append(u, rec) = [i \in 1 .. n + 1 - t |-> IF i \in 1 .. n - t THEN u[i] ELSE rec]
  BY <1>4, <1>5, <1>6
<1>9. v = Append(u, rec)
  BY <1>3, <1>7, <1>8
<1> QED  BY <1>1, <1>2, <1>9 DEF u, v, n, q1, TailSeg

\* The replay of a tail that grows.
LEMMA TailReplayAppend ==
    ASSUME NEW k \in KindNames, NEW q \in Seq(CkRecs(k)), NEW rec \in CkRecs(k), NEW s \in Nat, NEW x \in CkStates(k),
           TailAt(k, s) <= Len(q)
    PROVE  Replay(k, x, TailSeg(k, s, Append(q, rec))) = Apply(k, Replay(k, x, TailSeg(k, s, q)), rec)
<1>1. TailSeg(k, s, Append(q, rec)) = Append(TailSeg(k, s, q), rec)
  BY TailAppend
<1>2. TailSeg(k, s, q) \in Seq(CkRecs(k))
  BY TailType
<1> QED  BY <1>1, <1>2, ReplayAppend

\* The replay of a tail is a state of its kind.
LEMMA TailReplayType ==
    ASSUME NEW k \in KindNames, NEW q \in Seq(CkRecs(k)), NEW s \in Nat, NEW x \in CkStates(k)
    PROVE  Replay(k, x, TailSeg(k, s, q)) \in CkStates(k)
BY TailType, ReplayType

\* An empty tail leaves the row as it is.
LEMMA TailReplayNone ==
    ASSUME NEW k \in KindNames, NEW q \in Seq(CkRecs(k)), NEW s \in Nat, NEW x \in CkStates(k), TailAt(k, s) >= Len(q)
    PROVE  Replay(k, x, TailSeg(k, s, q)) = x
<1>1. PICK t \in Nat : t = TailAt(k, s)
  BY DEF TailAt
<1>2. Len(q) \in Nat
  OBVIOUS
<1>3. Len(SubSeq(q, t + 1, Len(q))) = 0
  BY <1>1, <1>2, SubSeqProperties
<1>4. TailSeg(k, s, q) \in Seq(CkRecs(k)) /\ Len(TailSeg(k, s, q)) = 0
  BY <1>1, <1>3, TailType DEF TailSeg
<1> QED  BY <1>4, ReplayNone

\* A task that is in a row stays in what is replayed from it.
LEMMA ReplayOk ==
    ASSUME NEW x \in CkStates("task"), x.ok, NEW q \in Seq(CkRecs("task"))
    PROVE  Replay("task", x, q).ok
<1> DEFINE k == "task"
           n == Len(q)
<1>0. k \in KindNames
  BY DEF KindNames
<1>1. PICK h : GoesThrough(h, k, x, q) /\ Replay(k, x, q) = h[n]
  BY <1>0, RunsThrough
<1> DEFINE P == {i \in 0 .. n : h[i] \in TaskStates /\ h[i].ok}
<1>2. n \in Nat /\ \A i \in 1 .. n : q[i] \in TaskRecs
  BY DEF CkRecs
<1>3. 0 \in P
  BY <1>1, <1>2 DEF GoesThrough, CkStates
<1>4. ASSUME NEW i \in 0 .. n - 1, i \in P PROVE i + 1 \in P
  <2>1. i + 1 \in 1 .. n /\ (i + 1) - 1 = i /\ i + 1 \in 0 .. n
    BY <1>2
  <2>2. h[i + 1] = applyRaw(h[i], q[i + 1])
    BY <1>1, <2>1 DEF GoesThrough, Apply
  <2>3. PICK r \in TaskStates, ev \in TaskRecs : r = h[i] /\ ev = q[i + 1] /\ r.ok
    BY <1>2, <1>4, <2>1
  <2>4. applyRaw(r, ev) \in TaskStates
    <3>1. Apply(k, r, ev) \in CkStates(k)
      BY <1>0, <2>3, ApplyType DEF CkStates, CkRecs
    <3> QED  BY <3>1 DEF Apply, CkStates
  <2>5. applyRaw(r, ev).ok
    <3>0. ev.type \in {"TaskSubmitted", "TaskStarted", "TaskRedelivered", "TaskCompleted"}
      BY <2>3 DEF TaskRecs
    <3>1. CASE ev.type = "TaskSubmitted"
      <4>1. applyRaw(r, ev) = ApplySubmitted(r, ev)
        BY <3>1 DEF applyRaw
      <4> QED  BY <4>1 DEF ApplySubmitted
    <3>2. CASE ev.type = "TaskStarted"
      <4>1. applyRaw(r, ev) = ApplyStarted(r, ev)
        BY <3>2 DEF applyRaw
      <4> QED  BY <2>3, <4>1 DEF ApplyStarted, TaskStates
    <3>3. CASE ev.type = "TaskRedelivered"
      <4>1. applyRaw(r, ev) = ApplyRedelivered(r, ev)
        BY <3>3 DEF applyRaw
      <4> QED  BY <2>3, <4>1 DEF ApplyRedelivered, TaskStates
    <3>4. CASE ev.type = "TaskCompleted"
      <4>1. applyRaw(r, ev) = ApplyTerminal(r, ev, "SUCCEEDED")
        BY <3>4 DEF applyRaw
      <4> QED  BY <2>3, <4>1 DEF ApplyTerminal, TaskStates
    <3> QED  BY <3>0, <3>1, <3>2, <3>3, <3>4
  <2> QED  BY <2>1, <2>2, <2>3, <2>4, <2>5
<1> HIDE DEF P, n, k
<1>5. \A i \in 0 .. n : i \in P
  BY <1>2, <1>3, <1>4, StepsTo
<1>6. n \in P
  BY <1>2, <1>5
<1> QED  BY <1>1, <1>6 DEF P, n, k

\* What NextRecords allows for a row m.
NextOf(k, q, m, rec) == rec \in CkRecs(k) /\ (k = "task" => Due(q, m, rec)) /\ (k = "wf" => m # 3)

\* The row agrees with the stream, n records of which it reflects.
Agreed(k, q, m, p, n) ==
    IF k = "task" THEN TaskBase(q, m, p, Full(k, q)) /\ TaskSound(q, m, p, Full(k, q)) ELSE RowCurrent(k, q, m, p, n)

\* One record of a task that is in the row.
LEMMA TaskReplayStep ==
    ASSUME NEW q, NEW m \in TaskStates, m.ok, NEW b0, TaskBase(q, m, FALSE, b0), NEW rec \in TaskRecs, Due(q, m, rec),
           NEW r \in TaskStates
    PROVE  TaskStep(r, rec, Apply("task", r, rec)) /\ Apply("task", r, rec) \in TaskStates /\ rec.type # "TaskSubmitted"
<1>1. rec.type # "TaskSubmitted" /\ rec.epoch > 0
  BY DEF Due, TaskBase
<1>2. Apply("task", r, rec) = applyRaw(r, rec)
  BY DEF Apply
<1>3. "task" \in KindNames /\ r \in CkStates("task") /\ rec \in CkRecs("task") /\ CkStates("task") = TaskStates
  BY DEF KindNames, CkStates, CkRecs
<1>4. Apply("task", r, rec) \in TaskStates
  BY <1>3, ApplyType
<1> QED  BY <1>1, <1>2, <1>4, AppliedStep

\* A record is appended: the row lags behind by it.
LEMMA AppendCurrent ==
    ASSUME NEW k \in KindNames, k # "task", NEW q \in Seq(CkRecs(k)), NEW m, NEW rec, NextOf(k, q, m, rec), NEW n,
           RowCurrent(k, q, m, FALSE, n)
    PROVE  RowCurrent(k, Append(q, rec), m, TRUE, n)
<1>1. rec \in CkRecs(k)
  BY DEF NextOf
<1>2. Full(k, Append(q, rec)) = Apply(k, m, rec)
  BY <1>1, FullAppend DEF RowCurrent
<1>3. Append(q, rec)[Len(Append(q, rec))] = rec
  BY <1>1
<1> QED  BY <1>2, <1>3 DEF RowCurrent, NextOf

\* A record is appended while the tail of a draft is followed.
LEMMA AppendTracks ==
    ASSUME NEW k \in KindNames, NEW q \in Seq(CkRecs(k)), NEW m \in CkStates(k), NEW rec, NextOf(k, q, m, rec), NEW n,
           Agreed(k, q, m, FALSE, n), k = "task" => m.ok, NEW s \in Nat, TailAt(k, s) <= Len(q), Tracks(k, q, m, FALSE, s)
    PROVE  Tracks(k, Append(q, rec), m, TRUE, s)
<1> SUFFICES ASSUME NEW x \in CkStates(k), MayBecome(k, m, x)
             PROVE  TailFits(k, Append(q, rec), m, TRUE, Full(k, Append(q, rec)), s, x,
                             Replay(k, x, TailSeg(k, s, Append(q, rec))))
  BY DEF Tracks
<1>0. rec \in CkRecs(k)
  BY DEF NextOf
<1>1. PICK b : b = Full(k, q) /\ b \in CkStates(k)
  BY FullType
<1>2. PICK a : a = Replay(k, x, TailSeg(k, s, q)) /\ a \in CkStates(k)
  BY TailReplayType
<1>3. Full(k, Append(q, rec)) = Apply(k, b, rec)
  BY <1>0, <1>1, FullAppend
<1>4. Replay(k, x, TailSeg(k, s, Append(q, rec))) = Apply(k, a, rec)
  BY <1>0, <1>2, TailReplayAppend
<1>5. TailFits(k, q, m, FALSE, b, s, x, a)
  BY <1>1, <1>2 DEF Tracks
<1> DEFINE q1 == Append(q, rec)
<1>6. TailFits(k, q1, m, TRUE, Apply(k, b, rec), s, x, Apply(k, a, rec))
  <2>1. CASE k = "task"
    <3>1. /\ q \in Seq(TaskRecs) /\ m \in TaskStates /\ rec \in TaskRecs /\ x \in TaskStates /\ a \in TaskStates /\ b \in TaskStates
      BY <1>0, <1>1, <1>2, <2>1 DEF CkStates, CkRecs
    <3>2. TaskBase(q, m, FALSE, b) /\ TaskSound(q, m, FALSE, b) /\ Due(q, m, rec) /\ TaskTail(q, m, FALSE, b, x, a)
          /\ m.ok /\ x.leaseEpoch >= m.leaseEpoch
      BY <1>1, <1>5, <2>1 DEF Agreed, NextOf, TailFits, MayBecome
    <3>3. TaskStep(a, rec, Apply(k, a, rec)) /\ Apply(k, a, rec) \in TaskStates
      BY <2>1, <3>1, <3>2, TaskReplayStep
    <3>4. TaskStep(b, rec, Apply(k, b, rec)) /\ Apply(k, b, rec) \in TaskStates
      BY <2>1, <3>1, <3>2, TaskReplayStep
    <3>5. TaskTail(q1, m, TRUE, Apply(k, b, rec), x, Apply(k, a, rec))
      BY <3>1, <3>2, <3>3, <3>4, AppendTail
    <3> QED  BY <2>1, <3>5 DEF TailFits
  <2>2. CASE k = "wf"
    <3>1. WorkflowTail(m, b, x, a) /\ m # 3
      BY <1>5, <2>2 DEF TailFits, NextOf
    <3>2. Apply(k, b, rec) = (IF b = 3 THEN b ELSE rec.n) /\ Apply(k, a, rec) = IF a = 3 THEN a ELSE rec.n
      BY <2>2 DEF Apply, applyWorkflow
    <3>3. WorkflowTail(m, Apply(k, b, rec), x, Apply(k, a, rec))
      BY <3>1, <3>2 DEF WorkflowTail
    <3> QED  BY <2>2, <3>3 DEF TailFits
  <2>3. CASE k = "actor"
    <3>1. /\ rec \in [type : {"granted", "submitted", "applied"}, n : Nat] /\ x \in ActorStates /\ a \in ActorStates
          /\ b \in ActorStates /\ m \in ActorStates
      BY <1>0, <1>1, <1>2, <2>3 DEF CkStates, CkRecs
    <3>2. ActorTail(m, b, x, a)
      BY <1>5, <2>3 DEF TailFits
    <3>3. Apply(k, b, rec) = applyActor(b, rec) /\ Apply(k, a, rec) = applyActor(a, rec)
      BY <2>3 DEF Apply
    <3>4. ActorTail(m, applyActor(b, rec), x, applyActor(a, rec))
      <4>1. CASE rec.type = "granted"
        <5>1. applyActor(a, rec) = [a EXCEPT !.epoch = rec.n] /\ applyActor(b, rec) = [b EXCEPT !.epoch = rec.n]
          BY <4>1 DEF applyActor
        <5> QED  BY <3>1, <3>2, <5>1 DEF ActorTail, ActorStates
      <4>2. CASE rec.type = "submitted"
        <5>1. /\ applyActor(a, rec) = [a EXCEPT !.submitted = IF rec.n > a.submitted THEN rec.n ELSE a.submitted]
              /\ applyActor(b, rec) = [b EXCEPT !.submitted = IF rec.n > b.submitted THEN rec.n ELSE b.submitted]
          BY <4>2 DEF applyActor
        <5> QED  BY <3>1, <3>2, <5>1 DEF ActorTail, ActorStates
      <4>3. CASE rec.type = "applied"
        <5>1. /\ applyActor(a, rec) = [a EXCEPT !.count = rec.n, !.submitted = IF rec.n > a.submitted THEN rec.n ELSE a.submitted]
              /\ applyActor(b, rec) = [b EXCEPT !.count = rec.n, !.submitted = IF rec.n > b.submitted THEN rec.n ELSE b.submitted]
          BY <4>3 DEF applyActor
        <5> QED  BY <3>1, <3>2, <5>1 DEF ActorTail, ActorStates
      <4> QED  BY <3>1, <4>1, <4>2, <4>3
    <3> QED  BY <2>3, <3>3, <3>4 DEF TailFits
  <2>4. CASE k = "llm"
    <3>1. a = x + (Len(q) - s) /\ a \in Nat /\ x \in Nat /\ Len(q) \in Nat /\ Len(q1) = Len(q) + 1
      BY <1>0, <1>2, <1>5, <2>4 DEF TailFits, CkStates
    <3>2. Apply(k, a, rec) = a + 1
      BY <2>4 DEF Apply, materializeLLMStreamFromSeq
    <3> HIDE DEF q1
    <3>3. Apply(k, a, rec) = x + (Len(q1) - s)
      BY <3>1, <3>2
    <3> QED  BY <2>4, <3>3 DEF TailFits
  <2> QED  BY <2>1, <2>2, <2>3, <2>4 DEF KindNames
<1> QED  BY <1>3, <1>4, <1>6

\* A record is appended: a checkpoint that fits still fits.
LEMMA AppendKeptAll ==
    ASSUME NEW k \in KindNames, NEW q \in Seq(CkRecs(k)), NEW m \in CkStates(k), NEW rec, NextOf(k, q, m, rec),
           k = "task" => TaskBase(q, m, FALSE, Full(k, q)) /\ TaskSound(q, m, FALSE, Full(k, q)),
           NEW s \in Nat, s <= Len(q), NEW x \in CkStates(k), Kept(k, q, m, FALSE, x, s)
    PROVE  Kept(k, Append(q, rec), m, TRUE, x, s)
<1> DEFINE q1 == Append(q, rec)
<1>0. rec \in CkRecs(k) /\ Len(q) \in Nat
  BY DEF NextOf
<1>1. Full(k, q1) = Apply(k, Full(k, q), rec)
  BY <1>0, FullAppend
<1>2. PICK b : b = Full(k, q) /\ b \in CkStates(k)
  BY FullType
<1>3. PICK a : a = Replay(k, x, TailSeg(k, s, q)) /\ a \in CkStates(k)
  BY TailReplayType
<1>4. TailAt(k, s) <= Len(q) => Replay(k, x, TailSeg(k, s, q1)) = Apply(k, a, rec)
  BY <1>0, <1>3, TailReplayAppend
<1> HIDE DEF q1
<1>5. CASE ~Covers(k, x)
  BY <1>5 DEF Kept, FromRow
<1>6. CASE Covers(k, x) /\ k # "task"
  <2>1. a = b
    BY <1>2, <1>3, <1>6 DEF Kept, FromRow
  <2>2. TailAt(k, s) <= Len(q)
    <3> SUFFICES ASSUME ~(TailAt(k, s) <= Len(q)) PROVE FALSE
      OBVIOUS
    <3>1. Len(q) = 0 /\ k # "llm" /\ TailAt(k, s) = 1
      BY <1>0 DEF TailAt
    <3>2. b = Empty[k]
      BY <1>2, <3>1, FullNone
    <3>3. a = x
      <4>1. TailAt(k, s) >= Len(q)
        BY <3>1
      <4> QED  BY <1>3, <4>1, TailReplayNone
    <3> QED  BY <1>6, <2>1, <3>1, <3>2, <3>3 DEF Covers
  <2> QED  BY <1>1, <1>2, <1>4, <1>6, <2>1, <2>2 DEF Kept, FromRow, q1
<1>7. CASE Covers(k, x) /\ k = "task"
  <2>1. TaskKept(q, m, FALSE, b, a)
    BY <1>2, <1>3, <1>7 DEF Kept, FromRow
  <2>2. TaskBase(q, m, FALSE, b) /\ TaskSound(q, m, FALSE, b) /\ Due(q, m, rec) /\ m.ok
    BY <1>2, <1>7, <2>1 DEF NextOf, TaskKept
  <2>3. TailAt(k, s) <= Len(q)
    <3>1. Len(q) > 0
      BY <2>2 DEF TaskBase
    <3> QED  BY <1>0, <3>1 DEF TailAt
  <2>4. q \in Seq(TaskRecs) /\ m \in TaskStates /\ rec \in TaskRecs /\ a \in TaskStates /\ b \in TaskStates
    BY <1>0, <1>2, <1>3, <1>7 DEF CkStates, CkRecs
  <2>5. TaskStep(a, rec, Apply(k, a, rec)) /\ Apply(k, a, rec) \in TaskStates /\ rec.type # "TaskSubmitted"
    BY <1>7, <2>2, <2>4, TaskReplayStep
  <2>6. TaskStep(b, rec, Apply(k, b, rec)) /\ Apply(k, b, rec) \in TaskStates
    BY <1>7, <2>2, <2>4, TaskReplayStep
  <2>7. TaskSound(q1, m, TRUE, Apply(k, b, rec))
    BY <2>2, <2>4, <2>5, <2>6, AppendSound DEF q1
  <2>8. TaskKept(q1, m, TRUE, Apply(k, b, rec), Apply(k, a, rec))
    BY <2>1, <2>2, <2>4, <2>5, <2>6, <2>7, AppendKept DEF q1
  <2> QED  BY <1>1, <1>2, <1>4, <1>7, <2>3, <2>8 DEF Kept, FromRow, q1
<1> QED  BY <1>5, <1>6, <1>7

\* What a handler makes of a row.
LEMMA UpdateCurrent ==
    ASSUME NEW k \in KindNames, k # "task", NEW q \in Seq(CkRecs(k)), NEW m \in CkStates(k), NEW n \in Nat,
           Len(q) = n + 1, RowCurrent(k, q, m, TRUE, n)
    PROVE  RowCurrent(k, q, Row(k, Apply(k, m, q[Len(q)])), FALSE, Len(q))
<1> DEFINE m1 == Row(k, Apply(k, m, q[Len(q)]))
<1>1. m1 = Apply(k, m, q[Len(q)])
  BY DEF Row
<1>2. Full(k, q) = m1
  BY <1>1 DEF RowCurrent
<1>3. k = "llm" => m1 = Len(q)
  BY <1>1 DEF RowCurrent, Apply, materializeLLMStreamFromSeq
<1>4. Len(q) # 0
  OBVIOUS
<1> HIDE DEF m1
<1>5. RowCurrent(k, q, m1, FALSE, Len(q))
  BY <1>2, <1>3, <1>4 DEF RowCurrent
<1> QED  BY <1>5 DEF m1

\* The number of submitted commands never goes back.
LEMMA ActorMonotone ==
    ASSUME NEW m \in ActorStates, NEW rec \in [type : {"granted", "submitted", "applied"}, n : Nat]
    PROVE  applyActor(m, rec).submitted >= m.submitted /\ applyActor(m, rec) \in ActorStates
<1>1. CASE rec.type = "granted"
  <2>1. applyActor(m, rec) = [m EXCEPT !.epoch = rec.n]
    BY <1>1 DEF applyActor
  <2> QED  BY <2>1 DEF ActorStates
<1>2. CASE rec.type = "submitted"
  <2>1. applyActor(m, rec) = [m EXCEPT !.submitted = IF rec.n > m.submitted THEN rec.n ELSE m.submitted]
    BY <1>2 DEF applyActor
  <2> QED  BY <2>1 DEF ActorStates
<1>3. CASE rec.type = "applied"
  <2>1. PICK f : f = applyActor(m, rec)
    OBVIOUS
  <2>2. PICK u : u = IF rec.n > m.submitted THEN rec.n ELSE m.submitted
    OBVIOUS
  <2>3. f = [m EXCEPT !.count = rec.n, !.submitted = u]
    BY <1>3, <2>1, <2>2 DEF applyActor
  <2>4. rec.n \in Nat /\ m.submitted \in Nat /\ u \in Nat /\ u >= m.submitted
    BY <2>2 DEF ActorStates
  <2>5. f \in ActorStates /\ f.submitted = u
    BY <2>3, <2>4 DEF ActorStates
  <2> QED  BY <2>1, <2>4, <2>5
<1> QED  BY <1>1, <1>2, <1>3

\* The row is updated while the tail of a draft is followed.
LEMMA UpdateTracks ==
    ASSUME NEW k \in KindNames, NEW q \in Seq(CkRecs(k)), NEW m \in CkStates(k), NEW n \in Nat, Len(q) = n + 1,
           NEW m1, m1 = Row(k, Apply(k, m, q[Len(q)])), Agreed(k, q, m, TRUE, n), k = "task" => Updated(q, m, m1),
           NEW s \in Nat, Tracks(k, q, m, TRUE, s)
    PROVE  Tracks(k, q, m1, FALSE, s)
<1> SUFFICES ASSUME NEW x \in CkStates(k), MayBecome(k, m1, x)
             PROVE  TailFits(k, q, m1, FALSE, Full(k, q), s, x, Replay(k, x, TailSeg(k, s, q)))
  BY DEF Tracks
<1>1. PICK b : b = Full(k, q) /\ b \in CkStates(k)
  BY FullType
<1>2. PICK a : a = Replay(k, x, TailSeg(k, s, q)) /\ a \in CkStates(k)
  BY TailReplayType
<1>3. q[Len(q)] \in CkRecs(k)
  OBVIOUS
<1>4. MayBecome(k, m, x) => TailFits(k, q, m, TRUE, b, s, x, a)
  BY <1>1, <1>2 DEF Tracks
<1>5. CASE k = "task"
  <2>1. MayBecome(k, m, x)
    BY <1>5 DEF Updated, MayBecome
  <2>2. TaskTail(q, m, TRUE, b, x, a)
    BY <1>4, <1>5, <2>1 DEF TailFits
  <2>3. TaskTail(q, m1, FALSE, b, x, a)
    BY <1>5, <2>2, UpdateTail
  <2> QED  BY <1>1, <1>2, <1>5, <2>3 DEF TailFits
<1>6. CASE k # "task"
  <2>1. m1 = b
    BY <1>1, <1>6 DEF Agreed, RowCurrent, Row
  <2>2. CASE k = "wf"
    <3>1. MayBecome(k, m, x)
      BY <2>2 DEF MayBecome
    <3>2. WorkflowTail(m, b, x, a)
      BY <1>4, <2>2, <3>1 DEF TailFits
    <3>3. WorkflowTail(m1, b, x, a)
      BY <2>1, <3>2 DEF WorkflowTail
    <3> QED  BY <1>1, <1>2, <2>2, <3>3 DEF TailFits
  <2>3. CASE k = "actor"
    <3>1. m \in ActorStates /\ x \in ActorStates /\ q[Len(q)] \in [type : {"granted", "submitted", "applied"}, n : Nat]
      BY <1>3, <2>3 DEF CkStates, CkRecs
    <3>2. m1 = applyActor(m, q[Len(q)])
      BY <2>3 DEF Row, Apply
    <3>3. m1.submitted >= m.submitted /\ m1 \in ActorStates
      BY <3>1, <3>2, ActorMonotone
    <3>4. m1.submitted \in Nat /\ m.submitted \in Nat /\ x.submitted \in Nat
      BY <3>1, <3>3 DEF ActorStates
    <3>5. MayBecome(k, m, x)
      BY <2>3, <3>3, <3>4 DEF MayBecome
    <3>6. ActorTail(m, b, x, a)
      BY <1>4, <2>3, <3>5 DEF TailFits
    <3>7. ActorTail(m1, b, x, a)
      BY <2>1, <3>6 DEF ActorTail
    <3> QED  BY <1>1, <1>2, <2>3, <3>7 DEF TailFits
  <2>4. CASE k = "llm"
    <3>1. MayBecome(k, m, x)
      BY <2>4 DEF MayBecome
    <3> QED  BY <1>1, <1>2, <1>4, <2>4, <3>1 DEF TailFits
  <2> QED  BY <1>6, <2>2, <2>3, <2>4 DEF KindNames
<1> QED  BY <1>5, <1>6

\* The tail of a draft is empty and the row reflects the whole stream.
LEMMA FreshTracks ==
    ASSUME NEW k \in KindNames, NEW q \in Seq(CkRecs(k)), NEW m \in CkStates(k), NEW n, Agreed(k, q, m, FALSE, n),
           NEW s \in Nat, TailAt(k, s) = Len(q)
    PROVE  Tracks(k, q, m, FALSE, s)
<1> SUFFICES ASSUME NEW x \in CkStates(k), MayBecome(k, m, x)
             PROVE  TailFits(k, q, m, FALSE, Full(k, q), s, x, Replay(k, x, TailSeg(k, s, q)))
  BY DEF Tracks
<1>1. PICK b : b = Full(k, q) /\ b \in CkStates(k)
  BY FullType
<1>2. Replay(k, x, TailSeg(k, s, q)) = x
  <2>1. TailAt(k, s) >= Len(q)
    OBVIOUS
  <2> QED  BY <2>1, TailReplayNone
<1>3. CASE k = "task"
  <2>1. b \in TaskStates /\ x.ok /\ x.redelivered = 0 /\ TaskSound(q, m, FALSE, b)
    BY <1>1, <1>3 DEF MayBecome, IsRow, Agreed, CkStates
  <2>2. TaskTail(q, m, FALSE, b, x, x)
    BY <2>1, FreshTail
  <2> QED  BY <1>1, <1>2, <1>3, <2>2 DEF TailFits
<1>4. CASE k # "task"
  <2>1. m = b
    BY <1>1, <1>4 DEF Agreed, RowCurrent
  <2>2. CASE k = "wf"
    BY <1>1, <1>2, <2>1, <2>2 DEF TailFits, WorkflowTail
  <2>3. CASE k = "actor"
    BY <1>1, <1>2, <2>1, <2>3 DEF TailFits, ActorTail, MayBecome
  <2>4. CASE k = "llm"
    <3>1. s = Len(q) /\ x \in Nat
      BY <2>4 DEF TailAt, CkStates
    <3>2. x = x + (Len(q) - s)
      BY <3>1
    <3> QED  BY <1>2, <2>4, <3>2 DEF TailFits
  <2> QED  BY <1>4, <2>2, <2>3, <2>4 DEF KindNames
<1> QED  BY <1>3, <1>4

\* The row is copied into a draft whose tail was followed.
LEMMA SnapshotKept ==
    ASSUME NEW k \in KindNames, NEW q \in Seq(CkRecs(k)), NEW m, IsRow(k, m), NEW p \in BOOLEAN, NEW n \in Nat,
           Agreed(k, q, m, p, n), k = "llm" => Full(k, q) = Len(q), Len(q) = n + (IF p THEN 1 ELSE 0),
           NEW s \in Nat, n >= s, k = "llm" => n = s, n >= TailAt(k, s) => Tracks(k, q, m, p, s)
    PROVE  Kept(k, q, m, p, m, s)
<1>0. m \in CkStates(k)
  BY DEF IsRow
<1>1. PICK b : b = Full(k, q) /\ b \in CkStates(k)
  BY FullType
<1>2. PICK a : a = Replay(k, m, TailSeg(k, s, q)) /\ a \in CkStates(k)
  BY <1>0, TailReplayType
<1>3. CASE ~Covers(k, m)
  BY <1>3 DEF Kept, FromRow
<1>4. CASE Covers(k, m) /\ k = "task"
  <2>1. m.ok
    BY <1>4 DEF Covers, IsRow, Empty
  <2>2. TaskBase(q, m, p, b) /\ TaskSound(q, m, p, b)
    BY <1>1, <1>4 DEF Agreed
  <2>3. n >= TailAt(k, s)
    <3>1. Len(q) \in Nat /\ Len(q) > 0 /\ ~(p /\ Len(q) = 1)
      BY <2>1, <2>2 DEF TaskBase
    <3> QED  BY <3>1 DEF TailAt
  <2>4. MayBecome(k, m, m)
    <3>1. m.leaseEpoch \in Nat
      BY <1>0, <1>4 DEF CkStates, TaskStates
    <3> QED  BY <1>4, <2>1, <3>1 DEF MayBecome
  <2>5. TaskTail(q, m, p, b, m, a)
    BY <1>0, <1>1, <1>2, <1>4, <2>3, <2>4 DEF Tracks, TailFits
  <2>6. q \in Seq(TaskRecs) /\ m \in TaskStates /\ b \in TaskStates /\ a \in TaskStates
    BY <1>0, <1>1, <1>2, <1>4 DEF CkStates, CkRecs
  <2>7. TaskKept(q, m, p, b, a)
    BY <2>1, <2>2, <2>5, <2>6, CopiedKept
  <2> QED  BY <1>1, <1>2, <1>4, <2>7 DEF Kept, FromRow
<1>5. CASE Covers(k, m) /\ k # "task"
  <2>1. RowCurrent(k, q, m, p, n)
    BY <1>5 DEF Agreed
  <2>2. n >= TailAt(k, s)
    <3>1. k = "llm" \/ n # 0
      BY <1>5, <2>1 DEF RowCurrent, Covers
    <3> QED  BY <3>1 DEF TailAt
  <2>3. MayBecome(k, m, m)
    <3>1. k = "actor" => m.submitted >= m.submitted
      BY <1>0 DEF CkStates, ActorStates
    <3> QED  BY <1>5, <3>1 DEF MayBecome
  <2>4. TailFits(k, q, m, p, b, s, m, a)
    BY <1>0, <1>1, <1>2, <2>2, <2>3 DEF Tracks
  <2>5. a = b
    <3>1. CASE k = "wf"
      <4>1. WorkflowTail(m, b, m, a)
        BY <2>4, <3>1 DEF TailFits
      <4>2. m = 3 => b = m
        BY <1>1, <2>1, <3>1 DEF RowCurrent
      <4> QED  BY <4>1, <4>2 DEF WorkflowTail
    <3>2. CASE k = "actor"
      <4>1. ActorTail(m, b, m, a) /\ m \in ActorStates /\ a \in ActorStates /\ b \in ActorStates
        BY <1>0, <1>1, <1>2, <2>4, <3>2 DEF TailFits, CkStates
      <4>2. b.submitted >= m.submitted
        <5>1. CASE ~p
          <6>1. b = m
            BY <1>1, <2>1, <5>1 DEF RowCurrent
          <6> QED  BY <4>1, <6>1 DEF ActorStates
        <5>2. CASE p
          <6>1. b = applyActor(m, q[Len(q)])
            BY <1>1, <2>1, <3>2, <5>2 DEF RowCurrent, Apply
          <6>2. q[Len(q)] \in [type : {"granted", "submitted", "applied"}, n : Nat]
            <7>1. Len(q) \in 1 .. Len(q)
              BY <5>2
            <7>2. q[Len(q)] \in CkRecs(k)
              BY <7>1
            <7> QED  BY <3>2, <7>2 DEF CkRecs
          <6> QED  BY <4>1, <6>1, <6>2, ActorMonotone
        <5> QED  BY <5>1, <5>2
      <4>3. a.submitted = b.submitted
        BY <4>1, <4>2 DEF ActorTail, ActorStates
      <4>4. a.epoch = b.epoch /\ a.count = b.count
        BY <4>1 DEF ActorTail
      <4> QED  BY <4>1, <4>3, <4>4 DEF ActorStates
    <3>3. CASE k = "llm"
      <4>1. a = m + (Len(q) - s) /\ m = n /\ n = s /\ b = Len(q)
        BY <1>1, <2>1, <2>4, <3>3 DEF TailFits, RowCurrent
      <4> QED  BY <4>1
    <3> QED  BY <1>5, <3>1, <3>2, <3>3 DEF KindNames
  <2> QED  BY <1>1, <1>2, <1>5, <2>5 DEF Kept, FromRow
<1> QED  BY <1>3, <1>4, <1>5

\* A row has no fence to lose.
LEMMA RowOfRow ==
    ASSUME NEW k \in KindNames, NEW x, IsRow(k, x)
    PROVE  Row(k, x) = x
<1>1. CASE k = "task"
  <2>1. x \in TaskStates /\ x.redelivered = 0
    BY <1>1 DEF IsRow, CkStates
  <2>2. [x EXCEPT !.redelivered = 0] = x
    BY <2>1 DEF TaskStates
  <2> QED  BY <1>1, <2>2 DEF Row, taskReplayStateFromCheckpoint
<1> QED  BY <1>1 DEF Row

\* The names of the model and those of the invariant.
LEMMA ReplayNames ==
    ASSUME NEW cp, ckKind \in KindNames, IsRow(ckKind, cp.state)
    PROVE  FullReplay = Full(ckKind, ckLog) /\ CheckpointReplay(cp) = FromRow(ckKind, cp.state, cp.seq, ckLog)
<1>1. FullReplay = Full(ckKind, ckLog)
  BY DEF FullReplay, Full
<1>2. Row(ckKind, cp.state) = cp.state
  BY RowOfRow
<1>3. CASE ckKind = "llm"
  <2>1. LlmTailFrom(cp) = TailSeg(ckKind, cp.seq, ckLog)
    BY <1>3 DEF LlmTailFrom, TailSeg, TailAt
  <2> QED  BY <1>1, <1>3, <2>1 DEF CheckpointReplay, FromRow, Covers
<1>4. CASE ckKind # "llm"
  <2>1. TailFrom(cp) = TailSeg(ckKind, cp.seq, ckLog)
    <3>1. (IF cp.seq = 0 THEN 2 ELSE cp.seq + 1) = (IF cp.seq = 0 THEN 1 ELSE cp.seq) + 1
      OBVIOUS
    <3> QED  BY <1>4, <3>1 DEF TailFrom, TailSeg, TailAt
  <2> QED  BY <1>1, <1>2, <1>4, <2>1 DEF CheckpointReplay, FromRow, Covers, HasRow
<1> QED  BY <1>3, <1>4

\* The kind of a behaviour.
LEMMA CkKindNames == ASSUME ckKind \in CkKinds PROVE ckKind \in KindNames
BY CkAssumption DEF KindNames

\* The invariant holds at the start.
LEMMA CkInitial == CkInit => CkInv
<1> SUFFICES ASSUME CkInit PROVE CkInv
  OBVIOUS
<1>1. ckKind \in CkKinds /\ ckKind \in KindNames
  BY CkKindNames DEF CkInit
<1>2. ckLog \in Seq(CkRecs(ckKind)) /\ Len(ckLog) = 0
  BY DEF CkInit
<1>3. ckMeta = Empty[ckKind] /\ IsRow(ckKind, ckMeta)
  BY <1>1, EmptyRow DEF CkInit
<1>4. Full(ckKind, ckLog) = Empty[ckKind]
  BY <1>1, <1>2, FullNone
<1>5. CkTypes
  <2>1. pending = FALSE /\ whole = TRUE /\ applied = 0
    BY DEF CkInit
  <2>2. Len(ckLog) = applied + (IF pending THEN 1 ELSE 0)
    BY <1>2, <2>1
  <2>3. pending \in BOOLEAN /\ whole \in BOOLEAN /\ applied \in Nat
    BY <2>1
  <2> QED  BY <1>1, <1>2, <1>3, <2>2, <2>3 DEF CkTypes
<1>6. CkStored
  <2>1. ckpts \in Seq(CpRecs(ckKind)) /\ Len(ckpts) = 0 /\ created = 0
    BY DEF CkInit
  <2>2. (IF created >= Retention THEN Retention ELSE created) <= Len(ckpts)
    BY <2>1, CkAssumption
  <2> QED  BY <2>1, <2>2 DEF CkStored, CkInit, NoDraft
<1>7. ckKind = "task" => /\ TaskBase(ckLog, ckMeta, pending, Full(ckKind, ckLog))
                         /\ TaskSound(ckLog, ckMeta, pending, Full(ckKind, ckLog))
  <2> SUFFICES ASSUME ckKind = "task" 
               PROVE  TaskBase(ckLog, InitReplay, pending, InitReplay) /\ TaskSound(ckLog, InitReplay, pending, InitReplay)
    <3>1. Empty["task"] = InitReplay
      BY DEF Empty
    <3> QED  BY <1>3, <1>4, <3>1
  <2>0. pending = FALSE
    BY DEF CkInit
  <2>1. TaskBase(ckLog, InitReplay, pending, InitReplay)
    BY <1>2, <2>0 DEF TaskBase, InitReplay
  <2>2. TaskSound(ckLog, InitReplay, pending, InitReplay)
    <3>1. InitReplay.leaseEpoch = 0 /\ InitReplay.status = "QUEUED"
      BY DEF InitReplay
    <3> QED  BY <2>0, <3>1 DEF TaskSound, Finished, Handling
  <2> QED  BY <2>1, <2>2
<1>8. RowCurrent(ckKind, ckLog, ckMeta, pending, applied)
  <2>1. pending = FALSE /\ applied = 0
    BY DEF CkInit
  <2>2. ckKind = "llm" => ckMeta = 0
    BY <1>3 DEF Empty
  <2> QED  BY <1>3, <1>4, <2>1, <2>2 DEF RowCurrent
<1>9. ckKind = "llm" => Full(ckKind, ckLog) = Len(ckLog)
  BY <1>2, <1>4 DEF Empty
<1>10. draft.step = 0 /\ ckpts = <<>>
  BY DEF CkInit, NoDraft
<1> QED  BY <1>5, <1>6, <1>7, <1>8, <1>9, <1>10 DEF CkInv

\* What the invariant says of a row that is known to agree with the stream.
LEMMA WholeAgreed ==
    ASSUME CkInv, whole
    PROVE  Agreed(ckKind, ckLog, ckMeta, pending, applied)
BY DEF CkInv, Agreed, Sound

\* The first record of a task.
LEMMA SubmitSound ==
    ASSUME NEW q \in Seq(TaskRecs), NEW m, m = InitReplay, NEW b, NEW rec \in TaskRecs, rec.type = "TaskSubmitted", rec.epoch = 0
    PROVE  TaskSound(Append(q, rec), m, TRUE, applyRaw(b, rec))
<1>1. applyRaw(b, rec) = ApplySubmitted(b, rec)
  BY DEF applyRaw
<1>2. applyRaw(b, rec).leaseEpoch = 0 /\ applyRaw(b, rec).status = "QUEUED"
  BY <1>1 DEF ApplySubmitted
<1>3. m.leaseEpoch = 0 /\ m.status = "QUEUED"
  BY DEF InitReplay
<1>4. Append(q, rec)[Len(Append(q, rec))] = rec
  OBVIOUS
<1>5. ~Handling(Append(q, rec), TRUE, "TaskCompleted")
  BY <1>4 DEF Handling
<1>6. PICK b1 : b1 = applyRaw(b, rec)
  OBVIOUS
<1>7. b1.leaseEpoch <= m.leaseEpoch /\ ~Finished(m) /\ ~Finished(b1) /\ ~(m.status = "RUNNING")
  BY <1>2, <1>3, <1>6 DEF Finished
<1> QED  BY <1>5, <1>6, <1>7 DEF TaskSound

\* The records NextRecords offers.
LEMMA NextRecordsAre ==
    ASSUME ckKind \in KindNames, IsRow(ckKind, ckMeta), NEW rec \in NextRecords
    PROVE  NextOf(ckKind, ckLog, ckMeta, rec)
<1>1. CASE ckKind = "task"
  <2>0. ckMeta \in TaskStates
    BY <1>1 DEF IsRow, CkStates
  <2>1. CASE ~ckMeta.ok
    <3>1. rec = Event("TaskSubmitted", 0, NoWorker)
      BY <1>1, <2>1 DEF NextRecords
    <3>2. rec \in TaskRecs /\ rec.type = "TaskSubmitted" /\ rec.epoch = 0
      BY <3>1 DEF Event, TaskRecs
    <3> QED  BY <1>1, <2>1, <3>2 DEF NextOf, Due, CkRecs
  <2>2. CASE ckMeta.ok
    <3> DEFINE T == {"TaskStarted", "TaskRedelivered"} \union IF HasStart(ckLog, ckMeta) THEN {"TaskCompleted"} ELSE {}
    <3>1. ckMeta.status = "RUNNING" /\ \E t \in T : rec = Event(t, ckMeta.leaseEpoch, ckMeta.worker)
      <4>1. NextRecords = IF ckMeta.status = "RUNNING" THEN {Event(t, ckMeta.leaseEpoch, ckMeta.worker) : t \in T} ELSE {}
        BY <1>1, <2>2 DEF NextRecords, HasStart
      <4> HIDE DEF T
      <4> QED  BY <4>1
    <3>2. PICK t \in T : rec = Event(t, ckMeta.leaseEpoch, ckMeta.worker)
      BY <3>1
    <3>3. t \in {"TaskStarted", "TaskRedelivered", "TaskCompleted"} /\ (t = "TaskCompleted" => HasStart(ckLog, ckMeta))
      OBVIOUS
    <3>4. rec.type = t /\ rec.epoch = ckMeta.leaseEpoch /\ rec.worker = ckMeta.worker /\ rec \in TaskRecs
      BY <2>0, <3>2, <3>3 DEF Event, TaskRecs, TaskStates
    <3> QED  BY <1>1, <2>2, <3>1, <3>3, <3>4 DEF NextOf, Due, CkRecs
  <2> QED  BY <2>1, <2>2
<1>2. CASE ckKind = "wf"
  <2>1. NextRecords = {Rec("step", n) : n \in {ckMeta + 1} \intersect 1..3} /\ ckMeta \in Nat
    BY <1>2 DEF NextRecords, IsRow, CkStates
  <2>2. PICK n \in {ckMeta + 1} \intersect 1..3 : rec = Rec("step", n)
    BY <2>1
  <2>3. rec \in CkRecs(ckKind) /\ ckMeta # 3
    BY <1>2, <2>1, <2>2 DEF Rec, CkRecs
  <2> QED  BY <1>2, <2>3 DEF NextOf
<1>3. CASE ckKind = "actor"
  <2>1. NextRecords = {Rec("granted", ckMeta.epoch + 1), Rec("submitted", ckMeta.submitted + 1)}
                          \union {Rec("applied", n) : n \in {ckMeta.count + 1} \intersect 1..ckMeta.submitted}
    BY <1>3 DEF NextRecords
  <2>2. ckMeta.epoch \in Nat /\ ckMeta.submitted \in Nat /\ ckMeta.count \in Nat
    BY <1>3 DEF IsRow, CkStates, ActorStates
  <2>3. rec \in [type : {"granted", "submitted", "applied"}, n : Nat]
    BY <2>1, <2>2 DEF Rec
  <2> QED  BY <1>3, <2>3 DEF NextOf, CkRecs
<1>4. CASE ckKind = "llm"
  <2>1. rec = Rec("completed", 1)
    BY <1>4 DEF NextRecords
  <2> QED  BY <1>4, <2>1 DEF NextOf, CkRecs, Rec
<1> QED  BY <1>1, <1>2, <1>3, <1>4 DEF KindNames

\* AppendRecord keeps the invariant.
LEMMA CkAppend == ASSUME CkInv, AppendRecord, ckKind' = ckKind PROVE CkInv'
<1>0. ckKind \in KindNames /\ CkTypes /\ CkStored
  BY CkKindNames DEF CkInv, CkTypes
<1>1. PICK rec \in NextRecords : ckLog' = Append(ckLog, rec)
  BY DEF AppendRecord
<1>2. /\ ckLog \in Seq(CkRecs(ckKind)) /\ IsRow(ckKind, ckMeta) /\ ckMeta \in CkStates(ckKind) /\ pending = FALSE
      /\ applied = Len(ckLog) /\ applied \in Nat
  BY <1>0 DEF CkTypes, IsRow, AppendRecord
<1>3. NextOf(ckKind, ckLog, ckMeta, rec) /\ rec \in CkRecs(ckKind)
  BY <1>0, <1>2, NextRecordsAre DEF NextOf
<1>4. /\ pending' = TRUE /\ ckMeta' = ckMeta /\ applied' = applied /\ whole' = whole /\ draft' = draft
      /\ ckpts' = ckpts /\ created' = created
  BY DEF AppendRecord
<1>5. ckLog' \in Seq(CkRecs(ckKind)) /\ Len(ckLog') = Len(ckLog) + 1
  BY <1>1, <1>2, <1>3
<1>6. Full(ckKind, ckLog') = Apply(ckKind, Full(ckKind, ckLog), rec)
  BY <1>0, <1>1, <1>2, <1>3, FullAppend
<1>7. PICK b : b = Full(ckKind, ckLog) /\ b \in CkStates(ckKind)
  BY <1>0, <1>2, FullType
<1>8. Full(ckKind, ckLog') \in CkStates(ckKind)
  BY <1>0, <1>5, FullType
<1>9. CkTypes'
  BY <1>0, <1>2, <1>4, <1>5 DEF CkTypes
<1>10. \A cp : GoodCp(ckKind, ckLog, cp) => GoodCp(ckKind, ckLog', cp)
  <2> SUFFICES ASSUME NEW cp, GoodCp(ckKind, ckLog, cp) PROVE GoodCp(ckKind, ckLog', cp)
    OBVIOUS
  <2>1. cp \in CpRecs(ckKind) /\ cp.seq \in Nat /\ cp.seq <= Len(ckLog) /\ Len(ckLog) \in Nat
    BY <1>2 DEF GoodCp, CpRecs
  <2>2. cp.seq <= Len(ckLog') /\ Len(ckLog') > 0
    BY <1>5, <2>1
  <2> QED  BY <2>1, <2>2 DEF GoodCp
<1>11. CkStored'
  BY <1>0, <1>4, <1>10 DEF CkStored
<1>12. ckKind = "task" => TaskBase(ckLog', ckMeta, TRUE, Full(ckKind, ckLog'))
  <2> SUFFICES ASSUME ckKind = "task" PROVE TaskBase(ckLog', ckMeta, TRUE, Full(ckKind, ckLog'))
    OBVIOUS
  <2>1. TaskBase(ckLog, ckMeta, FALSE, b) /\ Due(ckLog, ckMeta, rec)
    BY <1>2, <1>3, <1>7 DEF CkInv, NextOf
  <2>2. ckLog \in Seq(TaskRecs) /\ rec \in TaskRecs /\ ckMeta \in TaskStates /\ b \in TaskStates /\ Full(ckKind, ckLog') \in TaskStates
    BY <1>2, <1>3, <1>7, <1>8 DEF CkRecs, CkStates
  <2>3. Full(ckKind, ckLog') = applyRaw(b, rec)
    BY <1>6, <1>7 DEF Apply
  <2>4. rec.type # "TaskSubmitted" => rec.epoch > 0
    BY <2>1 DEF Due, TaskBase
  <2>5. rec.type # "TaskSubmitted" => TaskStep(b, rec, Full(ckKind, ckLog'))
    BY <2>2, <2>3, <2>4, AppliedStep
  <2>6. TaskBase(Append(ckLog, rec), ckMeta, TRUE, Full(ckKind, ckLog'))
    BY <2>1, <2>2, <2>3, <2>5, AppendBase
  <2> QED  BY <1>1, <2>6
<1>13. ckKind = "task" /\ Sound => TaskSound(ckLog', ckMeta, TRUE, Full(ckKind, ckLog'))
  <2> SUFFICES ASSUME ckKind = "task", Sound PROVE TaskSound(ckLog', ckMeta, TRUE, Full(ckKind, ckLog'))
    OBVIOUS
  <2>1. TaskBase(ckLog, ckMeta, FALSE, b) /\ TaskSound(ckLog, ckMeta, FALSE, b) /\ Due(ckLog, ckMeta, rec)
    BY <1>2, <1>3, <1>7 DEF CkInv, NextOf
  <2>2. ckLog \in Seq(TaskRecs) /\ rec \in TaskRecs /\ ckMeta \in TaskStates /\ b \in TaskStates /\ Full(ckKind, ckLog') \in TaskStates
    BY <1>2, <1>3, <1>7, <1>8 DEF CkRecs, CkStates
  <2>3. Full(ckKind, ckLog') = applyRaw(b, rec)
    BY <1>6, <1>7 DEF Apply
  <2>4. CASE rec.type = "TaskSubmitted"
    <3>1. ~ckMeta.ok /\ rec.epoch = 0
      BY <2>1, <2>4 DEF Due
    <3>2. ckMeta = InitReplay
      BY <1>2, <3>1 DEF IsRow
    <3>3. TaskSound(Append(ckLog, rec), ckMeta, TRUE, applyRaw(b, rec))
      BY <2>2, <2>4, <3>1, <3>2, SubmitSound
    <3> QED  BY <1>1, <2>3, <3>3
  <2>5. CASE rec.type # "TaskSubmitted"
    <3>1. rec.epoch > 0
      BY <2>1, <2>5 DEF Due, TaskBase
    <3>2. TaskStep(b, rec, Full(ckKind, ckLog'))
      BY <2>2, <2>3, <2>5, <3>1, AppliedStep
    <3>3. TaskSound(Append(ckLog, rec), ckMeta, TRUE, Full(ckKind, ckLog'))
      BY <2>1, <2>2, <2>5, <3>2, AppendSound
    <3> QED  BY <1>1, <3>3
  <2> QED  BY <2>4, <2>5
<1>14. ckKind # "task" /\ whole => RowCurrent(ckKind, ckLog', ckMeta, TRUE, applied)
  BY <1>0, <1>1, <1>2, <1>3, AppendCurrent DEF CkInv
<1>15. ckKind = "llm" => Full(ckKind, ckLog') = Len(ckLog')
  <2> SUFFICES ASSUME ckKind = "llm" PROVE Full(ckKind, ckLog') = Len(ckLog')
    OBVIOUS
  <2>1. Full(ckKind, ckLog') = Full(ckKind, ckLog) + 1
    BY <1>6 DEF Apply, materializeLLMStreamFromSeq
  <2> QED  BY <1>5, <2>1 DEF CkInv
<1>16. draft.step = 1 /\ whole /\ applied >= TailAt(ckKind, draft.seq) => Tracks(ckKind, ckLog', ckMeta, TRUE, draft.seq)
  <2> SUFFICES ASSUME draft.step = 1, whole, applied >= TailAt(ckKind, draft.seq)
               PROVE  Tracks(ckKind, ckLog', ckMeta, TRUE, draft.seq)
    OBVIOUS
  <2>1. Agreed(ckKind, ckLog, ckMeta, FALSE, applied)
    BY <1>2, WholeAgreed
  <2>2. draft.seq \in Nat
    BY <1>0 DEF CkStored, NoDraft, GoodCp, CpRecs
  <2>3. TailAt(ckKind, draft.seq) <= Len(ckLog)
    BY <1>2, <2>2 DEF TailAt
  <2>4. ckKind = "task" => ckMeta.ok
    <3> SUFFICES ASSUME ckKind = "task" PROVE ckMeta.ok
      OBVIOUS
    <3>1. Len(ckLog) > 0
      BY <1>2, <2>2 DEF TailAt
    <3> QED  BY <1>2, <3>1 DEF CkInv, TaskBase
  <2>5. Tracks(ckKind, ckLog, ckMeta, FALSE, draft.seq)
    BY <1>2 DEF CkInv
  <2>6. Tracks(ckKind, Append(ckLog, rec), ckMeta, TRUE, draft.seq)
    BY <1>0, <1>2, <1>3, <2>1, <2>2, <2>3, <2>4, <2>5, AppendTracks
  <2> QED  BY <1>1, <2>6
<1>17. \A cp : Sound /\ GoodCp(ckKind, ckLog, cp) /\ Kept(ckKind, ckLog, ckMeta, FALSE, cp.state, cp.seq) =>
            Kept(ckKind, ckLog', ckMeta, TRUE, cp.state, cp.seq)
  <2> SUFFICES ASSUME NEW cp, Sound, GoodCp(ckKind, ckLog, cp), Kept(ckKind, ckLog, ckMeta, FALSE, cp.state, cp.seq)
               PROVE  Kept(ckKind, Append(ckLog, rec), ckMeta, TRUE, cp.state, cp.seq)
    BY <1>1
  <2>1. cp.state \in CkStates(ckKind) /\ cp.seq \in Nat /\ cp.seq <= Len(ckLog)
    BY DEF GoodCp, CpRecs
  <2>2. ckKind = "task" => TaskBase(ckLog, ckMeta, FALSE, Full(ckKind, ckLog)) /\ TaskSound(ckLog, ckMeta, FALSE, Full(ckKind, ckLog))
    BY <1>2 DEF CkInv
  <2> QED  BY <1>0, <1>2, <1>3, <2>1, <2>2, AppendKeptAll
<1>18. draft.step = 2 /\ draft.fit => Kept(ckKind, ckLog', ckMeta, TRUE, draft.state, draft.seq)
  <2> SUFFICES ASSUME draft.step = 2, draft.fit PROVE Kept(ckKind, ckLog', ckMeta, TRUE, draft.state, draft.seq)
    OBVIOUS
  <2>1. Sound /\ GoodCp(ckKind, ckLog, draft)
    BY <1>0 DEF CkStored, Sound, NoDraft
  <2> QED  BY <1>2, <1>17, <2>1 DEF CkInv
<1>19. ckpts # <<>> /\ Latest.fit => Kept(ckKind, ckLog', ckMeta, TRUE, Latest.state, Latest.seq)
  <2> SUFFICES ASSUME ckpts # <<>>, Latest.fit PROVE Kept(ckKind, ckLog', ckMeta, TRUE, Latest.state, Latest.seq)
    OBVIOUS
  <2>1. Len(ckpts) \in 1 .. Len(ckpts)
    BY <1>0 DEF CkStored
  <2>2. Sound /\ GoodCp(ckKind, ckLog, Latest)
    BY <1>0, <2>1 DEF CkStored, Sound, Latest
  <2> QED  BY <1>2, <1>17, <2>2 DEF CkInv
<1>20. Latest' = Latest /\ (Sound' <=> Sound)
  BY <1>4 DEF Latest, Sound
<1> QED  BY <1>4, <1>9, <1>11, <1>12, <1>13, <1>14, <1>15, <1>16, <1>18, <1>19, <1>20 DEF CkInv

\* UpdateMetadata keeps the invariant.
LEMMA CkUpdate == ASSUME CkInv, UpdateMetadata, ckKind' = ckKind PROVE CkInv'
<1>0. ckKind \in KindNames /\ CkTypes /\ CkStored
  BY CkKindNames DEF CkInv, CkTypes
<1>1. /\ ckLog \in Seq(CkRecs(ckKind)) /\ IsRow(ckKind, ckMeta) /\ ckMeta \in CkStates(ckKind) /\ pending = TRUE
      /\ applied \in Nat /\ Len(ckLog) = applied + 1 /\ Len(ckLog) \in Nat
  BY <1>0 DEF CkTypes, IsRow, UpdateMetadata
<1>2. PICK m1 : m1 = Row(ckKind, Apply(ckKind, ckMeta, ckLog[Len(ckLog)]))
  OBVIOUS
<1>3. /\ pending' = FALSE /\ ckMeta' = m1 /\ applied' = Len(ckLog) /\ whole' = whole /\ draft' = draft
      /\ ckpts' = ckpts /\ created' = created /\ ckLog' = ckLog
  BY <1>2 DEF UpdateMetadata, Last
<1>4. ckLog[Len(ckLog)] \in CkRecs(ckKind)
  BY <1>1
<1>5. PICK b : b = Full(ckKind, ckLog) /\ b \in CkStates(ckKind)
  BY <1>0, <1>1, FullType
<1>6. ckKind = "task" => IsRow(ckKind, m1) /\ Updated(ckLog, ckMeta, m1) /\ TaskBase(ckLog, ckMeta, TRUE, b)
  <2> SUFFICES ASSUME ckKind = "task" PROVE IsRow(ckKind, m1) /\ Updated(ckLog, ckMeta, m1) /\ TaskBase(ckLog, ckMeta, pending, b)
    BY <1>1
  <2>1. TaskBase(ckLog, ckMeta, pending, b) /\ ckLog \in Seq(TaskRecs) /\ Len(ckLog) > 0 /\ IsRow("task", ckMeta)
    <3>1. ckLog \in Seq(TaskRecs) /\ IsRow("task", ckMeta)
      BY <1>1 DEF CkRecs
    <3>2. TaskBase(ckLog, ckMeta, pending, b)
      BY <1>5 DEF CkInv
    <3>3. Len(ckLog) > 0
      BY <1>1
    <3> QED  BY <3>1, <3>2, <3>3
  <2>2. m1 = Row("task", applyRaw(ckMeta, ckLog[Len(ckLog)]))
    BY <1>2 DEF Apply
  <2> QED  BY <1>1, <2>1, <2>2, UpdatedRow
<1>7. IsRow(ckKind, m1)
  <2>1. CASE ckKind # "task"
    <3>1. m1 = Apply(ckKind, ckMeta, ckLog[Len(ckLog)])
      BY <1>2, <2>1 DEF Row
    <3> QED  BY <1>0, <1>1, <1>4, <2>1, <3>1, ApplyType DEF IsRow
  <2> QED  BY <1>6, <2>1
<1>8. CkTypes'
  <2>1. Len(ckLog') = applied' + (IF pending' THEN 1 ELSE 0)
    BY <1>1, <1>3
  <2> QED  BY <1>0, <1>1, <1>3, <1>7, <2>1 DEF CkTypes
<1>9. CkStored'
  BY <1>0, <1>3 DEF CkStored
<1>10. ckKind = "task" => TaskBase(ckLog, m1, FALSE, b)
  <2> SUFFICES ASSUME ckKind = "task" PROVE TaskBase(ckLog, m1, pending', b)
    BY <1>3
  <2>1. ckLog \in Seq(TaskRecs) /\ Len(ckLog) > 0
    BY <1>1 DEF CkRecs
  <2> QED  BY <1>3, <1>6, <2>1, UpdateBase
<1>11. ckKind = "task" /\ Sound => TaskSound(ckLog, m1, FALSE, b)
  <2>1. ckKind = "task" /\ Sound => TaskSound(ckLog, ckMeta, TRUE, b)
    BY <1>1, <1>5 DEF CkInv
  <2> QED  BY <1>6, <2>1, UpdateSound
<1>12. ckKind # "task" /\ whole => RowCurrent(ckKind, ckLog, m1, FALSE, Len(ckLog))
  <2>1. ckKind # "task" /\ whole => RowCurrent(ckKind, ckLog, ckMeta, TRUE, applied)
    BY <1>1 DEF CkInv
  <2> QED  BY <1>0, <1>1, <1>2, <2>1, UpdateCurrent
<1>13. draft.step = 1 /\ whole /\ Len(ckLog) >= TailAt(ckKind, draft.seq) => Tracks(ckKind, ckLog, m1, FALSE, draft.seq)
  <2> SUFFICES ASSUME draft.step = 1, whole, Len(ckLog) >= TailAt(ckKind, draft.seq)
               PROVE  Tracks(ckKind, ckLog, m1, pending', draft.seq)
    BY <1>3
  <2>1. draft.seq \in Nat
    BY <1>0 DEF CkStored, NoDraft, GoodCp, CpRecs
  <2>2. TailAt(ckKind, draft.seq) \in Nat
    BY <2>1 DEF TailAt
  <2>3. CASE applied >= TailAt(ckKind, draft.seq)
    <3>1. Tracks(ckKind, ckLog, ckMeta, TRUE, draft.seq) /\ Agreed(ckKind, ckLog, ckMeta, TRUE, applied)
      BY <1>1, <2>3, WholeAgreed DEF CkInv
    <3> QED  BY <1>0, <1>1, <1>2, <1>3, <1>6, <2>1, <3>1, UpdateTracks
  <2>4. CASE ~(applied >= TailAt(ckKind, draft.seq))
    <3>1. TailAt(ckKind, draft.seq) = Len(ckLog)
      BY <1>1, <2>2, <2>4
    <3>2. Agreed(ckKind, ckLog, m1, FALSE, Len(ckLog))
      BY <1>5, <1>10, <1>11, <1>12 DEF Agreed, Sound
    <3>3. m1 \in CkStates(ckKind)
      BY <1>7 DEF IsRow
    <3> QED  BY <1>0, <1>1, <1>3, <2>1, <3>1, <3>2, <3>3, FreshTracks
  <2> QED  BY <2>3, <2>4
<1>14. \A cp : Kept(ckKind, ckLog, ckMeta, pending, cp.state, cp.seq) => Kept(ckKind, ckLog, m1, pending', cp.state, cp.seq)
  <2> SUFFICES ASSUME NEW cp, Kept(ckKind, ckLog, ckMeta, pending, cp.state, cp.seq)
               PROVE  Kept(ckKind, ckLog, m1, pending', cp.state, cp.seq)
    OBVIOUS
  <2>1. CASE ckKind # "task"
    BY <2>1 DEF Kept
  <2>2. CASE ckKind = "task"
    <3> SUFFICES ASSUME Covers(ckKind, cp.state)
                 PROVE  TaskKept(ckLog, m1, pending', b, FromRow(ckKind, cp.state, cp.seq, ckLog))
      BY <1>5, <2>2 DEF Kept
    <3>1. TaskKept(ckLog, ckMeta, TRUE, b, FromRow(ckKind, cp.state, cp.seq, ckLog))
      BY <1>1, <1>5, <2>2 DEF Kept
    <3> QED  BY <1>3, <1>6, <2>2, <3>1, UpdateKept
  <2> QED  BY <2>1, <2>2
<1>15. Latest' = Latest /\ (Sound' <=> Sound)
  BY <1>3 DEF Latest, Sound
<1>16. draft.step = 2 /\ draft.fit => Kept(ckKind, ckLog, m1, pending', draft.state, draft.seq)
  BY <1>14 DEF CkInv
<1>17. ckpts # <<>> /\ Latest.fit => Kept(ckKind, ckLog, m1, pending', Latest.state, Latest.seq)
  BY <1>14 DEF CkInv
<1>18. ckKind = "llm" => Full(ckKind, ckLog) = Len(ckLog)
  BY DEF CkInv
<1> QED  BY <1>3, <1>5, <1>8, <1>9, <1>10, <1>11, <1>12, <1>13, <1>15, <1>16, <1>17, <1>18 DEF CkInv

\* LeaseInMetadata keeps the invariant.
LEMMA CkLease == ASSUME CkInv, LeaseInMetadata, ckKind' = ckKind PROVE CkInv'
<1>0. ckKind \in KindNames /\ CkTypes /\ CkStored /\ ckKind = "task"
  BY CkKindNames DEF CkInv, CkTypes, LeaseInMetadata
<1>1. /\ ckLog \in Seq(TaskRecs) /\ IsRow(ckKind, ckMeta) /\ ckMeta \in TaskStates /\ pending = FALSE
      /\ applied \in Nat /\ Len(ckLog) = applied
  BY <1>0 DEF CkTypes, IsRow, LeaseInMetadata, CkStates, CkRecs
<1>2. PICK w \in Workers : ckMeta' = [ckMeta EXCEPT !.status = "RUNNING", !.leaseEpoch = ckMeta.leaseEpoch + 1, !.worker = w]
  BY DEF LeaseInMetadata
<1>3. /\ pending' = pending /\ applied' = applied /\ whole' = whole /\ draft' = draft
      /\ ckpts' = ckpts /\ created' = created /\ ckLog' = ckLog
  BY DEF LeaseInMetadata
<1>4. PICK m1 : m1 = ckMeta'
  OBVIOUS
<1>5. m1 \in TaskStates /\ Leased(ckMeta, m1) /\ IsRow(ckKind, m1)
  <2>1. m1 = [ckMeta EXCEPT !.status = "RUNNING", !.leaseEpoch = ckMeta.leaseEpoch + 1, !.worker = w]
    BY <1>2, <1>4
  <2>2. ckMeta.redelivered = 0 /\ ckMeta.ok /\ ckMeta.status = "QUEUED"
    BY <1>0, <1>1 DEF IsRow, LeaseInMetadata
  <2>3. /\ m1.ok = ckMeta.ok /\ m1.status = "RUNNING" /\ m1.leaseEpoch = ckMeta.leaseEpoch + 1
        /\ m1.redelivered = ckMeta.redelivered /\ m1 \in TaskStates
    <3>1. PICK e : e = ckMeta.leaseEpoch + 1
      OBVIOUS
    <3>2. m1 = [ckMeta EXCEPT !.status = "RUNNING", !.leaseEpoch = e, !.worker = w]
      BY <2>1, <3>1
    <3>3. e \in Nat
      BY <1>1, <3>1 DEF TaskStates
    <3>4. /\ m1.ok = ckMeta.ok /\ m1.status = "RUNNING" /\ m1.leaseEpoch = e /\ m1.redelivered = ckMeta.redelivered /\ m1.worker = w
      BY <1>1, <3>2 DEF TaskStates
    <3>5. m1 \in TaskStates
      BY <1>1, <3>2, <3>3 DEF TaskStates
    <3> QED  BY <3>1, <3>4, <3>5
  <2> QED  BY <1>0, <2>2, <2>3 DEF Leased, IsRow, CkStates
<1>6. PICK b : b = Full(ckKind, ckLog) /\ b \in TaskStates
  BY <1>0, <1>1, FullType DEF CkStates, CkRecs
<1>7. CkTypes'
  BY <1>0, <1>3, <1>4, <1>5 DEF CkTypes
<1>8. CkStored'
  BY <1>0, <1>3 DEF CkStored
<1>9. TaskBase(ckLog, ckMeta, FALSE, b) /\ (Sound => TaskSound(ckLog, ckMeta, FALSE, b))
  BY <1>0, <1>1, <1>6 DEF CkInv
<1>10. TaskBase(ckLog, m1, FALSE, b)
  BY <1>1, <1>5, <1>9, LeaseBase
<1>11. Sound => TaskSound(ckLog, m1, FALSE, b)
  BY <1>1, <1>5, <1>6, <1>9, LeaseSound
<1>12. draft.step = 1 /\ whole /\ applied >= TailAt(ckKind, draft.seq) => Tracks(ckKind, ckLog, m1, FALSE, draft.seq)
  <2> SUFFICES ASSUME draft.step = 1, whole, applied >= TailAt(ckKind, draft.seq), NEW x \in CkStates(ckKind), MayBecome(ckKind, m1, x)
               PROVE  TailFits(ckKind, ckLog, m1, pending', b, draft.seq, x, Replay(ckKind, x, TailSeg(ckKind, draft.seq, ckLog)))
    BY <1>1, <1>3, <1>6 DEF Tracks
  <2>1. MayBecome(ckKind, ckMeta, x)
    <3>1. x.leaseEpoch \in Nat /\ m1.leaseEpoch = ckMeta.leaseEpoch + 1 /\ ckMeta.leaseEpoch \in Nat
      BY <1>0, <1>1, <1>5 DEF CkStates, TaskStates, Leased
    <3> QED  BY <1>0, <3>1 DEF MayBecome
  <2>2. TaskTail(ckLog, ckMeta, FALSE, b, x, Replay(ckKind, x, TailSeg(ckKind, draft.seq, ckLog)))
    BY <1>0, <1>1, <1>6, <2>1 DEF CkInv, Tracks, TailFits
  <2>3. TaskTail(ckLog, m1, FALSE, b, x, Replay(ckKind, x, TailSeg(ckKind, draft.seq, ckLog)))
    BY <1>1, <1>5, <1>6, <1>9, <2>2, LeaseTail DEF Sound
  <2> QED  BY <1>0, <1>1, <1>3, <2>3 DEF TailFits
<1>13. \A cp : GoodCp(ckKind, ckLog, cp) /\ Kept(ckKind, ckLog, ckMeta, pending, cp.state, cp.seq) =>
            Kept(ckKind, ckLog, m1, pending, cp.state, cp.seq)
  <2> SUFFICES ASSUME NEW cp, GoodCp(ckKind, ckLog, cp), Kept(ckKind, ckLog, ckMeta, pending, cp.state, cp.seq), Covers(ckKind, cp.state)
               PROVE  TaskKept(ckLog, m1, pending, b, FromRow(ckKind, cp.state, cp.seq, ckLog))
    BY <1>0, <1>6 DEF Kept
  <2>1. TaskKept(ckLog, ckMeta, FALSE, b, FromRow(ckKind, cp.state, cp.seq, ckLog))
    BY <1>0, <1>1, <1>6 DEF Kept
  <2>2. FromRow(ckKind, cp.state, cp.seq, ckLog) \in TaskStates
    <3>1. cp.state \in CkStates(ckKind) /\ cp.seq \in Nat /\ ckLog \in Seq(CkRecs(ckKind)) /\ CkStates(ckKind) = TaskStates
      BY <1>0, <1>1 DEF GoodCp, CpRecs, CkRecs, CkStates
    <3>2. FromRow(ckKind, cp.state, cp.seq, ckLog) = Replay(ckKind, cp.state, TailSeg(ckKind, cp.seq, ckLog))
      BY DEF FromRow
    <3> QED  BY <1>0, <3>1, <3>2, TailReplayType
  <2> QED  BY <1>1, <1>5, <1>6, <2>1, <2>2, LeaseKept
<1>14. Latest' = Latest /\ (Sound' <=> Sound)
  BY <1>3 DEF Latest, Sound
<1>15. draft.step = 2 /\ draft.fit => Kept(ckKind, ckLog, m1, pending, draft.state, draft.seq)
  <2>1. draft.step = 2 => GoodCp(ckKind, ckLog, draft)
    BY <1>0 DEF CkStored, NoDraft
  <2> QED  BY <1>13, <2>1 DEF CkInv
<1>16. ckpts # <<>> /\ Latest.fit => Kept(ckKind, ckLog, m1, pending, Latest.state, Latest.seq)
  <2>1. ckpts # <<>> => Len(ckpts) \in 1 .. Len(ckpts)
    BY <1>0 DEF CkStored
  <2>2. ckpts # <<>> => GoodCp(ckKind, ckLog, Latest)
    BY <1>0, <2>1 DEF CkStored, Latest
  <2> QED  BY <1>13, <2>2 DEF CkInv
<1> QED  BY <1>0, <1>1, <1>3, <1>4, <1>6, <1>7, <1>8, <1>10, <1>11, <1>12, <1>14, <1>15, <1>16 DEF CkInv

\* ReadLastSeqs keeps the invariant: the tail is empty.
LEMMA CkReadSeqs == ASSUME CkInv, ReadLastSeqs, ckKind' = ckKind PROVE CkInv'
<1>0. ckKind \in KindNames /\ CkTypes /\ CkStored
  BY CkKindNames DEF CkInv, CkTypes
<1>1. /\ ckLog \in Seq(CkRecs(ckKind)) /\ ckMeta \in CkStates(ckKind) /\ Len(ckLog) \in Nat /\ applied \in Nat
      /\ Len(ckLog) = applied + (IF pending THEN 1 ELSE 0) /\ pending \in BOOLEAN
  BY <1>0 DEF CkTypes, IsRow
<1>2. /\ ckLog' = ckLog /\ ckMeta' = ckMeta /\ pending' = pending /\ applied' = applied /\ whole' = whole
      /\ ckpts' = ckpts /\ created' = created
  BY DEF ReadLastSeqs
<1>3. draft' = [step |-> 1, seq |-> Len(ckLog), state |-> Empty[ckKind], fit |-> FALSE]
  BY DEF ReadLastSeqs
<1>4. GoodCp(ckKind, ckLog, draft') /\ draft'.step = 1 /\ draft'.seq = Len(ckLog)
  <2>1. Empty[ckKind] \in CkStates(ckKind) /\ IsRow(ckKind, Empty[ckKind]) /\ (ckKind = "task" => Empty[ckKind] = InitReplay)
    BY <1>0, EmptyRow DEF Empty
  <2>2. draft' \in CpRecs(ckKind) /\ draft'.state = Empty[ckKind] /\ draft'.step = 1 /\ draft'.seq = Len(ckLog)
    BY <1>1, <1>3, <2>1 DEF CpRecs
  <2>3. draft'.seq <= Len(ckLog)
    BY <1>1, <2>2
  <2> QED  BY <2>1, <2>2, <2>3 DEF GoodCp
<1>5. CkTypes'
  BY <1>0, <1>2 DEF CkTypes
<1>6. CkStored'
  BY <1>0, <1>2, <1>4 DEF CkStored
<1>7. whole /\ applied >= TailAt(ckKind, draft'.seq) => Tracks(ckKind, ckLog, ckMeta, pending, draft'.seq)
  <2> SUFFICES ASSUME whole, applied >= TailAt(ckKind, draft'.seq) PROVE Tracks(ckKind, ckLog, ckMeta, pending, draft'.seq)
    OBVIOUS
  <2>1. TailAt(ckKind, draft'.seq) = Len(ckLog) /\ pending = FALSE
    BY <1>1, <1>4 DEF TailAt
  <2>2. Agreed(ckKind, ckLog, ckMeta, FALSE, applied)
    BY <2>1, WholeAgreed
  <2>3. draft'.seq \in Nat
    BY <1>1, <1>4
  <2> QED  BY <1>0, <1>1, <2>1, <2>2, <2>3, FreshTracks
<1>8. Latest' = Latest /\ (Sound' <=> Sound)
  BY <1>2 DEF Latest, Sound
<1> QED  BY <1>2, <1>4, <1>5, <1>6, <1>7, <1>8 DEF CkInv

\* SnapshotTable keeps the invariant: the row copied is one the tail was followed for.
LEMMA CkSnapshot == ASSUME CkInv, SnapshotTable, ckKind' = ckKind PROVE CkInv'
<1>0. ckKind \in KindNames /\ CkTypes /\ CkStored
  BY CkKindNames DEF CkInv, CkTypes
<1>1. /\ ckLog \in Seq(CkRecs(ckKind)) /\ ckMeta \in CkStates(ckKind) /\ IsRow(ckKind, ckMeta) /\ Len(ckLog) \in Nat /\ applied \in Nat
      /\ Len(ckLog) = applied + (IF pending THEN 1 ELSE 0) /\ pending \in BOOLEAN /\ whole \in BOOLEAN
  BY <1>0 DEF CkTypes, IsRow
<1>2. /\ ckLog' = ckLog /\ ckMeta' = ckMeta /\ pending' = pending /\ applied' = applied /\ whole' = whole
      /\ ckpts' = ckpts /\ created' = created
  BY DEF SnapshotTable
<1>3. draft.step = 1 /\ GoodCp(ckKind, ckLog, draft)
  BY <1>0 DEF SnapshotTable, CkStored, NoDraft
<1>4. PICK f \in BOOLEAN : /\ f = (whole /\ IF ckKind = "llm" THEN applied = draft.seq ELSE applied >= draft.seq)
                           /\ draft' = [draft EXCEPT !.step = 2, !.state = ckMeta, !.fit = f]
  BY DEF SnapshotTable
<1>5. /\ draft' \in CpRecs(ckKind) /\ draft'.step = 2 /\ draft'.state = ckMeta /\ draft'.fit = f /\ draft'.seq = draft.seq
  <2>1. draft \in [step : {1, 2}, seq : Nat, state : CkStates(ckKind), fit : BOOLEAN]
    BY <1>3 DEF GoodCp, CpRecs
  <2>2. PICK d : d = draft'
    OBVIOUS
  <2>3. d = [draft EXCEPT !.step = 2, !.state = ckMeta, !.fit = f]
    BY <1>4, <2>2
  <2>4. d.step = 2 /\ d.state = ckMeta /\ d.fit = f /\ d.seq = draft.seq
    BY <2>1, <2>3
  <2>5. d \in [step : {1, 2}, seq : Nat, state : CkStates(ckKind), fit : BOOLEAN]
    BY <1>1, <2>1, <2>3
  <2> QED  BY <2>2, <2>4, <2>5 DEF CpRecs
<1>6. draft.seq \in Nat
  BY <1>3 DEF GoodCp, CpRecs
<1>7. GoodCp(ckKind, ckLog, draft')
  <2>1. ckKind = "task" /\ ckMeta # InitReplay => Len(ckLog) > 0
    BY <1>1 DEF CkInv, TaskBase, IsRow
  <2> QED  BY <1>1, <1>3, <1>5, <2>1 DEF GoodCp
<1>8. CkTypes'
  BY <1>0, <1>2 DEF CkTypes
<1>9. draft'.fit => whole /\ applied >= draft.seq /\ (ckKind = "llm" => applied = draft.seq)
  <2> SUFFICES ASSUME f PROVE whole /\ applied >= draft.seq /\ (ckKind = "llm" => applied = draft.seq)
    BY <1>5
  <2>1. whole /\ IF ckKind = "llm" THEN applied = draft.seq ELSE applied >= draft.seq
    BY <1>4
  <2> QED  BY <1>1, <1>6, <2>1
<1>10. CkStored'
  BY <1>0, <1>2, <1>7, <1>9 DEF CkStored
<1>11. draft'.fit => Kept(ckKind, ckLog, ckMeta, pending, ckMeta, draft.seq)
  <2> SUFFICES ASSUME draft'.fit PROVE Kept(ckKind, ckLog, ckMeta, pending, ckMeta, draft.seq)
    OBVIOUS
  <2>1. whole /\ applied >= draft.seq /\ (ckKind = "llm" => applied = draft.seq)
    BY <1>9
  <2>2. Agreed(ckKind, ckLog, ckMeta, pending, applied)
    BY <2>1, WholeAgreed
  <2>3. applied >= TailAt(ckKind, draft.seq) => Tracks(ckKind, ckLog, ckMeta, pending, draft.seq)
    BY <1>3, <2>1 DEF CkInv
  <2>4. ckKind = "llm" => Full(ckKind, ckLog) = Len(ckLog)
    BY DEF CkInv
  <2> QED  BY <1>0, <1>1, <1>6, <2>1, <2>2, <2>3, <2>4, SnapshotKept
<1>12. Latest' = Latest /\ (Sound' <=> Sound)
  BY <1>2 DEF Latest, Sound
<1> QED  BY <1>2, <1>5, <1>8, <1>10, <1>11, <1>12 DEF CkInv

\* Trimming keeps the newest checkpoint.
LEMMA NewestKept ==
    ASSUME NEW S, NEW cps \in Seq(S), NEW R \in Nat \ {0}, R <= Len(cps)
    PROVE  LET t == SubSeq(cps, Len(cps) - R + 1, Len(cps))
           IN  /\ t \in Seq(S) /\ Len(t) = R /\ t[R] = cps[Len(cps)]
               /\ \A i \in 1 .. R : \E j \in 1 .. Len(cps) : t[i] = cps[j]
<1> DEFINE n == Len(cps)
           d == n - R
           t == SubSeq(cps, d + 1, n)
<1>1. n \in Nat /\ d \in Nat /\ d + R = n /\ (n - (d + 1)) + 1 = R /\ \A i \in Nat : (i + (d + 1)) - 1 = i + d
  OBVIOUS
<1>2. t = [i \in 1 .. R |-> cps[i + d]]
  <2> HIDE DEF n, d
  <2> QED  BY <1>1
<1>3. \A i \in 1 .. R : i + d \in 1 .. n
  <2> HIDE DEF n, d
  <2> QED  BY <1>1
<1> HIDE DEF t, d
<1>4. \A i \in 1 .. R : t[i] = cps[i + d] /\ cps[i + d] \in S
  BY <1>2, <1>3
<1>5. t \in Seq(S) /\ Len(t) = R
  BY <1>2, <1>4
<1>6. R \in 1 .. R /\ R + d = n
  BY <1>1
<1>7. t[R] = cps[n]
  BY <1>4, <1>6
<1>8. \A i \in 1 .. R : \E j \in 1 .. n : t[i] = cps[j]
  BY <1>3, <1>4
<1> QED  BY <1>5, <1>7, <1>8 DEF t, d

\* WriteCheckpoint keeps the invariant, trimmed or not.
LEMMA CkWrite == ASSUME CkInv, WriteCheckpoint, ckKind' = ckKind PROVE CkInv'
<1>0. ckKind \in KindNames /\ CkTypes /\ CkStored /\ Retention \in Nat \ {0}
  BY CkKindNames, CkAssumption DEF CkInv, CkTypes
<1>1. /\ ckLog' = ckLog /\ ckMeta' = ckMeta /\ pending' = pending /\ applied' = applied /\ whole' = whole
      /\ created' = created + 1 /\ draft' = NoDraft /\ draft.step = 2
  BY DEF WriteCheckpoint
<1>2. GoodCp(ckKind, ckLog, draft) /\ draft \in CpRecs(ckKind)
  BY <1>0, <1>1 DEF CkStored, NoDraft, GoodCp
<1>3. /\ ckpts \in Seq(CpRecs(ckKind)) /\ created \in Nat /\ Len(ckpts) <= created /\ Len(ckpts) \in Nat
      /\ \A i \in 1 .. Len(ckpts) : GoodCp(ckKind, ckLog, ckpts[i])
      /\ created >= Retention => Retention <= Len(ckpts)
      /\ ~(created >= Retention) => created <= Len(ckpts)
  BY <1>0 DEF CkStored
<1>4. PICK cps : cps = Append(ckpts, draft)
  OBVIOUS
<1>5. /\ cps \in Seq(CpRecs(ckKind)) /\ Len(cps) = Len(ckpts) + 1 /\ cps[Len(cps)] = draft
      /\ \A i \in 1 .. Len(ckpts) : cps[i] = ckpts[i]
  BY <1>2, <1>3, <1>4
<1>6. \A i \in 1 .. Len(cps) : GoodCp(ckKind, ckLog, cps[i])
  <2> TAKE i \in 1 .. Len(cps)
  <2>1. CASE i = Len(cps)
    BY <1>2, <1>5, <2>1
  <2>2. CASE i \in 1 .. Len(ckpts)
    BY <1>3, <1>5, <2>2
  <2> QED  BY <1>3, <1>5, <2>1, <2>2
<1>7. /\ ckpts' \in Seq(CpRecs(ckKind)) /\ \A i \in 1 .. Len(ckpts') : GoodCp(ckKind, ckLog, ckpts'[i])
      /\ Len(ckpts') \in Nat \ {0} /\ ckpts'[Len(ckpts')] = draft /\ Len(ckpts') <= created + 1
      /\ (IF created + 1 >= Retention THEN Retention ELSE created + 1) <= Len(ckpts')
  <2>1. CASE ckpts' = cps
    <3>1. Len(cps) <= created + 1 /\ Len(cps) \in Nat \ {0}
      BY <1>3, <1>5
    <3>2. (IF created + 1 >= Retention THEN Retention ELSE created + 1) <= Len(cps)
      BY <1>0, <1>3, <1>5
    <3> QED  BY <1>5, <1>6, <2>1, <3>1, <3>2
  <2>2. CASE created + 1 > Retention /\ ckpts' = SubSeq(cps, Len(cps) - Retention + 1, Len(cps))
    <3>1. Retention <= Len(cps) /\ Retention <= created + 1
      BY <1>0, <1>3, <1>5, <2>2
    <3>2. /\ ckpts' \in Seq(CpRecs(ckKind)) /\ Len(ckpts') = Retention /\ ckpts'[Retention] = cps[Len(cps)]
          /\ \A i \in 1 .. Retention : \E j \in 1 .. Len(cps) : ckpts'[i] = cps[j]
      <4>1. cps \in Seq(CpRecs(ckKind)) /\ Retention \in Nat \ {0} /\ Retention <= Len(cps)
        BY <1>0, <1>5, <3>1
      <4>2. PICK t : t = SubSeq(cps, Len(cps) - Retention + 1, Len(cps))
        OBVIOUS
      <4>3. /\ t \in Seq(CpRecs(ckKind)) /\ Len(t) = Retention /\ t[Retention] = cps[Len(cps)]
            /\ \A i \in 1 .. Retention : \E j \in 1 .. Len(cps) : t[i] = cps[j]
        BY <4>1, <4>2, NewestKept
      <4> QED  BY <2>2, <4>2, <4>3
    <3>3. \A i \in 1 .. Retention : GoodCp(ckKind, ckLog, ckpts'[i])
      BY <1>6, <3>2
    <3>4. (IF created + 1 >= Retention THEN Retention ELSE created + 1) <= Retention
      BY <1>0, <1>3, <2>2
    <3> QED  BY <1>0, <1>5, <3>1, <3>2, <3>3, <3>4
  <2> QED  BY <1>4, <2>1, <2>2 DEF WriteCheckpoint, TrimCheckpoints
<1>8. Latest' = draft /\ ckpts' # <<>>
  BY <1>7 DEF Latest
<1>9. CkTypes'
  BY <1>0, <1>1 DEF CkTypes
<1>10. CkStored'
  <2>1. created' \in Nat /\ draft'.step = 0
    BY <1>1, <1>3 DEF NoDraft
  <2> QED  BY <1>0, <1>1, <1>7, <2>1 DEF CkStored
<1>11. draft.fit => whole
  BY <1>0, <1>1 DEF CkStored
<1>12. Sound' => Sound
  BY <1>1, <1>8, <1>11 DEF Sound
<1>13. draft'.step = 0
  BY <1>1 DEF NoDraft
<1>14. draft.fit => Kept(ckKind, ckLog, ckMeta, pending, draft.state, draft.seq)
  BY <1>1 DEF CkInv
<1> QED  BY <1>1, <1>8, <1>9, <1>10, <1>12, <1>13, <1>14 DEF CkInv

\* RestartFromCheckpoint keeps the invariant.
LEMMA CkRestart == ASSUME CkInv, RestartFromCheckpoint, ckKind' = ckKind PROVE CkInv'
<1>0. ckKind \in KindNames /\ CkTypes /\ CkStored
  BY CkKindNames DEF CkInv, CkTypes
<1>1. /\ ckLog' = ckLog /\ ckpts' = ckpts /\ created' = created /\ draft' = NoDraft /\ pending' = FALSE
      /\ applied' = Len(ckLog) /\ whole' = (Row(ckKind, Restored) = Row(ckKind, FullReplay))
  BY DEF RestartFromCheckpoint
<1>2. /\ ckLog \in Seq(CkRecs(ckKind)) /\ Len(ckLog) \in Nat
  BY <1>0 DEF CkTypes
<1>3. PICK b : b = Full(ckKind, ckLog) /\ b \in CkStates(ckKind)
  BY <1>0, <1>2, FullType
<1>4. FullReplay = b
  BY <1>3 DEF FullReplay, Full
<1>5. ckpts # <<>> => GoodCp(ckKind, ckLog, Latest)
  <2>1. ckpts # <<>> => Len(ckpts) \in 1 .. Len(ckpts)
    BY <1>0 DEF CkStored
  <2> QED  BY <1>0, <2>1 DEF CkStored, Latest
<1>6. PICK a : a = Restored
  OBVIOUS
<1>7. a = IF ckpts = <<>> THEN b ELSE FromRow(ckKind, Latest.state, Latest.seq, ckLog)
  <2>1. ckpts # <<>> => CheckpointReplay(Latest) = FromRow(ckKind, Latest.state, Latest.seq, ckLog)
    BY <1>0, <1>5, ReplayNames DEF GoodCp
  <2> QED  BY <1>4, <1>6, <2>1 DEF Restored
<1>8. a \in CkStates(ckKind) /\ (a = b \/ (ckpts # <<>> /\ Covers(ckKind, Latest.state)
                                         /\ a = Replay(ckKind, Latest.state, TailSeg(ckKind, Latest.seq, ckLog))))
  <2>1. CASE ckpts = <<>> \/ ~Covers(ckKind, Latest.state)
    BY <1>3, <1>7, <2>1 DEF FromRow
  <2>2. CASE ckpts # <<>> /\ Covers(ckKind, Latest.state)
    <3>1. Latest.state \in CkStates(ckKind) /\ Latest.seq \in Nat
      BY <1>5, <2>2 DEF GoodCp, CpRecs
    <3>2. a = Replay(ckKind, Latest.state, TailSeg(ckKind, Latest.seq, ckLog))
      BY <1>7, <2>2 DEF FromRow
    <3> QED  BY <1>0, <1>2, <2>2, <3>1, <3>2, TailReplayType
  <2> QED  BY <2>1, <2>2
<1>9. PICK m1 : m1 = ckMeta'
  OBVIOUS
<1>10. CkStored'
  BY <1>0, <1>1 DEF CkStored, NoDraft
<1>11. draft'.step = 0 /\ Latest' = Latest /\ whole' \in BOOLEAN
  BY <1>1 DEF NoDraft, Latest
<1>12. CASE ckKind # "task"
  <2>1. m1 = a /\ IsRow(ckKind, m1) /\ (whole' <=> a = b)
    BY <1>1, <1>4, <1>6, <1>8, <1>9, <1>12 DEF RestartFromCheckpoint, Row, IsRow
  <2>2. CkTypes'
    <3>1. Len(ckLog') = applied' + (IF pending' THEN 1 ELSE 0) /\ applied' \in Nat
      BY <1>1, <1>2
    <3> QED  BY <1>0, <1>1, <1>2, <1>9, <1>11, <2>1, <3>1 DEF CkTypes
  <2>3. whole' => RowCurrent(ckKind, ckLog, m1, pending', Len(ckLog))
    <3> SUFFICES ASSUME whole' PROVE RowCurrent(ckKind, ckLog, m1, pending', Len(ckLog))
      OBVIOUS
    <3>1. m1 = Full(ckKind, ckLog)
      BY <1>3, <2>1
    <3>2. ckKind = "llm" => m1 = Len(ckLog)
      BY <3>1 DEF CkInv
    <3>3. Len(ckLog) = 0 => m1 = Empty[ckKind]
      BY <1>0, <1>2, <3>1, FullNone
    <3> QED  BY <1>1, <3>1, <3>2, <3>3 DEF RowCurrent
  <2>4. ckpts # <<>> /\ Latest.fit => Kept(ckKind, ckLog, m1, pending', Latest.state, Latest.seq)
    BY <1>12 DEF CkInv, Kept
  <2>5. ckKind = "llm" => Full(ckKind, ckLog) = Len(ckLog)
    BY DEF CkInv
  <2> QED  BY <1>1, <1>9, <1>10, <1>11, <1>12, <2>2, <2>3, <2>4, <2>5 DEF CkInv
<1>13. CASE ckKind = "task"
  <2>1. a \in TaskStates /\ b \in TaskStates /\ ckLog \in Seq(TaskRecs)
    BY <1>2, <1>3, <1>8, <1>13 DEF CkStates, CkRecs
  <2>2. m1 = Final(a)
    BY <1>6, <1>9, <1>13 DEF RestartFromCheckpoint, Final
  <2>3. /\ m1 \in TaskStates /\ m1.ok = a.ok /\ m1.leaseEpoch = a.leaseEpoch /\ m1.redelivered = 0 /\ m1.status # "RUNNING"
        /\ (Finished(m1) <=> Finished(a))
    BY <2>1, <2>2, FinalFields
  <2>4. TaskBase(ckLog, ckMeta, pending, b)
    BY <1>3, <1>13 DEF CkInv
  <2>5. a.ok <=> Len(ckLog) > 0
    <3>1. CASE a = b
      BY <2>4, <3>1 DEF TaskBase
    <3>2. CASE ckpts # <<>> /\ Covers(ckKind, Latest.state) /\ a = Replay(ckKind, Latest.state, TailSeg(ckKind, Latest.seq, ckLog))
      <4>1. Latest.state.ok /\ Latest.state \in CkStates("task") /\ Latest.seq \in Nat /\ Len(ckLog) > 0
        BY <1>5, <1>13, <3>2 DEF GoodCp, CpRecs, IsRow, Covers, Empty
      <4>2. TailSeg(ckKind, Latest.seq, ckLog) \in Seq(CkRecs("task"))
        BY <1>2, <1>13, <4>1, TailType
      <4>3. a.ok
        BY <1>13, <3>2, <4>1, <4>2, ReplayOk
      <4> QED  BY <4>1, <4>3
    <3> QED  BY <1>8, <3>1, <3>2
  <2>6. IsRow(ckKind, m1)
    <3>1. CASE a.ok
      BY <1>13, <2>3, <3>1 DEF IsRow, CkStates
    <3>2. CASE ~a.ok
      <4>1. Len(ckLog) = 0
        BY <1>2, <2>5, <3>2
      <4>2. b = InitReplay
        BY <1>0, <1>2, <1>3, <1>13, <4>1, FullNone DEF Empty
      <4>3. a = b
        <5> SUFFICES ASSUME ckpts # <<>>, Covers(ckKind, Latest.state) PROVE FALSE
          BY <1>8
        <5> QED  BY <1>5, <1>13, <4>1 DEF GoodCp, Covers, Empty
      <4>4. Final(InitReplay) = InitReplay
        BY DEF Final, Row, taskReplayStateFromCheckpoint, InitReplay
      <4> QED  BY <1>13, <2>2, <2>3, <4>2, <4>3, <4>4 DEF IsRow, CkStates
    <3> QED  BY <3>1, <3>2
  <2>7. CkTypes'
    <3>1. Len(ckLog') = applied' + (IF pending' THEN 1 ELSE 0) /\ applied' \in Nat
      BY <1>1, <1>2
    <3> QED  BY <1>0, <1>1, <1>2, <1>9, <1>11, <2>6, <3>1 DEF CkTypes
  <2>8. TaskBase(ckLog, m1, FALSE, b)
    BY <2>3, <2>4, <2>5, RestartBase
  <2>9. ckpts # <<>> /\ Latest.fit /\ Covers(ckKind, Latest.state) => TaskKept(ckLog, ckMeta, pending, b, a)
    BY <1>3, <1>7, <1>13 DEF CkInv, Kept
  <2>10. a.leaseEpoch \in Nat /\ b.leaseEpoch \in Nat
    BY <2>1, TaskFields
  <2>11. Sound' => Agrees(ckLog, b, a)
    <3> SUFFICES ASSUME Sound' PROVE Agrees(ckLog, b, a)
      OBVIOUS
    <3>1. CASE whole'
      <4>1. Row("task", a) = Row("task", b)
        BY <1>1, <1>4, <1>6, <1>13, <3>1
      <4>2. [a EXCEPT !.redelivered = 0] = [b EXCEPT !.redelivered = 0]
        BY <4>1 DEF Row, taskReplayStateFromCheckpoint
      <4>3. a.leaseEpoch = b.leaseEpoch /\ a.status = b.status
        BY <2>1, <4>2 DEF TaskStates
      <4> QED  BY <2>10, <4>3 DEF Agrees, Finished
    <3>2. CASE a = b
      BY <2>10, <3>2 DEF Agrees
    <3>3. CASE ckpts # <<>> /\ Latest.fit /\ Covers(ckKind, Latest.state)
      BY <2>1, <2>9, <3>3, RestartKept
    <3> QED  BY <1>1, <1>8, <1>11, <3>1, <3>2, <3>3 DEF Sound
  <2>12. Sound' => TaskSound(ckLog, m1, FALSE, b)
    BY <2>1, <2>2, <2>11, RestartSound
  <2>13. ckpts # <<>> /\ Latest.fit => Kept(ckKind, ckLog, m1, pending', Latest.state, Latest.seq)
    <3> SUFFICES ASSUME ckpts # <<>>, Latest.fit, Covers(ckKind, Latest.state)
                 PROVE  TaskKept(ckLog, m1, pending', b, a)
      BY <1>3, <1>7, <1>13 DEF Kept
    <3> QED  BY <1>1, <2>1, <2>2, <2>9, RestartKept
  <2>14. TaskBase(ckLog, m1, pending', b) /\ (Sound' => TaskSound(ckLog, m1, pending', b))
    BY <1>1, <2>8, <2>12
  <2> QED  BY <1>1, <1>3, <1>9, <1>10, <1>11, <1>13, <2>7, <2>13, <2>14 DEF CkInv
<1> QED  BY <1>12, <1>13

\* Every step keeps the invariant.
LEMMA CkInductive == CkInv /\ [CkNext]_ckVars => CkInv'
<1> SUFFICES ASSUME CkInv, [CkNext]_ckVars PROVE CkInv'
  OBVIOUS
<1>1. CASE UNCHANGED ckVars
  <2>1. /\ ckKind' = ckKind /\ ckLog' = ckLog /\ ckMeta' = ckMeta /\ pending' = pending /\ applied' = applied
        /\ whole' = whole /\ draft' = draft /\ ckpts' = ckpts /\ created' = created
    BY <1>1 DEF ckVars
  <2>2. Latest' = Latest /\ (Sound' <=> Sound)
    BY <2>1 DEF Latest, Sound
  <2>3. CkTypes' /\ CkStored'
    BY <2>1 DEF CkInv, CkTypes, CkStored
  <2> QED  BY <2>1, <2>2, <2>3 DEF CkInv
<1>2. CASE CkNext
  <2>1. ckKind' = ckKind
    BY <1>2 DEF CkNext
  <2>2. CASE AppendRecord
    BY <2>1, <2>2, CkAppend
  <2>3. CASE UpdateMetadata
    BY <2>1, <2>3, CkUpdate
  <2>4. CASE LeaseInMetadata
    BY <2>1, <2>4, CkLease
  <2>5. CASE ReadLastSeqs
    BY <2>1, <2>5, CkReadSeqs
  <2>6. CASE SnapshotTable
    BY <2>1, <2>6, CkSnapshot
  <2>7. CASE WriteCheckpoint
    BY <2>1, <2>7, CkWrite
  <2>8. CASE RestartFromCheckpoint
    BY <2>1, <2>8, CkRestart
  <2> QED  BY <1>2, <2>2, <2>3, <2>4, <2>5, <2>6, <2>7, <2>8 DEF CkNext
<1> QED  BY <1>1, <1>2

\* The invariant gives the property.
LEMMA CkEnough == CkInv => CheckpointPlusTail
<1> SUFFICES ASSUME CkInv, ckpts # <<>>, Latest.fit PROVE SameState(Restored, FullReplay)
  BY DEF CheckpointPlusTail, CheckMetadataCheckpointConsistency
<1>0. ckKind \in KindNames /\ CkTypes /\ CkStored
  BY CkKindNames DEF CkInv, CkTypes
<1>1. ckLog \in Seq(CkRecs(ckKind))
  BY <1>0 DEF CkTypes
<1>2. GoodCp(ckKind, ckLog, Latest)
  <2>1. Len(ckpts) \in 1 .. Len(ckpts)
    BY <1>0 DEF CkStored
  <2> QED  BY <1>0, <2>1 DEF CkStored, Latest
<1>3. PICK b : b = Full(ckKind, ckLog) /\ b \in CkStates(ckKind)
  BY <1>0, <1>1, FullType
<1>4. PICK a : a = FromRow(ckKind, Latest.state, Latest.seq, ckLog)
  OBVIOUS
<1>5. FullReplay = b /\ Restored = a
  BY <1>0, <1>2, <1>3, <1>4, ReplayNames DEF GoodCp, Restored
<1>6. Kept(ckKind, ckLog, ckMeta, pending, Latest.state, Latest.seq)
  BY DEF CkInv
<1>7. CASE ckKind # "task"
  BY <1>3, <1>4, <1>5, <1>6, <1>7 DEF Kept, SameState
<1>8. CASE ckKind = "task" /\ ~Covers(ckKind, Latest.state)
  <2>1. a = b /\ b \in TaskStates
    BY <1>3, <1>4, <1>8 DEF FromRow, CkStates
  <2>2. a.leaseEpoch >= b.leaseEpoch
    BY <2>1, TaskFields
  <2> QED  BY <1>5, <1>8, <2>1, <2>2 DEF SameState
<1>9. CASE ckKind = "task" /\ Covers(ckKind, Latest.state)
  <2>1. TaskKept(ckLog, ckMeta, pending, b, a)
    BY <1>3, <1>4, <1>6, <1>9 DEF Kept
  <2>2. b \in TaskStates /\ a \in TaskStates
    <3>1. Latest.state \in CkStates(ckKind) /\ Latest.seq \in Nat
      BY <1>2 DEF GoodCp, CpRecs
    <3>2. Replay(ckKind, Latest.state, TailSeg(ckKind, Latest.seq, ckLog)) \in CkStates(ckKind)
      BY <1>0, <1>1, <3>1, TailReplayType
    <3> QED  BY <1>3, <1>4, <1>9, <3>2 DEF FromRow, CkStates
  <2>3. Len(ckLog) > 0
    BY <1>2, <1>9 DEF GoodCp, Covers, Empty
  <2>4. a.ok = b.ok
    <3>1. b.ok
      BY <1>3, <1>9, <2>3 DEF CkInv, TaskBase
    <3> QED  BY <2>1, <2>2, <3>1 DEF TaskKept, TaskStates
  <2>5. a.leaseEpoch >= b.leaseEpoch
    BY <2>1, <2>2, TaskFields DEF TaskKept
  <2>6. Fenced(ckLog) <=> StartFenced
    BY DEF Fenced, StartFenced
  <2>7. a.status \in {"QUEUED", "RUNNING", "SUCCEEDED"} /\ b.status \in {"QUEUED", "RUNNING", "SUCCEEDED"}
    BY <2>2, TaskFields
  <2>8. /\ finalTask(a).status = IF a.status = "RUNNING" THEN "QUEUED" ELSE a.status
        /\ finalTask(b).status = IF b.status = "RUNNING" THEN "QUEUED" ELSE b.status
    BY DEF finalTask
  <2>9. (Finished(b) => Finished(a)) /\ (Finished(a) => Finished(b) \/ StartFenced)
    BY <2>1, <2>6 DEF TaskKept
  <2>10. isTerminalTaskStatus(b.status) <=> Finished(b)
    BY <2>7 DEF isTerminalTaskStatus, Outcomes, Finished
  <2>11. finalTask(a).status = finalTask(b).status \/ (~isTerminalTaskStatus(b.status) /\ StartFenced)
    <3>1. CASE Finished(a) /\ ~Finished(b)
      BY <2>9, <2>10, <3>1
    <3>2. CASE Finished(a) /\ Finished(b)
      <4>1. a.status = "SUCCEEDED" /\ b.status = "SUCCEEDED"
        BY <3>2 DEF Finished
      <4> QED  BY <2>8, <4>1
    <3>3. CASE ~Finished(a)
      <4>1. a.status \in {"QUEUED", "RUNNING"} /\ b.status \in {"QUEUED", "RUNNING"}
        BY <2>7, <2>9, <3>3 DEF Finished
      <4>2. finalTask(a).status = "QUEUED" /\ finalTask(b).status = "QUEUED"
        BY <2>8, <4>1
      <4> QED  BY <4>2
    <3> QED  BY <3>1, <3>2, <3>3
  <2> QED  BY <1>5, <1>9, <2>4, <2>5, <2>11 DEF SameState
<1> QED  BY <1>7, <1>8, <1>9

\* The newest checkpoint and the tail of a stream give what a full replay gives.
THEOREM CheckpointPlusTailHolds == CkSpec => []CheckpointPlusTail
<1>1. CkInit => CkInv
  BY CkInitial
<1>2. CkInv /\ [CkNext]_ckVars => CkInv'
  BY CkInductive
<1>3. CkInv => CheckpointPlusTail
  BY CkEnough
<1> QED  BY <1>1, <1>2, <1>3, PTL DEF CkSpec
=============================================================================
