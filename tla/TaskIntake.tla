----------------------------- MODULE TaskIntake -----------------------------
(***************************************************************************)
(* What happens around the task queue of the control plane                 *)
(* (internal/control/service.go, hardening.go, idempotency.go): the checks *)
(* of a submission, the backpressure limits and their durable              *)
(* configuration, and the long poll that waits for a task.                 *)
(*                                                                         *)
(* A submission is known by its key and the fingerprint of its content.    *)
(* Tasks carry no more than that; leases are those of TaskLifecycle.       *)
(***************************************************************************)
EXTENDS Integers, FiniteSets

CONSTANTS Submitters, Pollers, Admins,
          InKeys, Fingerprints,
          NoKey,             \* a submission without an idempotency key
          DefaultWatermark,  \* queue_high_watermark the service starts with
          Watermarks,        \* the values administrators set
          MaxSubmissions, MaxConfigs  \* bounds

ASSUME IntakeAssumption ==
    /\ Watermarks \cup {DefaultWatermark} \subseteq Nat \ {0}
    /\ NoKey \notin InKeys
    /\ IsFiniteSet(Submitters)

VARIABLES
    inMeta,     \* inMeta[k]: fingerprint and number of the task of key k
    backlog,    \* tasks in the queue
    appendSlow, \* the last append took longer than log_append_slow_ms
    submitter,  \* submitter[s]: step, key and fingerprint of a submission
    replies,    \* accepted submissions that had a key: key, fingerprint, task
    poller,     \* poller[p]: step, and whether the channel it captured was closed
    watermark,  \* in memory
    peak,       \* the highest watermark that was ever in force
    configLog,  \* the last BackpressureConfigured record
    configLost, \* it was written and its reply lost
    admin,      \* admin[a]: step and value of SetBackpressure
    submitted, configured

intakeVars == <<inMeta, backlog, appendSlow, submitter, replies, poller, watermark, peak, configLog, configLost,
                admin, submitted, configured>>
taskPart == <<inMeta, backlog, submitter, replies, submitted>>
configPart == <<watermark, peak, configLog, configLost, admin, configured>>

NoTaskYet == [fp |-> 0, task |-> 0]
Free == [pc |-> "rest", k |-> NoKey, fp |-> 0, task |-> 0]
Reply(s, t) ==
    replies' = IF submitter[s].k = NoKey THEN replies
               ELSE replies \cup {[k |-> submitter[s].k, fp |-> submitter[s].fp, task |-> t]}
Done(s) == submitter' = [submitter EXCEPT ![s] = Free]
Known(s) == submitter[s].k # NoKey /\ inMeta[submitter[s].k] # NoTaskYet
Goes(s, pc) == submitter' = [submitter EXCEPT ![s].pc = pc]

Store(s) ==
    inMeta' = [k \in InKeys |-> IF k = submitter[s].k THEN [fp |-> submitter[s].fp, task |-> submitter[s].task]
                               ELSE inMeta[k]]

-----------------------------------------------------------------------------
(* Submission. *)

\* ensureIdempotencyFingerprint: the key's task with the same content, or a conflict.
ensureIdempotencyFingerprint(s) ==
    IF inMeta[submitter[s].k].fp = submitter[s].fp THEN Reply(s, inMeta[submitter[s].k].task)
    ELSE UNCHANGED replies

BeginSubmit(s) ==
    /\ submitter[s].pc = "rest" /\ submitted < MaxSubmissions
    /\ \E c \in (InKeys \X Fingerprints) \cup {<<NoKey, 0>>} :
         submitter' = [submitter EXCEPT ![s] = [pc |-> "lookup", k |-> c[1], fp |-> c[2], task |-> submitted + 1]]
    /\ submitted' = submitted + 1
    /\ UNCHANGED <<inMeta, backlog, replies, appendSlow, poller>> /\ UNCHANGED configPart

LookupKey(s) ==
    /\ submitter[s].pc = "lookup"
    /\ IF Known(s)
       THEN ensureIdempotencyFingerprint(s) /\ Done(s)
       ELSE Goes(s, "admit") /\ UNCHANGED replies
    /\ UNCHANGED <<inMeta, backlog, submitted, appendSlow, poller>> /\ UNCHANGED configPart

\* Refused while the last append was slow or the backlog has reached the watermark.
Admits == ~appendSlow /\ (watermark > 0 => backlog < watermark)

Admit(s) ==
    /\ submitter[s].pc = "admit"
    /\ IF Admits THEN Goes(s, "append") ELSE Done(s)
    /\ UNCHANGED <<inMeta, backlog, replies, submitted, appendSlow, poller>> /\ UNCHANGED configPart

\* appendLog records how long the append took, failed or not.
appendLog(s) ==
    /\ submitter[s].pc = "append"
    /\ appendSlow' \in BOOLEAN
    /\ Goes(s, "create") \/ Done(s)
    /\ UNCHANGED <<inMeta, backlog, replies, submitted, poller>> /\ UNCHANGED configPart

\* Mutant: a task created meanwhile under the key is answered without a comparison.
CreateAnswersAny(s) ==
    /\ submitter[s].pc = "create"
    /\ IF Known(s)
       THEN Reply(s, inMeta[submitter[s].k].task) /\ Done(s) /\ UNCHANGED inMeta
       ELSE /\ Store(s)
            /\ Goes(s, "enqueue") /\ UNCHANGED replies
    /\ UNCHANGED <<backlog, submitted, appendSlow, poller>> /\ UNCHANGED configPart

\* CreateTask decides between submissions of one key that both passed the look-up.
CreateTask(s) ==
    /\ submitter[s].pc = "create"
    /\ IF Known(s)
       THEN ensureIdempotencyFingerprint(s) /\ Done(s) /\ UNCHANGED inMeta
       ELSE /\ Store(s)
            /\ Goes(s, "enqueue") /\ UNCHANGED replies
    /\ UNCHANGED <<backlog, submitted, appendSlow, poller>> /\ UNCHANGED configPart

EnqueueTask(s) ==
    /\ submitter[s].pc = "enqueue"
    /\ backlog' = backlog + 1
    /\ Goes(s, "notify")
    /\ UNCHANGED <<inMeta, replies, submitted, appendSlow, poller>> /\ UNCHANGED configPart

\* The channel is closed, which wakes all that hold it, and replaced.
CloseChannel == poller' = [p \in Pollers |-> [poller[p] EXCEPT !.closed = (poller[p].pc # "rest")]]

notifyTaskAvailable(s) ==
    /\ submitter[s].pc = "notify"
    /\ CloseChannel
    /\ Reply(s, submitter[s].task) /\ Done(s)
    /\ UNCHANGED <<inMeta, backlog, submitted, appendSlow>> /\ UNCHANGED configPart

-----------------------------------------------------------------------------
(* Long poll. *)

\* Mutant: the channel is taken when the immediate poll has found nothing.
SignalLate(p, pc) == pc \in {"empty", "again"} /\ poller[p].closed

\* The channel a poller waits on is the one it captured before it polled.
Signal(p, pc) == pc \in {"empty", "wait", "again"} /\ poller[p].closed

PollerGoes(p, pc) == poller' = [poller EXCEPT ![p] = [pc |-> pc, closed |-> Signal(p, pc)]]

PollTask(p) ==
    /\ poller[p].pc = "rest" /\ PollerGoes(p, "poll")
    /\ UNCHANGED taskPart /\ UNCHANGED configPart /\ UNCHANGED appendSlow

\* pollTaskNow: a task if there is one; otherwise the first pass waits, the second returns.
pollTaskNow(p) ==
    /\ poller[p].pc \in {"poll", "again"}
    /\ IF backlog > 0 THEN backlog' = backlog - 1 /\ PollerGoes(p, "rest")
       ELSE UNCHANGED backlog /\ PollerGoes(p, IF poller[p].pc = "poll" THEN "empty" ELSE "rest")
    /\ UNCHANGED <<inMeta, submitter, replies, submitted, appendSlow>> /\ UNCHANGED configPart

\* It found nothing: the poller begins to wait on its channel, or returns at once if its
\* request does not wait.
PollWaits(p) ==
    /\ poller[p].pc = "empty"
    /\ PollerGoes(p, "wait") \/ PollerGoes(p, "rest")
    /\ UNCHANGED taskPart /\ UNCHANGED configPart /\ UNCHANGED appendSlow

\* The channel was closed, or the wait timed out or was cancelled.
PollWakes(p) ==
    /\ poller[p].pc = "wait"
    /\ \/ poller[p].closed /\ PollerGoes(p, "again")
       \/ PollerGoes(p, "rest")
    /\ UNCHANGED taskPart /\ UNCHANGED configPart /\ UNCHANGED appendSlow

\* A registration or a heartbeat: the first appends, both wake the pollers.
WorkerSeen ==
    /\ CloseChannel
    /\ appendSlow' \in BOOLEAN
    /\ UNCHANGED taskPart /\ UNCHANGED configPart

-----------------------------------------------------------------------------
(* Configuration. *)

SetBackpressure(a) ==
    /\ admin[a].pc = "rest" /\ configured < MaxConfigs
    /\ \E v \in Watermarks : admin' = [admin EXCEPT ![a] = [pc |-> "append", v |-> v]]
    /\ configured' = configured + 1
    /\ UNCHANGED <<watermark, peak, configLog, configLost, appendSlow, poller>> /\ UNCHANGED taskPart

\* BackpressureConfigured is appended first; on an error nothing changes in
\* memory, though the record may have been written.
AppendConfigured(a) ==
    /\ admin[a].pc = "append"
    /\ appendSlow' \in BOOLEAN
    /\ \/ /\ configLog' = admin[a].v /\ UNCHANGED configLost
          /\ admin' = [admin EXCEPT ![a].pc = "apply"]
       \/ /\ \/ UNCHANGED <<configLog, configLost>>
             \/ configLog' = admin[a].v /\ configLost' = TRUE
          /\ admin' = [admin EXCEPT ![a].pc = "rest"]
    /\ UNCHANGED <<watermark, peak, configured, poller>> /\ UNCHANGED taskPart

ApplyConfigured(a) ==
    /\ admin[a].pc = "apply"
    /\ watermark' = admin[a].v /\ configLost' = FALSE
    /\ peak' = IF admin[a].v > peak THEN admin[a].v ELSE peak
    /\ admin' = [admin EXCEPT ![a].pc = "rest"]
    /\ UNCHANGED <<configLog, configured, appendSlow, poller>> /\ UNCHANGED taskPart

\* A restart between the append and its effect: bootstrapBackpressure takes the last
\* record.  The tasks come back from the log; a restart in the middle of a submission is
\* TaskLifecycle's.
RestartControl ==
    /\ configLost \/ \E a \in Admins : admin[a].pc = "apply"
    /\ \A s \in Submitters : submitter[s].pc \in {"rest", "lookup", "admit"}
    /\ watermark' = configLog /\ configLost' = FALSE
    /\ peak' = IF configLog > peak THEN configLog ELSE peak
    /\ admin' = [a \in Admins |-> [pc |-> "rest", v |-> 0]]
    /\ submitter' = [s \in Submitters |-> Free]
    /\ poller' = [p \in Pollers |-> [pc |-> "rest", closed |-> FALSE]]
    /\ appendSlow' = FALSE
    /\ UNCHANGED <<inMeta, backlog, replies, submitted, configLog, configured>>

IntakeInit ==
    /\ inMeta = [k \in InKeys |-> NoTaskYet] /\ backlog = 0 /\ appendSlow = FALSE
    /\ submitter = [s \in Submitters |-> Free] /\ replies = {}
    /\ poller = [p \in Pollers |-> [pc |-> "rest", closed |-> FALSE]]
    /\ watermark = DefaultWatermark /\ peak = watermark /\ configLog = watermark /\ configLost = FALSE
    /\ admin = [a \in Admins |-> [pc |-> "rest", v |-> 0]] /\ submitted = 0 /\ configured = 0

IntakeNext ==
    \/ \E s \in Submitters :
         \/ BeginSubmit(s) \/ LookupKey(s) \/ Admit(s) \/ appendLog(s) \/ CreateTask(s)
         \/ EnqueueTask(s) \/ notifyTaskAvailable(s)
    \/ \E p \in Pollers : PollTask(p) \/ pollTaskNow(p) \/ PollWaits(p) \/ PollWakes(p)
    \/ \E a \in Admins : SetBackpressure(a) \/ AppendConfigured(a) \/ ApplyConfigured(a)
    \/ WorkerSeen \/ RestartControl

IntakeSpec == IntakeInit /\ [][IntakeNext]_intakeVars

-----------------------------------------------------------------------------
\* "a concurrent enqueue either wakes this wait or is observed by the immediate poll"
\* (service.go:557-558): no poller sleeps on an open channel while a task is in the queue and
\* nobody is about to close it.
NoLostWakeup ==
    \A p \in Pollers :
        poller[p].pc = "wait" /\ ~poller[p].closed /\ backlog > 0
            => \E s \in Submitters : submitter[s].pc = "notify"

\* The backlog is compared some steps before the task is queued, so it may pass the
\* watermark, but by no more than the submissions that were admitted together
\* (enqueueTaskWithMetadata).
BacklogBounded == backlog <= peak + Cardinality(Submitters) - 1

\* Two answers for one key name one task and one content, also when both submissions
\* passed the look-up before either was stored (ensureIdempotencyFingerprint).
OneContentPerKey ==
    \A r1, r2 \in replies : r1.k = r2.k => r1.fp = r2.fp /\ r1.task = r2.task

\* With no call under way, and no answer lost since the last change, the limits in
\* force are those a restart would restore (SetBackpressure, bootstrapBackpressure).
ConfigReplayed ==
    ~configLost /\ (\A a \in Admins : admin[a].pc = "rest") => watermark = configLog

\* What a submission was checked against some steps before still holds when it takes
\* effect, up to what concurrent submissions may do: the backlog, the content of its
\* key, and limits that a restart would find again (enqueueTaskWithMetadata).
ChecksHold == BacklogBounded /\ OneContentPerKey /\ ConfigReplayed
=============================================================================
