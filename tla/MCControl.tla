----------------------------- MODULE MCControl -----------------------------
(* The parts of the control plane beside its task records, which share no  *)
(* state with one another: the indexed scheduler, the intake of tasks and  *)
(* long polls, placement, the workflow graph, the registries and           *)
(* checkpoints.  unit says which part a behaviour follows; the others keep *)
(* their initial state.                                                    *)
EXTENDS SchedulerV2, TaskIntake, LlmPlacement, WorkflowDag, Registry, Checkpoint

CONSTANTS v1, v2   \* the scheduler's workers

VARIABLE unit
vars == <<unit, schedulerVars, intakeVars, llmVars, dagVars, regVars, ckVars>>

\* The queues of the scheduler's two tasks.
TwoTasks == {1, 2}
MixedRoutes == {<<<<"llm", "m">>, General>>, <<General, <<"target", v1>>>>,
                <<<<"actor", 1>>, <<"actor", 1>>>>}
OwnerV1 == [a \in {1} |-> v1]
Numbered == [t \in Tasks |-> t]

Depends == {<<>>, <<1>>, <<2>>, <<3>>, <<1, 1>>, <<2, 1>>, <<1, 3>>}

\* A part that is not followed has one initial state.
Init ==
    /\ unit \in {"sched", "intake", "llm", "dag", "registry", "checkpoint"}
    /\ SchedInit /\ IntakeInit /\ LlmInit /\ DagInit /\ RegInit /\ CkInit
    \* PREDICTED_LATENCY concerns LLM tasks only.
    /\ schedPolicy = "PREDICTED_LATENCY" => Queue[1] = <<"llm", "m">>
    /\ unit # "sched" => schedPolicy = "LOCALITY_AWARE" /\ Queue = [t \in Tasks |-> <<"actor", 1>>]
    /\ unit # "registry" => policy = "locality"
    /\ unit # "checkpoint" => ckKind = "task"
    /\ unit # "llm" => llmPolicy = CHOOSE p \in LlmPolicies : TRUE
    /\ unit # "dag" => dependsOn = [s \in DagSteps |-> <<>>]

Next ==
    \/ /\ unit = "sched" /\ SchedNext
       /\ UNCHANGED <<unit, intakeVars, llmVars, dagVars, regVars, ckVars>>
    \/ /\ unit = "intake" /\ IntakeNext
       /\ UNCHANGED <<unit, schedulerVars, llmVars, dagVars, regVars, ckVars>>
    \/ /\ unit = "llm" /\ LlmNext
       /\ UNCHANGED <<unit, schedulerVars, intakeVars, dagVars, regVars, ckVars>>
    \/ /\ unit = "dag" /\ DagNext
       /\ UNCHANGED <<unit, schedulerVars, intakeVars, llmVars, regVars, ckVars>>
    \/ /\ unit = "registry" /\ RegNext
       /\ UNCHANGED <<unit, schedulerVars, intakeVars, llmVars, dagVars, ckVars>>
    \/ /\ unit = "checkpoint" /\ CkNext
       /\ UNCHANGED <<unit, schedulerVars, intakeVars, llmVars, dagVars, regVars>>

Spec == Init /\ [][Next]_vars
=============================================================================
