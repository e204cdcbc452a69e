----------------------------- MODULE WorkflowDag -----------------------------
(***************************************************************************)
(* The step graph of a workflow (internal/workflow/model.go): parsing and  *)
(* validation of a submitted definition, Kahn's order of its steps, and    *)
(* the counters and ready queue that SetStepSucceeded and SetStepFailed    *)
(* keep up to date step by step.  A restart builds them anew.              *)
(*                                                                         *)
(* Steps are named by their place in the submitted definition; DependsOn   *)
(* is a list and may name a step twice.  PopReadyStep works on a copy of   *)
(* the state, so the stored queue keeps the entries that were popped.      *)
(***************************************************************************)
EXTENDS Integers, FiniteSets, Sequences, SequencesExt

CONSTANTS DagSteps,      \* 1..n, in the order of the definition
          DagDepends,    \* lists DependsOn is chosen from
          DagAttempts    \* MaxAttempts of every step

ASSUME DagAssumption ==
    /\ IsFiniteSet(DagSteps) /\ DagSteps = 1 .. Cardinality(DagSteps) /\ DagAttempts \in Nat \ {0}
    /\ \A d \in DagDepends : d \in Seq(DagSteps)

VARIABLES
    dagPhase,   \* "submitted", "rejected", "running"
    dependsOn,  \* dependsOn[s] of the definition
    dag         \* RuntimeDAG and step states

dagVars == <<dagPhase, dependsOn, dag>>

InOrder == [i \in 1 .. Cardinality(DagSteps) |-> i]
Occurrences(s, list) == Cardinality({k \in DOMAIN list : list[k] = s})

\* The entries of a list that are in S, one after the other.
Keep(list, S) == FoldLeft(LAMBDA acc, s : IF s \in S THEN Append(acc, s) ELSE acc, <<>>, list)

-----------------------------------------------------------------------------
(* Validation and order. *)

\* visit of ValidateDefinition: a back edge to a step that is being visited.
visit[p \in (SUBSET DagSteps) \X DagSteps] ==
    \/ p[2] \in p[1]
    \/ \E k \in DOMAIN dependsOn[p[2]] : visit[<<p[1] \cup {p[2]}, dependsOn[p[2]][k]>>]

ValidateDefinition == \A s \in DagSteps : ~visit[<<{}, s>>]

\* One edge per dependency that names s, in the order of the steps.
Outgoing(s) ==
    FoldLeft(LAMBDA acc, t : acc \o [k \in 1 .. Occurrences(s, dependsOn[t]) |-> t], <<>>, InOrder)

Roots ==
    [queue |-> Keep(InOrder, {s \in DagSteps : dependsOn[s] = <<>>}),
     indegree |-> [s \in DagSteps |-> Len(dependsOn[s])]]

\* A step with no dependency left joins the queue when it loses the last.
LoseEdge(k, t) ==
    LET left == k.indegree[t] - 1 IN
    [queue |-> IF left = 0 THEN Append(k.queue, t) ELSE k.queue,
     indegree |-> [k.indegree EXCEPT ![t] = left]]

\* The n-th step of the queue, if there is one, is taken out of the graph.
Visited(k, n) == IF n > Len(k.queue) THEN k ELSE FoldLeft(LoseEdge, k, Outgoing(k.queue[n]))

topologicalStepDefinitions == FoldLeft(Visited, Roots, InOrder).queue

-----------------------------------------------------------------------------
(* The runtime graph. *)

stepReady(d, s) == d.remaining[s] = 0 /\ d.status[s] = "SCHEDULED" /\ ~d.task[s]

\* Only unfinished dependencies count.
buildRuntimeDAG(d) ==
    LET built == [d EXCEPT !.remaining = [s \in DagSteps |->
                    Cardinality({k \in DOMAIN dependsOn[s] : d.status[dependsOn[s][k]] # "SUCCEEDED"})]]
    IN [built EXCEPT !.ready = Keep(d.order, {s \in DagSteps : stepReady(built, s)})]

NewState ==
    buildRuntimeDAG([order |-> topologicalStepDefinitions,
                     status |-> [s \in DagSteps |-> "SCHEDULED"], task |-> [s \in DagSteps |-> FALSE],
                     attempts |-> [s \in DagSteps |-> 0],
                     remaining |-> [s \in DagSteps |-> 0], ready |-> <<>>])

\* SetStepFailed of a step that may be tried again.
Retried(d, s) ==
    LET back == [d EXCEPT !.status[s] = "SCHEDULED", !.task[s] = FALSE] IN
    IF stepReady(back, s) THEN [back EXCEPT !.ready = Append(@, s)] ELSE back

ParseDefinition ==
    /\ dagPhase = "submitted"
    /\ IF ValidateDefinition /\ Len(topologicalStepDefinitions) = Cardinality(DagSteps)
       THEN dagPhase' = "running" /\ dag' = NewState
       ELSE dagPhase' = "rejected" /\ UNCHANGED dag
    /\ UNCHANGED dependsOn

\* What PopReadyStep returns one after the other: entries that are stale are skipped.
Poppable(d) == {s \in DagSteps : stepReady(d, s) /\ \E k \in DOMAIN d.ready : d.ready[k] = s}

popReady(d) == d.ready[CHOOSE k \in DOMAIN d.ready :
                        stepReady(d, d.ready[k]) /\ \A j \in 1 .. k - 1 : ~stepReady(d, d.ready[j])]

\* scheduleReadySteps gives the next ready step a task.
SetStepScheduled ==
    /\ dagPhase = "running" /\ Poppable(dag) # {}
    /\ dag' = [dag EXCEPT !.task[popReady(dag)] = TRUE, !.attempts[popReady(dag)] = @ + 1]
    /\ UNCHANGED <<dagPhase, dependsOn>>

\* A start that comes late does not move a step back.
SetStepStarted(s) ==
    /\ dagPhase = "running" /\ dag.task[s] /\ dag.status[s] # "SUCCEEDED"
    /\ dag' = [dag EXCEPT !.status[s] = "STARTED"]
    /\ UNCHANGED <<dagPhase, dependsOn>>

\* One dependency less for step t.
Released(d, t) ==
    LET less == [d EXCEPT !.remaining[t] = IF @ > 0 THEN @ - 1 ELSE 0] IN
    IF stepReady(less, t) THEN [less EXCEPT !.ready = Append(@, t)] ELSE less

\* Mutant: a success reported again counts again.
UnlockAgain(d, s) == FoldLeft(Released, [d EXCEPT !.status[s] = "SUCCEEDED"], Outgoing(s))

\* The first success takes one dependency off every edge.
Unlock(d, s) ==
    IF d.status[s] = "SUCCEEDED" THEN d
    ELSE FoldLeft(Released, [d EXCEPT !.status[s] = "SUCCEEDED"], Outgoing(s))

\* Success, reported once or again.
SetStepSucceeded(s) ==
    /\ dagPhase = "running" /\ dag.task[s]
    /\ dag' = Unlock(dag, s)
    /\ UNCHANGED <<dagPhase, dependsOn>>

\* completeWorkflowStep ignores the failure of a step that succeeded.
SetStepFailed(s) ==
    /\ dagPhase = "running" /\ dag.task[s] /\ dag.status[s] \notin {"SUCCEEDED", "FAILED"}
    /\ dag' = IF dag.attempts[s] < DagAttempts THEN Retried(dag, s)
              ELSE [dag EXCEPT !.status[s] = "FAILED"]
    /\ UNCHANGED <<dagPhase, dependsOn>>

\* Replay leaves every failed attempt FAILED and rebuilds the graph;
\* prepareRetryableFailedSteps then puts back what may be tried again.
RebuildRuntime ==
    /\ dagPhase = "running"
    /\ LET again == {s \in DagSteps : dag.status[s] = "SCHEDULED" /\ ~dag.task[s] /\ dag.attempts[s] > 0}
           replayed == buildRuntimeDAG([dag EXCEPT !.status = [s \in DagSteps |->
                                           IF s \in again THEN "FAILED" ELSE dag.status[s]]])
       IN dag' = FoldLeft(Retried, replayed, Keep(dag.order, again))
    /\ UNCHANGED <<dagPhase, dependsOn>>

DagInit ==
    /\ dagPhase = "submitted"
    /\ dependsOn \in [DagSteps -> DagDepends]
    /\ dag = [order |-> <<>>, status |-> [s \in DagSteps |-> "SCHEDULED"], task |-> [s \in DagSteps |-> FALSE],
              attempts |-> [s \in DagSteps |-> 0], remaining |-> [s \in DagSteps |-> 0], ready |-> <<>>]

DagNext ==
    \/ ParseDefinition \/ SetStepScheduled \/ RebuildRuntime
    \/ \E s \in DagSteps : SetStepStarted(s) \/ SetStepSucceeded(s) \/ SetStepFailed(s)

DagSpec == DagInit /\ [][DagNext]_dagVars

-----------------------------------------------------------------------------
\* A set of steps each of which waits for another of the set never ends.
Cyclic == \E C \in (SUBSET DagSteps) \ {{}} : \A s \in C : \E k \in DOMAIN dependsOn[s] : dependsOn[s][k] \in C

\* Exactly the definitions without a cycle are accepted, and Kahn's order has every
\* step once, after its dependencies, also when a dependency is declared twice
\* (ValidateDefinition, topologicalStepDefinitions).
TopologicalOrder ==
    /\ dagPhase # "submitted" => (dagPhase = "rejected" <=> Cyclic)
    /\ dagPhase = "running" =>
         /\ Len(dag.order) = Cardinality(DagSteps) /\ ToSet(dag.order) = DagSteps
         /\ \A i, j \in DOMAIN dag.order :
              (\E k \in DOMAIN dependsOn[dag.order[i]] : dependsOn[dag.order[i]][k] = dag.order[j]) => j < i

\* The steps that PopReadyStep offers are those that have no task and whose
\* dependencies have all succeeded: the counters lose no step and offer none early, after
\* repeated successes, retries and rebuilds (SetStepSucceeded, SetStepFailed).
ReadyExact ==
    dagPhase = "running" =>
        Poppable(dag) = {s \in DagSteps :
            /\ dag.status[s] = "SCHEDULED" /\ ~dag.task[s]
            /\ \A k \in DOMAIN dependsOn[s] : dag.status[dependsOn[s][k]] = "SUCCEEDED"}

\* The graph a workflow runs by is the definition's: its order and, at every moment, the
\* steps it offers (model.go).
GraphExact == TopologicalOrder /\ ReadyExact
=============================================================================
