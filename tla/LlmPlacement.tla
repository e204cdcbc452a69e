---------------------------- MODULE LlmPlacement ----------------------------
(***************************************************************************)
(* Placement of LLM requests: the indexes of                               *)
(* internal/control/scheduler_placement.go, the statistics and the         *)
(* eligibility rules of llm.go, and the worker calls of service.go that    *)
(* keep both up to date.  Polls are those of the FIFO queue, which asks    *)
(* the placement indexes for the preferred worker.                         *)
(*                                                                         *)
(* An index is the set of its entries <<worker, score>>: the code sorts    *)
(* them by score and worker id after every change.                         *)
(***************************************************************************)
EXTENDS Integers, FiniteSets, Sequences, SequencesExt

CONSTANTS LlmWorkers,    \* worker ids, ordered as strings are
          LlmModels,
          LlmCapacity,   \* slots of a worker
          LlmLatencies,  \* latencies a completion may report
          LlmPolicies,   \* scheduling policies
          MaxRequests    \* bound: LLM requests submitted

ASSUME LlmAssumption ==
    /\ LlmWorkers \subseteq Nat \ {0} /\ IsFiniteSet(LlmWorkers) /\ LlmCapacity \in Nat \ {0}
    /\ LlmLatencies \subseteq Nat \ {0} /\ MaxRequests \in Nat

VARIABLES
    llmPolicy,
    lwork,    \* lwork[w]: the worker record: load and cached models; the models of its
              \* WorkerRegistered record; whether the worker still polls
    lview,    \* lview[w]: the scheduler's workerView, or NoView
    llmStats, \* Service.llmStats
    pstats,   \* llmPlacement.llmStats of the scheduler
    byModel,  \* byModel[m]: cached, cold and predicted indexes, or NoHeaps
    request,  \* the LLM request in the queue: model and whether it waited, or NoRequest
    running,  \* requests leased: model, worker and the number of the request
    llmLog,   \* LLMCompleted records, one stream per request
    requests  \* number of requests submitted

llmVars == <<llmPolicy, lwork, lview, llmStats, pstats, byModel, request, running, llmLog, requests>>

NoView == [load |-> -1, cached |-> {}]
NoHeaps == [cached |-> {<<0, 0>>}, cold |-> {<<0, 0>>}, predicted |-> {<<0, 0>>}]
NoRequest == [model |-> "none", waited |-> FALSE]
NoStats == [n |-> 0, total |-> 0, fetch |-> 0, evict |-> 0]
Keys == LlmModels \X LlmWorkers

-----------------------------------------------------------------------------
\* Mutant: the last slot is counted as free when it is taken.
hasCapacityFull(v) == v # NoView /\ v.load <= LlmCapacity

hasCapacity(v) == v # NoView /\ v.load < LlmCapacity

localityBaseScore(v, hit) ==
    (LlmCapacity - v.load) * 100 - v.load * 10 + (IF hit THEN 1000 ELSE 0)

updateEWMA(previous, sample, n) ==
    IF n <= 1 THEN sample ELSE (previous * 7 + sample * 3) \div 10

\* materializeLLMCompleted: one LLMCompleted record, model, worker, latency and
\* evictions, folded into the statistics.
materializeLLMCompleted(stats, r) ==
    LET n == stats[<<r[1], r[2]>>].n + 1 IN
    [stats EXCEPT ![<<r[1], r[2]>>] =
        [n |-> n, total |-> updateEWMA(@.total, r[3], n), fetch |-> updateEWMA(@.fetch, r[3], n),
         evict |-> r[4]]]

predictedLatencyMs(hit, st) ==
    (IF st.n > 0 /\ st.total > 0 THEN st.total ELSE 25)
    + (IF hit THEN 0 ELSE IF st.fetch <= 0 THEN 100 ELSE st.fetch)
    + 25 * st.evict

Without(entries, w) == {e \in entries : e[1] # w}

\* upsertWorkerModelPlacementInnerLocked: a worker without capacity has no entry.
PlaceWorker(heaps, m, w, v, st) ==
    LET hit == m \in v.cached
        score == localityBaseScore(v, hit)
        pred == predictedLatencyMs(hit, st)
    IN [cached |-> Without(heaps.cached, w) \cup
                       (IF hasCapacity(v) /\ hit THEN {<<w, score>>} ELSE {}),
        cold |-> Without(heaps.cold, w) \cup
                       (IF hasCapacity(v) /\ ~hit THEN {<<w, score>>} ELSE {}),
        predicted |-> Without(heaps.predicted, w) \cup
                       (IF hasCapacity(v) THEN {<<w, pred>>} ELSE {})]

\* ensureModelPlacementLocked seeds a new model from every view.
Seed(m, views, stats) ==
    LET has(w, hit) == hasCapacity(views[w]) /\ (m \in views[w].cached) = hit
    IN [cached |-> {<<w, localityBaseScore(views[w], TRUE)>> : w \in {x \in LlmWorkers : has(x, TRUE)}},
        cold |-> {<<w, localityBaseScore(views[w], FALSE)>> : w \in {x \in LlmWorkers : has(x, FALSE)}},
        predicted |-> {<<w, predictedLatencyMs(m \in views[w].cached, stats[<<m, w>>])>> :
                        w \in {x \in LlmWorkers : hasCapacity(views[x])}}]

Ensured(m) == IF byModel[m] = NoHeaps THEN Seed(m, lview, pstats) ELSE byModel[m]

\* Mutant: only the models the worker now reports are refreshed.
AffectedNow(w, v) == v.cached

Affected(w, v) ==
    lview[w].cached \cup v.cached \cup {m \in LlmModels : byModel[m] # NoHeaps}

\* refreshWorkerPlacementLocked: the indexes once the views are those given.
Refreshed(w, v, views) ==
    [m \in LlmModels |->
        IF m \notin Affected(w, v) THEN byModel[m]
        ELSE IF byModel[m] = NoHeaps THEN Seed(m, views, pstats)
        ELSE PlaceWorker(byModel[m], m, w, v, pstats[<<m, w>>])]

\* UpsertWorker with the worker's record as it is now.
UpsertWorker(w, v) ==
    /\ lview' = [lview EXCEPT ![w] = v]
    /\ byModel' = Refreshed(w, v, lview')

\* UpdateLLMStats: the indexes after one model's statistics of a worker changed.  An
\* unknown worker's statistics wait for its registration.
UpdateLLMStats(heaps, m, w, views, stats) ==
    IF views[w] = NoView THEN heaps
    ELSE [heaps EXCEPT ![m] = PlaceWorker(IF @ = NoHeaps THEN Seed(m, views, stats) ELSE @,
                                          m, w, views[w], stats[<<m, w>>])]

-----------------------------------------------------------------------------
\* The worker of the entry with the highest score, the smaller id in a tie.
BestEntry(entries) ==
    (CHOOSE e \in entries : \A f \in entries : e[2] > f[2] \/ (e[2] = f[2] /\ e[1] <= f[1]))[1]

Usable(entries) == {e \in entries : hasCapacity(lview[e[1]])}

PreferredLocalityWorker(m) ==
    LET hot == Usable(Ensured(m).cached)
        cold == Usable(Ensured(m).cold)
    IN IF hot # {} THEN BestEntry(hot)
       ELSE IF cold # {} THEN BestEntry(cold) ELSE 0

Discount(m, w, waited) == IF waited /\ m \notin lview[w].cached THEN 25 ELSE 0

\* The lowest latency with the queue's delay added wins: it is the score, negated.
PreferredPredictedWorker(m, waited) ==
    LET score == {<<e[1], Discount(m, e[1], waited) - e[2] - 50 * lview[e[1]].load>> :
                    e \in Usable(Ensured(m).predicted)}
    IN IF score = {} THEN 0 ELSE BestEntry(score)

canAssignTaskToWorker(m, waited, w) ==
    /\ lwork[w].load < LlmCapacity
    /\ LET preferred == IF llmPolicy = "PREDICTED_LATENCY"
                        THEN PreferredPredictedWorker(m, waited) ELSE PreferredLocalityWorker(m)
       IN llmPolicy = "RESOURCE_ONLY" \/ preferred \in {0, w}

-----------------------------------------------------------------------------
LlmInit ==
    /\ llmPolicy \in LlmPolicies
    /\ lwork = [w \in LlmWorkers |-> [load |-> 0, cached |-> {}, reg |-> {}, polls |-> FALSE]]
    /\ lview = [w \in LlmWorkers |-> NoView]
    /\ llmStats = [k \in Keys |-> NoStats]
    /\ pstats = [k \in Keys |-> NoStats]
    /\ byModel = [m \in LlmModels |-> NoHeaps]
    /\ request = NoRequest
    /\ running = {}
    /\ llmLog = <<>>
    /\ requests = 0

\* The record, then the scheduler's view of it.
ReportWorker(w, cached, reg) ==
    /\ lwork' = [lwork EXCEPT ![w] = [@ EXCEPT !.cached = cached, !.reg = reg, !.polls = TRUE]]
    /\ UpsertWorker(w, [load |-> lwork[w].load, cached |-> cached])
    /\ UNCHANGED <<llmPolicy, llmStats, pstats, request, running, llmLog, requests>>

\* A worker that stopped does not come back under its id.
RegisterWorker(w, cached) == lview[w] = NoView /\ ReportWorker(w, cached, cached)

\* Heartbeats report the cache and are not logged.
Heartbeat(w, cached) == lwork[w].polls /\ ReportWorker(w, cached, lwork[w].reg)

\* The worker stops for good; neither its record nor its view is removed.
WorkerStops(w) ==
    /\ lwork[w].polls /\ \E x \in LlmWorkers \ {w} : lwork[x].polls
    /\ \A r \in running : r[2] # w
    /\ lwork' = [lwork EXCEPT ![w].polls = FALSE]
    /\ UNCHANGED <<llmPolicy, lview, llmStats, pstats, byModel, request, running, llmLog, requests>>

SubmitLLM(m) ==
    /\ request = NoRequest /\ requests < MaxRequests
    /\ request' = [model |-> m, waited |-> FALSE]
    /\ requests' = requests + 1
    /\ UNCHANGED <<llmPolicy, lwork, lview, llmStats, pstats, byModel, running, llmLog>>

\* localityQueueWait runs out.
LlmWait ==
    /\ request # NoRequest /\ ~request.waited
    /\ request' = [request EXCEPT !.waited = TRUE]
    /\ UNCHANGED <<llmPolicy, lwork, lview, llmStats, pstats, byModel, running, llmLog, requests>>

\* A poll of worker w reaches the request; asking for a preferred worker creates
\* the model's indexes.
PollLLM(w) ==
    /\ lwork[w].polls /\ request # NoRequest
    /\ LET m == request.model
           asked == llmPolicy # "RESOURCE_ONLY" /\ lwork[w].load < LlmCapacity
       IN /\ byModel' = IF asked THEN [byModel EXCEPT ![m] = Ensured(m)] ELSE byModel
          /\ IF canAssignTaskToWorker(m, request.waited, w)
             THEN /\ lwork' = [lwork EXCEPT ![w].load = @ + 1]
                  /\ running' = running \cup {<<m, w, requests>>}
                  /\ request' = NoRequest
             ELSE UNCHANGED <<lwork, running, request>>
    /\ UNCHANGED <<llmPolicy, lview, llmStats, pstats, llmLog, requests>>

\* CompleteTask of an LLM request: the load, the mirror of the worker, and the
\* statistics from the LLMCompleted record.
CompleteLLM(r, ms, evicted) ==
    /\ lwork' = [lwork EXCEPT ![r[2]].load = @ - 1]
    /\ running' = running \ {r}
    /\ LET k == <<r[1], r[2]>>
           st == materializeLLMCompleted(llmStats, <<r[1], r[2], ms, evicted>>)[k]
           v == [load |-> lwork[r[2]].load - 1, cached |-> lwork[r[2]].cached]
       IN /\ llmStats' = [llmStats EXCEPT ![k] = st]
          /\ pstats' = [pstats EXCEPT ![k] = st]
          /\ lview' = [lview EXCEPT ![r[2]] = v]
          /\ byModel' = UpdateLLMStats(Refreshed(r[2], v, lview'), r[1], r[2], lview', pstats')
    /\ llmLog' = Append(llmLog, <<r[1], r[2], ms, evicted>>)
    /\ UNCHANGED <<llmPolicy, request, requests>>

\* One record of the llm streams in the replay.
ReplayLLM(stats, i) == materializeLLMCompleted(stats, llmLog[i])

\* The control plane restarts: worker records come from their registrations,
\* statistics from the llm streams in the order of the random task ids.
RestartLLM ==
    /\ running = {} /\ \E w \in LlmWorkers : lview[w] # NoView
    /\ \E order \in SetToSeqs(DOMAIN llmLog) :
        llmStats' = FoldLeft(ReplayLLM, [k \in Keys |-> NoStats], order)
    /\ pstats' = llmStats'
    /\ lwork' = [w \in LlmWorkers |-> [lwork[w] EXCEPT !.cached = lwork[w].reg, !.load = 0]]
    /\ lview' = [w \in LlmWorkers |-> IF lview[w] = NoView THEN NoView
                                      ELSE [load |-> 0, cached |-> lwork[w].reg]]
    /\ byModel' = [m \in LlmModels |->
            IF \E w \in LlmWorkers : m \in lview'[w].cached \/ llmStats'[<<m, w>>] # NoStats
            THEN Seed(m, lview', pstats') ELSE NoHeaps]
    /\ UNCHANGED <<llmPolicy, request, running, llmLog, requests>>

LlmNext ==
    \/ \E w \in LlmWorkers, ms \in SUBSET LlmModels : RegisterWorker(w, ms) \/ Heartbeat(w, ms)
    \/ \E w \in LlmWorkers : WorkerStops(w) \/ PollLLM(w)
    \/ \E m \in LlmModels : SubmitLLM(m)
    \/ LlmWait
    \/ \E r \in running, ms \in LlmLatencies, ev \in 0..1 : CompleteLLM(r, ms, ev)
    \/ RestartLLM

LlmSpec == LlmInit /\ [][LlmNext]_llmVars

-----------------------------------------------------------------------------
\* Every index that exists holds exactly the workers with capacity, each under
\* the score of its present view and statistics, however reports, completions,
\* polls and late statistics interleave (refreshWorkerPlacementLocked).
PlacementExact ==
    \A m \in LlmModels : byModel[m] # NoHeaps => byModel[m] = Seed(m, lview, pstats)

\* The statistics of a model on a worker count its completions, and their
\* averages stay between the smallest and the largest latency reported; a
\* restart that folds the streams in another order keeps both.
StatsOfLog ==
    \A m \in LlmModels, w \in LlmWorkers :
        LET mine == {i \in DOMAIN llmLog : llmLog[i][1] = m /\ llmLog[i][2] = w}
            st == llmStats[<<m, w>>]
        IN /\ st.n = Cardinality(mine)
           /\ mine # {} => \E i, j \in mine : llmLog[i][3] <= st.total /\ st.total <= llmLog[j][3]

\* Once every worker's load has been mirrored, a worker with a free slot is
\* refused only for the sake of a worker that would not be refused: the rules of
\* the three policies never exclude everybody.
SomeoneEligible ==
    (request # NoRequest /\ \A w \in LlmWorkers : lview[w].load \in {-1, lwork[w].load}) =>
        \A w \in LlmWorkers : hasCapacity(lview[w]) =>
            \E x \in LlmWorkers : lview[x] # NoView
                /\ canAssignTaskToWorker(request.model, request.waited, x)

\* The scores requests are placed by are those of the present: indexes follow views and
\* statistics, statistics follow the completions in the log.
ScoresExact == PlacementExact /\ StatsOfLog
=============================================================================
