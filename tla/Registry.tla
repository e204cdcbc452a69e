------------------------------ MODULE Registry ------------------------------
(***************************************************************************)
(* The registries of the control plane that live in streams of their own:  *)
(* functions (internal/control/functions.go), models and the scheduling    *)
(* policy (llm.go), with the replays that restore them (bootstrap.go).     *)
(*                                                                         *)
(* A submission is a sequence of parts: a function, which arrives as its   *)
(* source, as its hash alone, or as a hash with a reference the object     *)
(* store issued earlier; or an LLM step.  References are content           *)
(* addresses, so a function is known by its hash.                          *)
(***************************************************************************)
EXTENDS Integers, Sequences, SequencesExt

CONSTANTS Registrars,    \* concurrent submissions
          PolicySetters, \* concurrent calls of SetSchedulingPolicy
          Hashes, ModelNames, Policies,
          MaxParts, MaxRegistrations, MaxPolicies  \* bounds

ASSUME RegAssumption == MaxParts \in Nat /\ MaxRegistrations \in Nat /\ MaxPolicies \in Nat

VARIABLES
    fnObjects,  \* hashes whose source is in the object store
    fnLog,      \* hashes with a FunctionRegistered record
    functions,  \* hashes registered in memory
    fnLock,     \* holder of functionsMu, or 0
    registrar,  \* registrar[r]: step, parts left, all parts
    accepted,   \* parts of accepted submissions
    models,     \* registered in memory
    modelLog,   \* models with a ModelRegistered record
    modelCalls, \* models whose RegisterModel is between its append and its effect
    policy, policyLog, setter,
    policyLost, \* the last SchedulingPolicyChanged was written and its reply lost
    registrations, policiesSet

regVars == <<fnObjects, fnLog, functions, fnLock, registrar, accepted, models, modelLog, modelCalls,
             policy, policyLog, setter, policyLost, registrations, policiesSet>>
fnPart == <<fnObjects, fnLog, functions, fnLock, registrar, accepted, registrations>>
modelPart == <<models, modelLog, modelCalls>>
policyPart == <<policy, policyLog, setter, policyLost, policiesSet>>

Forms == {"source", "hash", "ref"}
FunctionParts == [kind : {"fn"}, name : Hashes, form : Forms]
LlmParts == [kind : {"llm"}, name : ModelNames, form : {"step"}]
AtEase == [pc |-> "rest", todo |-> <<>>, all |-> <<>>]
Part(r) == registrar[r].todo[1]
RegistrarGoes(r, pc) == registrar' = [registrar EXCEPT ![r].pc = pc]

\* The submission fails, and whoever held the lock gives it back.
Refuse(r) ==
    /\ registrar' = [registrar EXCEPT ![r] = AtEase]
    /\ fnLock' = IF fnLock = r THEN 0 ELSE fnLock
    /\ UNCHANGED accepted

\* The part is normalized; the submission is accepted with its last one.
PartDone(r) ==
    /\ fnLock' = IF fnLock = r THEN 0 ELSE fnLock
    /\ IF Len(registrar[r].todo) = 1
       THEN /\ accepted' = accepted \cup ToSet(registrar[r].all)
            /\ registrar' = [registrar EXCEPT ![r] = AtEase]
       ELSE /\ UNCHANGED accepted
            /\ registrar' = [registrar EXCEPT ![r].pc = "part", ![r].todo = Tail(registrar[r].todo)]

-----------------------------------------------------------------------------
(* Functions. *)

\* normalizeTaskFunction (one part) and normalizeWorkflowDefinition (several).  A client
\* names a reference only if the store issued it.
BeginNormalize(r) ==
    /\ registrar[r].pc = "rest" /\ registrations < MaxRegistrations
    /\ \E n \in 1..MaxParts : \E parts \in [1..n -> FunctionParts \cup LlmParts] :
         /\ \A i \in 1..n : parts[i].form = "ref" => parts[i].name \in fnObjects
         /\ registrar' = [registrar EXCEPT ![r] = [pc |-> "part", todo |-> parts, all |-> parts]]
    /\ registrations' = registrations + 1
    /\ UNCHANGED <<fnObjects, fnLog, functions, fnLock, accepted>>
    /\ UNCHANGED modelPart /\ UNCHANGED policyPart

\* normalizeWorkflowLLMStep: the model must be registered.
normalizeWorkflowLLMStep(r) ==
    /\ registrar[r].pc = "part" /\ Part(r).kind = "llm"
    /\ IF Part(r).name \in models THEN PartDone(r) ELSE Refuse(r)
    /\ UNCHANGED <<fnObjects, fnLog, functions, registrations>>
    /\ UNCHANGED modelPart /\ UNCHANGED policyPart

\* ensureFunctionRegistered takes functionsMu and keeps it to its end.
LockFunctions(r) ==
    /\ registrar[r].pc = "part" /\ Part(r).kind = "fn" /\ fnLock = 0
    /\ fnLock' = r
    /\ RegistrarGoes(r, "find")
    /\ UNCHANGED <<fnObjects, fnLog, functions, accepted, registrations>>
    /\ UNCHANGED modelPart /\ UNCHANGED policyPart

FindFunction(r) ==
    /\ registrar[r].pc = "find"
    /\ IF Part(r).name \in functions THEN PartDone(r)
       ELSE CASE Part(r).form = "ref"    -> RegistrarGoes(r, "append") /\ UNCHANGED <<fnLock, accepted>>
              [] Part(r).form = "source" -> RegistrarGoes(r, "put") /\ UNCHANGED <<fnLock, accepted>>
              [] Part(r).form = "hash"   -> Refuse(r)
    /\ UNCHANGED <<fnObjects, fnLog, functions, registrations>>
    /\ UNCHANGED modelPart /\ UNCHANGED policyPart

\* Mutant: an error of PutBytes is not looked at.
PutUnchecked(r) ==
    /\ registrar[r].pc = "put"
    /\ fnObjects' \in {fnObjects, fnObjects \cup {Part(r).name}}
    /\ RegistrarGoes(r, "append") /\ UNCHANGED <<fnLock, accepted>>
    /\ UNCHANGED <<fnLog, functions, registrations>>
    /\ UNCHANGED modelPart /\ UNCHANGED policyPart

\* The source is stored, or the put fails (perhaps after it stored the object).
PutFunction(r) ==
    /\ registrar[r].pc = "put"
    /\ \/ /\ fnObjects' = fnObjects \cup {Part(r).name}
          /\ RegistrarGoes(r, "append") /\ UNCHANGED <<fnLock, accepted>>
       \/ /\ fnObjects' \in {fnObjects, fnObjects \cup {Part(r).name}}
          /\ Refuse(r)
    /\ UNCHANGED <<fnLog, functions, registrations>>
    /\ UNCHANGED modelPart /\ UNCHANGED policyPart

\* FunctionRegistered, once per hash by its idempotency key.  The append may fail before
\* or after it was written.
AppendFunction(r) ==
    /\ registrar[r].pc = "append"
    /\ \/ fnLog' = fnLog \cup {Part(r).name} /\ RegistrarGoes(r, "remember") /\ UNCHANGED <<fnLock, accepted>>
       \/ fnLog' \in {fnLog, fnLog \cup {Part(r).name}} /\ Refuse(r)
    /\ UNCHANGED <<fnObjects, functions, registrations>>
    /\ UNCHANGED modelPart /\ UNCHANGED policyPart

RememberFunction(r) ==
    /\ registrar[r].pc = "remember"
    /\ functions' = functions \cup {Part(r).name}
    /\ PartDone(r)
    /\ UNCHANGED <<fnObjects, fnLog, registrations>>
    /\ UNCHANGED modelPart /\ UNCHANGED policyPart

-----------------------------------------------------------------------------
(* Models and policy. *)

\* RegisterModel up to its append.  Without an answer the call fails, also when
\* ModelRegistered was written.
AppendModel ==
    /\ \E m \in ModelNames \ modelCalls :
         /\ modelLog' = modelLog \cup {m}
         /\ modelCalls' \in {modelCalls, modelCalls \cup {m}}
    /\ UNCHANGED models /\ UNCHANGED fnPart /\ UNCHANGED policyPart

RememberModel ==
    /\ \E m \in modelCalls : models' = models \cup {m} /\ modelCalls' = modelCalls \ {m}
    /\ UNCHANGED modelLog /\ UNCHANGED fnPart /\ UNCHANGED policyPart

BeginSetPolicy(a) ==
    /\ setter[a].pc = "rest" /\ policiesSet < MaxPolicies
    /\ \E p \in Policies : setter' = [setter EXCEPT ![a] = [pc |-> "append", p |-> p]]
    /\ policiesSet' = policiesSet + 1
    /\ UNCHANGED <<policy, policyLog, policyLost>> /\ UNCHANGED fnPart /\ UNCHANGED modelPart

\* SchedulingPolicyChanged first; on an error the policy does not change, though the
\* record may have been written.
AppendPolicy(a) ==
    /\ setter[a].pc = "append"
    /\ \/ /\ policyLog' = setter[a].p /\ UNCHANGED policyLost
          /\ setter' = [setter EXCEPT ![a].pc = "apply"]
       \/ /\ \/ UNCHANGED <<policyLog, policyLost>>
             \/ policyLog' = setter[a].p /\ policyLost' = TRUE
          /\ setter' = [setter EXCEPT ![a].pc = "rest"]
    /\ UNCHANGED <<policy, policiesSet>> /\ UNCHANGED fnPart /\ UNCHANGED modelPart

ApplyPolicy(a) ==
    /\ setter[a].pc = "apply"
    /\ policy' = setter[a].p /\ policyLost' = FALSE
    /\ setter' = [setter EXCEPT ![a].pc = "rest"]
    /\ UNCHANGED <<policyLog, policiesSet>> /\ UNCHANGED fnPart /\ UNCHANGED modelPart

bootstrapModels == models' = modelLog /\ modelCalls' = {}
bootstrapScheduler == policy' = policyLog /\ policyLost' = FALSE

\* A restart at any point: each stream is replayed, bootstrapFunctions among them; the
\* calls under way are gone.
BootstrapRegistries ==
    /\ bootstrapModels /\ bootstrapScheduler
    /\ functions' = fnLog /\ fnLock' = 0
    /\ registrar' = [r \in Registrars |-> AtEase]
    /\ setter' = [a \in PolicySetters |-> [pc |-> "rest", p |-> policyLog]]
    /\ UNCHANGED <<fnObjects, fnLog, accepted, modelLog, policyLog, registrations, policiesSet>>

RegInit ==
    /\ fnObjects = {} /\ fnLog = {} /\ functions = {} /\ fnLock = 0
    /\ registrar = [r \in Registrars |-> AtEase] /\ accepted = {}
    /\ models = {} /\ modelLog = {} /\ modelCalls = {} /\ policyLost = FALSE
    /\ policy \in Policies /\ policyLog = policy
    /\ setter = [a \in PolicySetters |-> [pc |-> "rest", p |-> policy]]
    /\ registrations = 0 /\ policiesSet = 0

RegNext ==
    \/ \E r \in Registrars :
         \/ BeginNormalize(r) \/ normalizeWorkflowLLMStep(r) \/ LockFunctions(r) \/ FindFunction(r)
         \/ PutFunction(r) \/ AppendFunction(r) \/ RememberFunction(r)
    \/ AppendModel \/ RememberModel
    \/ \E a \in PolicySetters : BeginSetPolicy(a) \/ AppendPolicy(a) \/ ApplyPolicy(a)
    \/ BootstrapRegistries

RegSpec == RegInit /\ [][RegNext]_regVars

-----------------------------------------------------------------------------
\* An accepted submission can run, now and after any restart: the source of each of its
\* functions is in the object store and its registration in the log, the model of each LLM
\* step is in the log (normalizeTaskFunction, normalizeWorkflowDefinition).
AcceptedRuns ==
    \A p \in accepted : IF p.kind = "fn" THEN p.name \in fnObjects \cap fnLog ELSE p.name \in modelLog

\* With no call under way, and no answer lost since the last change, the policy in force is
\* the one a restart would restore (SetSchedulingPolicy, bootstrapScheduler).
PolicyReplayed ==
    ~policyLost /\ (\A a \in PolicySetters : setter[a].pc = "rest") => policy = policyLog

\* What the registries answered survives a restart and failed calls: accepted
\* submissions can run, and the policy in force is the durable one (bootstrap.go).
RegistriesDurable == AcceptedRuns /\ PolicyReplayed
=============================================================================
