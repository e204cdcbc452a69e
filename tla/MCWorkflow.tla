----------------------------- MODULE MCWorkflow -----------------------------
(* TLC instances of WorkflowRuntime.                                       *)
EXTENDS WorkflowRuntime, TLC

CONSTANTS a, b, c

\* b needs the result of a; a may be tried twice and its leases may expire.
ChainSteps == {a, b}
ChainDeps == [s \in ChainSteps |-> IF s = b THEN {a} ELSE {}]
ChainTwo == [s \in ChainSteps |-> IF s = a THEN 2 ELSE 1]

\* c needs the results of a and b; a and b may be tried twice, no lease expires.
JoinSteps == {a, b, c}
JoinDeps == [s \in JoinSteps |-> IF s = c THEN {a, b} ELSE {}]
JoinTwo == [s \in JoinSteps |-> IF s = c THEN 1 ELSE 2]
JoinOne == [s \in JoinSteps |-> 1]

\* Workers are interchangeable.
Symmetry == Permutations(Workers)
=============================================================================
