------------------------------ MODULE MCActor ------------------------------
EXTENDS ActorRuntime

Symmetry == Permutations(Calls) \cup Permutations(ActorWorkers)

\* Bound: behaviours are followed up to and including the first restart.
UpToRestart == crashes = 0
=============================================================================
