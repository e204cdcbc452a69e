--------------------------- MODULE MCTaskLifecycle ---------------------------
(* TLC instances of TaskLifecycle. *)
EXTENDS TaskLifecycle, TLC

OneTask == {1}
TwoTasks == {1, 2}

NoKeys == [t \in Tasks |-> NoKey]
SharedKey == [t \in Tasks |-> "k"]

AnyWorker == [t \in Tasks |-> NoWorker]

\* Bound of task.cfg: once both submissions have begun, failures and restarts
\* are followed with the leases of one worker, and two workers without them.
Leased == ({j.w : j \in jobs} \cup {meta[t].worker : t \in Tasks}) \ {NoWorker}
Bounded ==
    /\ \A t \in Tasks : sub[t] # "new"
    /\ faults + crashes > 0
    => \A v, w \in Leased : v = w

WorkerSymmetry == Permutations(Workers)
=============================================================================
