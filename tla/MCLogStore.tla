----------------------------- MODULE MCLogStore -----------------------------
(* TLC instances of LogStore: each log_*.cfg sets the sizes and the faults *)
(* of one question.  Streams are interchangeable: nothing orders them, and *)
(* a segment's records are ordered by where they are.                      *)
EXTENDS LogStore

Symmetry == Permutations(Streams)

\* Bound of log.cfg: two stops after four appends or one after five, and then only
\* records without keys; with five, one stream is trimmed.  A reader runs over one
\* stream of records without keys, in a store that has not been stopped.
Keyless ==
    /\ pend.key = NoKey
    /\ \A g \in DOMAIN logs : \A i \in DOMAIN logs[g] : logs[g][i] = Torn \/ logs[g][i].key = NoKey
OneStream == \A s, t \in Streams : next[s] > 1 /\ next[t] > 1 => s = t
OneTrimmed == \A s, t \in Streams : ret[s] > 0 /\ ret[t] > 0 => s = t
Bounded ==
    /\ sent + stops <= 6
    /\ sent = 5 => OneTrimmed
    /\ sent = 5 \/ (sent = 4 /\ stops = 2) => Keyless
    /\ (\E r \in Readers : rd[r].pc # "start") => stops = 0 /\ Keyless /\ OneStream
=============================================================================
