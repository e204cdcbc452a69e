------------------------------ MODULE SharedLog ------------------------------
(***************************************************************************)
(* What the log service promises its callers (the Store API of             *)
(* internal/logstore/store.go, as internal/control uses it): numbered,     *)
(* append-only streams, at most one record per idempotency key while that  *)
(* record is stored, and a trim watermark below which records may go.      *)
(* Segments, files, indexes, compaction and recovery do not show.          *)
(***************************************************************************)
EXTENDS Naturals

CONSTANTS Streams,      \* stream ids
          Keys,         \* idempotency keys
          NoKey         \* the empty key

VARIABLES recs,         \* records stored
          trim,         \* trim[s]: records of s below it may be dropped
          next          \* next[s]: the sequence number of the next record of s

vars == <<recs, trim, next>>

\* id tells apart two records with the same stream, number and key.
Records == [stream : Streams, seq : Nat, key : Keys \cup {NoKey}, id : Nat]

Init ==
    /\ recs = {}
    /\ trim = [s \in Streams |-> 0]
    /\ next = [s \in Streams |-> 1]

KeyStored(s, k) == k # NoKey /\ \E r \in recs : r.stream = s /\ r.key = k

Append(s, k) ==
    /\ UNCHANGED trim
    /\ next' = [next EXCEPT ![s] = @ + 1]
    /\ ~KeyStored(s, k)
    /\ \E r \in recs' :
          /\ r \in Records /\ r.stream = s /\ r.seq = next[s] /\ r.key = k
          /\ recs' = recs \cup {r}

Trim(s) ==
    /\ \E b \in 1 .. next[s] : b > trim[s] /\ trim' = [trim EXCEPT ![s] = b]
    /\ UNCHANGED <<recs, next>>

\* Compaction drops records that are trimmed, and no others.
Drop ==
    /\ recs' \subseteq recs
    /\ \A r \in recs \ recs' : r.seq < trim[r.stream]
    /\ UNCHANGED <<trim, next>>

Next ==
    \/ Drop
    \/ \E s \in Streams : Trim(s) \/ \E k \in Keys \cup {NoKey} : Append(s, k)

Spec == Init /\ [][Next]_vars
-----------------------------------------------------------------------------
\* A record at or above the watermark is never lost: the numbers a reader gets
\* from there on have no gap.
NoGap ==
    \A s \in Streams : \A q \in 1 .. next[s] - 1 :
        q >= trim[s] => \E r \in recs : r.stream = s /\ r.seq = q

\* A sequence number, and an idempotency key, names one stored record.
OneRecordPerSeq ==
    \A r, u \in recs : r.stream = u.stream /\ r.seq = u.seq => r = u

OneRecordPerKey ==
    \A r, u \in recs : r.stream = u.stream /\ r.key = u.key /\ r.key # NoKey => r = u
=============================================================================
