--------------------------- MODULE SharedLogProofs ---------------------------
(***************************************************************************)
(* What the abstract log gives its readers and writers, for any streams,   *)
(* keys and numbers of records.                                            *)
(***************************************************************************)
EXTENDS SharedLog, TLAPS

TypeOK ==
    /\ recs \subseteq Records
    /\ trim \in [Streams -> Nat]
    /\ next \in [Streams -> Nat \ {0}]

\* Every stored number has been given out.
NumbersGiven == \A r \in recs : r.seq < next[r.stream]

IInv == TypeOK /\ NumbersGiven /\ NoGap /\ OneRecordPerSeq /\ OneRecordPerKey

\* The empty log satisfies the invariant.
LEMMA InitInv == Init => IInv
BY DEF Init, IInv, TypeOK, NumbersGiven, NoGap, OneRecordPerSeq, OneRecordPerKey

\* An appended record has a number and a key of its own, and closes the gap that
\* the new value of next would leave.
LEMMA AppendInv ==
    ASSUME IInv, NEW s \in Streams, NEW k \in Keys \cup {NoKey}, Append(s, k)
    PROVE  IInv'
<1>1. PICK r \in Records : r.stream = s /\ r.seq = next[s] /\ r.key = k /\ recs' = recs \cup {r}
  BY DEF Append
<1>2. next' = [next EXCEPT ![s] = @ + 1] /\ trim' = trim
  BY DEF Append
<1>3. TypeOK'
  BY <1>1, <1>2 DEF IInv, TypeOK, Records
<1>4. NumbersGiven'
  BY <1>1, <1>2 DEF IInv, TypeOK, NumbersGiven, Records
<1>5. NoGap'
  <2> SUFFICES ASSUME NEW u \in Streams, NEW q \in 1 .. next'[u] - 1, q >= trim'[u]
               PROVE  \E v \in recs' : v.stream = u /\ v.seq = q
    BY DEF NoGap
  <2>1. CASE u = s /\ q = next[s]
    BY <1>1, <2>1
  <2>2. CASE ~(u = s /\ q = next[s])
    <3>1. q \in 1 .. next[u] - 1
      BY <1>2, <2>2 DEF IInv, TypeOK
    <3> QED  BY <1>1, <1>2, <3>1 DEF IInv, NoGap
  <2> QED  BY <2>1, <2>2
<1>6. OneRecordPerSeq'
  BY <1>1 DEF IInv, OneRecordPerSeq, NumbersGiven, TypeOK, Records
<1>7. OneRecordPerKey'
  BY <1>1 DEF IInv, OneRecordPerKey, Append, KeyStored
<1> QED  BY <1>3, <1>4, <1>5, <1>6, <1>7 DEF IInv

\* Trimming asks for less.
LEMMA TrimInv ==
    ASSUME IInv, NEW s \in Streams, Trim(s)
    PROVE  IInv'
<1>1. PICK b \in 1 .. next[s] : b > trim[s] /\ trim' = [trim EXCEPT ![s] = b]
  BY DEF Trim
<1>2. recs' = recs /\ next' = next
  BY DEF Trim
<1>3. TypeOK'
  BY <1>1, <1>2 DEF IInv, TypeOK
<1>4. NoGap'
  <2> SUFFICES ASSUME NEW u \in Streams, NEW q \in 1 .. next[u] - 1, q >= trim'[u]
               PROVE  \E v \in recs : v.stream = u /\ v.seq = q
    BY <1>2 DEF NoGap
  <2>1. q >= trim[u]
    BY <1>1 DEF IInv, TypeOK
  <2> QED  BY <2>1 DEF IInv, NoGap
<1> QED  BY <1>2, <1>3, <1>4 DEF IInv, NumbersGiven, OneRecordPerSeq, OneRecordPerKey

\* What is dropped is below the watermark.
LEMMA DropInv ==
    ASSUME IInv, Drop
    PROVE  IInv'
<1>1. recs' \subseteq recs /\ trim' = trim /\ next' = next
  BY DEF Drop
<1>2. NoGap'
  <2> SUFFICES ASSUME NEW u \in Streams, NEW q \in 1 .. next[u] - 1, q >= trim[u]
               PROVE  \E v \in recs' : v.stream = u /\ v.seq = q
    BY <1>1 DEF NoGap
  <2>1. PICK v \in recs : v.stream = u /\ v.seq = q
    BY DEF IInv, NoGap
  <2>2. ~(v.seq < trim[v.stream])
    BY <2>1 DEF IInv, TypeOK
  <2> QED  BY <2>1, <2>2 DEF Drop
<1> QED  BY <1>1, <1>2 DEF IInv, TypeOK, NumbersGiven, OneRecordPerSeq, OneRecordPerKey

\* A log that only ever appends the next number, trims and drops trimmed records has
\* no gap above the watermark and one record per number and per key, for any
\* streams, keys and lengths: what control-plane replay relies on.
THEOREM LogGuarantees == Spec => [](NoGap /\ OneRecordPerSeq /\ OneRecordPerKey)
<1>1. IInv /\ [Next]_vars => IInv'
  <2> SUFFICES ASSUME IInv, [Next]_vars PROVE IInv'
    OBVIOUS
  <2>1. CASE UNCHANGED vars
    BY <2>1 DEF vars, IInv, TypeOK, NumbersGiven, NoGap, OneRecordPerSeq, OneRecordPerKey
  <2>2. CASE Next
    BY <2>2, AppendInv, TrimInv, DropInv DEF Next
  <2> QED  BY <2>1, <2>2
<1>2. IInv => NoGap /\ OneRecordPerSeq /\ OneRecordPerKey
  BY DEF IInv
<1> QED  BY InitInv, <1>1, <1>2, PTL DEF Spec
=============================================================================
