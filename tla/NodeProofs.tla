----------------------------- MODULE NodeProofs -----------------------------
(***************************************************************************)
(* Theorems about what surrounds the control plane: the worker records of  *)
(* the metadata (WorkerStore), its task indexes (TaskIndex), the object    *)
(* stores (LocalObjects, S3Objects), the worker with its actor locks       *)
(* (WorkerAgent) and its cache of model checkpoints (ModelCache), the two  *)
(* metadata stores against each other (StoreConformance), the materializer *)
(* of the metadata (Materializer) and the event streams of the web API     *)
(* (EventStream), for any number of goroutines, tasks, objects and rows.   *)
(***************************************************************************)
EXTENDS WorkerAgent, WorkerStore, TaskIndex, LocalObjects, S3Objects, ModelCache,
        StoreConformance, Materializer, EventStream, FoldTheorems,
        FiniteSetTheorems, SequenceTheorems, TLAPS

-----------------------------------------------------------------------------
(* Worker records.  The load of a record is compared with leases that are  *)
(* counted per worker; the decrements under way are leases still counted.  *)

\* The shapes of a call.
Calling == [pc : CallOps \cup {"create"}, op : CallOps, w : StoreWorkers, r : Nat, existed : BOOLEAN]
Swapping == [pc : {"cas"}, op : {"decrement"}, w : StoreWorkers, r : Nat, existed : BOOLEAN, current : Nat]

Made == {w \in StoreWorkers : record[w] # 0}
Decrementing(w) == {c \in StoreClients : call[c].pc # "rest" /\ call[c].op = "decrement" /\ call[c].w = w}

StoreTypes ==
    /\ record \in [StoreWorkers -> Nat] /\ load \in [1 .. MaxRecords -> Nat] /\ records \in Nat
    /\ onWorker \in [StoreWorkers -> Nat]
    /\ call \in [StoreClients -> {Idling} \cup Calling \cup Swapping]
    /\ \A c \in StoreClients : call[c] \in Calling =>
          call[c].pc = call[c].op \/ (call[c].pc = "create" /\ call[c].op # "decrement")

\* Each worker has a record of its own, there are as many records as workers with one, and
\* a record that was not made yet counts nothing.
RecordsDistinct ==
    /\ records = Cardinality(Made)
    /\ \A w \in StoreWorkers : record[w] <= records
    /\ \A v, w \in StoreWorkers : record[v] = record[w] /\ record[v] # 0 => v = w
    /\ \A r \in 1 .. MaxRecords : r > records => load[r] = 0

\* A call past its look-up holds the record of its worker, which exists; a swap that can
\* succeed takes off a lease that is there.
CallsHold ==
    \A c \in StoreClients : call[c].pc \notin {"rest", "create"} =>
        /\ call[c].r = record[call[c].w] /\ call[c].r # 0
        /\ call[c].pc = "cas" => call[c].current > 0

\* No more decrements are under way than leases are counted, and the load is not above them.
LoadBacked ==
    \A w \in StoreWorkers :
        /\ Cardinality(Decrementing(w)) <= onWorker[w]
        /\ record[w] # 0 => load[record[w]] <= onWorker[w]

StoreInv == StoreTypes /\ RecordsDistinct /\ CallsHold /\ LoadBacked

LEMMA StoreInvInit == StoreInit => StoreInv
<1> SUFFICES ASSUME StoreInit PROVE StoreInv
  OBVIOUS
<1>0. MaxRecords \in Nat
  BY StoreAssumption, FS_CardinalityType DEF MaxRecords
<1>1. \A c \in StoreClients : call[c] = Idling
  BY DEF StoreInit
<1>2. Idling.pc = "rest" /\ Idling \notin Calling
  BY DEF Idling, Calling, CallOps
<1>3. StoreTypes
  BY <1>0, <1>1, <1>2 DEF StoreInit, StoreTypes
<1>4. Made = {} /\ \A w \in StoreWorkers : Decrementing(w) = {}
  BY <1>1, <1>2 DEF StoreInit, Made, Decrementing
<1>5. Cardinality({}) = 0
  BY FS_EmptySet
<1>6. RecordsDistinct
  BY <1>0, <1>4, <1>5 DEF StoreInit, RecordsDistinct
<1>7. LoadBacked
  <2>1. \A w \in StoreWorkers : Cardinality(Decrementing(w)) = 0 /\ onWorker[w] = 0 /\ record[w] = 0
    BY <1>4, <1>5 DEF StoreInit
  <2> QED  BY <2>1 DEF LoadBacked
<1>8. CallsHold
  BY <1>1, <1>2 DEF CallsHold
<1> QED  BY <1>3, <1>6, <1>7, <1>8 DEF StoreInv

\* The decrements of a worker are finitely many.
LEMMA DecrementingFinite ==
    ASSUME NEW w PROVE IsFiniteSet(Decrementing(w)) /\ Cardinality(Decrementing(w)) \in Nat
<1>1. Decrementing(w) \subseteq StoreClients
  BY DEF Decrementing
<1> QED  BY <1>1, StoreAssumption, FS_Subset, FS_CardinalityType

\* Records fit into the table of loads.
LEMMA RecordsFit ==
    ASSUME RecordsDistinct
    PROVE  /\ MaxRecords \in Nat /\ records <= MaxRecords
           /\ \A w \in StoreWorkers \ Made : records + 1 <= MaxRecords
<1>1. Cardinality(StoreWorkers) \in Nat /\ Cardinality(StoreClients) \in Nat
  BY StoreAssumption, FS_CardinalityType
<1>2. Made \subseteq StoreWorkers
  BY DEF Made
<1>3. IsFiniteSet(Made) /\ Cardinality(Made) <= Cardinality(StoreWorkers)
  BY <1>2, StoreAssumption, FS_Subset
<1>4. Cardinality(Made) \in Nat
  BY <1>3, FS_CardinalityType
<1>5. ASSUME NEW w \in StoreWorkers \ Made PROVE Cardinality(Made) + 1 <= Cardinality(StoreWorkers)
  <2>1. Made \cup {w} \subseteq StoreWorkers
    BY <1>2
  <2>2. Cardinality(Made \cup {w}) = Cardinality(Made) + 1
    BY <1>3, FS_AddElement
  <2> QED  BY <2>1, <2>2, StoreAssumption, FS_Subset
<1> QED  BY <1>1, <1>3, <1>4, <1>5 DEF RecordsDistinct, MaxRecords

\* A step that only moves one call.
LEMMA CallMoves ==
    ASSUME StoreTypes, NEW c \in StoreClients, NEW m \in {Idling} \cup Calling \cup Swapping,
           call' = [call EXCEPT ![c] = m]
    PROVE  /\ call' \in [StoreClients -> {Idling} \cup Calling \cup Swapping] /\ call'[c] = m
           /\ \A d \in StoreClients : d # c => call'[d] = call[d]
           /\ \A w : Decrementing(w)' = IF m.pc # "rest" /\ m.op = "decrement" /\ m.w = w
                                        THEN Decrementing(w) \cup {c} ELSE Decrementing(w) \ {c}
<1>1. /\ call' \in [StoreClients -> {Idling} \cup Calling \cup Swapping] /\ call'[c] = m
      /\ \A d \in StoreClients : d # c => call'[d] = call[d]
  BY DEF StoreTypes
<1> QED  BY <1>1 DEF Decrementing

\* The calls: what CallsHold and the types say of one of them after a step of c.
LEMMA CallsHoldMove ==
    ASSUME StoreTypes, CallsHold, NEW c \in StoreClients, NEW m \in {Idling} \cup Calling \cup Swapping,
           call' = [call EXCEPT ![c] = m],
           m \in Calling => m.pc = m.op \/ (m.pc = "create" /\ m.op # "decrement"),
           m.pc \notin {"rest", "create"} => m.r = record'[m.w] /\ m.r # 0 /\ (m.pc = "cas" => m.current > 0),
           \A w \in StoreWorkers : record[w] # 0 => record'[w] = record[w]
    PROVE  /\ CallsHold'
           /\ \A d \in StoreClients : call'[d] \in Calling =>
                 call'[d].pc = call'[d].op \/ (call'[d].pc = "create" /\ call'[d].op # "decrement")
<1>1. call'[c] = m /\ \A d \in StoreClients : d # c => call'[d] = call[d]
  BY CallMoves
<1>2. \A d \in StoreClients : call[d].pc # "rest" => call[d].w \in StoreWorkers
  BY DEF StoreTypes, Idling, Calling, Swapping
<1>3. ASSUME NEW d \in StoreClients, d # c, call[d].pc \notin {"rest", "create"}
      PROVE  record'[call[d].w] = record[call[d].w]
  BY <1>2, <1>3 DEF CallsHold
<1>4. CallsHold'
  <2> SUFFICES ASSUME NEW d \in StoreClients, call'[d].pc \notin {"rest", "create"}
               PROVE  /\ call'[d].r = record'[call'[d].w] /\ call'[d].r # 0
                      /\ call'[d].pc = "cas" => call'[d].current > 0
    BY DEF CallsHold
  <2>1. CASE d = c
    BY <1>1, <2>1
  <2>2. CASE d # c
    BY <1>1, <1>3, <2>2 DEF CallsHold
  <2> QED  BY <2>1, <2>2
<1> QED  BY <1>1, <1>4 DEF StoreTypes

LEMMA StoreInvStep == StoreInv /\ [StoreNext]_storeVars => StoreInv'
<1> SUFFICES ASSUME StoreInv, [StoreNext]_storeVars PROVE StoreInv'
  OBVIOUS
<1>0. StoreTypes /\ RecordsDistinct /\ CallsHold /\ LoadBacked
  BY DEF StoreInv
<1>t. /\ record \in [StoreWorkers -> Nat] /\ load \in [1 .. MaxRecords -> Nat] /\ records \in Nat
      /\ onWorker \in [StoreWorkers -> Nat] /\ call \in [StoreClients -> {Idling} \cup Calling \cup Swapping]
  BY <1>0 DEF StoreTypes
<1>i. Idling \in {Idling} /\ Idling.pc = "rest" /\ Idling \notin Calling
  BY DEF Idling, Calling, CallOps
<1>r. /\ MaxRecords \in Nat /\ records <= MaxRecords
      /\ \A w \in StoreWorkers \ Made : records + 1 <= MaxRecords
  BY <1>0, RecordsFit
<1>f. \A w : IsFiniteSet(Decrementing(w)) /\ Cardinality(Decrementing(w)) \in Nat
  BY DecrementingFinite
\* A call that ends without an effect on the decrements of its worker, or with less of them.
<1>n. ASSUME NEW c \in StoreClients, NEW w
      PROVE  /\ Cardinality(Decrementing(w) \ {c}) <= Cardinality(Decrementing(w))
             /\ Cardinality(Decrementing(w) \ {c}) \in Nat
             /\ c \in Decrementing(w) => Cardinality(Decrementing(w) \ {c}) = Cardinality(Decrementing(w)) - 1
             /\ c \in Decrementing(w) => Cardinality(Decrementing(w)) > 0
             /\ c \in Decrementing(w) => Decrementing(w) \cup {c} = Decrementing(w)
  <2>1. Cardinality(Decrementing(w) \ {c}) =
           IF c \in Decrementing(w) THEN Cardinality(Decrementing(w)) - 1 ELSE Cardinality(Decrementing(w))
    BY <1>f, FS_RemoveElement
  <2>2. c \in Decrementing(w) => Cardinality(Decrementing(w)) # 0
    BY <1>f, FS_EmptySet
  <2> QED  BY <1>f, <2>1, <2>2
\* A step that moves a call and touches no record.
<1>q. ASSUME NEW c \in StoreClients, NEW m \in {Idling} \cup Calling \cup Swapping,
             call' = [call EXCEPT ![c] = m], UNCHANGED <<record, load, records, onWorker>>,
             m \in Calling => m.pc = m.op \/ (m.pc = "create" /\ m.op # "decrement"),
             m.pc \notin {"rest", "create"} => m.r = record[m.w] /\ m.r # 0 /\ (m.pc = "cas" => m.current > 0),
             m.pc # "rest" /\ m.op = "decrement" =>
                m.w \in StoreWorkers /\ (c \in Decrementing(m.w) \/ onWorker[m.w] > Cardinality(Decrementing(m.w)))
      PROVE  StoreInv'
  <2>1. StoreTypes' /\ CallsHold'
    BY <1>0, <1>t, <1>q, CallMoves, CallsHoldMove DEF StoreTypes
  <2>2. RecordsDistinct'
    BY <1>0, <1>q DEF RecordsDistinct, Made
  <2>3. ASSUME NEW w \in StoreWorkers PROVE Cardinality(Decrementing(w)') <= onWorker[w]
    <3>1. Decrementing(w)' = IF m.pc # "rest" /\ m.op = "decrement" /\ m.w = w
                             THEN Decrementing(w) \cup {c} ELSE Decrementing(w) \ {c}
      BY <1>0, <1>q, CallMoves
    <3>2. Cardinality(Decrementing(w)) <= onWorker[w] /\ onWorker[w] \in Nat
      BY <1>0, <1>t DEF LoadBacked
    <3>3. CASE m.pc # "rest" /\ m.op = "decrement" /\ m.w = w
      <4>1. Cardinality(Decrementing(w) \cup {c}) =
               IF c \in Decrementing(w) THEN Cardinality(Decrementing(w)) ELSE Cardinality(Decrementing(w)) + 1
        BY <1>f, FS_AddElement
      <4>2. c \in Decrementing(w) \/ onWorker[w] > Cardinality(Decrementing(w))
        BY <1>q, <3>3
      <4> QED  BY <1>f, <3>1, <3>2, <3>3, <4>1, <4>2
    <3>4. CASE ~(m.pc # "rest" /\ m.op = "decrement" /\ m.w = w)
      <4>1. Decrementing(w)' = Decrementing(w) \ {c}
        BY <3>1, <3>4
      <4> QED  BY <1>f, <1>n, <3>2, <4>1
    <3> QED  BY <3>3, <3>4
  <2>4. LoadBacked'
    BY <1>0, <1>q, <2>3 DEF LoadBacked
  <2> QED  BY <2>1, <2>2, <2>4 DEF StoreInv
<1>1. ASSUME NEW c \in StoreClients, LookUp(c) PROVE StoreInv'
  <2>1. PICK op \in CallOps, w \in StoreWorkers :
          /\ MayCall(op, w)
          /\ call' = [call EXCEPT ![c] =
               IF record[w] # 0 THEN [pc |-> op, op |-> op, w |-> w, r |-> record[w], existed |-> TRUE]
               ELSE IF op = "decrement" THEN Idling
               ELSE [pc |-> "create", op |-> op, w |-> w, r |-> 0, existed |-> FALSE]]
    BY <1>1 DEF LookUp
  <2>2. UNCHANGED <<record, load, records, onWorker>>
    BY <1>1 DEF LookUp
  <2>3. CASE record[w] # 0
    <3> DEFINE m == [pc |-> op, op |-> op, w |-> w, r |-> record[w], existed |-> TRUE]
    <3>1. m \in Calling /\ m.pc = m.op /\ m.pc \in CallOps /\ m.w = w /\ m.r = record[w] /\ m.op = op
      BY <1>t DEF Calling
    <3>2. call' = [call EXCEPT ![c] = m]
      BY <2>1, <2>3
    <3>3. op = "decrement" => onWorker[w] > Cardinality(Decrementing(w))
      BY <2>1 DEF MayCall, InDecrement, Decrementing
    <3>4. m.pc # "cas"
      BY <3>1 DEF CallOps
    <3> HIDE DEF m
    <3> QED  BY <1>q, <2>2, <2>3, <3>1, <3>2, <3>3, <3>4
  <2>4. CASE record[w] = 0 /\ op = "decrement"
    <3>1. call' = [call EXCEPT ![c] = Idling]
      BY <2>1, <2>4
    <3> QED  BY <1>q, <1>i, <2>2, <3>1
  <2>5. CASE record[w] = 0 /\ op # "decrement"
    <3> DEFINE m == [pc |-> "create", op |-> op, w |-> w, r |-> 0, existed |-> FALSE]
    <3>1. m \in Calling /\ m.pc = "create" /\ m.op # "decrement"
      BY <2>5 DEF Calling
    <3>2. call' = [call EXCEPT ![c] = m]
      BY <2>1, <2>5
    <3> HIDE DEF m
    <3> QED  BY <1>q, <2>2, <3>1, <3>2
  <2> QED  BY <2>3, <2>4, <2>5
\* A call past its look-up is of one of the two shapes.
<1>s. ASSUME NEW c \in StoreClients, call[c].pc # "rest"
      PROVE  /\ call[c].w \in StoreWorkers /\ call[c].r \in Nat /\ call[c].op \in CallOps
             /\ call[c].pc # "cas" => call[c] \in Calling
             /\ call[c].pc = "cas" => call[c] \in Swapping
             /\ call[c].pc # "cas" /\ call[c].pc # "create" => call[c].op = call[c].pc
             /\ call[c].pc = "create" => call[c].op # "decrement"
             /\ call[c].pc = "cas" => call[c].op = "decrement"
  <2>1. call[c] \in Calling \cup Swapping
    BY <1>t, <1>i, <1>s
  <2>2. CASE call[c] \in Calling
    BY <1>0, <2>2 DEF Calling, StoreTypes, CallOps
  <2>3. CASE call[c] \in Swapping
    BY <2>3 DEF Swapping, CallOps
  <2> QED  BY <2>1, <2>2, <2>3
<1>2. ASSUME NEW c \in StoreClients, CreateRecord(c) PROVE StoreInv'
  <2> DEFINE w == call[c].w
             op == call[c].op
  <2>0. call[c].pc = "create" /\ call[c] \in Calling /\ w \in StoreWorkers /\ op \in CallOps /\ op # "decrement"
    BY <1>2, <1>s DEF CreateRecord
  <2>1. UNCHANGED <<load, onWorker>>
    BY <1>2 DEF CreateRecord
  <2>2. CASE record[w] # 0
    <3> DEFINE m == [call[c] EXCEPT !.pc = op, !.r = record[w], !.existed = TRUE]
    <3>1. call' = [call EXCEPT ![c].pc = op, ![c].r = record[w], ![c].existed = TRUE] /\ UNCHANGED <<record, records>>
      BY <1>2, <2>2 DEF CreateRecord
    <3>2. call' = [call EXCEPT ![c] = m]
      BY <1>t, <3>1
    <3>3. m \in Calling /\ m.pc = m.op /\ m.pc \in CallOps /\ m.w = w /\ m.r = record[w] /\ m.op # "decrement"
      BY <1>t, <2>0 DEF Calling
    <3>4. m.pc # "cas"
      BY <3>3 DEF CallOps
    <3> HIDE DEF m, w, op
    <3> QED  BY <1>q, <2>1, <2>2, <3>1, <3>2, <3>3, <3>4
  <2>3. CASE record[w] = 0
    <3> DEFINE m == [call[c] EXCEPT !.pc = op, !.r = records + 1]
    <3>1. /\ call' = [call EXCEPT ![c].pc = op, ![c].r = records + 1]
          /\ record' = [record EXCEPT ![w] = records + 1] /\ records' = records + 1
      BY <1>2, <2>3 DEF CreateRecord
    <3>2. call' = [call EXCEPT ![c] = m]
      BY <1>t, <3>1
    <3>3. m \in Calling /\ m.pc = m.op /\ m.pc \in CallOps /\ m.w = w /\ m.r = records + 1 /\ m.op # "decrement"
      <4> DEFINE r == records + 1
      <4>1. r \in Nat
        BY <1>t
      <4> HIDE DEF r
      <4>2. m.pc = op /\ m.op = op /\ m.w = w /\ m.r = r
        BY <2>0 DEF Calling, r
      <4>3. [call[c] EXCEPT !.pc = op, !.r = r] \in Calling
        BY <2>0, <4>1 DEF Calling
      <4> QED  BY <2>0, <4>2, <4>3 DEF r
    <3>4. m.pc # "cas"
      BY <3>3 DEF CallOps
    <3>5. /\ record'[w] = records + 1 /\ \A v \in StoreWorkers : v # w => record'[v] = record[v]
          /\ record' \in [StoreWorkers -> Nat] /\ records' \in Nat
      BY <1>t, <2>0, <3>1
    <3> HIDE DEF m, w, op
    <3>6. records + 1 \in Nat /\ records + 1 # 0
      BY <1>t
    <3>7. CallsHold' /\ StoreTypes'
      <4>1. m.r = record'[m.w] /\ m.r # 0 /\ \A v \in StoreWorkers : record[v] # 0 => record'[v] = record[v]
        BY <2>3, <3>3, <3>5, <3>6
      <4> QED  BY <1>0, <1>t, <2>1, <3>2, <3>3, <3>4, <3>5, <4>1, CallMoves, CallsHoldMove DEF StoreTypes
    <3>8. w \in StoreWorkers \ Made /\ Made' = Made \cup {w}
      BY <2>0, <2>3, <3>5, <3>6 DEF Made
    <3>9. records + 1 \in 1 .. MaxRecords
      BY <1>r, <1>t, <3>8
    <3>10. load[records + 1] = 0
      BY <1>0, <1>t, <3>9 DEF RecordsDistinct
    <3>11. RecordsDistinct'
      <4>1. IsFiniteSet(Made)
        <5>1. Made \subseteq StoreWorkers
          BY DEF Made
        <5> QED  BY <5>1, StoreAssumption, FS_Subset
      <4>2. Cardinality(Made') = Cardinality(Made) + 1
        BY <3>8, <4>1, FS_AddElement
      <4>3. records' = Cardinality(Made')
        BY <1>0, <3>1, <4>2 DEF RecordsDistinct
      <4>4. \A v \in StoreWorkers : record'[v] <= records'
        BY <1>0, <1>t, <3>1, <3>5 DEF RecordsDistinct
      <4>5. \A u, v \in StoreWorkers : record'[u] = record'[v] /\ record'[u] # 0 => u = v
        <5>1. \A v \in StoreWorkers : record[v] \in Nat /\ record[v] <= records
          BY <1>0, <1>t DEF RecordsDistinct
        <5>2. \A v \in StoreWorkers : record[v] # records + 1
          BY <1>t, <5>1
        <5>3. \A u, v \in StoreWorkers : record[u] = record[v] /\ record[u] # 0 => u = v
          BY <1>0 DEF RecordsDistinct
        <5> QED  BY <3>5, <5>2, <5>3
      <4>6. \A r \in 1 .. MaxRecords : r > records' => load'[r] = 0
        BY <1>0, <1>r, <1>t, <2>1, <3>1 DEF RecordsDistinct
      <4> QED  BY <4>3, <4>4, <4>5, <4>6 DEF RecordsDistinct, MaxRecords
    <3>12. LoadBacked'
      <4>1. ASSUME NEW v \in StoreWorkers PROVE Cardinality(Decrementing(v)') <= onWorker[v]
        <5>1. Decrementing(v)' = Decrementing(v) \ {c}
          BY <1>0, <3>2, <3>3, CallMoves
        <5> QED  BY <1>0, <1>f, <1>n, <1>t, <5>1 DEF LoadBacked
      <4>2. ASSUME NEW v \in StoreWorkers, record'[v] # 0 PROVE load[record'[v]] <= onWorker[v]
        BY <1>0, <1>t, <3>5, <3>10, <4>2 DEF LoadBacked
      <4> QED  BY <2>1, <4>1, <4>2 DEF LoadBacked
    <3> QED  BY <3>7, <3>11, <3>12 DEF StoreInv
  <2> QED  BY <2>2, <2>3
\* A call that ends, having changed the load of its record and the leases of its worker.
<1>e. ASSUME NEW c \in StoreClients, call' = [call EXCEPT ![c] = Idling], UNCHANGED <<record, records>>,
             NEW w \in StoreWorkers, w = call[c].w, NEW l \in Nat, NEW n \in Nat,
             call[c].pc \notin {"rest", "create"},
             load' = [load EXCEPT ![call[c].r] = l], onWorker' = [onWorker EXCEPT ![w] = n],
             l <= n, n >= Cardinality(Decrementing(w) \ {c})
      PROVE  StoreInv'
  <2>1. call[c].r = record[w] /\ record[w] # 0 /\ record[w] \in 1 .. MaxRecords /\ record[w] <= records
    BY <1>0, <1>e, <1>r, <1>t DEF CallsHold, RecordsDistinct
  <2>2. /\ load' \in [1 .. MaxRecords -> Nat] /\ load'[record[w]] = l
        /\ \A r \in 1 .. MaxRecords : r # record[w] => load'[r] = load[r]
        /\ onWorker' \in [StoreWorkers -> Nat] /\ onWorker'[w] = n
        /\ \A v \in StoreWorkers : v # w => onWorker'[v] = onWorker[v]
    BY <1>e, <1>t, <2>1
  <2>3. StoreTypes' /\ CallsHold'
    BY <1>0, <1>t, <1>i, <1>e, <2>2, CallMoves, CallsHoldMove DEF StoreTypes, MaxRecords
  <2>4. \A v \in StoreWorkers : v # w /\ record[v] # 0 => record[v] # record[w]
    BY <1>0, <2>1 DEF RecordsDistinct
  <2>5. RecordsDistinct'
    <3>1. Made' = Made /\ MaxRecords' = MaxRecords
      BY <1>e DEF Made, MaxRecords
    <3>2. \A r \in 1 .. MaxRecords : r > records => load'[r] = 0
      BY <1>0, <1>r, <1>t, <2>1, <2>2 DEF RecordsDistinct
    <3> QED  BY <1>0, <1>e, <3>1, <3>2 DEF RecordsDistinct
  <2>6. ASSUME NEW v \in StoreWorkers PROVE Cardinality(Decrementing(v)') <= onWorker'[v]
    <3>1. Decrementing(v)' = Decrementing(v) \ {c}
      BY <1>0, <1>e, <1>i, CallMoves
    <3>2. CASE v = w
      BY <1>e, <2>2, <3>1, <3>2
    <3>3. CASE v # w
      <4>1. Cardinality(Decrementing(v)) <= onWorker[v] /\ onWorker[v] \in Nat /\ onWorker'[v] = onWorker[v]
        BY <1>0, <1>t, <2>2, <3>3 DEF LoadBacked
      <4>2. Cardinality(Decrementing(v) \ {c}) <= Cardinality(Decrementing(v)) /\ Cardinality(Decrementing(v) \ {c}) \in Nat
        BY <1>e, <1>n
      <4> QED  BY <1>f, <3>1, <4>1, <4>2
    <3> QED  BY <3>2, <3>3
  <2>7. ASSUME NEW v \in StoreWorkers, record[v] # 0 PROVE load'[record[v]] <= onWorker'[v]
    <3>1. record[v] \in 1 .. MaxRecords
      BY <1>0, <1>r, <1>t, <2>7 DEF RecordsDistinct
    <3> QED  BY <1>0, <1>e, <2>2, <2>4, <2>7, <3>1 DEF LoadBacked
  <2>8. LoadBacked'
    BY <1>e, <2>6, <2>7 DEF LoadBacked
  <2> QED  BY <2>3, <2>5, <2>8 DEF StoreInv
<1>h. ASSUME NEW c \in StoreClients, call[c].pc \notin {"rest", "create"}
      PROVE  /\ call[c].w \in StoreWorkers /\ call[c].r = record[call[c].w] /\ call[c].r \in 1 .. MaxRecords
             /\ load[call[c].r] \in Nat /\ onWorker[call[c].w] \in Nat /\ load[call[c].r] <= onWorker[call[c].w]
             /\ Cardinality(Decrementing(call[c].w)) <= onWorker[call[c].w]
             /\ call[c].op = "decrement" => c \in Decrementing(call[c].w)
             /\ call[c].op # "decrement" => c \notin Decrementing(call[c].w)
  <2>1. call[c].w \in StoreWorkers /\ call[c].r = record[call[c].w] /\ call[c].r # 0
    BY <1>0, <1>h, <1>s DEF CallsHold
  <2>2. call[c].r \in 1 .. MaxRecords
    BY <1>0, <1>r, <1>t, <2>1 DEF RecordsDistinct
  <2> QED  BY <1>0, <1>h, <1>t, <2>1, <2>2 DEF LoadBacked, Decrementing
<1>3. ASSUME NEW c \in StoreClients, upsert(c) PROVE StoreInv'
  <2>1. /\ call[c].pc = "upsert" /\ call' = [call EXCEPT ![c] = Idling] /\ UNCHANGED <<record, records, onWorker>>
        /\ load' = IF call[c].existed THEN load ELSE [load EXCEPT ![call[c].r] = 0]
    BY <1>3 DEF upsert
  <2>2. CASE call[c].existed
    BY <1>q, <1>i, <2>1, <2>2
  <2>3. CASE ~call[c].existed
    <3>1. load' = [load EXCEPT ![call[c].r] = 0]
      BY <2>1, <2>3
    <3>2. call[c].w \in StoreWorkers /\ onWorker' = [onWorker EXCEPT ![call[c].w] = onWorker[call[c].w]]
      BY <1>h, <1>t, <2>1
    <3>3. /\ onWorker[call[c].w] \in Nat /\ 0 \in Nat /\ 0 <= onWorker[call[c].w]
          /\ onWorker[call[c].w] >= Cardinality(Decrementing(call[c].w) \ {c})
      BY <1>f, <1>h, <1>n, <2>1
    <3> QED  BY <1>e, <2>1, <3>1, <3>2, <3>3
  <2> QED  BY <2>2, <2>3
<1>4. ASSUME NEW c \in StoreClients, heartbeat(c) PROVE StoreInv'
  BY <1>4, <1>q, <1>i DEF heartbeat
<1>5. ASSUME NEW c \in StoreClients, incrementLoad(c) PROVE StoreInv'
  <2>1. /\ call[c].pc = "increment" /\ call' = [call EXCEPT ![c] = Idling] /\ UNCHANGED <<record, records>>
        /\ load' = [load EXCEPT ![call[c].r] = load[call[c].r] + 1]
        /\ onWorker' = [onWorker EXCEPT ![call[c].w] = onWorker[call[c].w] + 1]
    BY <1>5 DEF incrementLoad
  <2>2. call[c].w \in StoreWorkers /\ load[call[c].r] \in Nat /\ onWorker[call[c].w] \in Nat
        /\ load[call[c].r] <= onWorker[call[c].w] /\ Cardinality(Decrementing(call[c].w)) <= onWorker[call[c].w]
    BY <1>h, <2>1
  <2>3. /\ load[call[c].r] + 1 \in Nat /\ onWorker[call[c].w] + 1 \in Nat
        /\ load[call[c].r] + 1 <= onWorker[call[c].w] + 1
        /\ onWorker[call[c].w] + 1 >= Cardinality(Decrementing(call[c].w) \ {c})
    BY <1>f, <1>n, <2>2
  <2> QED  BY <1>e, <2>1, <2>2, <2>3
<1>6. ASSUME NEW c \in StoreClients, LoadCurrent(c) PROVE StoreInv'
  <2>0. call[c].pc = "decrement" /\ call[c].op = "decrement" /\ UNCHANGED <<record, load, records>>
    BY <1>6, <1>s DEF LoadCurrent
  <2>1. CASE load[call[c].r] = 0
    <3>1. /\ call' = [call EXCEPT ![c] = Idling]
          /\ onWorker' = [onWorker EXCEPT ![call[c].w] = onWorker[call[c].w] - 1]
          /\ load' = [load EXCEPT ![call[c].r] = 0]
      BY <1>6, <1>t, <2>0, <2>1 DEF LoadCurrent
    <3>2. /\ call[c].w \in StoreWorkers /\ 0 \in Nat /\ onWorker[call[c].w] - 1 \in Nat
          /\ 0 <= onWorker[call[c].w] - 1
          /\ onWorker[call[c].w] - 1 >= Cardinality(Decrementing(call[c].w) \ {c})
      BY <1>f, <1>h, <1>n, <2>0
    <3> QED  BY <1>e, <2>0, <3>1, <3>2
  <2>2. CASE load[call[c].r] # 0
    <3> DEFINE m == [pc |-> "cas", op |-> "decrement", w |-> call[c].w, r |-> call[c].r, existed |-> TRUE,
                     current |-> load[call[c].r]]
    <3>1. call' = [call EXCEPT ![c] = m] /\ UNCHANGED onWorker
      BY <1>6, <2>2 DEF LoadCurrent
    <3>2. /\ m \in Swapping /\ m.pc = "cas" /\ m.w = call[c].w /\ m.r = call[c].r /\ m.current > 0
      BY <1>h, <1>s, <2>0, <2>2 DEF Swapping
    <3>3. m \notin Calling
      BY <3>2 DEF Calling, CallOps
    <3>4. c \in Decrementing(m.w) /\ m.w \in StoreWorkers /\ m.r = record[m.w] /\ m.r # 0
      BY <1>h, <2>0, <3>2
    <3> HIDE DEF m
    <3> QED  BY <1>q, <2>0, <3>1, <3>2, <3>3, <3>4
  <2> QED  BY <2>1, <2>2
<1>7. ASSUME NEW c \in StoreClients, CompareAndSwap(c) PROVE StoreInv'
  <2>0. call[c].pc = "cas" /\ call[c].op = "decrement" /\ call[c] \in Swapping /\ UNCHANGED <<record, records>>
    BY <1>7, <1>s DEF CompareAndSwap
  <2>1. CASE load[call[c].r] = call[c].current
    <3>1. /\ call' = [call EXCEPT ![c] = Idling]
          /\ onWorker' = [onWorker EXCEPT ![call[c].w] = onWorker[call[c].w] - 1]
          /\ load' = [load EXCEPT ![call[c].r] = load[call[c].r] - 1]
      BY <1>7, <2>1 DEF CompareAndSwap
    <3>2. load[call[c].r] > 0
      BY <1>0, <2>0, <2>1 DEF CallsHold
    <3>3. /\ onWorker[call[c].w] - 1 \in Nat /\ load[call[c].r] - 1 \in Nat
          /\ load[call[c].r] - 1 <= onWorker[call[c].w] - 1
          /\ onWorker[call[c].w] - 1 >= Cardinality(Decrementing(call[c].w) \ {c})
      BY <1>f, <1>h, <1>n, <2>0, <3>2
    <3> QED  BY <1>e, <1>h, <2>0, <3>1, <3>3
  <2>2. CASE load[call[c].r] # call[c].current
    <3> DEFINE m == [pc |-> "decrement", op |-> "decrement", w |-> call[c].w, r |-> call[c].r, existed |-> TRUE]
    <3>1. call' = [call EXCEPT ![c] = m] /\ UNCHANGED <<load, onWorker>>
      BY <1>7, <2>2 DEF CompareAndSwap
    <3>2. m \in Calling /\ m.pc = "decrement" /\ m.op = "decrement" /\ m.w = call[c].w /\ m.r = call[c].r
      BY <2>0 DEF Swapping, Calling, CallOps
    <3>3. c \in Decrementing(m.w) /\ m.w \in StoreWorkers /\ m.r = record[m.w] /\ m.r # 0
      BY <1>h, <2>0, <3>2
    <3> HIDE DEF m
    <3> QED  BY <1>q, <2>0, <3>1, <3>2, <3>3
  <2> QED  BY <2>1, <2>2
<1>8. CASE UNCHANGED storeVars
  <2>1. UNCHANGED <<record, load, records, call, onWorker>>
    BY <1>8 DEF storeVars
  <2> QED  BY <1>0, <2>1 DEF StoreInv, StoreTypes, RecordsDistinct, CallsHold, LoadBacked, Made, Decrementing, MaxRecords
<1> QED  BY <1>1, <1>2, <1>3, <1>4, <1>5, <1>6, <1>7, <1>8 DEF StoreNext

\* For any number of workers and goroutines: the goroutines that change the load of a worker
\* change one counter, and no decrement is lost, however registrations, leases,
\* completions and recoveries race (getOrCreate, incrementLoad, decrementLoad).
THEOREM LoadCountedHolds == StoreSpec => []LoadCounted
<1>1. StoreInv => LoadCounted
  BY DEF StoreInv, CallsHold, LoadBacked, LoadCounted, OneRecord, NoPhantomLoad
<1> QED  BY <1>1, StoreInvInit, StoreInvStep, PTL DEF StoreSpec

-----------------------------------------------------------------------------
(***************************************************************************)
(* The local object store.                                                 *)
(***************************************************************************)
PutRecords ==
    [pc : {"rest", "copy", "check", "rename", "syncdir"}, h : ObjHashes \cup {""}, n : Nat, size : Nat]

ObjTypes ==
    /\ final \in [ObjHashes -> {"absent", "foreign", "whole", "short"}]
    /\ put \in [ObjWriters -> PutRecords]
    /\ acked \subseteq ObjHashes /\ temps \subseteq ObjWriters /\ losses \in Nat

\* What a call of Put has established: the object's name, that the copy was whole once
\* it was compared, and, until the power fails, that what it renamed is still there.
PutsKnow ==
    \A p \in ObjWriters :
        /\ put[p].pc # "rest" => put[p].h \in ObjHashes
        /\ put[p].pc \in {"check", "rename", "syncdir"} => put[p].n = ObjChunks
        /\ put[p].pc = "syncdir" /\ losses = 0 => final[put[p].h] = "whole"

ObjInv == ObjTypes /\ PutsKnow /\ RefReadable /\ NoTempLeft

\* The store starts with nothing written and nobody writing.
LEMMA ObjInvInit == ObjInit => ObjInv
<1> SUFFICES ASSUME ObjInit PROVE ObjInv
  OBVIOUS
<1>1. final \in [ObjHashes -> {"absent", "foreign"}] /\ put = [p \in ObjWriters |-> LocalIdle]
      /\ temps = {} /\ acked = {} /\ losses = 0
  BY DEF ObjInit
<1>2. LocalIdle \in PutRecords /\ LocalIdle.pc = "rest"
  BY DEF LocalIdle, PutRecords
<1>3. put \in [ObjWriters -> PutRecords] /\ \A p \in ObjWriters : put[p].pc = "rest"
  BY <1>1, <1>2
<1>4. ObjTypes /\ PutsKnow
  BY <1>1, <1>3 DEF ObjTypes, PutsKnow
<1>5. RefReadable /\ NoTempLeft
  BY <1>1, <1>3 DEF RefReadable, NoTempLeft
<1> QED  BY <1>4, <1>5 DEF ObjInv

\* A call that returns with an error leaves nothing behind.
LEMMA PutFailsKeeps ==
    ASSUME ObjInv, NEW p \in ObjWriters, PutFails(p), UNCHANGED losses
    PROVE  ObjInv'
<1>1. LocalIdle \in PutRecords /\ LocalIdle.pc = "rest"
  BY DEF LocalIdle, PutRecords
<1>2. put' = [put EXCEPT ![p] = LocalIdle] /\ temps' = temps \ {p} /\ UNCHANGED <<final, acked, losses>>
  BY DEF PutFails
<1>3. put' \in [ObjWriters -> PutRecords] /\ put'[p].pc = "rest" /\ \A q \in ObjWriters : q # p => put'[q] = put[q]
  BY <1>1, <1>2 DEF ObjInv, ObjTypes
<1>4. ObjTypes' /\ PutsKnow'
  BY <1>2, <1>3 DEF ObjInv, ObjTypes, PutsKnow
<1>5. RefReadable'
  BY <1>2 DEF ObjInv, RefReadable
<1>6. NoTempLeft'
  BY <1>2, <1>3 DEF ObjInv, ObjTypes, NoTempLeft
<1> QED  BY <1>4, <1>5, <1>6 DEF ObjInv

\* A call that returns the ref of an object that is there, whole, leaves it there.
LEMMA PutReturnsKeeps ==
    ASSUME ObjInv, NEW p \in ObjWriters, put[p].pc # "rest", losses = 0 => final[put[p].h] = "whole",
           PutReturns(p), UNCHANGED <<final, losses>>
    PROVE  ObjInv'
<1>1. LocalIdle \in PutRecords /\ LocalIdle.pc = "rest"
  BY DEF LocalIdle, PutRecords
<1>2. /\ put' = [put EXCEPT ![p] = LocalIdle] /\ temps' = temps \ {p} /\ acked' = acked \cup {put[p].h}
      /\ UNCHANGED <<final, losses>>
  BY DEF PutReturns
<1>3. put' \in [ObjWriters -> PutRecords] /\ put'[p].pc = "rest" /\ \A q \in ObjWriters : q # p => put'[q] = put[q]
  BY <1>1, <1>2 DEF ObjInv, ObjTypes
<1>4. ObjTypes' /\ PutsKnow'
  BY <1>2, <1>3 DEF ObjInv, ObjTypes, PutsKnow
<1>5. RefReadable'
  BY <1>2 DEF ObjInv, RefReadable
<1>6. NoTempLeft'
  BY <1>2, <1>3 DEF ObjInv, ObjTypes, NoTempLeft
<1> QED  BY <1>4, <1>5, <1>6 DEF ObjInv

\* A call that goes on to its next step: only its own record changes.
LEMMA PutGoesOn ==
    ASSUME ObjInv, NEW p \in ObjWriters, NEW m \in PutRecords,
           put' = [put EXCEPT ![p] = m], m.pc # "rest", m.h \in ObjHashes,
           m.pc \in {"check", "rename"} => m.n = ObjChunks, m.pc # "syncdir",
           temps' \subseteq temps \cup {p}, UNCHANGED <<final, acked, losses>>
    PROVE  ObjInv'
<1>1. put' \in [ObjWriters -> PutRecords] /\ put'[p] = m /\ \A q \in ObjWriters : q # p => put'[q] = put[q]
  BY DEF ObjInv, ObjTypes
<1>2. ObjTypes' /\ PutsKnow'
  BY <1>1 DEF ObjInv, ObjTypes, PutsKnow
<1>3. RefReadable'
  BY DEF ObjInv, RefReadable
<1>4. NoTempLeft'
  BY <1>1 DEF ObjInv, ObjTypes, NoTempLeft
<1> QED  BY <1>2, <1>3, <1>4 DEF ObjInv

\* Every step of a writer, and a power loss, keep the invariant.
LEMMA ObjInvStep == ObjInv /\ [ObjNext]_objVars => ObjInv'
<1> SUFFICES ASSUME ObjInv, [ObjNext]_objVars PROVE ObjInv'
  OBVIOUS
<1>t. /\ put \in [ObjWriters -> PutRecords] /\ final \in [ObjHashes -> {"absent", "foreign", "whole", "short"}]
      /\ PutsKnow
  BY DEF ObjInv, ObjTypes
<1>1. ASSUME NEW p \in ObjWriters, CreateTemp(p) PROVE ObjInv'
  <2>1. PICK h \in ObjHashes : \E given \in {ObjChunks - 1, ObjChunks} :
          put' = [put EXCEPT ![p] = [pc |-> "copy", h |-> h, n |-> 0, size |-> given]]
    BY <1>1 DEF CreateTemp
  <2>2. PICK given \in {ObjChunks - 1, ObjChunks} :
          put' = [put EXCEPT ![p] = [pc |-> "copy", h |-> h, n |-> 0, size |-> given]]
    BY <2>1
  <2> DEFINE m == [pc |-> "copy", h |-> h, n |-> 0, size |-> given]
  <2>3. given \in Nat
    BY ObjAssumption
  <2>4. m \in PutRecords /\ m.pc = "copy" /\ m.h \in ObjHashes
    BY <2>3 DEF PutRecords
  <2>5. temps' = temps \cup {p} /\ UNCHANGED <<final, acked, losses>>
    BY <1>1 DEF CreateTemp
  <2> HIDE DEF m
  <2> QED  BY <2>2, <2>4, <2>5, PutGoesOn DEF m
<1>2. ASSUME NEW p \in ObjWriters, copyWithContext(p) PROVE ObjInv'
  <2>1. CASE PutFails(p)
    BY <1>2, <2>1, PutFailsKeeps DEF copyWithContext
  <2>2. CASE ~PutFails(p)
    <3> DEFINE k == put[p].n + 1
               m == [put[p] EXCEPT !.n = k]
    <3>0. put[p].pc = "copy"
      BY <1>2 DEF copyWithContext
    <3>1. put' = [put EXCEPT ![p].n = @ + 1] /\ UNCHANGED <<final, temps, acked, losses>>
      BY <1>2, <2>2 DEF copyWithContext
    <3>2. put' = [put EXCEPT ![p] = m]
      BY <1>t, <3>1
    <3>3. k \in Nat /\ put[p] \in PutRecords
      <4>1. put[p] \in PutRecords
        BY <1>t
      <4>2. put[p].n \in Nat
        BY <4>1 DEF PutRecords
      <4> QED  BY <4>1, <4>2
    <3> HIDE DEF k
    <3>4. m \in PutRecords /\ m.pc = put[p].pc /\ m.h = put[p].h
      BY <3>3 DEF PutRecords
    <3>5. m.pc = "copy" /\ m.h \in ObjHashes
      BY <1>t, <3>0, <3>4 DEF PutsKnow
    <3> HIDE DEF m
    <3> QED  BY <3>1, <3>2, <3>4, <3>5, PutGoesOn
  <2> QED  BY <2>1, <2>2
\* The next step of the call has the name pc.
<1>g. ASSUME NEW p \in ObjWriters, NEW pc \in {"check", "rename"}, put[p].pc # "rest", put[p].n = ObjChunks,
             put' = [put EXCEPT ![p].pc = pc], UNCHANGED <<final, temps, acked, losses>>
      PROVE  ObjInv'
  <2> DEFINE m == [put[p] EXCEPT !.pc = pc]
  <2>1. put' = [put EXCEPT ![p] = m]
    BY <1>t, <1>g
  <2>2. put[p] \in PutRecords /\ put[p].h \in ObjHashes
    BY <1>t, <1>g DEF PutsKnow
  <2>3. m \in PutRecords /\ m.pc = pc /\ m.h = put[p].h /\ m.n = put[p].n
    BY <2>2 DEF PutRecords
  <2> HIDE DEF m
  <2> QED  BY <1>g, <2>1, <2>2, <2>3, PutGoesOn
<1>3. ASSUME NEW p \in ObjWriters, SyncTemp(p) PROVE ObjInv'
  <2>1. put[p].pc = "copy" /\ UNCHANGED losses
    BY <1>3 DEF SyncTemp
  <2>2. CASE put[p].n # ObjChunks
    BY <1>3, <2>1, <2>2, PutFailsKeeps DEF SyncTemp
  <2>3. CASE put[p].n = ObjChunks
    <3>1. put' = [put EXCEPT ![p].pc = "check"] /\ UNCHANGED <<final, temps, acked>>
      BY <1>3, <2>3 DEF SyncTemp
    <3> QED  BY <1>g, <2>1, <2>3, <3>1
  <2> QED  BY <2>2, <2>3
<1>4. ASSUME NEW p \in ObjWriters, fileSHA256Matches(p) PROVE ObjInv'
  <2>1. put[p].pc = "check" /\ UNCHANGED losses /\ put[p].n = ObjChunks
    BY <1>4, <1>t DEF fileSHA256Matches, PutsKnow
  <2>2. CASE final[put[p].h] = "whole"
    BY <1>4, <2>1, <2>2, PutReturnsKeeps DEF fileSHA256Matches
  <2>3. CASE final[put[p].h] = "absent"
    <3>1. put' = [put EXCEPT ![p].pc = "rename"] /\ UNCHANGED <<final, temps, acked>>
      BY <1>4, <2>3 DEF fileSHA256Matches
    <3> QED  BY <1>g, <2>1, <3>1
  <2>4. CASE final[put[p].h] \notin {"whole", "absent"}
    BY <1>4, <2>1, <2>4, PutFailsKeeps DEF fileSHA256Matches
  <2> QED  BY <2>2, <2>3, <2>4
<1>5. ASSUME NEW p \in ObjWriters, Rename(p) PROVE ObjInv'
  <2>1. put[p].pc = "rename" /\ UNCHANGED losses /\ put[p].n = ObjChunks /\ put[p].h \in ObjHashes
    BY <1>5, <1>t DEF Rename, PutsKnow
  <2>2. CASE /\ final' = [final EXCEPT ![put[p].h] = IF put[p].n = ObjChunks THEN "whole" ELSE "short"]
             /\ put' = [put EXCEPT ![p].pc = "syncdir"] /\ temps' = temps \ {p}
             /\ UNCHANGED <<synced, acked>>
    <3> DEFINE m == [put[p] EXCEPT !.pc = "syncdir"]
    <3>1. put' = [put EXCEPT ![p] = m]
      BY <1>t, <2>2
    <3>2. m \in PutRecords /\ m.pc = "syncdir" /\ m.h = put[p].h /\ m.n = put[p].n
      BY <1>t DEF PutRecords
    <3> HIDE DEF m
    <3>3. final' = [final EXCEPT ![put[p].h] = "whole"]
      BY <2>1, <2>2
    <3>4. /\ put' \in [ObjWriters -> PutRecords] /\ put'[p] = m /\ \A q \in ObjWriters : q # p => put'[q] = put[q]
          /\ final' \in [ObjHashes -> {"absent", "foreign", "whole", "short"}] /\ final'[put[p].h] = "whole"
          /\ \A h \in ObjHashes : h # put[p].h => final'[h] = final[h]
      BY <1>t, <2>1, <3>1, <3>2, <3>3
    <3>5. ObjTypes'
      BY <2>1, <2>2, <3>4 DEF ObjInv, ObjTypes
    <3>6. PutsKnow'
      BY <1>t, <2>1, <3>2, <3>4 DEF PutsKnow
    <3>7. RefReadable'
      BY <2>1, <2>2, <3>4 DEF ObjInv, ObjTypes, RefReadable
    <3>8. NoTempLeft'
      BY <2>1, <2>2, <3>4, <3>2 DEF ObjInv, ObjTypes, NoTempLeft
    <3> QED  BY <3>5, <3>6, <3>7, <3>8 DEF ObjInv
  <2>3. CASE IF final[put[p].h] = "whole" THEN PutReturns(p) /\ UNCHANGED <<final, synced>> ELSE PutFails(p)
    <3>1. CASE final[put[p].h] = "whole"
      BY <2>1, <2>3, <3>1, PutReturnsKeeps
    <3>2. CASE final[put[p].h] # "whole"
      BY <2>1, <2>3, <3>2, PutFailsKeeps
    <3> QED  BY <3>1, <3>2
  <2> QED  BY <1>5, <2>2, <2>3 DEF Rename
<1>6. ASSUME NEW p \in ObjWriters, syncDir(p) PROVE ObjInv'
  <2>1. put[p].pc = "syncdir" /\ UNCHANGED losses /\ (losses = 0 => final[put[p].h] = "whole")
    BY <1>6, <1>t DEF syncDir, PutsKnow
  <2>2. CASE PutFails(p)
    BY <2>1, <2>2, PutFailsKeeps
  <2>3. CASE PutReturns(p) /\ UNCHANGED final
    BY <2>1, <2>3, PutReturnsKeeps
  <2> QED  BY <1>6, <2>2, <2>3 DEF syncDir
<1>7. ASSUME PowerLoss PROVE ObjInv'
  <2>1. /\ put' = [p \in ObjWriters |-> LocalIdle] /\ losses' = losses + 1 /\ UNCHANGED <<temps, acked>>
    BY <1>7 DEF PowerLoss
  <2>2. PICK lost \in SUBSET (ObjHashes \ synced) :
          final' = [h \in ObjHashes |-> IF h \in lost THEN "absent" ELSE final[h]]
    BY <1>7 DEF PowerLoss
  <2>3. LocalIdle \in PutRecords /\ LocalIdle.pc = "rest"
    BY DEF LocalIdle, PutRecords
  <2>4. put' \in [ObjWriters -> PutRecords] /\ \A p \in ObjWriters : put'[p].pc = "rest"
    BY <2>1, <2>3
  <2>5. final' \in [ObjHashes -> {"absent", "foreign", "whole", "short"}] /\ \A h \in ObjHashes : final'[h] # "short"
    BY <1>t, <2>2 DEF ObjInv, RefReadable
  <2>6. losses' \in Nat /\ losses' # 0
    BY <2>1 DEF ObjInv, ObjTypes
  <2>7. ObjTypes' /\ PutsKnow'
    BY <2>1, <2>4, <2>5, <2>6 DEF ObjInv, ObjTypes, PutsKnow
  <2>8. RefReadable' /\ NoTempLeft'
    BY <2>5, <2>6 DEF RefReadable, NoTempLeft
  <2> QED  BY <2>7, <2>8 DEF ObjInv
<1>8. ASSUME UNCHANGED objVars PROVE ObjInv'
  BY <1>8 DEF objVars, ObjInv, ObjTypes, PutsKnow, RefReadable, NoTempLeft
<1> QED  BY <1>1, <1>2, <1>3, <1>4, <1>5, <1>6, <1>7, <1>8 DEF ObjNext

\* Put publishes whole objects and nothing else (local.go: Put): for any number of
\* writers of the same or of other content, with a cancelled copy, a failed rename or a
\* failed sync at any point, a ref that was returned opens the whole object while there
\* is power, no final path ever holds a part of one, also after a power loss, and no
\* temporary file outlives its call.
THEOREM ObjectsPublishedHolds == ObjSpec => []ObjectsPublished
<1>1. ObjInv => ObjectsPublished
  BY DEF ObjInv, ObjectsPublished
<1> QED  BY <1>1, ObjInvInit, ObjInvStep, PTL DEF ObjSpec

-----------------------------------------------------------------------------
(***************************************************************************)
(* The S3 object store.                                                    *)
(***************************************************************************)
S3Puts ==
    [pc : {"rest", "bucket", "single", "create", "parts", "abort"}, n : S3Sizes \cup {0}, id : Nat, offset : Nat]

S3Types ==
    /\ objects \in [S3Sizes -> Nat] /\ answered \subseteq S3Sizes /\ nextId \in Nat
    /\ uploads \subseteq [id : Nat, n : S3Sizes, units : Nat]
    /\ s3put \in [S3Writers -> S3Puts]

\* The service knows each upload by an id of its own, given out once.
IdsUnique ==
    /\ \A u \in uploads : u.id # 0 /\ u.id <= nextId
    /\ \A u, v \in uploads : u.id = v.id => u = v

\* A call holds the id of an upload from the reply that brought it to its return, no two
\* calls hold the same one, and what the service received is what the call has sent.
PutsTrack ==
    /\ \A p \in S3Writers :
        /\ s3put[p].pc # "rest" => s3put[p].n \in S3Sizes
        /\ s3put[p].pc \notin {"parts", "abort"} => s3put[p].id = 0 /\ s3put[p].offset = 0
        /\ s3put[p].pc \in {"parts", "abort"} => s3put[p].id # 0 /\ s3put[p].id <= nextId
        /\ s3put[p].pc = "parts" =>
             /\ s3put[p].offset <= s3put[p].n
             /\ \E u \in uploads : u.id = s3put[p].id /\ u.n = s3put[p].n /\ u.units = s3put[p].offset
    /\ \A p, q \in S3Writers : s3put[p].id = s3put[q].id /\ s3put[p].id # 0 => p = q

S3Inv == S3Types /\ IdsUnique /\ PutsTrack /\ ObjectWhole /\ NoOrphanUpload /\ ReadWhole

\* The smaller of two sizes.
LEMMA SmallerOf ==
    ASSUME NEW a \in Nat, NEW b \in Nat
    PROVE  Smaller(a, b) \in Nat /\ Smaller(a, b) <= a /\ Smaller(a, b) <= b /\ Smaller(a, b) \in {a, b}
BY DEF Smaller

\* A call that is over holds nothing.
LEMMA NoPutType == NoPut \in S3Puts /\ NoPut.pc = "rest" /\ NoPut.id = 0 /\ NoPut.offset = 0
BY DEF NoPut, S3Puts

\* Nothing is stored and nobody writes at the start.
LEMMA S3InvInit == S3Init => S3Inv
<1> SUFFICES ASSUME S3Init PROVE S3Inv
  OBVIOUS
<1>1. /\ objects = [n \in S3Sizes |-> 0] /\ uploads = {} /\ s3put = [p \in S3Writers |-> NoPut]
      /\ answered = {} /\ nextId = 0 /\ got = [ok |-> FALSE, n |-> 0, whole |-> 0]
  BY DEF S3Init
<1>2. s3put \in [S3Writers -> S3Puts] /\ \A p \in S3Writers : s3put[p].pc = "rest" /\ s3put[p].id = 0 /\ s3put[p].offset = 0
  BY <1>1, NoPutType
<1>3. S3Types /\ IdsUnique
  BY <1>1, <1>2 DEF S3Types, IdsUnique
<1>4. PutsTrack
  BY <1>2 DEF PutsTrack
<1>5. ObjectWhole /\ NoOrphanUpload /\ ReadWhole
  BY <1>1 DEF ObjectWhole, NoOrphanUpload, ReadWhole
<1> QED  BY <1>3, <1>4, <1>5 DEF S3Inv

\* One call changes what it holds, keeps its upload or has none, and the service keeps
\* the uploads of the other calls: the invariant but for what is stored and read.
LEMMA S3Moves ==
    ASSUME S3Inv, NEW p \in S3Writers, NEW m \in S3Puts, s3put' = [s3put EXCEPT ![p] = m],
           nextId' \in Nat, nextId <= nextId',
           m.pc # "rest" => m.n \in S3Sizes,
           m.pc \notin {"parts", "abort"} => m.id = 0 /\ m.offset = 0,
           m.pc \in {"parts", "abort"} => m.id # 0 /\ m.id <= nextId',
           m.pc = "parts" => /\ m.offset <= m.n
                             /\ \E u \in uploads' : u.id = m.id /\ u.n = m.n /\ u.units = m.offset,
           m.id \in {0, s3put[p].id} \/ m.id > nextId,
           \A u \in uploads : u.id # s3put[p].id => u \in uploads',
           \A u \in uploads' : u \in uploads \/ u.id = s3put[p].id \/ u.id > nextId
    PROVE  s3put' \in [S3Writers -> S3Puts] /\ PutsTrack'
<1>t. /\ s3put \in [S3Writers -> S3Puts] /\ nextId \in Nat /\ PutsTrack
  BY DEF S3Inv, S3Types
<1>1. /\ s3put' \in [S3Writers -> S3Puts] /\ s3put'[p] = m /\ \A q \in S3Writers : q # p => s3put'[q] = s3put[q]
  BY <1>t
<1>n. m.id \in Nat /\ \A q \in S3Writers : s3put[q].id \in Nat
  BY <1>t DEF S3Puts
<1>2. ASSUME NEW q \in S3Writers, q # p, s3put[q].pc = "parts"
      PROVE  \E u \in uploads' : u.id = s3put[q].id /\ u.n = s3put[q].n /\ u.units = s3put[q].offset
  <2>1. PICK u \in uploads : u.id = s3put[q].id /\ u.n = s3put[q].n /\ u.units = s3put[q].offset
    BY <1>2, <1>t DEF PutsTrack
  <2>2. s3put[q].id # s3put[p].id
    BY <1>2, <1>t DEF PutsTrack
  <2> QED  BY <2>1, <2>2
<1>3. \A q \in S3Writers : s3put[q].id <= nextId
  BY <1>t, <1>n DEF PutsTrack
<1>4. \A q \in S3Writers : q # p /\ s3put[q].id = m.id => m.id = 0
  BY <1>t, <1>n, <1>3 DEF PutsTrack
<1>5. ASSUME NEW q \in S3Writers
      PROVE  /\ s3put'[q].pc # "rest" => s3put'[q].n \in S3Sizes
             /\ s3put'[q].pc \notin {"parts", "abort"} => s3put'[q].id = 0 /\ s3put'[q].offset = 0
             /\ s3put'[q].pc \in {"parts", "abort"} => s3put'[q].id # 0 /\ s3put'[q].id <= nextId'
             /\ s3put'[q].pc = "parts" =>
                  /\ s3put'[q].offset <= s3put'[q].n
                  /\ \E u \in uploads' : u.id = s3put'[q].id /\ u.n = s3put'[q].n /\ u.units = s3put'[q].offset
  <2>1. CASE q = p
    BY <1>1, <2>1
  <2>2. CASE q # p
    <3>1. s3put'[q] = s3put[q]
      BY <1>1, <2>2
    <3>2. s3put[q].id <= nextId'
      BY <1>n, <1>3, <1>t
    <3> QED  BY <1>2, <1>t, <2>2, <3>1, <3>2 DEF PutsTrack
  <2> QED  BY <2>1, <2>2
<1>6. \A q, r \in S3Writers : s3put'[q].id = s3put'[r].id /\ s3put'[q].id # 0 => q = r
  BY <1>t, <1>1, <1>4 DEF PutsTrack
<1> QED  BY <1>1, <1>5, <1>6 DEF PutsTrack

\* The uploads of the service after a step of the call p: those of others are owned as
\* before, that of p is gone, still held or counted as lost.
LEMMA S3Owners ==
    ASSUME S3Inv, NEW p \in S3Writers, NEW m \in S3Puts, s3put' = [s3put EXCEPT ![p] = m],
           abortLost \subseteq abortLost',
           \A u \in uploads' : \/ u \in uploads /\ u.id # s3put[p].id
                               \/ u.id \in abortLost'
                               \/ u.id = m.id /\ m.pc # "rest"
    PROVE  NoOrphanUpload'
<1>t. s3put \in [S3Writers -> S3Puts]
  BY DEF S3Inv, S3Types
<1>1. s3put'[p] = m /\ \A q \in S3Writers : q # p => s3put'[q] = s3put[q]
  BY <1>t
<1>2. ASSUME NEW u \in uploads'
      PROVE  u.id \in abortLost' \/ \E q \in S3Writers : s3put'[q].pc # "rest" /\ s3put'[q].id = u.id
  <2>1. CASE u \in uploads /\ u.id # s3put[p].id
    <3>1. u.id \in abortLost \/ \E q \in S3Writers : s3put[q].pc # "rest" /\ s3put[q].id = u.id
      BY <2>1 DEF S3Inv, NoOrphanUpload
    <3> QED  BY <1>1, <2>1, <3>1
  <2>2. CASE u.id = m.id /\ m.pc # "rest"
    BY <1>1, <2>2
  <2> QED  BY <1>2, <2>1, <2>2
<1> QED  BY <1>2 DEF NoOrphanUpload

\* Every request of a call, carried out, refused or without a reply, keeps the invariant.
LEMMA S3InvStep == S3Inv /\ [S3Next]_s3Vars => S3Inv'
<1> SUFFICES ASSUME S3Inv, [S3Next]_s3Vars PROVE S3Inv'
  OBVIOUS
<1>t. /\ objects \in [S3Sizes -> Nat] /\ answered \subseteq S3Sizes /\ nextId \in Nat
      /\ uploads \subseteq [id : Nat, n : S3Sizes, units : Nat]
      /\ s3put \in [S3Writers -> S3Puts] /\ IdsUnique /\ PutsTrack /\ ObjectWhole /\ ReadWhole
  BY DEF S3Inv, S3Types
<1>s. \A n \in S3Sizes : n \in Nat /\ n # 0
  BY S3Assumption
<1>u. \A u \in uploads : u.id \in Nat /\ u.id # 0 /\ u.id <= nextId
  BY <1>t DEF IdsUnique
<1>p. ASSUME NEW p \in S3Writers
      PROVE  /\ s3put[p] \in S3Puts /\ s3put[p].id \in Nat /\ s3put[p].offset \in Nat
             /\ s3put[p].pc # "rest" => s3put[p].n \in S3Sizes
             /\ s3put[p].pc \notin {"parts", "abort"} => s3put[p].id = 0 /\ s3put[p].offset = 0
  BY <1>p, <1>t DEF PutsTrack, S3Puts
\* A call takes a step of its own, and the service keeps its uploads and objects.
<1>a. ASSUME NEW p \in S3Writers, NEW m \in S3Puts, s3put' = [s3put EXCEPT ![p] = m],
             m.pc # "rest" => m.n \in S3Sizes,
             m.pc \notin {"parts", "abort"} => s3put[p].id = 0 /\ m.id = 0 /\ m.offset = 0,
             m.pc # "parts", m.pc = "abort" => s3put[p].pc \in {"parts", "abort"} /\ m.id = s3put[p].id,
             nextId' \in Nat, nextId <= nextId', UNCHANGED <<uploads, abortLost, objects, answered, got>>
      PROVE  S3Inv'
  <2>1. m.pc = "abort" => m.id # 0 /\ m.id <= nextId'
    BY <1>a, <1>p, <1>t DEF PutsTrack
  <2>2. m.pc \in {"rest", "bucket", "single", "create", "parts", "abort"}
    BY <1>a DEF S3Puts
  <2>3. s3put' \in [S3Writers -> S3Puts] /\ PutsTrack'
    <3>1. m.id \in {0, s3put[p].id}
      BY <1>a, <2>2
    <3>2. m.pc \in {"parts", "abort"} => m.id # 0 /\ m.id <= nextId'
      BY <1>a, <2>1
    <3> QED  BY <1>a, <2>1, <2>2, <3>1, <3>2, S3Moves
  <2>4. NoOrphanUpload'
    <3>1. ASSUME NEW u \in uploads PROVE u.id # s3put[p].id \/ (u.id = m.id /\ m.pc # "rest")
      BY <1>a, <1>u, <2>2
    <3> QED  BY <1>a, <3>1, S3Owners
  <2>5. IdsUnique'
    BY <1>a, <1>t, <1>u DEF IdsUnique
  <2>6. S3Types' /\ ObjectWhole' /\ ReadWhole'
    BY <1>a, <1>t, <2>3 DEF S3Types, ObjectWhole, ReadWhole
  <2> QED  BY <2>3, <2>4, <2>5, <2>6 DEF S3Inv
<1>1. ASSUME NEW p \in S3Writers, ensureBucket(p) PROVE S3Inv'
  <2>0. s3put[p].pc = "rest" /\ nextId' = nextId + 1 /\ UNCHANGED <<objects, uploads, answered, abortLost, got>>
    BY <1>1 DEF ensureBucket
  <2>1. s3put[p].id = 0 /\ nextId' \in Nat /\ nextId <= nextId'
    BY <1>p, <1>t, <2>0
  <2>2. PICK n \in S3Sizes :
         s3put' = [s3put EXCEPT ![p] =
            IF bucket = "failed" THEN NoPut
            ELSE [NoPut EXCEPT !.n = n, !.pc = IF bucket = "unknown" THEN "bucket"
                                               ELSE IF n >= PartUnits THEN "create" ELSE "single"]]
    BY <1>1 DEF ensureBucket
  <2>3. CASE bucket = "failed"
    <3>1. s3put' = [s3put EXCEPT ![p] = NoPut]
      BY <2>2, <2>3
    <3>2. NoPut.pc \notin {"parts", "abort"}
      BY NoPutType
    <3> QED  BY <1>a, <2>0, <2>1, <3>1, <3>2, NoPutType
  <2>4. CASE bucket # "failed"
    <3> DEFINE c == IF bucket = "unknown" THEN "bucket" ELSE IF n >= PartUnits THEN "create" ELSE "single"
               m == [NoPut EXCEPT !.n = n, !.pc = c]
    <3>1. s3put' = [s3put EXCEPT ![p] = m]
      BY <2>2, <2>4
    <3>2. c \in {"bucket", "create", "single"}
      OBVIOUS
    <3> HIDE DEF c
    <3>3. m \in S3Puts /\ m.pc = c /\ m.n = n /\ m.id = 0 /\ m.offset = 0
      BY <3>2 DEF NoPut, S3Puts
    <3> HIDE DEF m
    <3> QED  BY <1>a, <2>0, <2>1, <3>1, <3>2, <3>3
  <2> QED  BY <2>3, <2>4
<1>2. ASSUME NEW p \in S3Writers, CreateBucket(p) PROVE S3Inv'
  <2>0. s3put[p].pc = "bucket" /\ UNCHANGED <<objects, uploads, answered, abortLost, nextId, got>>
    BY <1>2 DEF CreateBucket
  <2>1. s3put[p].id = 0 /\ nextId' \in Nat /\ nextId <= nextId' /\ s3put[p].n \in S3Sizes /\ s3put[p].offset = 0
    BY <1>p, <1>t, <2>0
  <2>2. CASE Fail(p)
    <3>1. s3put' = [s3put EXCEPT ![p] = NoPut]
      BY <2>2 DEF Fail
    <3> QED  BY <1>a, <2>0, <2>1, <3>1, NoPutType
  <2>3. CASE Step(p, IF s3put[p].n >= PartUnits THEN "create" ELSE "single")
    <3> DEFINE c == IF s3put[p].n >= PartUnits THEN "create" ELSE "single"
               m == [s3put[p] EXCEPT !.pc = c]
    <3>1. s3put' = [s3put EXCEPT ![p] = m]
      BY <1>t, <2>3 DEF Step
    <3>2. c \in {"create", "single"}
      OBVIOUS
    <3> HIDE DEF c
    <3>3. m \in S3Puts /\ m.pc = c /\ m.n = s3put[p].n /\ m.id = s3put[p].id /\ m.offset = s3put[p].offset
      BY <1>p, <3>2 DEF S3Puts
    <3> HIDE DEF m
    <3> QED  BY <1>a, <2>0, <2>1, <3>1, <3>2, <3>3
  <2> QED  BY <1>2, <2>2, <2>3 DEF CreateBucket
<1>3. ASSUME NEW p \in S3Writers, putSingle(p) PROVE S3Inv'
  <2>0. s3put[p].pc = "single" /\ UNCHANGED <<uploads, abortLost, nextId, got>> /\ s3put' = [s3put EXCEPT ![p] = NoPut]
    BY <1>3 DEF putSingle, Fail
  <2>1. s3put[p].id = 0 /\ s3put[p].n \in S3Sizes
    BY <1>p, <2>0
  <2>2. /\ objects' = objects \/ objects' = [objects EXCEPT ![s3put[p].n] = s3put[p].n]
        /\ answered' = answered \/ (/\ answered' = answered \cup {s3put[p].n}
                                    /\ objects' = [objects EXCEPT ![s3put[p].n] = s3put[p].n])
    BY <1>3 DEF putSingle
  <2>3. s3put' \in [S3Writers -> S3Puts] /\ PutsTrack'
    <3>1. /\ NoPut \in S3Puts /\ NoPut.pc = "rest" /\ NoPut.id = 0 /\ NoPut.offset = 0
          /\ NoPut.pc \notin {"parts", "abort"}
      BY NoPutType
    <3>2. nextId' \in Nat /\ nextId <= nextId' /\ uploads' = uploads
      BY <1>t, <2>0
    <3> QED  BY <2>0, <2>1, <3>1, <3>2, S3Moves
  <2>4. NoOrphanUpload'
    BY <1>u, <2>0, <2>1, NoPutType, S3Owners, ZenonT(30)
  <2>5. s3put[p].n \in Nat
    BY <1>s, <2>1
  <2>6. objects' \in [S3Sizes -> Nat] /\ answered' \subseteq S3Sizes
    BY <1>t, <2>1, <2>2, <2>5
  <2>7. ObjectWhole'
    BY <1>t, <2>1, <2>2 DEF ObjectWhole
  <2>8. IdsUnique' /\ ReadWhole' /\ S3Types'
    BY <1>t, <2>0, <2>3, <2>6 DEF IdsUnique, ReadWhole, S3Types
  <2> QED  BY <2>3, <2>4, <2>7, <2>8 DEF S3Inv
<1>4. ASSUME NEW p \in S3Writers, createMultipartUpload(p) PROVE S3Inv'
  <2>0. s3put[p].pc = "create" /\ nextId' = nextId + 1 /\ UNCHANGED <<objects, answered, got>>
    BY <1>4 DEF createMultipartUpload
  <2>1. /\ s3put[p].id = 0 /\ nextId' \in Nat /\ nextId <= nextId' /\ s3put[p].n \in S3Sizes /\ s3put[p].offset = 0
        /\ nextId' > nextId /\ nextId' # 0
    BY <1>p, <1>t, <2>0
  <2> DEFINE new == [id |-> nextId', n |-> s3put[p].n, units |-> 0]
  <2>2. CASE Fail(p) /\ UNCHANGED <<uploads, abortLost>>
    <3>1. s3put' = [s3put EXCEPT ![p] = NoPut]
      BY <2>2 DEF Fail
    <3> QED  BY <1>a, <2>0, <2>1, <2>2, <3>1, NoPutType
  <2>3. CASE uploads' = uploads \cup {[id |-> nextId + 1, n |-> s3put[p].n, units |-> 0]}
    <3>1. uploads' = uploads \cup {new}
      BY <2>0, <2>3
    <3>2. new \in [id : Nat, n : S3Sizes, units : Nat] /\ new.id = nextId' /\ new.n = s3put[p].n /\ new.units = 0
      BY <2>1
    <3> HIDE DEF new
    <3>3. IdsUnique'
      BY <1>t, <1>u, <2>1, <3>1, <3>2 DEF IdsUnique
    <3>4. uploads' \subseteq [id : Nat, n : S3Sizes, units : Nat] /\ ObjectWhole' /\ ReadWhole'
      BY <1>t, <2>0, <3>1, <3>2 DEF ObjectWhole, ReadWhole
    <3>5. CASE Fail(p) /\ abortLost' = abortLost \cup {nextId + 1}
      <4>1. s3put' = [s3put EXCEPT ![p] = NoPut]
        BY <3>5 DEF Fail
      <4>2. s3put' \in [S3Writers -> S3Puts] /\ PutsTrack'
        <5>1. /\ NoPut \in S3Puts /\ NoPut.pc = "rest" /\ NoPut.id = 0 /\ NoPut.offset = 0
              /\ NoPut.pc \notin {"parts", "abort"}
          BY NoPutType
        <5>2. \A u \in uploads' : u \in uploads \/ u.id > nextId
          BY <2>1, <3>1, <3>2
        <5> QED  BY <2>1, <3>1, <4>1, <5>1, <5>2, S3Moves
      <4>3. NoOrphanUpload'
        <5>1. abortLost' = abortLost \cup {nextId'}
          BY <2>0, <3>5
        <5>2. ASSUME NEW u \in uploads'
              PROVE  (u \in uploads /\ u.id # s3put[p].id) \/ u.id \in abortLost'
          BY <1>u, <2>1, <3>1, <3>2, <5>1
        <5>3. abortLost \subseteq abortLost'
          BY <5>1
        <5> QED  BY <4>1, <5>2, <5>3, NoPutType, S3Owners
      <4>4. S3Types'
        BY <1>t, <2>0, <2>1, <3>4, <4>2 DEF S3Types
      <4> QED  BY <3>3, <3>4, <4>2, <4>3, <4>4 DEF S3Inv
    <3>6. CASE s3put' = [s3put EXCEPT ![p].pc = "parts", ![p].id = nextId + 1] /\ UNCHANGED abortLost
      <4> DEFINE i == nextId'
                 m == [s3put[p] EXCEPT !.pc = "parts", !.id = i]
      <4>1. s3put' = [s3put EXCEPT ![p] = m]
        BY <1>t, <2>0, <3>6
      <4> HIDE DEF i
      <4>2. i \in Nat /\ i = nextId'
        BY <2>1 DEF i
      <4>3. m \in S3Puts /\ m.pc = "parts" /\ m.id = i /\ m.n = s3put[p].n /\ m.offset = s3put[p].offset
        BY <1>p, <4>2 DEF S3Puts
      <4> HIDE DEF m
      <4>4. s3put' \in [S3Writers -> S3Puts] /\ PutsTrack'
        <5>1. m.offset <= m.n /\ \E u \in uploads' : u.id = m.id /\ u.n = m.n /\ u.units = m.offset
          BY <1>s, <2>1, <3>1, <3>2, <4>2, <4>3
        <5>2. m.id # 0 /\ m.id <= nextId' /\ m.id > nextId
          BY <2>1, <4>2, <4>3
        <5>3. /\ \A u \in uploads : u \in uploads'
              /\ \A u \in uploads' : u \in uploads \/ u.id > nextId
          BY <2>1, <3>1, <3>2
        <5> QED  BY <2>1, <4>1, <4>3, <5>1, <5>2, <5>3, S3Moves
      <4>5. NoOrphanUpload'
        <5>1. ASSUME NEW u \in uploads'
              PROVE  (u \in uploads /\ u.id # s3put[p].id) \/ (u.id = m.id /\ m.pc # "rest")
          BY <1>u, <2>1, <3>1, <3>2, <4>2, <4>3
        <5>2. abortLost \subseteq abortLost'
          BY <3>6
        <5> QED  BY <4>1, <4>3, <5>1, <5>2, S3Owners
      <4>6. S3Types'
        BY <1>t, <2>0, <2>1, <3>4, <4>4 DEF S3Types
      <4> QED  BY <3>3, <3>4, <4>4, <4>5, <4>6 DEF S3Inv
    <3> QED  BY <1>4, <2>3, <3>5, <3>6, <2>2 DEF createMultipartUpload
  <2> QED  BY <1>4, <2>2, <2>3 DEF createMultipartUpload
<1>5. ASSUME NEW p \in S3Writers, uploadParts(p) PROVE S3Inv'
  <2>0. /\ s3put[p].pc = "parts" /\ s3put[p].offset < s3put[p].n
        /\ UNCHANGED <<objects, answered, abortLost, nextId, got>>
    BY <1>5 DEF uploadParts
  <2>1. s3put[p].n \in S3Sizes /\ s3put[p].n \in Nat /\ s3put[p].id # 0 /\ s3put[p].id <= nextId
    BY <1>p, <1>s, <1>t, <2>0 DEF PutsTrack
  <2>2. CASE Step(p, "abort") /\ UNCHANGED uploads
    <3> DEFINE m == [s3put[p] EXCEPT !.pc = "abort"]
    <3>1. s3put' = [s3put EXCEPT ![p] = m]
      BY <1>t, <2>2 DEF Step
    <3>2. m \in S3Puts /\ m.pc = "abort" /\ m.n = s3put[p].n /\ m.id = s3put[p].id
      BY <1>p DEF S3Puts
    <3> HIDE DEF m
    <3>3. nextId' \in Nat /\ nextId <= nextId'
      BY <1>t, <2>0
    <3> QED  BY <1>a, <2>0, <2>1, <2>2, <3>1, <3>2, <3>3
  <2>3. CASE /\ uploads' = {IF u.id = s3put[p].id THEN [u EXCEPT !.units = @ + PartSize(p)] ELSE u : u \in uploads}
             /\ s3put' = [s3put EXCEPT ![p].offset = @ + Smaller(PartUnits, s3put[p].n - s3put[p].offset)]
    <3> DEFINE part == PartSize(p)
               sent == s3put[p].offset + part
               m == [s3put[p] EXCEPT !.offset = sent]
    <3>1. part \in Nat /\ sent \in Nat /\ sent <= s3put[p].n
      <4>1. s3put[p].n - s3put[p].offset \in Nat /\ PartUnits \in Nat
        BY <1>p, <2>0, <2>1, S3Assumption
      <4>2. part \in Nat /\ part <= s3put[p].n - s3put[p].offset
        BY <4>1, SmallerOf DEF PartSize
      <4> HIDE DEF part
      <4> QED  BY <1>p, <2>1, <4>2
    <3>2. s3put' = [s3put EXCEPT ![p] = m]
      BY <1>t, <2>3 DEF PartSize
    <3>3. uploads' = {IF u.id = s3put[p].id THEN [u EXCEPT !.units = u.units + part] ELSE u : u \in uploads}
      BY <2>3
    <3> HIDE DEF part, sent
    <3>4. m \in S3Puts /\ m.pc = "parts" /\ m.id = s3put[p].id /\ m.n = s3put[p].n /\ m.offset = sent
      BY <1>p, <2>0, <3>1 DEF S3Puts
    <3> HIDE DEF m
    <3>5. PICK v \in uploads : v.id = s3put[p].id /\ v.n = s3put[p].n /\ v.units = s3put[p].offset
      BY <1>t, <2>0 DEF PutsTrack
    <3> DEFINE w == [v EXCEPT !.units = sent]
    <3>6. w.id = s3put[p].id /\ w.n = s3put[p].n /\ w.units = sent /\ w \in [id : Nat, n : S3Sizes, units : Nat]
      BY <1>t, <3>1, <3>5
    <3>7. \A u \in uploads : u.id = s3put[p].id => u = v
      BY <1>t, <3>5 DEF IdsUnique
    <3>8. w = [v EXCEPT !.units = v.units + part]
      BY <3>5 DEF sent
    <3> HIDE DEF w
    <3>9. /\ \A u \in uploads' : u = w \/ (u \in uploads /\ u.id # s3put[p].id)
          /\ \A u \in uploads : u.id # s3put[p].id => u \in uploads'
          /\ w \in uploads'
      BY <3>3, <3>5, <3>7, <3>8
    <3>10. IdsUnique'
      BY <1>t, <2>0, <2>1, <3>6, <3>9 DEF IdsUnique
    <3>11. s3put' \in [S3Writers -> S3Puts] /\ PutsTrack'
      <4>1. m.offset <= m.n /\ \E u \in uploads' : u.id = m.id /\ u.n = m.n /\ u.units = m.offset
        BY <3>1, <3>4, <3>6, <3>9
      <4>2. nextId' \in Nat /\ nextId <= nextId' /\ m.id # 0 /\ m.id <= nextId'
        BY <1>t, <2>0, <2>1, <3>4
      <4>3. \A u \in uploads' : u \in uploads \/ u.id = s3put[p].id
        BY <3>6, <3>9
      <4> QED  BY <2>1, <3>2, <3>4, <3>9, <4>1, <4>2, <4>3, S3Moves
    <3>12. NoOrphanUpload'
      <4>1. \A u \in uploads' : (u \in uploads /\ u.id # s3put[p].id) \/ (u.id = m.id /\ m.pc # "rest")
        BY <3>4, <3>6, <3>9
      <4>2. abortLost \subseteq abortLost'
        BY <2>0
      <4> QED  BY <3>2, <3>4, <4>1, <4>2, S3Owners
    <3>13. uploads' \subseteq [id : Nat, n : S3Sizes, units : Nat]
      BY <1>t, <3>6, <3>9
    <3>14. S3Types' /\ ObjectWhole' /\ ReadWhole'
      BY <1>t, <2>0, <3>11, <3>13 DEF S3Types, ObjectWhole, ReadWhole
    <3> QED  BY <3>10, <3>11, <3>12, <3>14 DEF S3Inv
  <2> QED  BY <1>5, <2>2, <2>3 DEF uploadParts
<1>6. ASSUME NEW p \in S3Writers, completeMultipartUpload(p) PROVE S3Inv'
  <2>0. s3put[p].pc = "parts" /\ s3put[p].offset = s3put[p].n /\ UNCHANGED <<abortLost, nextId, got>>
    BY <1>6 DEF completeMultipartUpload
  <2>1. s3put[p].n \in S3Sizes /\ s3put[p].n \in Nat /\ s3put[p].id # 0 /\ s3put[p].id <= nextId
    BY <1>p, <1>s, <1>t, <2>0 DEF PutsTrack
  <2>2. nextId' \in Nat /\ nextId <= nextId'
    BY <1>t, <2>0
  <2> DEFINE m == [s3put[p] EXCEPT !.pc = "abort"]
  <2>3. m \in S3Puts /\ m.pc = "abort" /\ m.n = s3put[p].n /\ m.id = s3put[p].id
    BY <1>p DEF S3Puts
  <2>4. Step(p, "abort") => s3put' = [s3put EXCEPT ![p] = m]
    BY <1>t DEF Step
  <2> HIDE DEF m
  <2>5. CASE Step(p, "abort") /\ UNCHANGED <<objects, uploads, answered>>
    BY <1>a, <2>0, <2>1, <2>2, <2>3, <2>4, <2>5
  <2>6. CASE ~(Step(p, "abort") /\ UNCHANGED <<objects, uploads, answered>>)
    <3>1. /\ objects' = [objects EXCEPT ![s3put[p].n] = Upload(s3put[p].id).units]
          /\ uploads' = uploads \ {Upload(s3put[p].id)}
          /\ \/ answered' = answered \cup {s3put[p].n} /\ Fail(p)
             \/ UNCHANGED answered /\ Step(p, "abort")
      BY <1>6, <2>6 DEF completeMultipartUpload
    <3>2. PICK v \in uploads : v.id = s3put[p].id /\ v.n = s3put[p].n /\ v.units = s3put[p].offset
      BY <1>t, <2>0 DEF PutsTrack
    <3>3. Upload(s3put[p].id) = v
      <4>1. \A u \in uploads : u.id = s3put[p].id => u = v
        BY <1>t, <3>2 DEF IdsUnique
      <4> QED  BY <3>2, <4>1 DEF Upload
    <3>4. objects' = [objects EXCEPT ![s3put[p].n] = s3put[p].n] /\ uploads' = uploads \ {v}
      BY <2>0, <3>1, <3>2, <3>3
    <3>5. \A u \in uploads' : u \in uploads /\ u.id # s3put[p].id
      BY <1>t, <3>2, <3>4 DEF IdsUnique
    <3>6. answered' \subseteq answered \cup {s3put[p].n} /\ answered' \subseteq S3Sizes
      BY <1>t, <2>1, <3>1
    <3>7. objects' \in [S3Sizes -> Nat] /\ ObjectWhole'
      BY <1>t, <2>1, <3>4, <3>6 DEF ObjectWhole
    <3>8. IdsUnique' /\ ReadWhole' /\ uploads' \subseteq [id : Nat, n : S3Sizes, units : Nat]
      BY <1>t, <2>0, <3>5 DEF IdsUnique, ReadWhole
    <3>9. /\ \A u \in uploads : u.id # s3put[p].id => u \in uploads'
          /\ \A u \in uploads' : u \in uploads
      BY <3>2, <3>4
    <3>10. abortLost \subseteq abortLost'
      BY <2>0
    <3>11. s3put' \in [S3Writers -> S3Puts] /\ PutsTrack' /\ NoOrphanUpload'
      <4>1. CASE Fail(p)
        <5>1. s3put' = [s3put EXCEPT ![p] = NoPut]
          BY <4>1 DEF Fail
        <5>2. NoPut.pc \notin {"parts", "abort"} /\ NoPut.pc # "parts"
          BY NoPutType
        <5>3. s3put' \in [S3Writers -> S3Puts] /\ PutsTrack'
          BY <2>2, <3>9, <5>1, <5>2, NoPutType, S3Moves
        <5>4. NoOrphanUpload'
          BY <3>5, <3>10, <5>1, NoPutType, S3Owners
        <5> QED  BY <5>3, <5>4
      <4>2. CASE Step(p, "abort")
        <5>1. m.id # 0 /\ m.id <= nextId'
          BY <2>0, <2>1, <2>3
        <5>2. s3put' \in [S3Writers -> S3Puts] /\ PutsTrack'
          BY <2>1, <2>2, <2>3, <2>4, <3>9, <4>2, <5>1, S3Moves
        <5>3. NoOrphanUpload'
          BY <2>3, <2>4, <3>5, <3>10, <4>2, S3Owners
        <5> QED  BY <5>2, <5>3
      <4> QED  BY <3>1, <4>1, <4>2
    <3>12. S3Types'
      BY <1>t, <2>2, <3>6, <3>7, <3>8, <3>11 DEF S3Types
    <3> QED  BY <3>7, <3>8, <3>11, <3>12 DEF S3Inv
  <2> QED  BY <2>5, <2>6
<1>7. ASSUME NEW p \in S3Writers, abortMultipartUpload(p) PROVE S3Inv'
  <2>0. s3put[p].pc = "abort" /\ UNCHANGED <<objects, answered, nextId, got>> /\ s3put' = [s3put EXCEPT ![p] = NoPut]
    BY <1>7 DEF abortMultipartUpload, Fail
  <2>1. nextId' \in Nat /\ nextId <= nextId'
    BY <1>t, <2>0
  <2>2. /\ \A u \in uploads' : u \in uploads /\ (u.id # s3put[p].id \/ u.id \in abortLost')
        /\ \A u \in uploads : u.id # s3put[p].id => u \in uploads'
        /\ abortLost \subseteq abortLost'
    <3>1. CASE uploads' = {u \in uploads : u.id # s3put[p].id} /\ UNCHANGED abortLost
      BY <3>1
    <3>2. CASE abortLost' = abortLost \cup {s3put[p].id} /\ UNCHANGED uploads
      BY <3>2
    <3> QED  BY <1>7, <3>1, <3>2 DEF abortMultipartUpload
  <2>3. NoPut.pc \notin {"parts", "abort"} /\ NoPut.pc # "parts"
    BY NoPutType
  <2>4. s3put' \in [S3Writers -> S3Puts] /\ PutsTrack'
    BY <2>0, <2>1, <2>2, <2>3, NoPutType, S3Moves
  <2>5. NoOrphanUpload'
    BY <2>0, <2>2, NoPutType, S3Owners
  <2>6. IdsUnique' /\ ReadWhole' /\ ObjectWhole' /\ uploads' \subseteq [id : Nat, n : S3Sizes, units : Nat]
    BY <1>t, <2>0, <2>2 DEF IdsUnique, ReadWhole, ObjectWhole
  <2>7. S3Types'
    BY <1>t, <2>0, <2>4, <2>6 DEF S3Types
  <2> QED  BY <2>4, <2>5, <2>6, <2>7 DEF S3Inv
<1>8. ASSUME NEW n \in S3Sizes, NEW max \in S3Sizes, GetBytes(n, max) PROVE S3Inv'
  <2>1. UNCHANGED <<objects, uploads, s3put, answered, abortLost, nextId>>
    BY <1>8 DEF GetBytes
  <2>2. PICK declared \in {objects[n], -1} :
         got' = IF declared > max \/ Smaller(objects[n], Limit(max)) > max
                THEN [ok |-> FALSE, n |-> 0, whole |-> 0]
                ELSE [ok |-> TRUE, n |-> Smaller(objects[n], Limit(max)), whole |-> objects[n]]
    BY <1>8 DEF GetBytes
  <2>3. objects[n] \in Nat /\ max \in Nat /\ Limit(max) = max + 1
    BY <1>s, <1>t DEF Limit
  <2>4. ReadWhole'
    <3>1. CASE declared > max \/ Smaller(objects[n], Limit(max)) > max
      BY <2>2, <3>1 DEF ReadWhole
    <3>2. CASE ~(declared > max \/ Smaller(objects[n], Limit(max)) > max)
      <4>1. ~(Smaller(objects[n], max + 1) > max)
        BY <2>3, <3>2
      <4>2. Smaller(objects[n], max + 1) = objects[n]
        BY <2>3, <4>1 DEF Smaller
      <4> QED  BY <2>2, <2>3, <3>2, <4>2 DEF ReadWhole
    <3> QED  BY <3>1, <3>2
  <2>5. S3Types' /\ IdsUnique' /\ PutsTrack' /\ ObjectWhole' /\ NoOrphanUpload'
    BY <2>1 DEF S3Inv, S3Types, IdsUnique, PutsTrack, ObjectWhole, NoOrphanUpload
  <2> QED  BY <2>4, <2>5 DEF S3Inv
<1>9. ASSUME UNCHANGED s3Vars PROVE S3Inv'
  BY <1>9 DEF s3Vars, S3Inv, S3Types, IdsUnique, PutsTrack, ObjectWhole, NoOrphanUpload, ReadWhole
<1> QED  BY <1>1, <1>2, <1>3, <1>4, <1>5, <1>6, <1>7, <1>8, <1>9 DEF S3Next

\* Put and GetBytes deal in whole objects (s3.go: Put, uploadParts, completeMultipartUpload,
\* abortMultipartUpload, GetBytes): for any sizes, any part size and any number of writers
\* of the same objects, with every request refused, carried out, or carried out and its
\* reply lost, what is stored under a key is the whole object, a ref that was returned
\* names a stored one, and an upload that nobody works on had an abort that failed or an
\* id that never came.
THEOREM ObjectsStoredHolds == S3Spec => []ObjectsStored
<1>1. S3Inv => ObjectsStored
  BY DEF S3Inv, ObjectsStored
<1> QED  BY <1>1, S3InvInit, S3InvStep, PTL DEF S3Spec

-----------------------------------------------------------------------------
(***************************************************************************)
(* The indexes of the task store.                                          *)
(***************************************************************************)
TaskRecords == [st : Statuses \cup {"none"}, worker : IdxWorkers \cup {""}, epoch : Nat]
Expiring == [pc : {"expire"}, t : IdxTasks, e : Nat]
Mutating == [pc : {"index", "heap"}, t : IdxTasks, prev : TaskRecords, cur : TaskRecords]

IdxTypes ==
    /\ shard \in [IdxTasks -> TaskRecords] /\ heap \in [IdxTasks -> Nat]
    /\ allTasks \subseteq IdxTasks
    /\ byStatus \in [Indexed -> SUBSET IdxTasks] /\ byWorker \in [IdxWorkers -> SUBSET IdxTasks]
    /\ granted \subseteq [t : IdxTasks, e : Nat, w : IdxWorkers \cup {""}]
    /\ client \in [IdxClients -> {NoCall} \cup Expiring \cup Mutating]

\* No call has changed the record of t without having brought the indexes and the heap
\* up to date since.
Settled(t) == \A c \in IdxClients : client[c].pc \in {"index", "heap"} => client[c].t # t

\* The secondary indexes show the record r of the task t.
IndexesShow(t, r) ==
    /\ t \in allTasks <=> r.st # "none"
    /\ \A s \in Indexed : t \in byStatus[s] <=> r.st = s
    /\ \A w \in IdxWorkers : t \in byWorker[w] <=> r.st = "RUNNING" /\ r.worker = w

\* At most one call at a time is between the record of a task and its indexes: it took
\* the record from prev to the present one, to a running one only by a lease.
OneMutator ==
    /\ \A c \in IdxClients : client[c].pc \in {"index", "heap"} =>
         client[c].cur = shard[client[c].t] /\ client[c].cur.st # "none"
    /\ \A c, d \in IdxClients :
         client[c].pc \in {"index", "heap"} /\ client[d].pc \in {"index", "heap"} /\ client[c].t = client[d].t => c = d

\* The indexes show the record a call is about to replace, or the present one.
IndexesTrail ==
    /\ \A c \in IdxClients : client[c].pc = "index" => IndexesShow(client[c].t, client[c].prev)
    /\ \A t \in IdxTasks :
         (\A c \in IdxClients : client[c].pc = "index" => client[c].t # t) => IndexesShow(t, shard[t])

\* An entry of the heap is of the running lease, or of the one the call under way ended;
\* a running lease without an entry is in the hands of a recovery that will end it.
HeapTrails ==
    \A t \in IdxTasks :
        /\ heap[t] # 0 =>
             /\ heap[t] <= shard[t].epoch
             /\ Settled(t) => shard[t].st = "RUNNING" /\ shard[t].epoch = heap[t]
             /\ \A c \in IdxClients : client[c].pc \in {"index", "heap"} /\ client[c].t = t =>
                  client[c].prev.st = "RUNNING" /\ client[c].cur.st # "RUNNING"
        /\ Settled(t) /\ shard[t].st = "RUNNING" =>
             \/ heap[t] = shard[t].epoch
             \/ \E c \in IdxClients : client[c].pc = "expire" /\ client[c].t = t /\ client[c].e = shard[t].epoch

\* The lease e of t may be known to a recovery or to its worker: the record is not
\* behind it, and the call that granted it has returned.
LeaseKnown(t, e) ==
    /\ e <= shard[t].epoch
    /\ \A c \in IdxClients :
         client[c].pc \in {"index", "heap"} /\ client[c].t = t /\ client[c].cur.st = "RUNNING" => e < client[c].cur.epoch

LeasesKnown ==
    /\ \A c \in IdxClients : client[c].pc = "expire" => LeaseKnown(client[c].t, client[c].e)
    /\ \A g \in granted : LeaseKnown(g.t, g.e)

\* A task that can be leased is queued, one without a key was never written, and no call
\* works on either.
CallersWait ==
    /\ \A t \in IdxTasks : t \in ready => shard[t].st = "QUEUED" /\ Settled(t)
    /\ \A t \in IdxTasks : t \notin byIdem => shard[t] = Absent /\ Settled(t)

IdxInv == IdxTypes /\ OneMutator /\ IndexesTrail /\ HeapTrails /\ LeasesKnown /\ CallersWait

\* What a listing owes is either still to be read or already in its result.
ListInv ==
    lister.pc = "read" => \A t \in lister.must : /\ t \in IdxTasks /\ shard[t].st = lister.st
                                                 /\ t \in lister.ids \cup lister.out

\* A call that has not changed a record holds none.
LEMMA NoCallPc == NoCall.pc = "rest"
BY DEF NoCall

\* The steps of a call give its record one of three shapes.
LEMMA ClientShape ==
    ASSUME IdxTypes, NEW c \in IdxClients
    PROVE  /\ client[c].pc \in {"rest", "expire", "index", "heap"}
           /\ client[c].pc = "expire" => client[c] \in Expiring /\ client[c].t \in IdxTasks /\ client[c].e \in Nat
           /\ client[c].pc \in {"index", "heap"} =>
                /\ client[c] \in Mutating /\ client[c].t \in IdxTasks
                /\ client[c].prev \in TaskRecords /\ client[c].cur \in TaskRecords
<1>1. client[c] \in {NoCall} \cup Expiring \cup Mutating
  BY DEF IdxTypes
<1>2. CASE client[c] = NoCall
  BY <1>2, NoCallPc
<1>3. CASE client[c] \in Expiring
  BY <1>3 DEF Expiring
<1>4. CASE client[c] \in Mutating
  BY <1>4 DEF Mutating
<1> QED  BY <1>1, <1>2, <1>3, <1>4

\* Nothing is stored, indexed or under way at the start.
LEMMA IdxInvInit == IdxInit => IdxInv /\ ListInv
<1> SUFFICES ASSUME IdxInit PROVE IdxInv /\ ListInv
  OBVIOUS
<1>1. /\ shard = [t \in IdxTasks |-> Absent] /\ byIdem = {}
      /\ allTasks = {} /\ byStatus = [s \in Indexed |-> {}] /\ byWorker = [w \in IdxWorkers |-> {}]
      /\ heap = [t \in IdxTasks |-> 0] /\ client = [c \in IdxClients |-> NoCall]
      /\ ready = {} /\ granted = {} /\ lister = NoList
  BY DEF IdxInit
<1>2. Absent \in TaskRecords /\ Absent.st = "none" /\ "none" \notin Indexed /\ "none" # "RUNNING"
  BY DEF Absent, TaskRecords, Indexed
<1>3. \A c \in IdxClients : client[c].pc = "rest"
  BY <1>1, NoCallPc
<1>4. \A t \in IdxTasks : shard[t] = Absent /\ heap[t] = 0
  BY <1>1
<1>5. IdxTypes
  BY <1>1, <1>2 DEF IdxTypes
<1>6. OneMutator /\ HeapTrails /\ LeasesKnown /\ CallersWait
  BY <1>1, <1>2, <1>3, <1>4 DEF OneMutator, HeapTrails, LeasesKnown, CallersWait, Settled
<1>7. IndexesTrail
  <2>1. \A t \in IdxTasks : IndexesShow(t, Absent)
    BY <1>1, <1>2 DEF IndexesShow
  <2> QED  BY <1>3, <1>4, <2>1 DEF IndexesTrail
<1>8. ListInv
  BY <1>1 DEF ListInv, NoList
<1> QED  BY <1>5, <1>6, <1>7, <1>8 DEF IdxInv

\* A record changes: its task had no call at work, the epoch does not fall, and only a
\* lease, with the next epoch, makes it running.
LEMMA MutatedKeeps ==
    ASSUME IdxInv, NEW c \in IdxClients, NEW t \in IdxTasks, NEW new \in TaskRecords, Mutated(c, t, new),
           client[c].pc = "rest" \/ (client[c].pc = "expire" /\ client[c].t = t),
           Settled(t), new.st # "none", shard[t].epoch <= new.epoch,
           new.st = "RUNNING" => shard[t].st # "RUNNING" /\ shard[t].epoch < new.epoch,
           ready' \subseteq ready \ {t}, byIdem' = byIdem \cup {t}, granted' = granted
    PROVE  IdxInv'
<1> DEFINE m == [pc |-> "index", t |-> t, prev |-> shard[t], cur |-> new]
<1>t. IdxTypes /\ OneMutator /\ IndexesTrail /\ HeapTrails /\ LeasesKnown /\ CallersWait
  BY DEF IdxInv
<1>1. /\ shard' = [shard EXCEPT ![t] = new] /\ client' = [client EXCEPT ![c] = m]
      /\ UNCHANGED <<allTasks, byStatus, byWorker, heap>>
  BY DEF Mutated
<1>2. shard[t] \in TaskRecords
  BY <1>t DEF IdxTypes
<1>3. m \in Mutating /\ m.pc = "index" /\ m.t = t /\ m.prev = shard[t] /\ m.cur = new
  BY <1>2 DEF Mutating
<1> HIDE DEF m
<1>4. IdxTypes'
  BY <1>1, <1>3, <1>t DEF IdxTypes
<1>5. /\ shard'[t] = new /\ \A u \in IdxTasks : u # t => shard'[u] = shard[u]
      /\ client'[c] = m /\ \A d \in IdxClients : d # c => client'[d] = client[d]
  BY <1>1, <1>t DEF IdxTypes
<1>6. \A d \in IdxClients : client[d].pc \in {"index", "heap"} => client[d].t # t /\ client[d].t \in IdxTasks /\ d # c
  BY <1>t, ClientShape DEF Settled
<1>7. \A u \in IdxTasks : u # t => (Settled(u)' <=> Settled(u))
  BY <1>3, <1>5, <1>6 DEF Settled
<1>8. ~Settled(t)'
  BY <1>3, <1>5 DEF Settled
<1>9. OneMutator'
  BY <1>3, <1>5, <1>6, <1>t DEF OneMutator
<1>10. IndexesTrail'
  <2>1. \A u, r : IndexesShow(u, r)' <=> IndexesShow(u, r)
    BY <1>1 DEF IndexesShow
  <2>2. IndexesShow(t, shard[t])
    BY <1>6, <1>t DEF IndexesTrail
  <2>3. ASSUME NEW d \in IdxClients, (client[d].pc = "index")' PROVE IndexesShow(client[d].t, client[d].prev)'
    <3>1. CASE d = c
      <4>1. client'[d].t = t /\ client'[d].prev = shard[t]
        BY <1>3, <1>5, <3>1
      <4> QED  BY <1>1, <2>2, <4>1 DEF IndexesShow
    <3>2. CASE d # c
      <4>1. client'[d] = client[d] /\ IndexesShow(client[d].t, client[d].prev)
        BY <1>5, <1>t, <2>3, <3>2 DEF IndexesTrail
      <4> QED  BY <1>1, <4>1 DEF IndexesShow
    <3> QED  BY <3>1, <3>2
  <2>4. ASSUME NEW u \in IdxTasks, \A d \in IdxClients : client'[d].pc = "index" => client'[d].t # u
        PROVE  IndexesShow(u, shard[u])'
    <3>1. u # t
      BY <1>3, <1>5, <2>4
    <3>2. \A d \in IdxClients : client[d].pc = "index" => client[d].t # u
      BY <1>5, <1>6, <2>4
    <3>3. IndexesShow(u, shard[u]) /\ shard'[u] = shard[u]
      BY <1>5, <1>t, <3>1, <3>2 DEF IndexesTrail
    <3> QED  BY <1>1, <3>3 DEF IndexesShow
  <2> QED  BY <2>3, <2>4 DEF IndexesTrail
<1>11. HeapTrails'
  <2>1. ASSUME NEW u \in IdxTasks, u # t
        PROVE  /\ heap'[u] # 0 =>
                     /\ heap'[u] <= shard'[u].epoch
                     /\ Settled(u)' => shard'[u].st = "RUNNING" /\ shard'[u].epoch = heap'[u]
                     /\ \A d \in IdxClients : client'[d].pc \in {"index", "heap"} /\ client'[d].t = u =>
                          client'[d].prev.st = "RUNNING" /\ client'[d].cur.st # "RUNNING"
               /\ Settled(u)' /\ shard'[u].st = "RUNNING" =>
                     \/ heap'[u] = shard'[u].epoch
                     \/ \E d \in IdxClients : client'[d].pc = "expire" /\ client'[d].t = u /\ client'[d].e = shard'[u].epoch
    <3>1. shard'[u] = shard[u] /\ heap'[u] = heap[u] /\ (Settled(u)' <=> Settled(u))
      BY <1>1, <1>5, <1>7, <2>1
    <3>2. \A d \in IdxClients : client'[d].pc \in {"index", "heap"} /\ client'[d].t = u => client'[d] = client[d]
      BY <1>3, <1>5, <2>1
    <3>3. \A d \in IdxClients : client[d].pc = "expire" /\ client[d].t = u => client'[d] = client[d]
      BY <1>5, <2>1
    <3>4. heap[u] # 0 =>
            /\ heap[u] <= shard[u].epoch
            /\ Settled(u) => shard[u].st = "RUNNING" /\ shard[u].epoch = heap[u]
            /\ \A d \in IdxClients : client[d].pc \in {"index", "heap"} /\ client[d].t = u =>
                 client[d].prev.st = "RUNNING" /\ client[d].cur.st # "RUNNING"
      BY <1>t DEF HeapTrails
    <3>5. Settled(u) /\ shard[u].st = "RUNNING" =>
             \/ heap[u] = shard[u].epoch
             \/ \E d \in IdxClients : client[d].pc = "expire" /\ client[d].t = u /\ client[d].e = shard[u].epoch
      BY <1>t DEF HeapTrails
    <3> QED  BY <3>1, <3>2, <3>3, <3>4, <3>5
  <2>2. heap[t] # 0 => shard[t].st = "RUNNING" /\ shard[t].epoch = heap[t]
    BY <1>t DEF HeapTrails
  <2>3. heap'[t] # 0 =>
          /\ heap'[t] <= shard'[t].epoch
          /\ \A d \in IdxClients : client'[d].pc \in {"index", "heap"} /\ client'[d].t = t =>
               client'[d].prev.st = "RUNNING" /\ client'[d].cur.st # "RUNNING"
    BY <1>1, <1>3, <1>5, <1>6, <2>2
  <2> QED  BY <1>8, <2>1, <2>3 DEF HeapTrails
<1>12. ASSUME NEW u \in IdxTasks, NEW e \in Nat, LeaseKnown(u, e) PROVE LeaseKnown(u, e)'
  <2>e. shard[t].epoch \in Nat /\ new.epoch \in Nat
    BY <1>2 DEF TaskRecords
  <2>1. e <= shard'[u].epoch
    BY <1>5, <1>12, <2>e DEF LeaseKnown
  <2>2. ASSUME NEW d \in IdxClients, client'[d].pc \in {"index", "heap"}, client'[d].t = u, client'[d].cur.st = "RUNNING"
        PROVE  e < client'[d].cur.epoch
    <3>1. CASE d = c
      BY <1>3, <1>5, <1>12, <2>e, <2>2, <3>1 DEF LeaseKnown
    <3>2. CASE d # c
      BY <1>5, <1>12, <2>2, <3>2 DEF LeaseKnown
    <3> QED  BY <3>1, <3>2
  <2> QED  BY <2>1, <2>2 DEF LeaseKnown
<1>13. LeasesKnown'
  <2>1. ASSUME NEW d \in IdxClients, (client[d].pc = "expire")' PROVE LeaseKnown(client[d].t, client[d].e)'
    <3>1. client'[d] = client[d]
      BY <1>3, <1>5, <2>1
    <3>2. client[d].t \in IdxTasks /\ client[d].e \in Nat /\ LeaseKnown(client[d].t, client[d].e)
      BY <1>t, <2>1, <3>1, ClientShape DEF LeasesKnown
    <3>3. ASSUME NEW u, NEW e, u = client[d].t, e = client[d].e PROVE LeaseKnown(u, e)'
      BY <1>12, <3>2, <3>3
    <3> QED  BY <3>1, <3>3 DEF LeaseKnown
  <2>2. ASSUME NEW g \in granted' PROVE LeaseKnown(g.t, g.e)'
    <3>1. g \in granted /\ g.t \in IdxTasks /\ g.e \in Nat /\ LeaseKnown(g.t, g.e)
      BY <1>t, <2>2 DEF LeasesKnown, IdxTypes
    <3> QED  BY <1>12, <3>1
  <2> QED  BY <2>1, <2>2 DEF LeasesKnown
<1>14. CallersWait'
  BY <1>5, <1>7, <1>t DEF CallersWait
<1> QED  BY <1>4, <1>9, <1>10, <1>11, <1>13, <1>14 DEF IdxInv

\* A call without a changed record starts or ends: whoever changes a record is as before,
\* so all but the heap's entries is as well.
LEMMA RecoveryMoves ==
    ASSUME IdxInv, NEW c \in IdxClients, client[c].pc \in {"rest", "expire"},
           NEW m \in {NoCall} \cup Expiring, client' = [client EXCEPT ![c] = m],
           m.pc = "expire" => LeaseKnown(m.t, m.e), heap' \in [IdxTasks -> Nat],
           UNCHANGED <<shard, byIdem, allTasks, byStatus, byWorker, ready, granted>>
    PROVE  /\ IdxTypes' /\ OneMutator' /\ IndexesTrail' /\ LeasesKnown' /\ CallersWait'
           /\ \A t \in IdxTasks : Settled(t)' <=> Settled(t)
           /\ \A d \in IdxClients : client'[d].pc \in {"index", "heap"} => client'[d] = client[d]
           /\ client'[c] = m /\ \A d \in IdxClients : d # c => client'[d] = client[d]
<1>t. IdxTypes /\ OneMutator /\ IndexesTrail /\ LeasesKnown /\ CallersWait
  BY DEF IdxInv
<1>1. client'[c] = m /\ \A d \in IdxClients : d # c => client'[d] = client[d]
  BY <1>t DEF IdxTypes
<1>2. m.pc \in {"rest", "expire"} /\ (m.pc = "expire" => m \in Expiring)
  BY NoCallPc DEF Expiring
<1>3. \A d \in IdxClients : \/ client'[d] = client[d]
                            \/ client'[d].pc \notin {"index", "heap"} /\ client[d].pc \notin {"index", "heap"}
  BY <1>1, <1>2
<1>4. IdxTypes'
  <2>1. client' \in [IdxClients -> {NoCall} \cup Expiring \cup Mutating]
    BY <1>t DEF IdxTypes
  <2> QED  BY <1>t, <2>1 DEF IdxTypes
<1>5. \A t \in IdxTasks : Settled(t)' <=> Settled(t)
  BY <1>3 DEF Settled
<1>6. OneMutator' /\ CallersWait'
  BY <1>3, <1>5, <1>t DEF OneMutator, CallersWait
<1>7. IndexesTrail'
  <2>1. ASSUME NEW d \in IdxClients, (client[d].pc = "index")' PROVE IndexesShow(client[d].t, client[d].prev)'
    <3>1. client'[d] = client[d] /\ IndexesShow(client[d].t, client[d].prev)
      BY <1>3, <1>t, <2>1 DEF IndexesTrail
    <3> QED  BY <3>1 DEF IndexesShow
  <2>2. ASSUME NEW u \in IdxTasks, \A d \in IdxClients : client'[d].pc = "index" => client'[d].t # u
        PROVE  IndexesShow(u, shard[u])'
    <3>1. \A d \in IdxClients : client[d].pc = "index" => client[d].t # u
      BY <1>3, <2>2
    <3>2. IndexesShow(u, shard[u])
      BY <1>t, <3>1 DEF IndexesTrail
    <3> QED  BY <3>2 DEF IndexesShow
  <2> QED  BY <2>1, <2>2 DEF IndexesTrail
<1>8. ASSUME NEW u, NEW e, LeaseKnown(u, e) PROVE LeaseKnown(u, e)'
  BY <1>3, <1>8 DEF LeaseKnown
<1>9. LeasesKnown'
  <2>1. ASSUME NEW d \in IdxClients, (client[d].pc = "expire")' PROVE LeaseKnown(client[d].t, client[d].e)'
    <3>1. CASE d = c
      <4>1. client'[d] = m /\ LeaseKnown(m.t, m.e)
        BY <1>1, <2>1, <3>1
      <4>2. ASSUME NEW u, NEW e, u = m.t, e = m.e PROVE LeaseKnown(u, e)'
        BY <1>8, <4>1, <4>2
      <4> QED  BY <4>1, <4>2 DEF LeaseKnown
    <3>2. CASE d # c
      <4>1. client'[d] = client[d] /\ LeaseKnown(client[d].t, client[d].e)
        BY <1>1, <1>t, <2>1, <3>2 DEF LeasesKnown
      <4>2. ASSUME NEW u, NEW e, u = client[d].t, e = client[d].e PROVE LeaseKnown(u, e)'
        BY <1>8, <4>1, <4>2
      <4> QED  BY <4>1, <4>2 DEF LeaseKnown
    <3> QED  BY <3>1, <3>2
  <2>2. ASSUME NEW g \in granted' PROVE LeaseKnown(g.t, g.e)'
    BY <1>8, <1>t, <2>2 DEF LeasesKnown
  <2> QED  BY <2>1, <2>2 DEF LeasesKnown
<1> QED  BY <1>1, <1>3, <1>4, <1>5, <1>6, <1>7, <1>9

\* The heap supplies a lease, or the scheduler names one: a recovery starts.
LEMMA RecoveryStarts ==
    ASSUME IdxInv, NEW c \in IdxClients, client[c].pc = "rest", NEW t \in IdxTasks, NEW e \in Nat,
           client' = [client EXCEPT ![c] = [pc |-> "expire", t |-> t, e |-> e]],
           heap' = heap \/ (heap' = [heap EXCEPT ![t] = 0] /\ e = heap[t] /\ e # 0), LeaseKnown(t, e),
           UNCHANGED <<shard, byIdem, allTasks, byStatus, byWorker, ready, granted>>
    PROVE  IdxInv'
<1> DEFINE m == [pc |-> "expire", t |-> t, e |-> e]
<1>t. IdxTypes /\ HeapTrails
  BY DEF IdxInv
<1>1. m \in Expiring /\ m.pc = "expire" /\ m.t = t /\ m.e = e
  BY DEF Expiring
<1>2. client' = [client EXCEPT ![c] = m]
  OBVIOUS
<1>3. heap' \in [IdxTasks -> Nat] /\ \A u \in IdxTasks : u # t => heap'[u] = heap[u]
  <2>1. heap \in [IdxTasks -> Nat]
    BY <1>t DEF IdxTypes
  <2>2. CASE heap' = heap
    BY <2>1, <2>2
  <2>3. CASE heap' = [heap EXCEPT ![t] = 0]
    BY <2>1, <2>3
  <2> QED  BY <2>2, <2>3
<1> HIDE DEF m
<1>4. /\ IdxTypes' /\ OneMutator' /\ IndexesTrail' /\ LeasesKnown' /\ CallersWait'
      /\ \A u \in IdxTasks : Settled(u)' <=> Settled(u)
      /\ \A d \in IdxClients : client'[d].pc \in {"index", "heap"} => client'[d] = client[d]
      /\ client'[c] = m /\ \A d \in IdxClients : d # c => client'[d] = client[d]
  <2>1. m.pc = "expire" => LeaseKnown(m.t, m.e)
    BY <1>1
  <2>2. m \in {NoCall} \cup Expiring /\ client[c].pc \in {"rest", "expire"}
    BY <1>1
  <2> QED  BY <1>2, <1>3, <2>1, <2>2, RecoveryMoves, ZenonT(30)
<1>5. HeapTrails'
  <2>1. ASSUME NEW u \in IdxTasks
        PROVE  /\ heap'[u] # 0 =>
                     /\ heap'[u] <= shard'[u].epoch
                     /\ Settled(u)' => shard'[u].st = "RUNNING" /\ shard'[u].epoch = heap'[u]
                     /\ \A d \in IdxClients : client'[d].pc \in {"index", "heap"} /\ client'[d].t = u =>
                          client'[d].prev.st = "RUNNING" /\ client'[d].cur.st # "RUNNING"
               /\ Settled(u)' /\ shard'[u].st = "RUNNING" =>
                     \/ heap'[u] = shard'[u].epoch
                     \/ \E d \in IdxClients : client'[d].pc = "expire" /\ client'[d].t = u /\ client'[d].e = shard'[u].epoch
    <3>1. heap'[u] # 0 => heap'[u] = heap[u]
      BY <1>3, <1>t DEF IdxTypes
    <3>2. heap[u] # 0 =>
            /\ heap[u] <= shard[u].epoch
            /\ Settled(u) => shard[u].st = "RUNNING" /\ shard[u].epoch = heap[u]
            /\ \A d \in IdxClients : client[d].pc \in {"index", "heap"} /\ client[d].t = u =>
                 client[d].prev.st = "RUNNING" /\ client[d].cur.st # "RUNNING"
      BY <1>t DEF HeapTrails
    <3>3. heap'[u] # 0 =>
            /\ heap'[u] <= shard'[u].epoch
            /\ Settled(u)' => shard'[u].st = "RUNNING" /\ shard'[u].epoch = heap'[u]
            /\ \A d \in IdxClients : client'[d].pc \in {"index", "heap"} /\ client'[d].t = u =>
                 client'[d].prev.st = "RUNNING" /\ client'[d].cur.st # "RUNNING"
      BY <1>4, <3>1, <3>2
    <3>4. ASSUME Settled(u)', shard'[u].st = "RUNNING", heap'[u] # shard'[u].epoch
          PROVE  \E d \in IdxClients : client'[d].pc = "expire" /\ client'[d].t = u /\ client'[d].e = shard'[u].epoch
      <4>1. Settled(u) /\ shard[u].st = "RUNNING"
        BY <1>4, <3>4
      <4>2. CASE heap[u] = shard[u].epoch
        <5>1. heap'[u] # heap[u]
          BY <3>4, <4>2
        <5>2. u = t /\ e = heap[t]
          BY <1>3, <5>1
        <5> QED  BY <1>1, <1>4, <4>2, <5>2
      <4>3. CASE heap[u] # shard[u].epoch
        <5>1. PICK d \in IdxClients : client[d].pc = "expire" /\ client[d].t = u /\ client[d].e = shard[u].epoch
          BY <1>t, <4>1, <4>3 DEF HeapTrails
        <5> QED  BY <1>4, <5>1
      <4> QED  BY <4>2, <4>3
    <3> QED  BY <3>3, <3>4
  <2> QED  BY <2>1 DEF HeapTrails
<1> QED  BY <1>4, <1>5 DEF IdxInv

\* A recovery that finds another lease than the one it was given returns.
LEMMA RecoveryRefused ==
    ASSUME IdxInv, NEW c \in IdxClients, client[c].pc = "expire", ~StillExpired(c),
           client' = [client EXCEPT ![c] = NoCall],
           UNCHANGED <<shard, byIdem, allTasks, byStatus, byWorker, heap, ready, granted>>
    PROVE  IdxInv'
<1>t. IdxTypes /\ HeapTrails
  BY DEF IdxInv
<1>4. /\ IdxTypes' /\ OneMutator' /\ IndexesTrail' /\ LeasesKnown' /\ CallersWait'
      /\ \A u \in IdxTasks : Settled(u)' <=> Settled(u)
      /\ \A d \in IdxClients : client'[d].pc \in {"index", "heap"} => client'[d] = client[d]
      /\ \A d \in IdxClients : d # c => client'[d] = client[d]
  BY <1>t, NoCallPc, RecoveryMoves DEF IdxTypes
<1>5. ASSUME NEW u \in IdxTasks, Settled(u), shard[u].st = "RUNNING", heap[u] # shard[u].epoch
      PROVE  \E d \in IdxClients : client'[d].pc = "expire" /\ client'[d].t = u /\ client'[d].e = shard[u].epoch
  <2>1. PICK d \in IdxClients : client[d].pc = "expire" /\ client[d].t = u /\ client[d].e = shard[u].epoch
    BY <1>5, <1>t DEF HeapTrails
  <2>2. d # c
    BY <1>5, <2>1 DEF StillExpired
  <2> QED  BY <1>4, <2>1, <2>2
<1>6. HeapTrails'
  <2>1. \A u \in IdxTasks : heap[u] # 0 =>
            /\ heap[u] <= shard[u].epoch
            /\ Settled(u) => shard[u].st = "RUNNING" /\ shard[u].epoch = heap[u]
            /\ \A d \in IdxClients : client[d].pc \in {"index", "heap"} /\ client[d].t = u =>
                 client[d].prev.st = "RUNNING" /\ client[d].cur.st # "RUNNING"
    BY <1>t DEF HeapTrails
  <2> QED  BY <1>4, <1>5, <2>1 DEF HeapTrails
<1> QED  BY <1>4, <1>6 DEF IdxInv

\* The indexes are brought up to date with the record of one task.
LEMMA IndexesReplaced ==
    ASSUME IdxInv, NEW c \in IdxClients, replaceTaskIndexes(c)
    PROVE  IdxInv'
<1> DEFINE t == client[c].t
           prev == client[c].prev
           cur == client[c].cur
           m == [client[c] EXCEPT !.pc = "heap"]
<1>t. IdxTypes /\ OneMutator /\ IndexesTrail /\ HeapTrails /\ LeasesKnown /\ CallersWait
  BY DEF IdxInv
<1>0. client[c].pc = "index" /\ UNCHANGED <<shard, byIdem, heap, ready, granted>>
  BY DEF replaceTaskIndexes
<1>1. client[c] \in Mutating /\ t \in IdxTasks /\ cur = shard[t] /\ cur.st # "none" /\ cur \in TaskRecords
  BY <1>0, <1>t, ClientShape DEF OneMutator
<1>2. client' = [client EXCEPT ![c] = m]
  BY <1>t DEF replaceTaskIndexes, IdxTypes
<1>3. m \in Mutating /\ m.pc = "heap" /\ m.t = t /\ m.cur = cur /\ m.prev = prev
  BY <1>1 DEF Mutating
<1> HIDE DEF m
<1>4. client'[c] = m /\ \A d \in IdxClients : d # c => client'[d] = client[d]
  BY <1>2, <1>t DEF IdxTypes
<1>5. /\ allTasks' = allTasks \cup {t}
      /\ byStatus' = [s \in Indexed |-> IF s = cur.st THEN byStatus[s] \cup {t}
                                        ELSE IF s = prev.st THEN byStatus[s] \ {t} ELSE byStatus[s]]
      /\ byWorker' = [w \in IdxWorkers |->
            IF cur.st = "RUNNING" /\ cur.worker = w THEN byWorker[w] \cup {t}
            ELSE IF prev.st = "RUNNING" /\ prev.worker = w THEN byWorker[w] \ {t} ELSE byWorker[w]]
  BY DEF replaceTaskIndexes, WorkerIndex
<1>6. IndexesShow(t, prev)
  BY <1>0, <1>t DEF IndexesTrail
<1> HIDE DEF t, prev, cur
<1>7. IdxTypes'
  <2>1. client' \in [IdxClients -> {NoCall} \cup Expiring \cup Mutating]
    BY <1>2, <1>3, <1>t DEF IdxTypes
  <2>2. byStatus' \in [Indexed -> SUBSET IdxTasks] /\ byWorker' \in [IdxWorkers -> SUBSET IdxTasks] /\ allTasks' \subseteq IdxTasks
    BY <1>1, <1>5, <1>t DEF IdxTypes
  <2> QED  BY <1>0, <1>t, <2>1, <2>2 DEF IdxTypes
<1>8. \A d \in IdxClients :
        /\ client'[d].pc \in {"index", "heap"} <=> client[d].pc \in {"index", "heap"}
        /\ client[d].pc \in {"index", "heap"} =>
             client'[d].t = client[d].t /\ client'[d].cur = client[d].cur /\ client'[d].prev = client[d].prev
        /\ client'[d].pc = "expire" <=> client[d].pc = "expire"
        /\ client[d].pc = "expire" => client'[d] = client[d]
  BY <1>0, <1>3, <1>4 DEF t, cur, prev
<1>9. \A u \in IdxTasks : Settled(u)' <=> Settled(u)
  BY <1>8 DEF Settled
<1>10. OneMutator' /\ CallersWait'
  BY <1>0, <1>8, <1>9, <1>t DEF OneMutator, CallersWait
<1>11. IndexesTrail'
  <2>1. ASSUME NEW u, u # t, NEW r, IndexesShow(u, r) PROVE IndexesShow(u, r)'
    BY <1>5, <2>1 DEF IndexesShow
  <2>2. ASSUME NEW r, r = cur PROVE IndexesShow(t, r)'
    <3>1. t \in allTasks' /\ r.st # "none"
      BY <1>1, <1>5, <2>2
    <3>2. \A s \in Indexed : t \in byStatus'[s] <=> r.st = s
      BY <1>5, <1>6, <2>2 DEF IndexesShow
    <3>3. \A w \in IdxWorkers : t \in byWorker'[w] <=> r.st = "RUNNING" /\ r.worker = w
      BY <1>5, <1>6, <2>2 DEF IndexesShow
    <3>4. ASSUME NEW z, z = t PROVE IndexesShow(z, r)'
      BY <3>1, <3>2, <3>3, <3>4 DEF IndexesShow
    <3>5. t' = t
      BY <1>3, <1>4 DEF t
    <3> QED  BY <3>4, <3>5 DEF IndexesShow
  <2>3. ASSUME NEW d \in IdxClients, (client[d].pc = "index")' PROVE IndexesShow(client[d].t, client[d].prev)'
    <3>1. d # c /\ client'[d] = client[d]
      BY <1>3, <1>4, <2>3
    <3>2. client[d].t # t /\ IndexesShow(client[d].t, client[d].prev)
      BY <1>0, <1>t, <2>3, <3>1 DEF OneMutator, IndexesTrail, t
    <3>3. ASSUME NEW u, NEW r, u = client[d].t, r = client[d].prev PROVE IndexesShow(u, r)'
      BY <2>1, <3>2, <3>3
    <3> QED  BY <3>1, <3>3 DEF IndexesShow
  <2>4. ASSUME NEW u \in IdxTasks, \A d \in IdxClients : client'[d].pc = "index" => client'[d].t # u
        PROVE  IndexesShow(u, shard[u])'
    <3>1. CASE u = t
      <4>1. ASSUME NEW r, r = cur PROVE IndexesShow(u, r)'
        <5>1. t' = t
          BY <1>3, <1>4 DEF t
        <5> QED  BY <2>2, <3>1, <4>1, <5>1 DEF IndexesShow
      <4>2. shard'[u] = cur
        BY <1>0, <1>1, <3>1
      <4> QED  BY <4>1, <4>2 DEF IndexesShow
    <3>2. CASE u # t
      <4>1. \A d \in IdxClients : client[d].pc = "index" => client[d].t # u
        BY <1>4, <2>4, <3>2 DEF t
      <4>2. IndexesShow(u, shard[u])
        BY <1>t, <4>1 DEF IndexesTrail
      <4>3. ASSUME NEW r, r = shard[u] PROVE IndexesShow(u, r)'
        BY <2>1, <3>2, <4>2, <4>3
      <4> QED  BY <1>0, <4>3 DEF IndexesShow
    <3> QED  BY <3>1, <3>2
  <2> QED  BY <2>3, <2>4 DEF IndexesTrail
<1>12. HeapTrails'
  <2>1. \A u \in IdxTasks : heap[u] # 0 =>
            /\ heap[u] <= shard[u].epoch
            /\ Settled(u) => shard[u].st = "RUNNING" /\ shard[u].epoch = heap[u]
            /\ \A d \in IdxClients : client[d].pc \in {"index", "heap"} /\ client[d].t = u =>
                 client[d].prev.st = "RUNNING" /\ client[d].cur.st # "RUNNING"
    BY <1>t DEF HeapTrails
  <2>2. \A u \in IdxTasks : Settled(u) /\ shard[u].st = "RUNNING" =>
             \/ heap[u] = shard[u].epoch
             \/ \E d \in IdxClients : client[d].pc = "expire" /\ client[d].t = u /\ client[d].e = shard[u].epoch
    BY <1>t DEF HeapTrails
  <2> QED  BY <1>0, <1>8, <1>9, <2>1, <2>2 DEF HeapTrails
<1>13. LeasesKnown'
  <2>1. ASSUME NEW u, NEW e, LeaseKnown(u, e) PROVE LeaseKnown(u, e)'
    BY <1>0, <1>8, <2>1 DEF LeaseKnown
  <2>2. ASSUME NEW d \in IdxClients, (client[d].pc = "expire")' PROVE LeaseKnown(client[d].t, client[d].e)'
    <3>1. client'[d] = client[d] /\ LeaseKnown(client[d].t, client[d].e)
      BY <1>8, <1>t, <2>2 DEF LeasesKnown
    <3>2. ASSUME NEW u, NEW e, u = client[d].t, e = client[d].e PROVE LeaseKnown(u, e)'
      BY <2>1, <3>1, <3>2
    <3> QED  BY <3>1, <3>2 DEF LeaseKnown
  <2>3. ASSUME NEW g \in granted' PROVE LeaseKnown(g.t, g.e)'
    BY <1>0, <1>t, <2>1, <2>3 DEF LeasesKnown
  <2> QED  BY <2>2, <2>3 DEF LeasesKnown
<1> QED  BY <1>7, <1>10, <1>11, <1>12, <1>13 DEF IdxInv

\* What the record of a task that was never written shows.
LEMMA AbsentIs == Absent.st = "none" /\ Absent.epoch = 0
BY DEF Absent

\* The heap of running leases is brought up to date, and the call returns.
LEMMA HeapTracked ==
    ASSUME IdxInv, NEW c \in IdxClients, trackRunning(c),
           NEW t, NEW prev, NEW cur, t = client[c].t, prev = client[c].prev, cur = client[c].cur
    PROVE  IdxInv'
<1>t. IdxTypes /\ OneMutator /\ IndexesTrail /\ HeapTrails /\ LeasesKnown /\ CallersWait
  BY DEF IdxInv
<1>0. /\ client[c].pc = "heap" /\ UNCHANGED <<shard, byIdem, allTasks, byStatus, byWorker>>
      /\ client' = [client EXCEPT ![c] = NoCall]
  BY DEF trackRunning
<1>1. t \in IdxTasks /\ cur = shard[t] /\ cur \in TaskRecords
  BY <1>0, <1>t, ClientShape DEF OneMutator
<1>2. /\ heap' = [heap EXCEPT ![t] = IF cur.st = "RUNNING" THEN cur.epoch
                                     ELSE IF prev.st = "RUNNING" THEN 0 ELSE @]
      /\ ready' = IF cur.st = "QUEUED" THEN ready \cup {t} ELSE ready
      /\ granted' = IF cur.st = "RUNNING" THEN granted \cup {[t |-> t, e |-> cur.epoch, w |-> cur.worker]}
                    ELSE granted
  BY DEF trackRunning
<1>3. client'[c].pc = "rest" /\ \A d \in IdxClients : d # c => client'[d] = client[d]
  BY <1>0, <1>t, NoCallPc DEF IdxTypes
<1>4. \A d \in IdxClients : d # c /\ client[d].pc \in {"index", "heap"} => client[d].t # t
  BY <1>0, <1>t DEF OneMutator
<1>5. \A d \in IdxClients : client'[d].pc # "rest" => client'[d] = client[d] /\ d # c
  BY <1>3
<1>6. cur.epoch \in Nat /\ cur.worker \in IdxWorkers \cup {""}
  BY <1>1 DEF TaskRecords
<1>7. heap \in [IdxTasks -> Nat]
  BY <1>t DEF IdxTypes
<1>8. /\ heap' \in [IdxTasks -> Nat] /\ \A u \in IdxTasks : u # t => heap'[u] = heap[u]
      /\ heap'[t] = IF cur.st = "RUNNING" THEN cur.epoch ELSE IF prev.st = "RUNNING" THEN 0 ELSE heap[t]
  BY <1>1, <1>2, <1>6, <1>7
<1>9. Settled(t)' /\ \A u \in IdxTasks : u # t => (Settled(u)' <=> Settled(u))
  <2>1. Settled(t)'
    BY <1>3, <1>4 DEF Settled
  <2>2. ASSUME NEW u \in IdxTasks, u # t PROVE Settled(u)' <=> Settled(u)
    BY <1>0, <1>3, <2>2 DEF Settled
  <2> QED  BY <2>1, <2>2
<1>10. IdxTypes'
  <2> DEFINE g == [t |-> t, e |-> cur.epoch, w |-> cur.worker]
  <2>1. g \in [t : IdxTasks, e : Nat, w : IdxWorkers \cup {""}]
    BY <1>1, <1>6
  <2>2. granted' \subseteq granted \cup {g}
    BY <1>2
  <2> HIDE DEF g
  <2>3. granted' \subseteq [t : IdxTasks, e : Nat, w : IdxWorkers \cup {""}]
    BY <1>t, <2>1, <2>2 DEF IdxTypes
  <2>4. client' \in [IdxClients -> {NoCall} \cup Expiring \cup Mutating]
    BY <1>0, <1>t DEF IdxTypes
  <2> QED  BY <1>0, <1>8, <1>t, <2>3, <2>4 DEF IdxTypes
<1>11. OneMutator'
  BY <1>0, <1>5, <1>t DEF OneMutator
<1>12. IndexesTrail'
  <2>1. ASSUME NEW d \in IdxClients, (client[d].pc = "index")' PROVE IndexesShow(client[d].t, client[d].prev)'
    <3>1. client'[d] = client[d] /\ IndexesShow(client[d].t, client[d].prev)
      BY <1>5, <1>t, <2>1 DEF IndexesTrail
    <3> QED  BY <1>0, <3>1 DEF IndexesShow
  <2>2. ASSUME NEW u \in IdxTasks, \A d \in IdxClients : client'[d].pc = "index" => client'[d].t # u
        PROVE  IndexesShow(u, shard[u])'
    <3>1. \A d \in IdxClients : client[d].pc = "index" => client[d].t # u
      BY <1>0, <1>3, <2>2
    <3>2. IndexesShow(u, shard[u])
      BY <1>t, <3>1 DEF IndexesTrail
    <3> QED  BY <1>0, <3>2 DEF IndexesShow
  <2> QED  BY <2>1, <2>2 DEF IndexesTrail
<1>13. HeapTrails'
  <2>1. ASSUME NEW u \in IdxTasks
        PROVE  /\ heap'[u] # 0 =>
                     /\ heap'[u] <= shard'[u].epoch
                     /\ Settled(u)' => shard'[u].st = "RUNNING" /\ shard'[u].epoch = heap'[u]
                     /\ \A d \in IdxClients : client'[d].pc \in {"index", "heap"} /\ client'[d].t = u =>
                          client'[d].prev.st = "RUNNING" /\ client'[d].cur.st # "RUNNING"
               /\ Settled(u)' /\ shard'[u].st = "RUNNING" =>
                     \/ heap'[u] = shard'[u].epoch
                     \/ \E d \in IdxClients : client'[d].pc = "expire" /\ client'[d].t = u /\ client'[d].e = shard'[u].epoch
    <3>1. heap[u] # 0 =>
            /\ heap[u] <= shard[u].epoch
            /\ Settled(u) => shard[u].st = "RUNNING" /\ shard[u].epoch = heap[u]
            /\ \A d \in IdxClients : client[d].pc \in {"index", "heap"} /\ client[d].t = u =>
                 client[d].prev.st = "RUNNING" /\ client[d].cur.st # "RUNNING"
      BY <1>t DEF HeapTrails
    <3>2. CASE u = t
      <4>1. heap'[t] # 0 => cur.st = "RUNNING" /\ heap'[t] = cur.epoch
        BY <1>0, <1>1, <1>8, <3>1, <3>2
      <4>2. \A d \in IdxClients : client'[d].pc \in {"index", "heap"} => client'[d].t # t
        BY <1>4, <1>5
      <4>3. cur.st = "RUNNING" => heap'[t] = cur.epoch
        BY <1>8
      <4>4. shard'[t] = cur
        BY <1>0, <1>1
      <4>5. cur.epoch <= cur.epoch
        <5>1. \A k \in Nat : k <= k
          OBVIOUS
        <5> QED  BY <1>6, <5>1
      <4> QED  BY <3>2, <4>1, <4>2, <4>3, <4>4, <4>5
    <3>3. CASE u # t
      <4>1. Settled(u) /\ shard[u].st = "RUNNING" =>
             \/ heap[u] = shard[u].epoch
             \/ \E d \in IdxClients : client[d].pc = "expire" /\ client[d].t = u /\ client[d].e = shard[u].epoch
        BY <1>t DEF HeapTrails
      <4>2. \A d \in IdxClients : client[d].pc = "expire" => client'[d] = client[d]
        BY <1>0, <1>3
      <4> QED  BY <1>0, <1>5, <1>8, <1>9, <3>1, <3>3, <4>1, <4>2
    <3> QED  BY <3>2, <3>3
  <2> QED  BY <2>1 DEF HeapTrails
<1>14. LeasesKnown'
  <2>1. ASSUME NEW u, NEW e, LeaseKnown(u, e) PROVE LeaseKnown(u, e)'
    BY <1>0, <1>5, <2>1 DEF LeaseKnown
  <2>2. ASSUME NEW d \in IdxClients, (client[d].pc = "expire")' PROVE LeaseKnown(client[d].t, client[d].e)'
    <3>1. client'[d] = client[d] /\ LeaseKnown(client[d].t, client[d].e)
      BY <1>5, <1>t, <2>2 DEF LeasesKnown
    <3>2. ASSUME NEW u, NEW e, u = client[d].t, e = client[d].e PROVE LeaseKnown(u, e)'
      BY <2>1, <3>1, <3>2
    <3> QED  BY <3>1, <3>2 DEF LeaseKnown
  <2>3. ASSUME NEW g \in granted' PROVE LeaseKnown(g.t, g.e)'
    <3>1. CASE g \in granted
      BY <1>t, <2>1, <3>1 DEF LeasesKnown
    <3>2. CASE g \notin granted
      <4>1. g.t = t /\ g.e = cur.epoch
        BY <1>2, <2>3, <3>2
      <4>2. cur.epoch <= shard'[t].epoch
        <5>1. shard'[t] = cur
          BY <1>0, <1>1
        <5>2. \A k \in Nat : k <= k
          OBVIOUS
        <5> QED  BY <1>6, <5>1, <5>2
      <4>3. \A d \in IdxClients : client'[d].pc \in {"index", "heap"} => client'[d].t # t
        BY <1>4, <1>5
      <4> QED  BY <4>1, <4>2, <4>3 DEF LeaseKnown
    <3> QED  BY <3>1, <3>2
  <2> QED  BY <2>2, <2>3 DEF LeasesKnown
<1>15. CallersWait'
  <2>1. \A u \in IdxTasks : u \in ready' => u \in ready \/ (u = t /\ cur.st = "QUEUED")
    BY <1>2
  <2>2. \A u \in IdxTasks : Settled(u) => Settled(u)'
    BY <1>9
  <2> QED  BY <1>0, <1>1, <1>9, <1>t, <2>1, <2>2 DEF CallersWait
<1> QED  BY <1>10, <1>11, <1>12, <1>13, <1>14, <1>15 DEF IdxInv

\* A lease that a caller knows, and that the record shows running, was returned: no call
\* is at work on the task.
LEMMA KnownSettled ==
    ASSUME IdxInv, NEW t \in IdxTasks, NEW e \in Nat, LeaseKnown(t, e),
           shard[t].st = "RUNNING", shard[t].epoch = e
    PROVE  Settled(t) /\ t \notin ready /\ t \in byIdem
<1>1. Settled(t)
  BY DEF IdxInv, OneMutator, LeaseKnown, Settled
<1>2. t \notin ready /\ t \in byIdem
  BY AbsentIs DEF IdxInv, CallersWait
<1> QED  BY <1>1, <1>2

\* Every step of a call on the task store keeps its invariant.
LEMMA IdxInvStep == IdxInv /\ [IdxNext]_idxVars => IdxInv'
<1> SUFFICES ASSUME IdxInv, [IdxNext]_idxVars PROVE IdxInv'
  OBVIOUS
<1>t. IdxTypes /\ OneMutator /\ IndexesTrail /\ HeapTrails /\ LeasesKnown /\ CallersWait
  BY DEF IdxInv
<1>r. \A t \in IdxTasks : shard[t] \in TaskRecords /\ shard[t].epoch \in Nat
  BY <1>t DEF IdxTypes, TaskRecords
<1>g. \A g \in granted : g.t \in IdxTasks /\ g.e \in Nat /\ LeaseKnown(g.t, g.e)
  BY <1>t DEF IdxTypes, LeasesKnown
<1>1. ASSUME NEW c \in IdxClients, NEW t \in IdxTasks, create(c, t) PROVE IdxInv'
  <2> DEFINE new == [st |-> "QUEUED", worker |-> "", epoch |-> 0]
  <2>1. new \in TaskRecords /\ new.st = "QUEUED" /\ new.epoch = 0
    BY DEF TaskRecords, Statuses, Indexed
  <2>2. client[c].pc = "rest" /\ t \notin byIdem /\ Mutated(c, t, new) /\ byIdem' = byIdem \cup {t} /\ UNCHANGED <<ready, granted>>
    BY <1>1 DEF create
  <2> HIDE DEF new
  <2>3. shard[t] = Absent /\ Settled(t) /\ t \notin ready
    BY <1>t, <2>2, AbsentIs DEF CallersWait
  <2>4. shard[t].epoch = 0
    BY <2>3, AbsentIs
  <2> QED  BY <2>1, <2>2, <2>3, <2>4, MutatedKeeps
<1>2. ASSUME NEW c \in IdxClients, NEW t \in IdxTasks, NEW w \in IdxWorkers, lease(c, t, w) PROVE IdxInv'
  <2> DEFINE e == shard[t].epoch + 1
             new == [st |-> "RUNNING", worker |-> w, epoch |-> e]
  <2>0. e \in Nat /\ shard[t].epoch < e /\ shard[t].epoch <= e
    BY <1>r
  <2>2. client[c].pc = "rest" /\ t \in ready /\ Mutated(c, t, new) /\ ready' = ready \ {t} /\ UNCHANGED <<byIdem, granted>>
    BY <1>2 DEF lease
  <2> HIDE DEF e
  <2>1. new \in TaskRecords /\ new.st = "RUNNING" /\ new.epoch = e
    BY <2>0 DEF TaskRecords, Statuses, Indexed
  <2> HIDE DEF new
  <2>3. shard[t].st = "QUEUED" /\ Settled(t)
    BY <1>t, <2>2 DEF CallersWait
  <2>4. t \in byIdem
    BY <1>t, <2>3, AbsentIs DEF CallersWait
  <2>5. byIdem' = byIdem \cup {t}
    BY <2>2, <2>4
  <2> QED  BY <2>0, <2>1, <2>2, <2>3, <2>5, MutatedKeeps
<1>3. ASSUME NEW c \in IdxClients, NEW g \in granted, NEW st \in Terminal, complete(c, g, st) PROVE IdxInv'
  <2> DEFINE t == g.t
             new == [shard[t] EXCEPT !.st = st]
  <2>1. /\ client[c].pc = "rest" /\ Owns(g) /\ Mutated(c, t, new) /\ UNCHANGED <<byIdem, ready, granted>>
    BY <1>3 DEF complete
  <2>2. t \in IdxTasks /\ shard[t].st = "RUNNING" /\ shard[t].epoch = g.e /\ g.e \in Nat /\ LeaseKnown(t, g.e)
    BY <1>g, <2>1 DEF Owns
  <2>3. Settled(t) /\ t \notin ready /\ t \in byIdem
    BY <2>2, KnownSettled
  <2>4. new \in TaskRecords /\ new.st = st /\ new.epoch = shard[t].epoch
    BY <1>r, <2>2 DEF TaskRecords, Statuses, Terminal
  <2>5. st # "none" /\ st # "RUNNING"
    BY DEF Terminal
  <2> HIDE DEF new, t
  <2>6. byIdem' = byIdem \cup {t} /\ ready' \subseteq ready \ {t}
    BY <2>1, <2>3
  <2> QED  BY <2>1, <2>2, <2>3, <2>4, <2>5, <2>6, MutatedKeeps
<1>4. ASSUME NEW c \in IdxClients, NEW t \in IdxTasks, popRunningBefore(c, t) PROVE IdxInv'
  <2> DEFINE e == heap[t]
  <2>1. /\ client[c].pc = "rest" /\ e > 0 /\ heap' = [heap EXCEPT ![t] = 0]
        /\ client' = [client EXCEPT ![c] = [pc |-> "expire", t |-> t, e |-> e]]
        /\ UNCHANGED <<shard, byIdem, allTasks, byStatus, byWorker, ready, granted>>
    BY <1>4 DEF popRunningBefore
  <2>2. e \in Nat /\ e # 0
    <3>1. e \in Nat
      BY <1>t DEF IdxTypes
    <3> HIDE DEF e
    <3> QED  BY <2>1, <3>1
  <2>3. LeaseKnown(t, e)
    BY <1>t, <2>2 DEF HeapTrails, LeaseKnown
  <2> QED  BY <2>1, <2>2, <2>3, RecoveryStarts
<1>5. ASSUME NEW c \in IdxClients, NEW g \in granted, requeueTaskIfLeaseExpired(c, g) PROVE IdxInv'
  <2>1. /\ client[c].pc = "rest" /\ heap' = heap
        /\ client' = [client EXCEPT ![c] = [pc |-> "expire", t |-> g.t, e |-> g.e]]
        /\ UNCHANGED <<shard, byIdem, allTasks, byStatus, byWorker, ready, granted>>
    BY <1>5 DEF requeueTaskIfLeaseExpired
  <2> QED  BY <1>g, <2>1, RecoveryStarts
<1>6. ASSUME NEW c \in IdxClients, requeueTaskAt(c) PROVE IdxInv'
  <2>1. client[c].pc = "expire" /\ UNCHANGED <<byIdem, ready, granted>>
    BY <1>6 DEF requeueTaskAt
  <2>2. client[c].t \in IdxTasks /\ client[c].e \in Nat /\ LeaseKnown(client[c].t, client[c].e)
    BY <1>t, <2>1, ClientShape DEF LeasesKnown
  <2>3. CASE StillExpired(c)
    <3> DEFINE t == client[c].t
               new == [shard[t] EXCEPT !.st = "QUEUED", !.worker = ""]
    <3>1. Mutated(c, t, new)
      BY <1>6, <2>3 DEF requeueTaskAt
    <3>2. shard[t].st = "RUNNING" /\ shard[t].epoch = client[c].e
      BY <2>3 DEF StillExpired
    <3>3. Settled(t) /\ t \notin ready /\ t \in byIdem
      BY <2>2, <3>2, KnownSettled
    <3>4. new \in TaskRecords /\ new.st = "QUEUED" /\ new.epoch = shard[t].epoch
      <4>1. shard[t] \in TaskRecords
        BY <1>r, <2>2
      <4> QED  BY <4>1 DEF TaskRecords, Statuses, Indexed
    <3> HIDE DEF new
    <3>5. byIdem' = byIdem \cup {t} /\ ready' \subseteq ready \ {t} /\ shard[t].epoch <= new.epoch
      BY <1>r, <2>1, <2>2, <3>3, <3>4
    <3>6. client[c].pc = "expire" /\ client[c].t = t /\ t \in IdxTasks
      BY <2>1, <2>2
    <3> HIDE DEF t
    <3> QED  BY <2>1, <3>1, <3>3, <3>4, <3>5, <3>6, MutatedKeeps
  <2>4. CASE ~StillExpired(c)
    <3>1. client' = [client EXCEPT ![c] = NoCall] /\ UNCHANGED <<shard, allTasks, byStatus, byWorker, heap>>
      BY <1>6, <2>4 DEF requeueTaskAt
    <3> QED  BY <2>1, <2>4, <3>1, RecoveryRefused
  <2> QED  BY <2>3, <2>4
<1>7. ASSUME NEW c \in IdxClients, replaceTaskIndexes(c) PROVE IdxInv'
  BY <1>7, IndexesReplaced
<1>8. ASSUME NEW c \in IdxClients, trackRunning(c) PROVE IdxInv'
  BY <1>8, HeapTracked
<1>9. ASSUME UNCHANGED <<shard, byIdem, allTasks, byStatus, byWorker, heap, client, ready, granted>> PROVE IdxInv'
  <2>1. IdxTypes' /\ OneMutator' /\ CallersWait'
    BY <1>9, <1>t DEF IdxTypes, OneMutator, CallersWait, Settled
  <2>2. IndexesTrail'
    BY <1>9, <1>t DEF IndexesTrail, IndexesShow
  <2>3. HeapTrails'
    BY <1>9, <1>t DEF HeapTrails, Settled
  <2>4. LeasesKnown'
    BY <1>9, <1>t DEF LeasesKnown, LeaseKnown
  <2> QED  BY <2>1, <2>2, <2>3, <2>4 DEF IdxInv
<1>10. ASSUME NEW st \in Statuses, listByStatus(st) PROVE IdxInv'
  BY <1>9, <1>10 DEF listByStatus
<1>11. ASSUME NEW t \in IdxTasks, ListRead(t) PROVE IdxInv'
  BY <1>9, <1>11 DEF ListRead
<1>12. ASSUME ListReturns PROVE IdxInv'
  BY <1>9, <1>12 DEF ListReturns
<1>13. ASSUME UNCHANGED idxVars PROVE IdxInv'
  BY <1>9, <1>13 DEF idxVars
<1> QED  BY <1>1, <1>2, <1>3, <1>4, <1>5, <1>6, <1>7, <1>8, <1>10, <1>11, <1>12, <1>13 DEF IdxNext

\* At rest the indexes and the heap show the records: what a listing starts from.
LEMMA IdxInvExact == IdxInv => TaskIndexExact
<1> SUFFICES ASSUME IdxInv, NEW t \in Quiet
             PROVE  /\ IndexesShow(t, shard[t])
                    /\ heap[t] = IF shard[t].st = "RUNNING" THEN shard[t].epoch ELSE 0
  BY DEF TaskIndexExact, IndexesShow
<1>1. t \in IdxTasks /\ \A c \in IdxClients : client[c].pc # "rest" => client[c].t # t
  BY DEF Quiet
<1>2. Settled(t) /\ \A c \in IdxClients : client[c].pc = "index" => client[c].t # t
  BY <1>1 DEF Settled
<1>3. IndexesShow(t, shard[t])
  BY <1>1, <1>2 DEF IdxInv, IndexesTrail
<1>4. heap[t] # 0 => shard[t].st = "RUNNING" /\ shard[t].epoch = heap[t]
  BY <1>1, <1>2 DEF IdxInv, HeapTrails
<1>5. shard[t].st = "RUNNING" => heap[t] = shard[t].epoch
  BY <1>1, <1>2 DEF IdxInv, HeapTrails
<1> QED  BY <1>3, <1>4, <1>5

\* A listing and the calls that change records meanwhile keep what the listing owes.
LEMMA ListInvStep == IdxInv /\ ListInv /\ [IdxNext]_idxVars => ListInv'
<1> SUFFICES ASSUME IdxInv, ListInv, [IdxNext]_idxVars PROVE ListInv'
  OBVIOUS
<1>t. IdxTypes /\ TaskIndexExact
  BY IdxInvExact DEF IdxInv
<1>m. ASSUME NEW c, NEW t, NEW new, Mutated(c, t, new) PROVE ListInv'
  <2>1. lister' = [lister EXCEPT !.must = @ \ {t}] /\ shard' = [shard EXCEPT ![t] = new]
    BY <1>m DEF Mutated
  <2>2. ASSUME lister'.pc = "read", NEW u \in lister'.must
        PROVE  u \in IdxTasks /\ shard'[u].st = lister'.st /\ u \in lister'.ids \cup lister'.out
    <3>1. shard \in [IdxTasks -> TaskRecords]
      BY <1>t DEF IdxTypes
    <3>2. lister.pc = "read" /\ lister'.st = lister.st /\ lister'.ids = lister.ids /\ lister'.out = lister.out
          /\ u \in lister.must /\ u # t
      BY <2>1, <2>2
    <3>3. u \in IdxTasks /\ shard[u].st = lister.st /\ u \in lister.ids \cup lister.out
      BY <3>2 DEF ListInv
    <3> QED  BY <2>1, <3>1, <3>2, <3>3
  <2> QED  BY <2>2 DEF ListInv
<1>u. ASSUME UNCHANGED <<shard, lister>> PROVE ListInv'
  BY <1>u DEF ListInv
<1>1. ASSUME NEW c \in IdxClients, NEW t \in IdxTasks, create(c, t) PROVE ListInv'
  BY <1>1, <1>m DEF create
<1>2. ASSUME NEW c \in IdxClients, NEW t \in IdxTasks, NEW w \in IdxWorkers, lease(c, t, w) PROVE ListInv'
  BY <1>2, <1>m DEF lease
<1>3. ASSUME NEW c \in IdxClients, NEW g \in granted, NEW st \in Terminal, complete(c, g, st) PROVE ListInv'
  BY <1>3, <1>m DEF complete
<1>4. ASSUME NEW c \in IdxClients, NEW t \in IdxTasks, popRunningBefore(c, t) PROVE ListInv'
  BY <1>4, <1>u DEF popRunningBefore
<1>5. ASSUME NEW c \in IdxClients, NEW g \in granted, requeueTaskIfLeaseExpired(c, g) PROVE ListInv'
  BY <1>5, <1>u DEF requeueTaskIfLeaseExpired
<1>6. ASSUME NEW c \in IdxClients, requeueTaskAt(c) PROVE ListInv'
  <2>1. CASE StillExpired(c)
    BY <1>6, <1>m, <2>1 DEF requeueTaskAt
  <2>2. CASE ~StillExpired(c)
    BY <1>6, <1>u, <2>2 DEF requeueTaskAt
  <2> QED  BY <2>1, <2>2
<1>7. ASSUME NEW c \in IdxClients, replaceTaskIndexes(c) \/ trackRunning(c) PROVE ListInv'
  BY <1>7, <1>u DEF replaceTaskIndexes, trackRunning
<1>8. ASSUME NEW st \in Statuses, listByStatus(st) PROVE ListInv'
  <2>1. /\ lister' = [pc |-> "read", st |-> st, ids |-> indexedTaskIDsByStatus(st), out |-> {},
                      must |-> {t \in Quiet : shard[t].st = st}]
        /\ shard' = shard
    BY <1>8 DEF listByStatus
  <2>2. ASSUME NEW t \in Quiet, shard[t].st = st PROVE t \in IdxTasks /\ t \in indexedTaskIDsByStatus(st)
    <3>1. t \in allTasks <=> shard[t].st # "none"
      BY <1>t DEF TaskIndexExact
    <3>2. \A s \in Indexed : t \in byStatus[s] <=> shard[t].st = s
      BY <1>t DEF TaskIndexExact
    <3>3. st # "none"
      BY DEF Statuses, Indexed, Terminal
    <3>4. t \in indexedTaskIDsByStatus(st)
      BY <2>2, <3>1, <3>2, <3>3 DEF indexedTaskIDsByStatus
    <3> QED  BY <3>4 DEF Quiet
  <2> QED  BY <2>1, <2>2 DEF ListInv
<1>9. ASSUME NEW t \in IdxTasks, ListRead(t) PROVE ListInv'
  <2>1. /\ lister' = [lister EXCEPT !.ids = @ \ {t},
                                    !.out = IF shard[t].st = lister.st THEN @ \cup {t} ELSE @]
        /\ shard' = shard /\ lister.pc = "read"
    BY <1>9 DEF ListRead
  <2>2. ASSUME NEW u \in lister'.must, lister'.pc = "read"
        PROVE  u \in IdxTasks /\ shard'[u].st = lister'.st /\ u \in lister'.ids \cup lister'.out
    <3>1. lister'.must = lister.must /\ lister'.st = lister.st
      BY <2>1
    <3>2. u \in IdxTasks /\ shard[u].st = lister.st /\ u \in lister.ids \cup lister.out
      BY <2>1, <2>2, <3>1 DEF ListInv
    <3>3. lister'.ids = lister.ids \ {t}
      BY <2>1
    <3>4. lister.out \subseteq lister'.out /\ (shard[t].st = lister.st => t \in lister'.out)
      BY <2>1
    <3> QED  BY <2>1, <3>1, <3>2, <3>3, <3>4
  <2> QED  BY <2>2 DEF ListInv
<1>10. ASSUME ListReturns PROVE ListInv'
  BY <1>10 DEF ListReturns, NoList, ListInv
<1>11. ASSUME UNCHANGED idxVars PROVE ListInv'
  BY <1>11, <1>u DEF idxVars
<1> QED  BY <1>1, <1>2, <1>3, <1>4, <1>5, <1>6, <1>7, <1>8, <1>9, <1>10, <1>11 DEF IdxNext

\* The indexes can be used in place of the records (memory_v2.go: replaceTaskIndexes,
\* trackRunning, listByStatus): for any tasks, workers and number of concurrent calls,
\* each index and the heap of running leases agree with the record of every task no call
\* works on, although record, indexes and heap change under three locks, and a listing
\* that reads while they change misses no task it owes.
THEOREM IndexesFaithfulHolds == IdxSpec => []IndexesFaithful
<1>1. ListInv => ListComplete
  BY DEF ListInv, ListComplete
<1>2. IdxInv /\ ListInv => IndexesFaithful
  BY <1>1, IdxInvExact DEF IndexesFaithful
<1> QED  BY <1>2, IdxInvInit, IdxInvStep, ListInvStep, PTL DEF IdxSpec

-----------------------------------------------------------------------------
(***************************************************************************)
(* The worker process.                                                     *)
(***************************************************************************)
Resting == {"rest", "gone"}
Critical == {"start", "run", "call", "unlock"}   \* with the lock of the actor
Referring == Critical \cup {"lock", "unref"}     \* with a pointer to its entry
ExecPcs == Resting \cup Referring \cup {"ref", "finish"}
ExecRecords == [pc : ExecPcs, task : AgentTasks \cup {NoTask}, done : BOOLEAN]

\* Every channel and every executor has tasks of its own pool.
AgentTypes ==
    /\ loop \in {"running", "closing", "cancelled"}
    /\ inFlight \in Nat /\ dispatched \in Nat /\ completed \in Nat
    /\ results \in Seq(BOOLEAN)
    /\ queue \in [PoolNames -> Seq(AgentTasks)] /\ \A p \in PoolNames : queue[p] \in Seq(PoolTasks(p))
    /\ exec \in [Executors -> ExecRecords]
    /\ \A x \in Executors : exec[x].pc \notin Resting => exec[x].task \in PoolTasks(PoolOf(x))

\* The loop's counters: what it dispatched is in flight or completed, within MaxTasks.
LoopCounts ==
    /\ dispatched = inFlight + completed
    /\ MaxTasks > 0 => dispatched <= MaxTasks

AgentInv == AgentTypes /\ LoopCounts /\ InFlightExact /\ NothingLeftAtClose

\* One executor is in the middle of a job and goes on with it.
Works(x) ==
    /\ exec[x].pc \notin Resting
    /\ \E m \in ExecRecords :
         /\ exec' = [exec EXCEPT ![x] = m] /\ m.task = exec[x].task /\ m.pc \notin Resting
         /\ x \in LockUsers => exec[x].pc \in Critical /\ m.pc \in Critical
    /\ LoopKept /\ UNCHANGED <<queue, results, lockVars>>

\* The pools are disjoint and finite.
LEMMA PoolsFinite ==
    /\ IsFiniteSet(Executors) /\ \A x \in LockUsers : x \in Executors /\ PoolOf(x) = "actor"
    /\ \A x \in Executors : PoolOf(x) \in PoolNames
    /\ \A x \in Runners : x \in Executors
<1>1. IsFiniteSet(TaskExecutors \union LockUsers)
  BY AgentAssumption, LockAssumption, FS_Union
<1>2. IsFiniteSet(Executors)
  BY <1>1, AgentAssumption, FS_Union DEF Executors
<1>3. \A x \in LockUsers : x \notin TaskExecutors
  BY AgentAssumption
<1> QED  BY <1>2, <1>3 DEF Executors, Runners, PoolOf, PoolNames

\* An executor's record with another step, or at the end of the execution.
LEMMA ExecEntered ==
    ASSUME AgentTypes, NEW x \in Executors, NEW pc \in ExecPcs, Enter(x, pc)
    PROVE  \E m \in ExecRecords : exec' = [exec EXCEPT ![x] = m] /\ m.task = exec[x].task /\ m.pc = pc
<1> DEFINE m == [exec[x] EXCEPT !.pc = pc]
<1>1. exec[x] \in ExecRecords
  BY DEF AgentTypes
<1>2. m \in ExecRecords /\ m.task = exec[x].task /\ m.pc = pc
  BY <1>1 DEF ExecRecords
<1>3. exec' = [exec EXCEPT ![x] = m]
  BY DEF Enter, AgentTypes
<1> QED  BY <1>2, <1>3

LEMMA ExecExecuted ==
    ASSUME AgentTypes, NEW x \in Executors, NEW b \in BOOLEAN, Executed(x, b)
    PROVE  \E m \in ExecRecords : /\ exec' = [exec EXCEPT ![x] = m] /\ m.task = exec[x].task
                                  /\ m.pc = IF x \in LockUsers THEN "unlock" ELSE "finish"
<1> DEFINE pc == IF x \in LockUsers THEN "unlock" ELSE "finish"
           t == exec[x].task
           m == [pc |-> pc, task |-> t, done |-> b]
<1>1. exec[x] \in ExecRecords
  BY DEF AgentTypes
<1>2. t \in AgentTasks \cup {NoTask} /\ pc \in ExecPcs
  BY <1>1 DEF ExecRecords, ExecPcs, Referring, Critical
<1>3. exec' = [exec EXCEPT ![x] = m]
  BY DEF Executed
<1> HIDE DEF pc, t
<1>4. m \in ExecRecords /\ m.task = t /\ m.pc = pc
  BY <1>2 DEF ExecRecords
<1> HIDE DEF m
<1> QED  BY <1>3, <1>4 DEF pc, t

\* Every step of an executor between its start and the end of the execution is such work.
LEMMA WorkSteps ==
    ASSUME AgentTypes, NEW x \in Executors,
           \/ ClaimLease(x) \/ SourceForTask(x) \/ KnownFunction(x) \/ runLLMExecutor(x)
           \/ RunnerStep(x) \/ (x \in LockUsers /\ runActorExecutor(x))
    PROVE  Works(x)
<1>1. LoopKept /\ UNCHANGED <<queue, results, lockVars>>
  BY DEF ClaimLease, SourceForTask, KnownFunction, runLLMExecutor, RunnerStep, RunnerReplies, RunnerBreaks,
         TimeoutRestarts, runActorExecutor
<1>2. exec[x].pc \in {"start", "run", "call"}
  BY DEF ClaimLease, SourceForTask, KnownFunction, runLLMExecutor, RunnerStep, RunnerReplies, RunnerBreaks,
         TimeoutRestarts, runActorExecutor, CallRunner
<1>3. Enter(x, "run") \/ Enter(x, "call") \/ Executed(x, FALSE) \/ Executed(x, TRUE)
  BY DEF ClaimLease, SourceForTask, KnownFunction, runLLMExecutor, RunnerStep, RunnerReplies, RunnerBreaks,
         TimeoutRestarts, runActorExecutor
<1>4. \E m \in ExecRecords : /\ exec' = [exec EXCEPT ![x] = m] /\ m.task = exec[x].task
                             /\ m.pc \in {"run", "call"} \/ m.pc = IF x \in LockUsers THEN "unlock" ELSE "finish"
  <2>1. "run" \in ExecPcs /\ "call" \in ExecPcs
    BY DEF ExecPcs, Referring, Critical
  <2>2. CASE Enter(x, "run")
    BY <2>1, <2>2, ExecEntered
  <2>3. CASE Enter(x, "call")
    BY <2>1, <2>3, ExecEntered
  <2>4. CASE Executed(x, FALSE)
    <3>1. \E m \in ExecRecords : /\ exec' = [exec EXCEPT ![x] = m] /\ m.task = exec[x].task
                                 /\ m.pc = IF x \in LockUsers THEN "unlock" ELSE "finish"
      BY <2>4, ExecExecuted
    <3> QED  BY <3>1
  <2>5. CASE Executed(x, TRUE)
    <3>1. \E m \in ExecRecords : /\ exec' = [exec EXCEPT ![x] = m] /\ m.task = exec[x].task
                                 /\ m.pc = IF x \in LockUsers THEN "unlock" ELSE "finish"
      BY <2>5, ExecExecuted
    <3> QED  BY <3>1
  <2> QED  BY <1>3, <2>2, <2>3, <2>4, <2>5
<1>5. PICK m \in ExecRecords : /\ exec' = [exec EXCEPT ![x] = m] /\ m.task = exec[x].task
                               /\ m.pc \in {"run", "call"} \/ m.pc = IF x \in LockUsers THEN "unlock" ELSE "finish"
  BY <1>4
<1>6. m.pc \notin Resting /\ (x \in LockUsers => m.pc \in Critical)
  BY <1>5 DEF Resting, Critical
<1>7. exec[x].pc \notin Resting /\ exec[x].pc \in Critical
  BY <1>2 DEF Resting, Critical
<1> QED  BY <1>1, <1>5, <1>6, <1>7 DEF Works

\* A subprocess answers with the functions it has, a restarted one with none.
KnownCompiled ==
    /\ runner \in [Runners -> [serves : BOOLEAN, known : SUBSET {t.runs : t \in AgentTasks \cup {NoTask}},
                                compiled : SUBSET {t.runs : t \in AgentTasks \cup {NoTask}}]]
    /\ \A x \in Runners : runner[x].known \subseteq runner[x].compiled

LEMMA KnownCompiledStep ==
    ASSUME AgentTypes, KnownCompiled, [AgentNext]_workerVars
    PROVE  KnownCompiled'
<1> DEFINE Codes == {t.runs : t \in AgentTasks \cup {NoTask}}
           Runs == [serves : BOOLEAN, known : SUBSET Codes, compiled : SUBSET Codes]
<1>t. runner \in [Runners -> Runs] /\ \A x \in Runners : runner[x].known \subseteq runner[x].compiled
  BY DEF KnownCompiled
<1>c. ASSUME NEW x \in Executors PROVE exec[x].task.runs \in Codes
  <2>1. exec[x].task \in AgentTasks \cup {NoTask}
    BY <1>c DEF AgentTypes, ExecRecords
  <2> QED  BY <2>1
<1> HIDE DEF Codes
<1>m. ASSUME NEW x \in Runners, NEW r \in Runs, r.known \subseteq r.compiled, runner' = [runner EXCEPT ![x] = r]
      PROVE  KnownCompiled'
  <2>1. runner' \in [Runners -> Runs] /\ runner'[x] = r /\ \A y \in Runners : y # x => runner'[y] = runner[y]
    BY <1>m, <1>t
  <2> QED  BY <1>m, <1>t, <2>1 DEF KnownCompiled, Codes
<1>1. ASSUME NEW x \in Runners, RunnerReplies(x) PROVE KnownCompiled'
  <2> DEFINE new == IF x \in TaskExecutors /\ Runnable(x) THEN {exec[x].task.runs} ELSE {}
  <2>1. PICK ok \in Replies(x) :
          runner' = [runner EXCEPT ![x].compiled = @ \union new,
                                   ![x].known = @ \union IF ok /\ HasSource(x) THEN new ELSE {}]
    BY <1>1 DEF RunnerReplies
  <2> DEFINE more == IF ok /\ HasSource(x) THEN new ELSE {}
             r == [runner[x] EXCEPT !.compiled = @ \union new, !.known = @ \union more]
  <2>2. new \subseteq Codes /\ more \subseteq new
    BY <1>c, PoolsFinite
  <2>3. runner' = [runner EXCEPT ![x] = r]
    BY <1>t, <2>1
  <2> HIDE DEF new, more
  <2>4. r \in Runs /\ r.known = runner[x].known \cup more /\ r.compiled = runner[x].compiled \cup new
    BY <1>t, <2>2
  <2> HIDE DEF r
  <2>5. r.known \subseteq r.compiled
    BY <1>t, <2>2, <2>4
  <2> QED  BY <1>m, <2>3, <2>4, <2>5
<1>2. ASSUME NEW x \in Runners, runner' = [runner EXCEPT ![x].serves = FALSE] PROVE KnownCompiled'
  <2> DEFINE r == [runner[x] EXCEPT !.serves = FALSE]
  <2>1. runner' = [runner EXCEPT ![x] = r]
    BY <1>2, <1>t
  <2>2. r \in Runs /\ r.known = runner[x].known /\ r.compiled = runner[x].compiled
    BY <1>t
  <2> HIDE DEF r
  <2>3. r.known \subseteq r.compiled
    BY <1>t, <2>2
  <2> QED  BY <1>m, <2>1, <2>2, <2>3
<1>3. ASSUME NEW x \in Runners, runner' = [runner EXCEPT ![x] = NewRunner] PROVE KnownCompiled'
  <2>1. NewRunner \in Runs /\ NewRunner.known \subseteq NewRunner.compiled
    BY DEF NewRunner
  <2> QED  BY <1>3, <1>m, <2>1
<1>4. ASSUME NEW x \in Runners, RunnerStep(x) PROVE KnownCompiled'
  BY <1>1, <1>2, <1>3, <1>4 DEF RunnerStep, RunnerBreaks, TimeoutRestarts
<1>5. ASSUME UNCHANGED runner PROVE KnownCompiled'
  BY <1>5, <1>t DEF KnownCompiled, Codes
<1>6. ASSUME NEW x \in Executors, ExecutorStep(x) PROVE UNCHANGED runner
  BY <1>6 DEF ExecutorStep, TakeJob, StopExecutor, ClaimLease, SourceForTask, KnownFunction, runLLMExecutor, Finish
<1>7. ASSUME MainStep PROVE UNCHANGED runner
  BY <1>7 DEF MainStep, PollLoop, CollectResults, HeartbeatTick, CancelContext
<1>8. ASSUME NEW x \in LockUsers, lockActor(x) \/ runActorExecutor(x) \/ unlockActor(x) PROVE UNCHANGED runner
  BY <1>8 DEF lockActor, runActorExecutor, unlockActor
<1>9. ASSUME UNCHANGED workerVars PROVE UNCHANGED runner
  BY <1>9 DEF workerVars, agentVars
<1> QED  BY <1>4, <1>5, <1>6, <1>7, <1>8, <1>9 DEF AgentNext

\* The executors at work form a finite set.
LEMMA BusyFinite ==
    /\ IsFiniteSet(Busy) /\ Cardinality(Busy) \in Nat /\ Busy \subseteq Executors
    /\ IsFiniteSet(Busy') /\ Cardinality(Busy') \in Nat
<1>1. Busy \subseteq Executors /\ Busy' \subseteq Executors
  BY DEF Busy
<1> QED  BY <1>1, PoolsFinite, FS_Subset, FS_CardinalityType

\* Sums of the lengths of three channels.
LEMMA Sums ==
    ASSUME NEW a \in Nat, NEW b \in Nat, NEW c \in Nat
    PROVE  /\ a + b + c \in Nat /\ (a + b + c = 0 <=> a = 0 /\ b = 0 /\ c = 0)
           /\ a - 1 + b + c = a + b + c - 1 /\ a + (b - 1) + c = a + b + c - 1
           /\ a + b + (c - 1) = a + b + c - 1
           /\ \A i, j, k \in Nat : (a + i) + (b + j) + (c + k) = (a + b + c) + (i + j + k)
OBVIOUS

\* The lengths of the channels.
LEMMA QueuedNat ==
    ASSUME AgentTypes
    PROVE  /\ Queued \in Nat /\ Len(results) \in Nat /\ \A p \in PoolNames : Len(queue[p]) \in Nat
           /\ Queued = 0 <=> \A p \in PoolNames : queue[p] = <<>>
           /\ Len(results) = 0 <=> results = <<>>
<1>1. \A p \in PoolNames : Len(queue[p]) \in Nat /\ (Len(queue[p]) = 0 <=> queue[p] = <<>>)
  BY EmptySeq, LenProperties DEF AgentTypes
<1>2. Len(results) \in Nat /\ (Len(results) = 0 <=> results = <<>>)
  BY EmptySeq, LenProperties DEF AgentTypes
<1>3. Queued = Len(queue["task"]) + Len(queue["actor"]) + Len(queue["llm"])
  BY DEF Queued
<1>4. /\ Len(queue["task"]) \in Nat /\ Len(queue["actor"]) \in Nat /\ Len(queue["llm"]) \in Nat
      /\ Len(queue["task"]) = 0 <=> queue["task"] = <<>>
      /\ Len(queue["actor"]) = 0 <=> queue["actor"] = <<>>
      /\ Len(queue["llm"]) = 0 <=> queue["llm"] = <<>>
  BY <1>1 DEF PoolNames
<1>5. Queued \in Nat /\ (Queued = 0 <=> Len(queue["task"]) = 0 /\ Len(queue["actor"]) = 0 /\ Len(queue["llm"]) = 0)
  <2> DEFINE a == Len(queue["task"])
             b == Len(queue["actor"])
             c == Len(queue["llm"])
  <2>1. Queued = a + b + c /\ a \in Nat /\ b \in Nat /\ c \in Nat
    BY <1>3, <1>4
  <2> HIDE DEF a, b, c
  <2>2. Queued \in Nat /\ (Queued = 0 <=> a = 0 /\ b = 0 /\ c = 0)
    BY <2>1, Sums
  <2> QED  BY <2>2 DEF a, b, c
<1>6. Queued = 0 <=> \A p \in PoolNames : queue[p] = <<>>
  BY <1>4, <1>5 DEF PoolNames
<1> QED  BY <1>1, <1>2, <1>5, <1>6

\* Whoever is in the middle of a job stays so: nothing the loop counts changes.
LEMMA WorksKeepsCounts ==
    ASSUME AgentInv, NEW x \in Executors, exec[x].pc \notin Resting, NEW m \in ExecRecords,
           exec' = [exec EXCEPT ![x] = m], m.task = exec[x].task, m.pc \notin Resting,
           LoopKept, UNCHANGED <<queue, results>>
    PROVE  AgentInv'
<1>t. AgentTypes /\ LoopCounts /\ InFlightExact /\ NothingLeftAtClose
  BY DEF AgentInv
<1>1. exec' \in [Executors -> ExecRecords] /\ exec'[x] = m /\ \A y \in Executors : y # x => exec'[y] = exec[y]
  BY <1>t DEF AgentTypes
<1>2. UNCHANGED <<loop, inFlight, dispatched, completed, queue, results>>
  BY DEF LoopKept
<1>3. AgentTypes'
  BY <1>1, <1>2, <1>t DEF AgentTypes
<1>4. Busy' = Busy
  BY <1>1 DEF Busy, Resting
<1>5. LoopCounts' /\ InFlightExact' /\ NothingLeftAtClose'
  BY <1>2, <1>4, <1>t DEF LoopCounts, InFlightExact, NothingLeftAtClose, Queued
<1> QED  BY <1>3, <1>5 DEF AgentInv

\* Nothing is dispatched at the start.
LEMMA AgentInvInit == AgentInit => AgentInv /\ KnownCompiled
<1> SUFFICES ASSUME AgentInit PROVE AgentInv /\ KnownCompiled
  OBVIOUS
<1>1. /\ loop = "running" /\ inFlight = 0 /\ dispatched = 0 /\ completed = 0
      /\ queue = [p \in PoolNames |-> <<>>] /\ results = <<>>
      /\ exec = [x \in Executors |-> AtRest] /\ runner = [x \in Runners |-> NewRunner]
  BY DEF AgentInit
<1>2. AtRest \in ExecRecords /\ AtRest.pc = "rest"
  BY DEF AtRest, ExecRecords, ExecPcs, Resting
<1>3. exec \in [Executors -> ExecRecords] /\ \A x \in Executors : exec[x].pc = "rest"
  BY <1>1, <1>2
<1>4. AgentTypes
  <2>1. \A p \in PoolNames : queue[p] = <<>>
    BY <1>1
  <2>2. results \in Seq(BOOLEAN)
    BY <1>1, EmptySeq
  <2>3. \A p \in PoolNames : queue[p] \in Seq(PoolTasks(p)) /\ queue[p] \in Seq(AgentTasks)
    BY <2>1, EmptySeq
  <2>4. queue \in [PoolNames -> Seq(AgentTasks)]
    BY <1>1, EmptySeq
  <2> QED  BY <1>1, <1>3, <2>2, <2>3, <2>4 DEF AgentTypes, Resting
<1>5. Busy = {}
  BY <1>3 DEF Busy
<1>6. Queued = 0 /\ Len(results) = 0
  <2>1. \A p \in PoolNames : queue[p] = <<>>
    BY <1>1
  <2> QED  BY <1>1, <1>4, <2>1, QueuedNat
<1>7. Cardinality(Busy) = 0
  BY <1>5, FS_EmptySet
<1>8. LoopCounts /\ InFlightExact /\ NothingLeftAtClose
  BY <1>1, <1>6, <1>7, AgentAssumption DEF LoopCounts, InFlightExact, NothingLeftAtClose
<1>9. KnownCompiled
  <2>1. NewRunner \in [serves : BOOLEAN, known : SUBSET {t.runs : t \in AgentTasks \cup {NoTask}},
                        compiled : SUBSET {t.runs : t \in AgentTasks \cup {NoTask}}]
        /\ NewRunner.known \subseteq NewRunner.compiled
    BY DEF NewRunner
  <2> QED  BY <1>1, <2>1 DEF KnownCompiled
<1> QED  BY <1>4, <1>8, <1>9 DEF AgentInv

\* Every step of the loop and of the executors keeps the account.
LEMMA AgentInvStep == AgentInv /\ [AgentNext]_workerVars => AgentInv'
<1> SUFFICES ASSUME AgentInv, [AgentNext]_workerVars PROVE AgentInv'
  OBVIOUS
<1>t. AgentTypes /\ LoopCounts /\ InFlightExact /\ NothingLeftAtClose
  BY DEF AgentInv
<1>n. inFlight \in Nat /\ dispatched \in Nat /\ completed \in Nat /\ Queued \in Nat /\ Len(results) \in Nat
      /\ Cardinality(Busy) \in Nat /\ Capacity \in Nat /\ MaxTasks \in Nat
  BY <1>t, AgentAssumption, BusyFinite, QueuedNat DEF AgentTypes
<1>1. ASSUME PollLoop PROVE AgentInv'
  <2>0. loop = "running" /\ UNCHANGED <<loop, completed, results, exec>>
    BY <1>1 DEF PollLoop
  <2>1. PICK plain \in Batches("task") : \E commands \in Batches("actor"), prompts \in Batches("llm") :
          LET n == Len(plain) + Len(commands) + Len(prompts) IN
            /\ n = 0 \/ MayDispatch(n)
            /\ dispatched + n <= MaxDispatched
            /\ queue' = [queue EXCEPT !["task"] = @ \o plain, !["actor"] = @ \o commands, !["llm"] = @ \o prompts]
            /\ inFlight' = inFlight + n
            /\ dispatched' = dispatched + n
    BY <1>1 DEF PollLoop
  <2>2. PICK commands \in Batches("actor"), prompts \in Batches("llm") :
          LET n == Len(plain) + Len(commands) + Len(prompts) IN
            /\ n = 0 \/ MayDispatch(n)
            /\ queue' = [queue EXCEPT !["task"] = @ \o plain, !["actor"] = @ \o commands, !["llm"] = @ \o prompts]
            /\ inFlight' = inFlight + n
            /\ dispatched' = dispatched + n
    BY <2>1
  <2> DEFINE n == Len(plain) + Len(commands) + Len(prompts)
  <2>3. ASSUME NEW p \in PoolNames, NEW ts \in Batches(p), NEW q \in Seq(PoolTasks(p)), q \in Seq(AgentTasks)
        PROVE  /\ Len(ts) \in Nat /\ q \o ts \in Seq(PoolTasks(p)) /\ q \o ts \in Seq(AgentTasks)
               /\ Len(q \o ts) = Len(q) + Len(ts)
    <3>1. ts \in Seq(PoolTasks(p))
      <4>1. PICK k \in 0..Capacity : ts \in [1..k -> PoolTasks(p)]
        BY <2>3 DEF Batches
      <4>2. k \in Nat
        BY <4>1, <1>n
      <4> QED  BY <4>1, <4>2, IsASeq
    <3>2. ts \in Seq(AgentTasks)
      BY <3>1, SeqMonotonic DEF PoolTasks
    <3> QED  BY <2>3, <3>1, <3>2, ConcatProperties, LenProperties
  <2>4. /\ queue \in [PoolNames -> Seq(AgentTasks)] /\ \A p \in PoolNames : queue[p] \in Seq(PoolTasks(p)) /\ queue[p] \in Seq(AgentTasks)
        /\ "task" \in PoolNames /\ "actor" \in PoolNames /\ "llm" \in PoolNames
    BY <1>t DEF AgentTypes, PoolNames
  <2>5. /\ queue'["task"] = queue["task"] \o plain /\ queue'["actor"] = queue["actor"] \o commands
        /\ queue'["llm"] = queue["llm"] \o prompts
        /\ queue' = [queue EXCEPT !["task"] = queue["task"] \o plain, !["actor"] = queue["actor"] \o commands,
                                  !["llm"] = queue["llm"] \o prompts]
    BY <2>2, <2>4
  <2>6. /\ \A p \in PoolNames : queue'[p] \in Seq(PoolTasks(p)) /\ queue'[p] \in Seq(AgentTasks)
        /\ queue' \in [PoolNames -> Seq(AgentTasks)]
    <3>1. /\ queue["task"] \o plain \in Seq(PoolTasks("task")) /\ queue["task"] \o plain \in Seq(AgentTasks)
          /\ queue["actor"] \o commands \in Seq(PoolTasks("actor")) /\ queue["actor"] \o commands \in Seq(AgentTasks)
          /\ queue["llm"] \o prompts \in Seq(PoolTasks("llm")) /\ queue["llm"] \o prompts \in Seq(AgentTasks)
      BY <2>3, <2>4
    <3>2. queue' \in [PoolNames -> Seq(AgentTasks)]
      BY <2>4, <2>5, <3>1
    <3> QED  BY <2>5, <3>1, <3>2 DEF PoolNames
  <2>7. n \in Nat /\ Queued' = Queued + n
    <3>1. /\ Len(plain) \in Nat /\ Len(commands) \in Nat /\ Len(prompts) \in Nat
          /\ Len(queue'["task"]) = Len(queue["task"]) + Len(plain)
          /\ Len(queue'["actor"]) = Len(queue["actor"]) + Len(commands)
          /\ Len(queue'["llm"]) = Len(queue["llm"]) + Len(prompts)
      BY <2>3, <2>4, <2>5
    <3>2. Len(queue["task"]) \in Nat /\ Len(queue["actor"]) \in Nat /\ Len(queue["llm"]) \in Nat
      BY <1>t, <2>4, QueuedNat
    <3>3. n \in Nat
      BY <3>1, Sums
    <3>4. Queued' = Len(queue'["task"]) + Len(queue'["actor"]) + Len(queue'["llm"])
      BY DEF Queued
    <3>5. Queued = Len(queue["task"]) + Len(queue["actor"]) + Len(queue["llm"])
      BY DEF Queued
    <3> DEFINE a == Len(queue["task"])
               b == Len(queue["actor"])
               c == Len(queue["llm"])
               i == Len(plain)
               j == Len(commands)
               k == Len(prompts)
    <3>6. /\ Queued' = (a + i) + (b + j) + (c + k) /\ Queued = a + b + c /\ n = i + j + k
          /\ a \in Nat /\ b \in Nat /\ c \in Nat /\ i \in Nat /\ j \in Nat /\ k \in Nat
      BY <3>1, <3>2, <3>4, <3>5
    <3> HIDE DEF a, b, c, i, j, k, n
    <3> QED  BY <3>3, <3>6, Sums
  <2>8. inFlight' = inFlight + n /\ dispatched' = dispatched + n /\ (n = 0 \/ MayDispatch(n))
    BY <2>2
  <2> HIDE DEF n
  <2>9. AgentTypes'
    <3>1. inFlight' \in Nat /\ dispatched' \in Nat
      BY <1>n, <2>7, <2>8
    <3> QED  BY <1>t, <2>0, <2>6, <3>1 DEF AgentTypes
  <2>10. Busy' = Busy
    BY <2>0 DEF Busy
  <2>11. InFlightExact'
    <3>1. inFlight' = Queued' + Cardinality(Busy') + Len(results')
      BY <1>n, <1>t, <2>0, <2>7, <2>8, <2>10 DEF InFlightExact
    <3>2. inFlight' <= Capacity
      BY <1>n, <1>t, <2>0, <2>7, <2>8 DEF InFlightExact, MayDispatch
    <3> QED  BY <3>1, <3>2 DEF InFlightExact
  <2>12. LoopCounts'
    BY <1>n, <1>t, <2>0, <2>7, <2>8 DEF LoopCounts, MayDispatch
  <2>13. NothingLeftAtClose'
    BY <2>0 DEF NothingLeftAtClose
  <2> QED  BY <2>9, <2>11, <2>12, <2>13 DEF AgentInv
<1>2. ASSUME CollectResults PROVE AgentInv'
  <2>0. /\ loop = "running" /\ inFlight' = inFlight - Len(results) /\ completed' = completed + Len(results)
        /\ results' = <<>> /\ loop' = IF MaxTasks > 0 /\ completed' >= MaxTasks THEN "closing" ELSE loop
        /\ UNCHANGED <<dispatched, queue, exec>>
    BY <1>2 DEF CollectResults
  <2>1. inFlight = Queued + Cardinality(Busy) + Len(results) /\ inFlight <= Capacity
    BY <1>t, <2>0 DEF InFlightExact
  <2>2. inFlight' = Queued + Cardinality(Busy) /\ inFlight' \in Nat /\ completed' \in Nat /\ inFlight' <= Capacity
    BY <1>n, <2>0, <2>1
  <2>3. results' \in Seq(BOOLEAN) /\ Len(results') = 0
    BY <2>0, EmptySeq
  <2>4. Busy' = Busy /\ Queued' = Queued
    BY <2>0 DEF Busy, Queued
  <2>5. AgentTypes'
    BY <1>t, <2>0, <2>2, <2>3 DEF AgentTypes
  <2>6. InFlightExact'
    BY <1>n, <2>2, <2>3, <2>4 DEF InFlightExact
  <2>7. LoopCounts'
    BY <1>n, <1>t, <2>0 DEF LoopCounts
  <2>8. NothingLeftAtClose'
    <3> SUFFICES ASSUME loop' = "closing" PROVE Busy' = {} /\ Queued' = 0 /\ results' = <<>>
      BY DEF NothingLeftAtClose
    <3>1. MaxTasks > 0 /\ completed' >= MaxTasks
      BY <2>0
    <3>2. dispatched' = inFlight' + completed' /\ dispatched' <= MaxTasks
      BY <2>7, <3>1 DEF LoopCounts
    <3>3. inFlight' = 0
      BY <1>n, <2>2, <3>1, <3>2
    <3>4. Queued = 0 /\ Cardinality(Busy) = 0
      BY <1>n, <2>2, <3>3
    <3>5. Busy = {}
      BY <3>4, BusyFinite, FS_EmptySet
    <3> QED  BY <2>0, <2>4, <3>4, <3>5
  <2> QED  BY <2>5, <2>6, <2>7, <2>8 DEF AgentInv
<1>3. ASSUME HeartbeatTick PROVE AgentInv'
  <2>1. UNCHANGED <<loop, inFlight, dispatched, completed, queue, results, exec>>
    BY <1>3 DEF HeartbeatTick
  <2> QED  BY <1>t, <2>1 DEF AgentInv, AgentTypes, LoopCounts, InFlightExact, NothingLeftAtClose, Busy, Queued
<1>4. ASSUME CancelContext PROVE AgentInv'
  <2>1. loop' = "cancelled" /\ UNCHANGED <<inFlight, dispatched, completed, queue, results, exec>>
    BY <1>4 DEF CancelContext
  <2> QED  BY <1>t, <2>1 DEF AgentInv, AgentTypes, LoopCounts, InFlightExact, NothingLeftAtClose
<1>5. ASSUME NEW x \in Executors, TakeJob(x) PROVE AgentInv'
  <2> DEFINE p == PoolOf(x)
             t == Head(queue[p])
             m == [pc |-> IF x \in LockUsers THEN "ref" ELSE "start", task |-> t, done |-> FALSE]
  <2>0. /\ exec[x].pc = "rest" /\ queue[p] # <<>> /\ exec' = [exec EXCEPT ![x] = m]
        /\ queue' = [queue EXCEPT ![p] = Tail(@)]
        /\ UNCHANGED <<loop, inFlight, dispatched, completed, results>>
    BY <1>5 DEF TakeJob, LoopKept
  <2>1. p \in PoolNames
    BY PoolsFinite
  <2>2. queue \in [PoolNames -> Seq(AgentTasks)] /\ queue[p] \in Seq(PoolTasks(p)) /\ queue[p] \in Seq(AgentTasks)
    BY <1>t, <2>1 DEF AgentTypes
  <2>3. /\ t \in PoolTasks(p) /\ Tail(queue[p]) \in Seq(PoolTasks(p)) /\ Tail(queue[p]) \in Seq(AgentTasks)
        /\ Len(Tail(queue[p])) = Len(queue[p]) - 1 /\ Len(queue[p]) \in Nat
    BY <2>0, <2>2, HeadTailProperties, LenProperties
  <2>4. t \in AgentTasks
    BY <2>3 DEF PoolTasks
  <2>5. /\ queue'[p] = Tail(queue[p]) /\ \A q \in PoolNames : q # p => queue'[q] = queue[q]
        /\ queue' \in [PoolNames -> Seq(AgentTasks)]
    BY <2>0, <2>1, <2>2, <2>3
  <2>6. \A q \in PoolNames : queue'[q] \in Seq(PoolTasks(q))
    BY <1>t, <2>3, <2>5 DEF AgentTypes
  <2> HIDE DEF t
  <2>7. m \in ExecRecords /\ m.task = t /\ m.pc \notin Resting
    BY <2>4 DEF ExecRecords, ExecPcs, Resting, Referring, Critical
  <2> HIDE DEF m
  <2>8. exec' \in [Executors -> ExecRecords] /\ exec'[x] = m /\ \A y \in Executors : y # x => exec'[y] = exec[y]
    BY <1>t, <2>0, <2>7 DEF AgentTypes
  <2>9. AgentTypes'
    <3>1. \A y \in Executors : exec'[y].pc \notin Resting => exec'[y].task \in PoolTasks(PoolOf(y))
      BY <1>t, <2>3, <2>7, <2>8 DEF AgentTypes
    <3> QED  BY <1>t, <2>0, <2>5, <2>6, <2>8, <3>1 DEF AgentTypes
  <2>10. Queued' = Queued - 1
    <3>0. /\ Queued' = Len(queue'["task"]) + Len(queue'["actor"]) + Len(queue'["llm"])
          /\ Queued = Len(queue["task"]) + Len(queue["actor"]) + Len(queue["llm"])
      BY DEF Queued
    <3>1. Len(queue'[p]) = Len(queue[p]) - 1 /\ \A q \in PoolNames : Len(queue[q]) \in Nat
      BY <1>t, <2>3, <2>5, QueuedNat
    <3>2. Len(queue["task"]) \in Nat /\ Len(queue["actor"]) \in Nat /\ Len(queue["llm"]) \in Nat
      BY <3>1 DEF PoolNames
    <3> DEFINE a == Len(queue["task"])
               b == Len(queue["actor"])
               c == Len(queue["llm"])
    <3>6. Queued = a + b + c /\ a \in Nat /\ b \in Nat /\ c \in Nat
      BY <3>0, <3>2
    <3>3. CASE p = "task"
      <4>1. queue'["actor"] = queue["actor"] /\ queue'["llm"] = queue["llm"]
        BY <2>5, <3>3 DEF PoolNames
      <4>2. Queued' = a - 1 + b + c
        BY <3>0, <3>1, <3>3, <4>1
      <4> HIDE DEF a, b, c
      <4> QED  BY <3>6, <4>2, Sums
    <3>4. CASE p = "actor"
      <4>1. queue'["task"] = queue["task"] /\ queue'["llm"] = queue["llm"]
        BY <2>5, <3>4 DEF PoolNames
      <4>2. Queued' = a + (b - 1) + c
        BY <3>0, <3>1, <3>4, <4>1
      <4> HIDE DEF a, b, c
      <4> QED  BY <3>6, <4>2, Sums
    <3>5. CASE p = "llm"
      <4>1. queue'["task"] = queue["task"] /\ queue'["actor"] = queue["actor"]
        BY <2>5, <3>5 DEF PoolNames
      <4>2. Queued' = a + b + (c - 1)
        BY <3>0, <3>1, <3>5, <4>1
      <4> HIDE DEF a, b, c
      <4> QED  BY <3>6, <4>2, Sums
    <3> QED  BY <2>1, <3>3, <3>4, <3>5 DEF PoolNames
  <2>11. Cardinality(Busy') = Cardinality(Busy) + 1
    <3>1. x \notin Busy /\ Busy' = Busy \cup {x}
      BY <2>0, <2>7, <2>8 DEF Busy, Resting
    <3> QED  BY <3>1, BusyFinite, FS_AddElement
  <2>12. InFlightExact' /\ LoopCounts'
    BY <1>n, <1>t, <2>0, <2>10, <2>11 DEF InFlightExact, LoopCounts
  <2>13. loop # "closing"
    BY <1>t, <2>0, <2>1, QueuedNat DEF NothingLeftAtClose
  <2>14. NothingLeftAtClose'
    BY <2>0, <2>13 DEF NothingLeftAtClose
  <2> QED  BY <2>9, <2>12, <2>14 DEF AgentInv
<1>6. ASSUME NEW x \in Executors, StopExecutor(x) PROVE AgentInv'
  <2>0. exec[x].pc = "rest" /\ Enter(x, "gone") /\ UNCHANGED <<loop, inFlight, dispatched, completed, queue, results>>
    BY <1>6 DEF StopExecutor, LoopKept
  <2>1. PICK m \in ExecRecords : exec' = [exec EXCEPT ![x] = m] /\ m.pc = "gone"
    BY <1>t, <2>0, ExecEntered DEF ExecPcs, Resting
  <2>2. exec' \in [Executors -> ExecRecords] /\ exec'[x] = m /\ \A y \in Executors : y # x => exec'[y] = exec[y]
    BY <1>t, <2>1 DEF AgentTypes
  <2>3. AgentTypes'
    BY <1>t, <2>0, <2>1, <2>2 DEF AgentTypes, Resting
  <2>4. Busy' = Busy /\ Queued' = Queued
    BY <2>0, <2>1, <2>2 DEF Busy, Queued
  <2> QED  BY <1>t, <2>0, <2>3, <2>4 DEF AgentInv, LoopCounts, InFlightExact, NothingLeftAtClose
<1>7. ASSUME NEW x \in Executors, Finish(x) PROVE AgentInv'
  <2>0. /\ exec[x].pc = "finish" /\ exec' = [exec EXCEPT ![x] = AtRest]
        /\ UNCHANGED <<loop, inFlight, dispatched, completed, queue>>
        /\ \/ results' = Append(results, exec[x].done)
           \/ loop = "cancelled" /\ UNCHANGED results
    BY <1>7 DEF Finish, LoopKept
  <2>1. AtRest \in ExecRecords /\ AtRest.pc = "rest"
    BY DEF AtRest, ExecRecords, ExecPcs, Resting
  <2>2. exec' \in [Executors -> ExecRecords] /\ exec'[x].pc = "rest" /\ \A y \in Executors : y # x => exec'[y] = exec[y]
    BY <1>t, <2>0, <2>1 DEF AgentTypes
  <2>3. exec[x].done \in BOOLEAN
    BY <1>t DEF AgentTypes, ExecRecords
  <2>4. results' \in Seq(BOOLEAN) /\ (loop # "cancelled" => Len(results') = Len(results) + 1)
    <3>1. results \in Seq(BOOLEAN)
      BY <1>t DEF AgentTypes
    <3>2. Append(results, exec[x].done) \in Seq(BOOLEAN) /\ Len(Append(results, exec[x].done)) = Len(results) + 1
      BY <2>3, <3>1, AppendProperties
    <3> QED  BY <2>0, <3>1, <3>2
  <2>5. AgentTypes'
    BY <1>t, <2>0, <2>2, <2>4 DEF AgentTypes, Resting
  <2>6. x \in Busy /\ Busy' = Busy \ {x} /\ Queued' = Queued
    BY <2>0, <2>2 DEF Busy, Queued
  <2>7. Cardinality(Busy') = Cardinality(Busy) - 1
    BY <2>6, BusyFinite, FS_RemoveElement
  <2>8. InFlightExact' /\ LoopCounts'
    BY <1>n, <1>t, <2>0, <2>4, <2>6, <2>7 DEF InFlightExact, LoopCounts
  <2>9. NothingLeftAtClose'
    BY <1>t, <2>0, <2>6 DEF NothingLeftAtClose
  <2> QED  BY <2>5, <2>8, <2>9 DEF AgentInv
<1>8. ASSUME NEW x \in Executors, Works(x) PROVE AgentInv'
  BY <1>8, WorksKeepsCounts DEF Works
<1>9. ASSUME NEW x \in LockUsers, lockActor(x) \/ unlockActor(x) PROVE AgentInv'
  <2>0. /\ exec[x].pc \notin Resting /\ LoopKept /\ UNCHANGED <<queue, results>>
        /\ \E pc \in {"lock", "start", "unref", "finish"} : Enter(x, pc)
    BY <1>9 DEF lockActor, unlockActor, Resting
  <2>1. PICK pc \in {"lock", "start", "unref", "finish"} : Enter(x, pc)
    BY <2>0
  <2>2. x \in Executors /\ pc \in ExecPcs /\ pc \notin Resting
    BY <2>1, PoolsFinite DEF ExecPcs, Referring, Critical, Resting
  <2>3. PICK m \in ExecRecords : exec' = [exec EXCEPT ![x] = m] /\ m.task = exec[x].task /\ m.pc = pc
    BY <1>t, <2>1, <2>2, ExecEntered
  <2> QED  BY <2>0, <2>2, <2>3, WorksKeepsCounts
<1>10. ASSUME UNCHANGED workerVars PROVE AgentInv'
  <2>1. UNCHANGED <<loop, inFlight, dispatched, completed, queue, results, exec>>
    BY <1>10 DEF workerVars, agentVars
  <2> QED  BY <1>t, <2>1 DEF AgentInv, AgentTypes, LoopCounts, InFlightExact, NothingLeftAtClose, Busy, Queued
<1>11. ASSUME NEW x \in Executors, ExecutorStep(x) PROVE AgentInv'
  BY <1>5, <1>6, <1>7, <1>8, <1>11, <1>t, WorkSteps DEF ExecutorStep
<1>12. ASSUME NEW x \in Runners, RunnerStep(x) PROVE AgentInv'
  BY <1>8, <1>12, <1>t, WorkSteps, PoolsFinite
<1>13. ASSUME NEW x \in LockUsers, runActorExecutor(x) PROVE AgentInv'
  BY <1>8, <1>13, <1>t, WorkSteps, PoolsFinite
<1> QED  BY <1>1, <1>2, <1>3, <1>4, <1>9, <1>10, <1>11, <1>12, <1>13 DEF AgentNext, MainStep

\* A request without source names code its subprocess has (agent.go: runPythonExecutor,
\* Restart): for any executors, tasks and functions, through timeouts, restarts that fail
\* and functions that raise.
THEOREM HashOnlyRunsHolds == AgentSpec => []HashOnlyRuns
<1>1. KnownCompiled => HashOnlyRuns
  BY DEF KnownCompiled, HashOnlyRuns, Runnable, HasSource, Runners
<1>2. AgentInv => AgentTypes
  BY DEF AgentInv
<1>3. AgentInv /\ KnownCompiled /\ [AgentNext]_workerVars => KnownCompiled'
  BY <1>2, KnownCompiledStep
<1> QED  BY <1>1, <1>3, AgentInvInit, AgentInvStep, PTL DEF AgentSpec

\* Work is accounted for while the loop runs and none is left when it ends (agent.go: Run,
\* Dispatch, finish): for any pools, capacity and MaxTasks, so that no send to a channel
\* of the loop's capacity can block, and Close never waits for a result nobody reads.
THEOREM WorkAccountedHolds == AgentSpec => []WorkAccounted
<1>1. AgentInv => WorkAccounted
  BY DEF AgentInv, WorkAccounted
<1> QED  BY <1>1, AgentInvInit, AgentInvStep, PTL DEF AgentSpec

-----------------------------------------------------------------------------
(***************************************************************************)
(* The actor locks of the worker.                                          *)
(***************************************************************************)
UsersOf(i) == {u \in LockUsers : lockRef[u] = i}

LockTypes ==
    /\ lockOf \in [LockActors -> {0} \cup LockEntries] /\ lockRef \in [LockUsers -> {0} \cup LockEntries]
    /\ refs \in [LockEntries -> Nat] /\ owner \in [LockEntries -> {0} \cup LockUsers]

\* An entry is of one actor and counts the goroutines that refer to it.
TableCounts ==
    /\ \A a, b \in LockActors : lockOf[a] = lockOf[b] /\ lockOf[a] # 0 => a = b
    /\ \A i \in LockEntries : refs[i] = Cardinality(UsersOf(i))

\* An executor refers to the entry of its actor from lockActor to the end of
\* unlockActor, and owns the mutex of that entry while it executes.
ExecutorsLock ==
    \A u \in LockUsers :
        /\ exec[u].pc \in Referring <=> lockRef[u] # 0
        /\ exec[u].pc \in Referring => lockOf[exec[u].task.runs] = lockRef[u]
        /\ exec[u].pc \in Critical => owner[lockRef[u]] = u

LockInv == LockTypes /\ TableCounts /\ TableExact /\ ExecutorsLock

\* The goroutines of an entry form a finite set.
LEMMA UsersFinite ==
    ASSUME NEW i
    PROVE  /\ IsFiniteSet(UsersOf(i)) /\ Cardinality(UsersOf(i)) \in Nat /\ UsersOf(i) \subseteq LockUsers
           /\ Cardinality(UsersOf(i)) = 0 <=> UsersOf(i) = {}
<1>1. UsersOf(i) \subseteq LockUsers
  BY DEF UsersOf
<1>2. IsFiniteSet(UsersOf(i))
  BY <1>1, LockAssumption, FS_Subset
<1> QED  BY <1>1, <1>2, FS_CardinalityType, FS_EmptySet

\* Zero is neither an entry nor a goroutine.
LEMMA ZeroIsNone == 0 \notin LockEntries /\ 0 \notin LockUsers /\ IsFiniteSet(LockEntries)
                    /\ Cardinality(LockUsers) \in Nat /\ Cardinality(LockEntries) = Cardinality(LockUsers) + 1
<1>1. Cardinality(LockUsers) \in Nat
  BY LockAssumption, FS_CardinalityType
<1> DEFINE n == Cardinality(LockUsers)
<1>2. 1 \in Int /\ n + 1 \in Int /\ ~(1 > n + 1) /\ (n + 1) - 1 + 1 = n + 1 /\ 0 \notin 1..(n + 1)
  BY <1>1
<1>3. IsFiniteSet(1..(n + 1)) /\ Cardinality(1..(n + 1)) = n + 1
  BY <1>1, <1>2, FS_Interval
<1> QED  BY <1>1, <1>2, <1>3, LockAssumption DEF LockEntries

\* There is always an entry that nobody refers to: one more than there are goroutines.
LEMMA FreshExists ==
    ASSUME LockTypes, TableExact
    PROVE  /\ Fresh \in LockEntries
           /\ \A a \in LockActors : lockOf[a] # Fresh
           /\ \A u \in LockUsers : lockRef[u] # Fresh
<1>1. \E i \in LockEntries : \A u \in LockUsers : lockRef[u] # i
  <2> SUFFICES ASSUME \A i \in LockEntries : \E u \in LockUsers : lockRef[u] = i PROVE FALSE
    OBVIOUS
  <2> DEFINE f == [i \in LockEntries |-> CHOOSE u \in LockUsers : lockRef[u] = i]
  <2>1. f \in [LockEntries -> LockUsers] /\ \A i \in LockEntries : lockRef[f[i]] = i
    OBVIOUS
  <2> HIDE DEF f
  <2>2. Cardinality(LockUsers) < Cardinality(LockEntries)
    BY ZeroIsNone
  <2>3. \E i, j \in LockEntries : i # j /\ f[i] = f[j]
    BY <2>1, <2>2, ZeroIsNone, LockAssumption, FS_PigeonHole
  <2> QED  BY <2>1, <2>3
<1>2. \E i \in LockEntries : (\A a \in LockActors : lockOf[a] # i) /\ (\A u \in LockUsers : lockRef[u] # i)
  BY <1>1 DEF TableExact
<1> QED  BY <1>2 DEF Fresh

\* Nobody holds a lock at the start.
LEMMA LockInvInit == AgentInit => LockInv
<1> SUFFICES ASSUME AgentInit PROVE LockInv
  OBVIOUS
<1>1. /\ lockOf = [a \in LockActors |-> 0] /\ refs = [i \in LockEntries |-> 0]
      /\ owner = [i \in LockEntries |-> 0] /\ lockRef = [u \in LockUsers |-> 0]
      /\ exec = [x \in Executors |-> AtRest]
  BY DEF AgentInit, LockInit
<1>2. LockTypes
  BY <1>1 DEF LockTypes
<1>3. \A i \in LockEntries : i # 0
  BY ZeroIsNone
<1>4. TableExact
  BY <1>1, <1>3 DEF TableExact
<1>5. TableCounts
  <2>1. ASSUME NEW i \in LockEntries PROVE refs[i] = Cardinality(UsersOf(i))
    <3>1. UsersOf(i) = {}
      BY <1>1, <1>3 DEF UsersOf
    <3> QED  BY <1>1, <3>1, FS_EmptySet
  <2> QED  BY <1>1, <2>1 DEF TableCounts
<1>6. ExecutorsLock
  <2>1. \A u \in LockUsers : exec[u].pc = "rest" /\ lockRef[u] = 0
    BY <1>1, PoolsFinite DEF AtRest
  <2> QED  BY <2>1 DEF ExecutorsLock, Referring, Critical
<1> QED  BY <1>2, <1>4, <1>5, <1>6 DEF LockInv

\* An executor moves without touching the locks.
LEMMA LocksKept ==
    ASSUME AgentTypes, LockInv, NEW x \in Executors, NEW m, exec' = [exec EXCEPT ![x] = m], UNCHANGED lockVars,
           x \in LockUsers => \/ m.pc \notin Referring /\ exec[x].pc \notin Referring
                              \/ m.pc \in Critical /\ exec[x].pc \in Critical /\ m.task = exec[x].task
    PROVE  LockInv'
<1>1. exec'[x] = m /\ \A y \in Executors : y # x => exec'[y] = exec[y]
  BY DEF AgentTypes
<1>2. UNCHANGED <<lockOf, refs, owner, lockRef>>
  BY DEF lockVars
<1>3. LockTypes' /\ TableCounts' /\ TableExact'
  BY <1>2 DEF LockInv, LockTypes, TableCounts, TableExact, UsersOf
<1>4. ASSUME NEW u \in LockUsers
      PROVE  /\ exec'[u].pc \in Referring <=> lockRef'[u] # 0
             /\ exec'[u].pc \in Referring => lockOf'[exec'[u].task.runs] = lockRef'[u]
             /\ exec'[u].pc \in Critical => owner'[lockRef'[u]] = u
  <2>1. /\ exec[u].pc \in Referring <=> lockRef[u] # 0
        /\ exec[u].pc \in Referring => lockOf[exec[u].task.runs] = lockRef[u]
        /\ exec[u].pc \in Critical => owner[lockRef[u]] = u
    BY DEF LockInv, ExecutorsLock
  <2>2. CASE u = x
    BY <1>1, <1>2, <2>1, <2>2 DEF Referring
  <2>3. CASE u # x
    BY <1>1, <1>2, <2>1, <2>3, PoolsFinite
  <2> QED  BY <2>2, <2>3
<1> QED  BY <1>3, <1>4 DEF LockInv, ExecutorsLock

\* lockActor finds the entry of the actor or makes a new one, and refers to it.
LEMMA RefKeeps ==
    ASSUME AgentTypes, LockInv, NEW x \in LockUsers, NEW a, a = exec[x].task.runs, a \in LockActors,
           exec[x].pc = "ref", RefEntry(x, a), NEW m, exec' = [exec EXCEPT ![x] = m],
           m.task = exec[x].task, m.pc = "lock"
    PROVE  LockInv'
<1> DEFINE i == IF lockOf[a] # 0 THEN lockOf[a] ELSE Fresh
<1>t. LockTypes /\ TableCounts /\ TableExact /\ ExecutorsLock
  BY DEF LockInv
<1>1. /\ lockRef[x] = 0 /\ lockOf' = [lockOf EXCEPT ![a] = i] /\ refs' = [refs EXCEPT ![i] = @ + 1]
      /\ lockRef' = [lockRef EXCEPT ![x] = i] /\ UNCHANGED owner
  BY DEF RefEntry
<1>2. /\ i \in LockEntries /\ (lockOf[a] # 0 => i = lockOf[a])
      /\ (lockOf[a] = 0 => /\ \A b \in LockActors : lockOf[b] # i
                           /\ \A u \in LockUsers : lockRef[u] # i)
  <2>1. lockOf[a] \in {0} \cup LockEntries
    BY <1>t DEF LockTypes
  <2> QED  BY <1>t, <2>1, FreshExists
<1> HIDE DEF i
<1>3. i # 0 /\ 0 \notin LockEntries
  BY <1>2, ZeroIsNone
<1>4. /\ lockOf'[a] = i /\ \A b \in LockActors : b # a => lockOf'[b] = lockOf[b]
      /\ lockRef'[x] = i /\ \A u \in LockUsers : u # x => lockRef'[u] = lockRef[u]
      /\ refs'[i] = refs[i] + 1 /\ \A j \in LockEntries : j # i => refs'[j] = refs[j]
      /\ refs[i] \in Nat
  BY <1>1, <1>2, <1>t DEF LockTypes
<1>5. LockTypes'
  <2>1. refs[i] + 1 \in Nat
    BY <1>4
  <2>2. refs' = [refs EXCEPT ![i] = refs[i] + 1]
    BY <1>1
  <2>3. refs' \in [LockEntries -> Nat]
    BY <1>t, <2>1, <2>2 DEF LockTypes
  <2> QED  BY <1>1, <1>2, <1>t, <2>3 DEF LockTypes
<1>6. TableCounts'
  <2>1. \A b, c \in LockActors : lockOf'[b] = lockOf'[c] /\ lockOf'[b] # 0 => b = c
    BY <1>2, <1>4, <1>t DEF TableCounts
  <2>2. ASSUME NEW j \in LockEntries PROVE refs'[j] = Cardinality(UsersOf(j)')
    <3>1. CASE j = i
      <4>1. UsersOf(j)' = UsersOf(j) \cup {x} /\ x \notin UsersOf(j)
        BY <1>1, <1>3, <1>4, <3>1 DEF UsersOf
      <4>2. Cardinality(UsersOf(j) \cup {x}) = Cardinality(UsersOf(j)) + 1
        BY <4>1, UsersFinite, FS_AddElement
      <4>3. refs[i] = Cardinality(UsersOf(i))
        BY <1>2, <1>t DEF TableCounts
      <4> QED  BY <1>4, <3>1, <4>1, <4>2, <4>3
    <3>2. CASE j # i
      <4>1. UsersOf(j)' = UsersOf(j)
        BY <1>1, <1>3, <1>4, <2>2, <3>2 DEF UsersOf
      <4> QED  BY <1>4, <1>t, <3>2, <4>1 DEF TableCounts
    <3> QED  BY <3>1, <3>2
  <2> QED  BY <2>1, <2>2 DEF TableCounts
<1>7. TableExact'
  <2>1. ASSUME NEW j \in LockEntries
        PROVE  (\E b \in LockActors : lockOf'[b] = j) <=> (\E u \in LockUsers : lockRef'[u] = j)
    <3>1. CASE j = i
      BY <1>4, <3>1
    <3>2. CASE j # i
      <4>1. lockOf[a] # j /\ lockRef[x] # j
        BY <1>1, <1>2, <1>3, <2>1, <3>2
      <4>2. (\E b \in LockActors : lockOf[b] = j) <=> (\E u \in LockUsers : lockRef[u] = j)
        BY <1>t DEF TableExact
      <4> QED  BY <1>4, <3>2, <4>1, <4>2
    <3> QED  BY <3>1, <3>2
  <2> QED  BY <2>1 DEF TableExact
<1>8. exec'[x] = m /\ \A y \in Executors : y # x => exec'[y] = exec[y]
  BY PoolsFinite DEF AgentTypes
<1>9. ExecutorsLock'
  <2>1. ASSUME NEW u \in LockUsers
        PROVE  /\ exec'[u].pc \in Referring <=> lockRef'[u] # 0
               /\ exec'[u].pc \in Referring => lockOf'[exec'[u].task.runs] = lockRef'[u]
               /\ exec'[u].pc \in Critical => owner'[lockRef'[u]] = u
    <3>1. CASE u = x
      BY <1>3, <1>4, <1>8, <3>1 DEF Referring, Critical
    <3>2. CASE u # x
      <4>1. exec'[u] = exec[u] /\ lockRef'[u] = lockRef[u] /\ owner' = owner
        BY <1>1, <1>4, <1>8, <3>2, PoolsFinite
      <4>2. /\ exec[u].pc \in Referring <=> lockRef[u] # 0
            /\ exec[u].pc \in Referring => lockOf[exec[u].task.runs] = lockRef[u]
            /\ exec[u].pc \in Critical => owner[lockRef[u]] = u
        BY <1>t DEF ExecutorsLock
      <4>3. ASSUME exec[u].pc \in Referring PROVE lockOf'[exec[u].task.runs] = lockOf[exec[u].task.runs]
        <5>1. lockOf[exec[u].task.runs] # 0
          BY <4>2, <4>3
        <5> QED  BY <1>1, <1>2, <1>t, <5>1 DEF LockTypes
      <4> QED  BY <4>1, <4>2, <4>3
    <3> QED  BY <3>1, <3>2
  <2> QED  BY <2>1 DEF ExecutorsLock
<1> QED  BY <1>5, <1>6, <1>7, <1>9 DEF LockInv

\* The mutex of the entry is taken, or released.
LEMMA MutexKeeps ==
    ASSUME AgentTypes, LockInv, NEW x \in LockUsers, NEW m, exec' = [exec EXCEPT ![x] = m], m.task = exec[x].task,
           \/ exec[x].pc = "lock" /\ m.pc = "start" /\ TakeMutex(x)
           \/ exec[x].pc = "unlock" /\ m.pc = "unref" /\ ReleaseMutex(x)
    PROVE  LockInv'
<1> DEFINE i == lockRef[x]
<1>t. LockTypes /\ TableCounts /\ TableExact /\ ExecutorsLock
  BY DEF LockInv
<1>1. UNCHANGED <<lockOf, refs, lockRef>>
  BY DEF TakeMutex, ReleaseMutex
<1>2. exec'[x] = m /\ \A y \in Executors : y # x => exec'[y] = exec[y]
  BY PoolsFinite DEF AgentTypes
<1>3. exec[x].pc \in Referring /\ m.pc \in Referring
  BY DEF Referring, Critical
<1>4. i \in LockEntries
  BY <1>3, <1>t DEF ExecutorsLock, LockTypes
<1>5. \/ owner[i] = 0 /\ owner' = [owner EXCEPT ![i] = x] /\ m.pc = "start"
      \/ owner[i] = x /\ owner' = [owner EXCEPT ![i] = 0] /\ m.pc = "unref"
  BY DEF TakeMutex, ReleaseMutex
<1>6. LockTypes' /\ TableCounts' /\ TableExact'
  <2>1. owner' \in [LockEntries -> {0} \cup LockUsers]
    BY <1>5, <1>t DEF LockTypes
  <2> QED  BY <1>1, <1>t, <2>1 DEF LockTypes, TableCounts, TableExact, UsersOf
<1>7. ASSUME NEW u \in LockUsers
      PROVE  /\ exec'[u].pc \in Referring <=> lockRef'[u] # 0
             /\ exec'[u].pc \in Referring => lockOf'[exec'[u].task.runs] = lockRef'[u]
             /\ exec'[u].pc \in Critical => owner'[lockRef'[u]] = u
  <2>1. /\ exec[u].pc \in Referring <=> lockRef[u] # 0
        /\ exec[u].pc \in Referring => lockOf[exec[u].task.runs] = lockRef[u]
        /\ exec[u].pc \in Critical => owner[lockRef[u]] = u
    BY <1>t DEF ExecutorsLock
  <2>2. CASE u = x
    <3>1. m.pc \in Critical => owner'[i] = x
      BY <1>4, <1>5, <1>t DEF LockTypes, Critical
    <3> QED  BY <1>1, <1>2, <1>3, <2>1, <2>2, <3>1
  <2>3. CASE u # x
    <3>1. exec'[u] = exec[u] /\ lockRef'[u] = lockRef[u] /\ lockOf' = lockOf
      BY <1>1, <1>2, <2>3, PoolsFinite
    <3>2. exec[u].pc \in Critical => lockRef[u] # i
      BY <1>5, <2>1, <2>3, ZeroIsNone
    <3>3. ASSUME exec[u].pc \in Critical PROVE owner'[lockRef[u]] = owner[lockRef[u]]
      <4>1. lockRef[u] \in LockEntries
        BY <1>t, <2>1, <3>3 DEF LockTypes, Referring
      <4>2. \A j \in LockEntries : j # i => owner'[j] = owner[j]
        BY <1>5, <1>t DEF LockTypes
      <4> QED  BY <3>2, <3>3, <4>1, <4>2
    <3> QED  BY <2>1, <3>1, <3>3
  <2> QED  BY <2>2, <2>3
<1> QED  BY <1>6, <1>7 DEF LockInv, ExecutorsLock

\* unlockActor drops the reference, and with the last one the entry.
LEMMA UnrefKeeps ==
    ASSUME AgentTypes, LockInv, NEW x \in LockUsers, NEW a, a = exec[x].task.runs, a \in LockActors,
           exec[x].pc = "unref", UnrefEntry(x, a), NEW m, exec' = [exec EXCEPT ![x] = m], m.pc = "finish",
           NEW i, i = lockRef[x]
    PROVE  LockInv'
<1>t. LockTypes /\ TableCounts /\ TableExact /\ ExecutorsLock
  BY DEF LockInv
<1>1. /\ refs' = [refs EXCEPT ![i] = @ - 1]
      /\ lockOf' = IF refs[i] = 1 /\ lockOf[a] = i THEN [lockOf EXCEPT ![a] = 0] ELSE lockOf
      /\ lockRef' = [lockRef EXCEPT ![x] = 0] /\ UNCHANGED owner
  BY DEF UnrefEntry
<1>2. exec'[x] = m /\ \A y \in Executors : y # x => exec'[y] = exec[y]
  BY PoolsFinite DEF AgentTypes
<1>3. exec[x].pc \in Referring /\ m.pc \notin Referring /\ m.pc \notin Critical
  BY DEF Referring, Critical
<1>4. i \in LockEntries /\ i # 0 /\ lockOf[a] = i
  BY <1>3, <1>t DEF ExecutorsLock, LockTypes
<1>5. /\ lockRef'[x] = 0 /\ \A u \in LockUsers : u # x => lockRef'[u] = lockRef[u]
      /\ refs'[i] = refs[i] - 1 /\ \A j \in LockEntries : j # i => refs'[j] = refs[j]
      /\ refs[i] \in Nat /\ refs[i] = Cardinality(UsersOf(i))
  BY <1>1, <1>4, <1>t DEF LockTypes, TableCounts
<1>6. /\ x \in UsersOf(i) /\ UsersOf(i)' = UsersOf(i) \ {x}
      /\ Cardinality(UsersOf(i) \ {x}) = Cardinality(UsersOf(i)) - 1
      /\ Cardinality(UsersOf(i)') = Cardinality(UsersOf(i)) - 1 /\ Cardinality(UsersOf(i)') \in Nat
  <2>1. x \in UsersOf(i) /\ UsersOf(i)' = UsersOf(i) \ {x}
    BY <1>4, <1>5 DEF UsersOf
  <2>2. Cardinality(UsersOf(i) \ {x}) = Cardinality(UsersOf(i)) - 1 /\ IsFiniteSet(UsersOf(i) \ {x})
    BY <2>1, UsersFinite, FS_RemoveElement
  <2>3. Cardinality(UsersOf(i) \ {x}) \in Nat
    BY <2>2, FS_CardinalityType
  <2> QED  BY <2>1, <2>2, <2>3
<1>7. refs[i] = 1 <=> UsersOf(i)' = {}
  <2>1. IsFiniteSet(UsersOf(i)')
    BY <1>6, UsersFinite, FS_RemoveElement
  <2>2. UsersOf(i)' = {} <=> Cardinality(UsersOf(i)') = 0
    BY <2>1, FS_EmptySet
  <2> QED  BY <1>5, <1>6, <2>2
<1>8. /\ \A b \in LockActors : b # a => lockOf'[b] = lockOf[b]
      /\ lockOf'[a] = IF refs[i] = 1 THEN 0 ELSE i
      /\ lockOf' \in [LockActors -> {0} \cup LockEntries]
  BY <1>1, <1>4, <1>t DEF LockTypes
<1>9. LockTypes'
  <2>1. refs' = [refs EXCEPT ![i] = refs[i] - 1] /\ refs[i] - 1 \in Nat
    BY <1>1, <1>5, <1>6
  <2>2. refs' \in [LockEntries -> Nat]
    BY <1>t, <2>1 DEF LockTypes
  <2> QED  BY <1>1, <1>8, <1>t, <2>2 DEF LockTypes
<1>10. TableCounts'
  <2>1. \A b, c \in LockActors : lockOf'[b] = lockOf'[c] /\ lockOf'[b] # 0 => b = c
    BY <1>4, <1>8, <1>t DEF TableCounts
  <2>2. ASSUME NEW j \in LockEntries PROVE refs'[j] = Cardinality(UsersOf(j)')
    <3>1. CASE j = i
      BY <1>5, <1>6, <3>1
    <3>2. CASE j # i
      <4>1. UsersOf(j)' = UsersOf(j)
        BY <1>5, <2>2, <3>2, ZeroIsNone DEF UsersOf
      <4> QED  BY <1>5, <1>t, <3>2, <4>1 DEF TableCounts
    <3> QED  BY <3>1, <3>2
  <2> QED  BY <2>1, <2>2 DEF TableCounts
<1>11. TableExact'
  <2>1. ASSUME NEW j \in LockEntries
        PROVE  (\E b \in LockActors : lockOf'[b] = j) <=> (\E u \in LockUsers : lockRef'[u] = j)
    <3>0. j # 0
      BY ZeroIsNone
    <3>1. CASE j = i
      <4>1. (\E u \in LockUsers : lockRef'[u] = i) <=> UsersOf(i)' # {}
        BY DEF UsersOf
      <4>2. (\E b \in LockActors : lockOf'[b] = i) <=> refs[i] # 1
        <5>1. \A b \in LockActors : b # a => lockOf'[b] # i
          BY <1>4, <1>8, <1>t DEF TableCounts
        <5> QED  BY <1>4, <1>8, <5>1
      <4> QED  BY <1>7, <3>1, <4>1, <4>2
    <3>2. CASE j # i
      <4>1. (\E b \in LockActors : lockOf[b] = j) <=> (\E u \in LockUsers : lockRef[u] = j)
        BY <1>t DEF TableExact
      <4> QED  BY <1>4, <1>5, <1>8, <3>0, <3>2, <4>1
    <3> QED  BY <3>1, <3>2
  <2> QED  BY <2>1 DEF TableExact
<1>12. ExecutorsLock'
  <2>1. ASSUME NEW u \in LockUsers
        PROVE  /\ exec'[u].pc \in Referring <=> lockRef'[u] # 0
               /\ exec'[u].pc \in Referring => lockOf'[exec'[u].task.runs] = lockRef'[u]
               /\ exec'[u].pc \in Critical => owner'[lockRef'[u]] = u
    <3>1. CASE u = x
      BY <1>2, <1>3, <1>5, <3>1
    <3>2. CASE u # x
      <4>1. exec'[u] = exec[u] /\ lockRef'[u] = lockRef[u] /\ owner' = owner
        BY <1>1, <1>2, <1>5, <3>2, PoolsFinite
      <4>2. /\ exec[u].pc \in Referring <=> lockRef[u] # 0
            /\ exec[u].pc \in Referring => lockOf[exec[u].task.runs] = lockRef[u]
            /\ exec[u].pc \in Critical => owner[lockRef[u]] = u
        BY <1>t DEF ExecutorsLock
      <4>3. ASSUME exec[u].pc \in Referring PROVE lockOf'[exec[u].task.runs] = lockOf[exec[u].task.runs]
        <5>1. CASE lockRef[u] = i
          <6>1. u \in UsersOf(i)'
            BY <4>1, <5>1 DEF UsersOf
          <6>2. refs[i] # 1
            BY <1>7, <6>1
          <6> QED  BY <1>1, <6>2
        <5>2. CASE lockRef[u] # i
          <6>1. exec[u].task.runs # a
            BY <1>4, <4>2, <4>3, <5>2
          <6> QED  BY <1>1, <1>t, <6>1 DEF LockTypes
        <5> QED  BY <5>1, <5>2
      <4> QED  BY <4>1, <4>2, <4>3
    <3> QED  BY <3>1, <3>2
  <2> QED  BY <2>1 DEF ExecutorsLock
<1> QED  BY <1>9, <1>10, <1>11, <1>12 DEF LockInv

\* Every step of the worker keeps the locks consistent.
LEMMA LockInvStep == AgentInv /\ LockInv /\ [AgentNext]_workerVars => LockInv'
<1> SUFFICES ASSUME AgentInv, LockInv, [AgentNext]_workerVars PROVE LockInv'
  OBVIOUS
<1>t. AgentTypes
  BY DEF AgentInv
<1>1. ASSUME UNCHANGED <<exec, lockVars>> PROVE LockInv'
  <2>1. UNCHANGED <<exec, lockOf, refs, owner, lockRef>>
    BY <1>1 DEF lockVars
  <2> QED  BY <2>1 DEF LockInv, LockTypes, TableCounts, TableExact, UsersOf, ExecutorsLock
<1>2. ASSUME MainStep \/ UNCHANGED workerVars PROVE LockInv'
  <2>1. UNCHANGED <<exec, lockVars>>
    BY <1>2 DEF MainStep, PollLoop, CollectResults, HeartbeatTick, CancelContext, workerVars, agentVars
  <2> QED  BY <1>1, <2>1
<1>3. ASSUME NEW x \in Executors, TakeJob(x) \/ StopExecutor(x) \/ Finish(x) PROVE LockInv'
  <2>1. UNCHANGED lockVars /\ exec[x].pc \notin Referring
    BY <1>3 DEF TakeJob, StopExecutor, Finish, Referring, Critical
  <2>2. \E m : exec' = [exec EXCEPT ![x] = m] /\ (x \in LockUsers => m.pc \notin Referring)
    <3>1. CASE TakeJob(x)
      <4> DEFINE m == [pc |-> IF x \in LockUsers THEN "ref" ELSE "start",
                       task |-> Head(queue[PoolOf(x)]), done |-> FALSE]
      <4>1. exec' = [exec EXCEPT ![x] = m]
        BY <3>1 DEF TakeJob
      <4>2. x \in LockUsers => m.pc \notin Referring
        BY DEF Referring, Critical
      <4> HIDE DEF m
      <4> QED  BY <4>1, <4>2
    <3>2. CASE StopExecutor(x)
      <4>1. Enter(x, "gone") /\ "gone" \in ExecPcs /\ "gone" \notin Referring
        BY <3>2 DEF StopExecutor, ExecPcs, Resting, Referring, Critical
      <4>2. PICK m \in ExecRecords : exec' = [exec EXCEPT ![x] = m] /\ m.task = exec[x].task /\ m.pc = "gone"
        BY <1>t, <4>1, ExecEntered
      <4> QED  BY <4>1, <4>2
    <3>3. CASE Finish(x)
      <4>1. exec' = [exec EXCEPT ![x] = AtRest] /\ AtRest.pc \notin Referring
        BY <3>3 DEF Finish, AtRest, Referring, Critical
      <4> QED  BY <4>1
    <3> QED  BY <1>3, <3>1, <3>2, <3>3
  <2>3. PICK m : exec' = [exec EXCEPT ![x] = m] /\ (x \in LockUsers => m.pc \notin Referring)
    BY <2>2
  <2> QED  BY <1>t, <2>1, <2>3, LocksKept
<1>4. ASSUME NEW x \in Executors, Works(x) PROVE LockInv'
  <2>1. PICK m \in ExecRecords : /\ exec' = [exec EXCEPT ![x] = m] /\ m.task = exec[x].task
                                 /\ x \in LockUsers => exec[x].pc \in Critical /\ m.pc \in Critical
    BY <1>4 DEF Works
  <2>2. UNCHANGED lockVars
    BY <1>4 DEF Works
  <2> QED  BY <1>t, <2>1, <2>2, LocksKept
<1>5. ASSUME NEW x \in LockUsers, lockActor(x) \/ unlockActor(x) PROVE LockInv'
  <2> DEFINE a == exec[x].task.runs
  <2>1. x \in Executors /\ exec[x].pc \notin Resting
    BY <1>5, PoolsFinite DEF lockActor, unlockActor, Resting
  <2>2. a \in LockActors
    <3>1. exec[x].task \in PoolTasks("actor")
      BY <1>t, <2>1, PoolsFinite DEF AgentTypes
    <3> QED  BY <3>1, AgentAssumption DEF PoolTasks
  <2>3. \A pc \in {"lock", "start", "unref", "finish"} : pc \in ExecPcs
    BY DEF ExecPcs, Referring, Critical
  <2>4. CASE exec[x].pc = "ref" /\ RefEntry(x, a) /\ Enter(x, "lock")
    <3>1. PICK m \in ExecRecords : exec' = [exec EXCEPT ![x] = m] /\ m.task = exec[x].task /\ m.pc = "lock"
      BY <1>t, <2>1, <2>3, <2>4, ExecEntered
    <3> QED  BY <1>t, <2>2, <2>4, <3>1, RefKeeps
  <2>5. CASE exec[x].pc = "lock" /\ TakeMutex(x) /\ Enter(x, "start")
    <3>1. PICK m \in ExecRecords : exec' = [exec EXCEPT ![x] = m] /\ m.task = exec[x].task /\ m.pc = "start"
      BY <1>t, <2>1, <2>3, <2>5, ExecEntered
    <3> QED  BY <1>t, <2>5, <3>1, MutexKeeps
  <2>6. CASE exec[x].pc = "unlock" /\ ReleaseMutex(x) /\ Enter(x, "unref")
    <3>1. PICK m \in ExecRecords : exec' = [exec EXCEPT ![x] = m] /\ m.task = exec[x].task /\ m.pc = "unref"
      BY <1>t, <2>1, <2>3, <2>6, ExecEntered
    <3> QED  BY <1>t, <2>6, <3>1, MutexKeeps
  <2>7. CASE exec[x].pc = "unref" /\ UnrefEntry(x, a) /\ Enter(x, "finish")
    <3>1. PICK m \in ExecRecords : exec' = [exec EXCEPT ![x] = m] /\ m.task = exec[x].task /\ m.pc = "finish"
      BY <1>t, <2>1, <2>3, <2>7, ExecEntered
    <3> QED  BY <1>t, <2>2, <2>7, <3>1, UnrefKeeps
  <2> QED  BY <1>5, <2>4, <2>5, <2>6, <2>7 DEF lockActor, unlockActor
<1>6. ASSUME NEW x \in Executors, ExecutorStep(x) PROVE LockInv'
  BY <1>3, <1>4, <1>6, <1>t, WorkSteps DEF ExecutorStep
<1>7. ASSUME NEW x \in Runners, RunnerStep(x) PROVE LockInv'
  BY <1>4, <1>7, <1>t, WorkSteps, PoolsFinite
<1>8. ASSUME NEW x \in LockUsers, runActorExecutor(x) PROVE LockInv'
  BY <1>4, <1>8, <1>t, WorkSteps, PoolsFinite
<1> QED  BY <1>2, <1>5, <1>6, <1>7, <1>8 DEF AgentNext

\* One command of an actor executes at a time on a worker, and the table keeps the entry
\* of an actor exactly while a goroutine holds or awaits its lock (agent.go:
\* runPythonWorker; actorlock/table.go: Lock): for any number of executors and actors.
THEOREM ActorsSerialHolds == AgentSpec => []ActorsSerial
<1>1. LockInv => ActorSerial
  <2> SUFFICES ASSUME LockInv, NEW x \in LockUsers, NEW y \in LockUsers, exec[x].pc \in Critical,
                      exec[y].pc \in Critical, exec[x].task.runs = exec[y].task.runs
               PROVE  x = y
    BY DEF ActorSerial, Critical
  <2>1. exec[x].pc \in Referring /\ exec[y].pc \in Referring
    BY DEF Referring
  <2> QED  BY <2>1 DEF LockInv, ExecutorsLock
<1>2. LockInv => ActorsSerial
  BY <1>1 DEF ActorsSerial, LockInv
<1> QED  BY <1>2, AgentInvInit, AgentInvStep, LockInvInit, LockInvStep, PTL DEF AgentSpec

-----------------------------------------------------------------------------
(* The two metadata stores.  A call finds them alike, answers the same and *)
(* leaves them alike: the running tasks of the new store are the ones its  *)
(* task table says, so its indexes never decide differently.               *)

\* Rows of the tables, and the two stores.
CfStatuses == {"none", "QUEUED", "RUNNING", "SUCCEEDED", "FAILED"}
TaskRows == [st : CfStatuses, worker : CfWorkers \cup {""}, epoch : Nat, upd : Nat]
CfWorkerRows == [cap : Nat, load : Nat, hb : Nat, cached : {"none", "m"}]
DocRows == [key : CfKeys \cup {""}, version : Nat]

LegacyStores ==
    [tasks : [CfTasks -> TaskRows], keys : [CfKeys -> CfTasks \cup {""}],
     workers : [CfWorkers -> CfWorkerRows], docs : [CfIds -> DocRows], docKeys : [CfKeys -> CfIds \cup {""}]]
LeaseRows == [t : CfTasks, upd : Nat, epoch : Nat]
V2Stores ==
    [tasks : [CfTasks -> TaskRows], byIdem : [CfKeys -> CfTasks \cup {""}], running : SUBSET LeaseRows,
     records : [CfWorkers -> CfWorkerRows], docs : [CfIds -> DocRows], docByKey : [CfKeys -> CfIds \cup {""}]]

\* The entry of a running task in the index of leases.
LeaseOf(tasks, t) == [t |-> t, upd |-> tasks[t].upd, epoch |-> tasks[t].epoch]

\* Two stores that no later call tells apart.
Alike(l, n) ==
    /\ l \in LegacyStores /\ n \in V2Stores
    /\ l.tasks = n.tasks /\ l.keys = n.byIdem /\ l.workers = n.records
    /\ l.docs = n.docs /\ l.docKeys = n.docByKey
    /\ \A k \in CfKeys : n.byIdem[k] # "" => n.tasks[n.byIdem[k]].st # "none"
    /\ \A t \in CfTasks : n.tasks[t].st = "RUNNING" => n.tasks[t].epoch > 0
    /\ \A w \in CfWorkers : n.records[w].cap = 0 => n.records[w] = Unknown
    /\ \A d \in n.running : n.tasks[d.t].st = "RUNNING" /\ d = LeaseOf(n.tasks, d.t)
    /\ \A t \in CfTasks : n.tasks[t].st = "RUNNING" => LeaseOf(n.tasks, t) \in n.running

\* The stores are alike and answered the last call the same.
CfInv == Alike(legacy, v2) /\ answers[1] = answers[2] /\ now \in Nat

\* a call gives stores alike and the same answer
SameCall(a, b) == Alike(a.store, b.store) /\ a.answer = b.answer

\* The same row for a task, in the heap when it runs.
LEMMA AlikeRow ==
    ASSUME NEW l, NEW n, Alike(l, n), NEW t \in CfTasks, NEW row \in TaskRows,
           row.st # "none", row.st = "RUNNING" => row.epoch > 0
    PROVE  Alike([l EXCEPT !.tasks[t] = row], Tracked(n, t, row))
<1> DEFINE l2 == [l EXCEPT !.tasks[t] = row]
           n2 == Tracked(n, t, row)
           ts == [n.tasks EXCEPT ![t] = row]
           rs == {d \in n.running : d.t # t} \cup
                   (IF row.st = "RUNNING" /\ row.epoch > 0 THEN {[t |-> t, upd |-> row.upd, epoch |-> row.epoch]} ELSE {})
<1>1. l \in LegacyStores /\ n \in V2Stores /\ l.tasks = n.tasks
  BY DEF Alike
<1>2. ts \in [CfTasks -> TaskRows] /\ ts[t] = row /\ \A u \in CfTasks : u # t => ts[u] = n.tasks[u]
  BY <1>1 DEF V2Stores
<1>3. rs \in SUBSET LeaseRows
  <2>1. n.running \subseteq LeaseRows /\ n.byIdem \in [CfKeys -> CfTasks \cup {""}]
    BY <1>1 DEF V2Stores
  <2>2. [t |-> t, upd |-> row.upd, epoch |-> row.epoch] \in LeaseRows
    BY DEF LeaseRows, TaskRows
  <2> QED  BY <2>1, <2>2
<1>4. /\ l2 \in LegacyStores /\ l2.tasks = ts /\ l2.keys = l.keys /\ l2.workers = l.workers
      /\ l2.docs = l.docs /\ l2.docKeys = l.docKeys
  BY <1>1, <1>2 DEF LegacyStores
<1>5. n2 = [n EXCEPT !.tasks = ts, !.running = rs]
  BY <1>1 DEF Tracked, V2Stores
<1>6. /\ n2 \in V2Stores /\ n2.tasks = ts /\ n2.byIdem = n.byIdem /\ n2.records = n.records
      /\ n2.docs = n.docs /\ n2.docByKey = n.docByKey /\ n2.running = rs
  BY <1>1, <1>2, <1>3, <1>5 DEF V2Stores
<1> HIDE DEF l2, n2
<1>7. \A k \in CfKeys : n2.byIdem[k] # "" => n2.tasks[n2.byIdem[k]].st # "none"
  <2>1. \A k \in CfKeys : n.byIdem[k] # "" => n.byIdem[k] \in CfTasks /\ n.tasks[n.byIdem[k]].st # "none"
    BY <1>1 DEF Alike, V2Stores
  <2> HIDE DEF ts
  <2> SUFFICES ASSUME NEW k \in CfKeys, n.byIdem[k] # "" PROVE ts[n.byIdem[k]].st # "none"
    BY <1>6
  <2> QED  BY <1>2, <2>1
<1>8. \A u \in CfTasks : ts[u].st = "RUNNING" => ts[u].epoch > 0
  BY <1>2 DEF Alike
<1>9. \A d \in rs : ts[d.t].st = "RUNNING" /\ d = LeaseOf(ts, d.t)
  <2> SUFFICES ASSUME NEW d \in rs PROVE ts[d.t].st = "RUNNING" /\ d = LeaseOf(ts, d.t)
    OBVIOUS
  <2>1. CASE d.t # t
    <3>1. d \in n.running
      BY <2>1
    <3>2. n.running \in SUBSET LeaseRows
      BY <1>1 DEF V2Stores
    <3>3. d.t \in CfTasks
      BY <3>1, <3>2 DEF LeaseRows
    <3>4. ts[d.t] = n.tasks[d.t]
      BY <1>2, <2>1, <3>3
    <3> QED  BY <3>1, <3>4 DEF Alike, LeaseOf
  <2>2. CASE d.t = t
    <3>1. row.st = "RUNNING" /\ d = [t |-> t, upd |-> row.upd, epoch |-> row.epoch]
      BY <2>2
    <3> QED  BY <1>2, <3>1 DEF LeaseOf
  <2> QED  BY <2>1, <2>2
<1>10. \A u \in CfTasks : ts[u].st = "RUNNING" => LeaseOf(ts, u) \in rs
  <2> SUFFICES ASSUME NEW u \in CfTasks, ts[u].st = "RUNNING" PROVE LeaseOf(ts, u) \in rs
    OBVIOUS
  <2>1. CASE u # t
    <3>1. LeaseOf(ts, u) = LeaseOf(n.tasks, u) /\ LeaseOf(n.tasks, u) \in n.running
      BY <1>2, <2>1 DEF Alike, LeaseOf
    <3>2. LeaseOf(ts, u).t # t
      BY <2>1 DEF LeaseOf
    <3> QED  BY <3>1, <3>2
  <2>2. CASE u = t
    BY <1>2, <2>2 DEF LeaseOf
  <2> QED  BY <2>1, <2>2
<1> HIDE DEF ts, rs
<1>11. /\ l2.tasks = n2.tasks /\ l2.keys = n2.byIdem /\ l2.workers = n2.records
       /\ l2.docs = n2.docs /\ l2.docKeys = n2.docByKey
       /\ \A w \in CfWorkers : n2.records[w].cap = 0 => n2.records[w] = Unknown
  BY <1>4, <1>6 DEF Alike
<1>12. \A u \in CfTasks : n2.tasks[u].st = "RUNNING" => n2.tasks[u].epoch > 0 /\ LeaseOf(n2.tasks, u) \in n2.running
  BY <1>6, <1>8, <1>10
<1>13. \A d \in n2.running : n2.tasks[d.t].st = "RUNNING" /\ d = LeaseOf(n2.tasks, d.t)
  BY <1>6, <1>9
<1>14. l2 \in LegacyStores /\ n2 \in V2Stores
  BY <1>4, <1>6
<1>15. Alike(l2, n2)
  BY <1>7, <1>11, <1>12, <1>13, <1>14 DEF Alike
<1> QED  BY <1>15 DEF l2, n2

\* The same key for a task that exists.
LEMMA AlikeKey ==
    ASSUME NEW l, NEW n, Alike(l, n), NEW t \in CfTasks, NEW k \in CfKeys, n.tasks[t].st # "none"
    PROVE  Alike([l EXCEPT !.keys = [l.keys EXCEPT ![k] = t]], [n EXCEPT !.byIdem[k] = t])
<1> DEFINE l2 == [l EXCEPT !.keys = [l.keys EXCEPT ![k] = t]]
           n2 == [n EXCEPT !.byIdem[k] = t]
           ks == [n.byIdem EXCEPT ![k] = t]
<1>1. l \in LegacyStores /\ n \in V2Stores /\ l.keys = n.byIdem
  BY DEF Alike
<1>2. ks \in [CfKeys -> CfTasks \cup {""}] /\ ks[k] = t /\ \A u \in CfKeys : u # k => ks[u] = n.byIdem[u]
  BY <1>1 DEF V2Stores
<1>4. /\ l2 \in LegacyStores /\ l2.tasks = l.tasks /\ l2.keys = ks /\ l2.workers = l.workers
      /\ l2.docs = l.docs /\ l2.docKeys = l.docKeys
  BY <1>1, <1>2 DEF LegacyStores
<1>6. /\ n2 \in V2Stores /\ n2.tasks = n.tasks /\ n2.byIdem = ks /\ n2.records = n.records
      /\ n2.docs = n.docs /\ n2.docByKey = n.docByKey /\ n2.running = n.running
  BY <1>1, <1>2 DEF V2Stores
<1> HIDE DEF l2, n2, ks
<1>7. \A u \in CfKeys : n2.byIdem[u] # "" => n2.tasks[n2.byIdem[u]].st # "none"
  BY <1>1, <1>2, <1>6 DEF Alike
<1>11. Alike(l2, n2)
  BY <1>1, <1>4, <1>6, <1>7 DEF Alike
<1> QED  BY <1>11 DEF l2, n2

\* The same record for a worker.
LEMMA AlikeWorker ==
    ASSUME NEW l, NEW n, Alike(l, n), NEW w \in CfWorkers, NEW r \in CfWorkerRows, r.cap = 0 => r = Unknown
    PROVE  Alike([l EXCEPT !.workers[w] = r], [n EXCEPT !.records[w] = r])
<1> DEFINE l2 == [l EXCEPT !.workers[w] = r]
           n2 == [n EXCEPT !.records[w] = r]
           ws == [n.records EXCEPT ![w] = r]
<1>1. l \in LegacyStores /\ n \in V2Stores /\ l.workers = n.records
  BY DEF Alike
<1>2. ws \in [CfWorkers -> CfWorkerRows] /\ ws[w] = r /\ \A u \in CfWorkers : u # w => ws[u] = n.records[u]
  BY <1>1 DEF V2Stores
<1>4. /\ l2 \in LegacyStores /\ l2.tasks = l.tasks /\ l2.keys = l.keys /\ l2.workers = ws
      /\ l2.docs = l.docs /\ l2.docKeys = l.docKeys
  BY <1>1, <1>2 DEF LegacyStores
<1>6. /\ n2 \in V2Stores /\ n2.tasks = n.tasks /\ n2.byIdem = n.byIdem /\ n2.records = ws
      /\ n2.docs = n.docs /\ n2.docByKey = n.docByKey /\ n2.running = n.running
  BY <1>1, <1>2 DEF V2Stores
<1> HIDE DEF l2, n2, ws
<1>7. \A u \in CfWorkers : n2.records[u].cap = 0 => n2.records[u] = Unknown
  BY <1>2, <1>6 DEF Alike
<1>11. Alike(l2, n2)
  BY <1>1, <1>4, <1>6, <1>7 DEF Alike
<1> QED  BY <1>11 DEF l2, n2

\* The same document, and the same key for it or none.
LEMMA AlikeDoc ==
    ASSUME NEW l, NEW n, Alike(l, n), NEW ds \in [CfIds -> DocRows], NEW ks \in [CfKeys -> CfIds \cup {""}]
    PROVE  Alike([l EXCEPT !.docs = ds, !.docKeys = ks], [n EXCEPT !.docs = ds, !.docByKey = ks])
<1> DEFINE l2 == [l EXCEPT !.docs = ds, !.docKeys = ks]
           n2 == [n EXCEPT !.docs = ds, !.docByKey = ks]
<1>1. l \in LegacyStores /\ n \in V2Stores
  BY DEF Alike
<1>4. /\ l2 \in LegacyStores /\ l2.tasks = l.tasks /\ l2.keys = l.keys /\ l2.workers = l.workers
      /\ l2.docs = ds /\ l2.docKeys = ks
  BY <1>1 DEF LegacyStores
<1>6. /\ n2 \in V2Stores /\ n2.tasks = n.tasks /\ n2.byIdem = n.byIdem /\ n2.records = n.records
      /\ n2.docs = ds /\ n2.docByKey = ks /\ n2.running = n.running
  BY <1>1 DEF V2Stores
<1> HIDE DEF l2, n2
<1>11. Alike(l2, n2)
  BY <1>1, <1>4, <1>6 DEF Alike
<1> QED  BY <1>11 DEF l2, n2

\* What the stores have in common.
LEMMA AlikeParts ==
    ASSUME NEW l, NEW n, Alike(l, n)
    PROVE  /\ l.tasks = n.tasks /\ l.keys = n.byIdem /\ l.workers = n.records
           /\ l.docs = n.docs /\ l.docKeys = n.docByKey
           /\ n.tasks \in [CfTasks -> TaskRows] /\ n.byIdem \in [CfKeys -> CfTasks \cup {""}]
           /\ n.records \in [CfWorkers -> CfWorkerRows] /\ n.docs \in [CfIds -> DocRows]
           /\ n.docByKey \in [CfKeys -> CfIds \cup {""}] /\ n.running \in SUBSET LeaseRows
BY DEF Alike, V2Stores

\* An absent task has a status of its own.
LEMMA NobodyIs == Nobody.st = "none" /\ Nobody.st \notin TerminalStatuses \cup {"RUNNING"}
BY DEF Nobody, TerminalStatuses

\* What a call gives.
LEMMA GivesIs == \A x, y : Gives(x, y).store = x /\ Gives(x, y).answer = y
BY DEF Gives

\* Calls that give stores alike and one answer.
LEMMA SameGives ==
    ASSUME NEW l, NEW n, NEW x, Alike(l, n)
    PROVE  SameCall(Gives(l, x), Gives(n, x))
BY GivesIs DEF SameCall

\* CreateTask.
LEMMA CallCreate ==
    ASSUME CfInv, NEW t \in CfTasks, NEW k \in CfKeys \cup {""}
    PROVE  SameCall(LegacyCreateTask(legacy, t, k), V2create(v2, t, k))
<1> DEFINE row == NewTask(now)
           l2 == [legacy EXCEPT !.tasks[t] = row]
           n2 == [v2 EXCEPT !.tasks[t] = row, !.running = {d \in v2.running : d.t # t}]
<1>1. Alike(legacy, v2) /\ now \in Nat
  BY DEF CfInv
<1>2. row \in TaskRows /\ row.st = "QUEUED"
  BY <1>1 DEF NewTask, TaskRows, CfStatuses
<1>3. /\ legacy.keys = v2.byIdem /\ legacy.tasks = v2.tasks /\ v2.byIdem \in [CfKeys -> CfTasks \cup {""}]
      /\ legacy \in LegacyStores /\ v2 \in V2Stores /\ v2.tasks \in [CfTasks -> TaskRows]
  BY <1>1, AlikeParts DEF Alike
<1>4. n2 = Tracked(v2, t, row)
  BY <1>2, <1>3 DEF Tracked
<1>5. Alike(l2, n2)
  <2> HIDE DEF row
  <2>1. Alike([legacy EXCEPT !.tasks[t] = row], Tracked(v2, t, row))
    BY <1>1, <1>2, AlikeRow
  <2> QED  BY <1>4, <2>1
<1>6. /\ l2.tasks[t] = row /\ n2.tasks[t] = row /\ l2.keys = legacy.keys /\ n2.byIdem = v2.byIdem
      /\ l2 \in LegacyStores /\ n2 \in V2Stores
  <2>1. l2.tasks[t] = row /\ l2.keys = legacy.keys
    BY <1>3 DEF LegacyStores
  <2>2. n2.tasks[t] = row /\ n2.byIdem = v2.byIdem
    BY <1>3 DEF V2Stores
  <2> QED  BY <1>5, <2>1, <2>2 DEF Alike
<1>7. CASE k = ""
  <2>1. /\ LegacyCreateTask(legacy, t, k).store = [legacy EXCEPT !.tasks[t] = row, !.keys = legacy.keys]
        /\ LegacyCreateTask(legacy, t, k).answer = row
    BY <1>7 DEF LegacyCreateTask, Gives
  <2>2. [legacy EXCEPT !.tasks[t] = row, !.keys = legacy.keys] = l2
    BY <1>3 DEF LegacyStores
  <2>3. V2create(v2, t, k).store = n2 /\ V2create(v2, t, k).answer = row
    BY <1>7 DEF V2create, Gives
  <2> QED  BY <1>5, <2>1, <2>2, <2>3 DEF SameCall
<1>8. CASE k # "" /\ v2.byIdem[k] # ""
  <2>1. v2.byIdem[k] \in CfTasks /\ v2.tasks[v2.byIdem[k]].st # "none"
    BY <1>1, <1>3, <1>8 DEF Alike
  <2>2. v2.tasks[v2.byIdem[k]] # Nobody
    BY <2>1, NobodyIs
  <2>3. /\ LegacyCreateTask(legacy, t, k).store = legacy
        /\ LegacyCreateTask(legacy, t, k).answer = v2.tasks[v2.byIdem[k]]
    BY <1>3, <1>8 DEF LegacyCreateTask, Gives
  <2>4. V2create(v2, t, k).store = v2 /\ V2create(v2, t, k).answer = v2.tasks[v2.byIdem[k]]
    BY <1>8, <2>2 DEF V2create, Gives
  <2> QED  BY <1>1, <2>3, <2>4 DEF SameCall
<1>9. CASE k # "" /\ v2.byIdem[k] = ""
  <2>1. /\ LegacyCreateTask(legacy, t, k).store = [legacy EXCEPT !.tasks[t] = row, !.keys = [legacy.keys EXCEPT ![k] = t]]
        /\ LegacyCreateTask(legacy, t, k).answer = row
    BY <1>3, <1>9 DEF LegacyCreateTask, Gives
  <2>2. [legacy EXCEPT !.tasks[t] = row, !.keys = [legacy.keys EXCEPT ![k] = t]]
          = [l2 EXCEPT !.keys = [l2.keys EXCEPT ![k] = t]]
    BY <1>3, <1>6 DEF LegacyStores
  <2>3. V2create(v2, t, k).store = [n2 EXCEPT !.byIdem[k] = t] /\ V2create(v2, t, k).answer = row
    BY <1>9 DEF V2create, Gives
  <2>4. n2.tasks[t].st # "none" /\ k \in CfKeys
    BY <1>2, <1>6, <1>9
  <2> HIDE DEF l2, n2, row
  <2>5. Alike([l2 EXCEPT !.keys = [l2.keys EXCEPT ![k] = t]], [n2 EXCEPT !.byIdem[k] = t])
    BY <1>5, <2>4, AlikeKey
  <2> QED  BY <2>1, <2>2, <2>3, <2>5 DEF SameCall
<1> QED  BY <1>7, <1>8, <1>9

\* LeaseTask.
LEMMA CallLease ==
    ASSUME CfInv, NEW t \in CfTasks, NEW w \in CfWorkers
    PROVE  SameCall(LegacyLeaseTask(legacy, t, w), V2lease(v2, t, w))
<1> DEFINE leased == [st |-> "RUNNING", worker |-> w, epoch |-> v2.tasks[t].epoch + 1, upd |-> now]
<1>1. Alike(legacy, v2) /\ now \in Nat
  BY DEF CfInv
<1>2. legacy.tasks = v2.tasks /\ v2.tasks \in [CfTasks -> TaskRows] /\ v2.tasks[t].epoch \in Nat
  <2>1. legacy.tasks = v2.tasks /\ v2.tasks \in [CfTasks -> TaskRows]
    BY <1>1, AlikeParts
  <2> QED  BY <2>1 DEF TaskRows
<1>3. leased \in TaskRows /\ leased.st = "RUNNING" /\ leased.epoch > 0
  <2>1. v2.tasks[t].epoch + 1 \in Nat /\ v2.tasks[t].epoch + 1 > 0 /\ "RUNNING" \in CfStatuses
    BY <1>2 DEF CfStatuses
  <2> QED  BY <1>1, <2>1 DEF TaskRows
<1>4. Alike([legacy EXCEPT !.tasks[t] = leased], Tracked(v2, t, leased))
  BY <1>1, <1>3, AlikeRow
<1>5. CASE v2.tasks[t] = Nobody
  BY <1>1, <1>2, <1>5 DEF SameCall, LegacyLeaseTask, V2lease, Fails, Gives
<1>6. CASE v2.tasks[t].st \in TerminalStatuses
  <2>1. v2.tasks[t] # Nobody
    BY <1>6, NobodyIs
  <2> QED  BY <1>1, <1>2, <1>6, <2>1 DEF SameCall, LegacyLeaseTask, V2lease, Gives
<1>7. CASE v2.tasks[t] # Nobody /\ v2.tasks[t].st \notin TerminalStatuses
  <2>1. LegacyLeaseTask(legacy, t, w).store = [legacy EXCEPT !.tasks[t] = leased] /\ LegacyLeaseTask(legacy, t, w).answer = leased
    BY <1>2, <1>7 DEF LegacyLeaseTask, Gives
  <2>2. V2lease(v2, t, w).store = Tracked(v2, t, leased) /\ V2lease(v2, t, w).answer = leased
    BY <1>7 DEF V2lease, Gives
  <2> QED  BY <1>4, <2>1, <2>2 DEF SameCall
<1> QED  BY <1>5, <1>6, <1>7

\* ValidateTaskLease.
LEMMA CallValidate ==
    ASSUME CfInv, NEW t \in CfTasks, NEW w \in CfWorkers, NEW e \in Nat
    PROVE  SameCall(LegacyValidateTaskLease(legacy, t, w, e), validateLease(v2, t, w, e))
<1>1. Alike(legacy, v2) /\ legacy.tasks = v2.tasks
  BY AlikeParts DEF CfInv
<1>2. v2.tasks[t] = Nobody => v2.tasks[t].st \notin TerminalStatuses \cup {"RUNNING"}
  BY NobodyIs
<1> QED  BY <1>1, <1>2 DEF SameCall, LegacyValidateTaskLease, validateLease, Fails, Gives, TerminalStatuses

\* CompleteTask.
LEMMA CallComplete ==
    ASSUME CfInv, NEW t \in CfTasks, NEW w \in CfWorkers, NEW e \in Nat, NEW st \in TerminalStatuses
    PROVE  SameCall(LegacyCompleteTask(legacy, t, w, e, st), V2complete(v2, t, w, e, st))
<1> DEFINE done == [v2.tasks[t] EXCEPT !.st = st, !.upd = now]
<1>1. Alike(legacy, v2) /\ legacy.tasks = v2.tasks /\ v2.tasks \in [CfTasks -> TaskRows] /\ now \in Nat
  BY AlikeParts DEF CfInv
<1>2. done \in TaskRows /\ done.st # "none" /\ done.st # "RUNNING"
  BY <1>1 DEF TaskRows, CfStatuses, TerminalStatuses
<1>3. Alike([legacy EXCEPT !.tasks[t] = done], Tracked(v2, t, done))
  BY <1>1, <1>2, AlikeRow
<1> DEFINE a == LegacyCompleteTask(legacy, t, w, e, st)
           b == V2complete(v2, t, w, e, st)
<1>4. CASE v2.tasks[t].st \in TerminalStatuses
  <2>1. v2.tasks[t].st # "RUNNING"
    BY <1>4 DEF TerminalStatuses
  <2>2. a = Gives(legacy, v2.tasks[t]) /\ b = Gives(v2, v2.tasks[t])
    BY <1>1, <1>4, <2>1 DEF LegacyCompleteTask, V2complete
  <2> QED  BY <1>1, <2>2, GivesIs DEF SameCall
<1>5. CASE v2.tasks[t].st = "RUNNING" /\ v2.tasks[t].worker = w /\ v2.tasks[t].epoch = e
  <2>1. v2.tasks[t].st \notin TerminalStatuses
    BY <1>5 DEF TerminalStatuses
  <2>2. a = Gives([legacy EXCEPT !.tasks[t] = done], done) /\ b = Gives(Tracked(v2, t, done), done)
    BY <1>1, <1>5, <2>1 DEF LegacyCompleteTask, V2complete
  <2> QED  BY <1>3, <2>2 DEF SameCall, Gives
<1>6. CASE ~(v2.tasks[t].st \in TerminalStatuses) /\ ~(v2.tasks[t].st = "RUNNING" /\ v2.tasks[t].worker = w /\ v2.tasks[t].epoch = e)
  BY <1>1, <1>6 DEF SameCall, LegacyCompleteTask, V2complete, Fails, Gives
<1> QED  BY <1>4, <1>5, <1>6

\* RequeueTaskIfLeaseExpired.
LEMMA CallRequeueOne ==
    ASSUME CfInv, NEW t \in CfTasks, NEW e \in Nat
    PROVE  SameCall(LegacyRequeueTaskIfLeaseExpired(legacy, t, e), V2requeueTaskAt(v2, t, e))
<1> DEFINE row == [Requeued(v2.tasks[t]) EXCEPT !.worker = ""]
<1>1. Alike(legacy, v2) /\ legacy.tasks = v2.tasks /\ v2.tasks \in [CfTasks -> TaskRows] /\ now \in Nat /\ MaxAge \in Nat
  BY AlikeParts, CfAssumption DEF CfInv
<1>2. row \in TaskRows /\ row.st = "QUEUED"
  BY <1>1 DEF TaskRows, CfStatuses, Requeued
<1>3. Alike([legacy EXCEPT !.tasks[t] = row], Tracked(v2, t, row))
  BY <1>1, <1>2, AlikeRow
<1>4. Stale(v2, t, e) <=> ~(v2.tasks[t].epoch = e /\ LegacyExpired(v2.tasks[t]))
  <2>1. v2.tasks[t].upd \in Nat
    BY <1>1 DEF TaskRows
  <2> QED  BY <1>1, <2>1 DEF Stale, LegacyExpired
<1>5. CASE Stale(v2, t, e)
  BY <1>1, <1>4, <1>5 DEF SameCall, LegacyRequeueTaskIfLeaseExpired, V2requeueTaskAt, Gives
<1>6. CASE ~Stale(v2, t, e)
  <2>1. LegacyRequeueTaskIfLeaseExpired(legacy, t, e) = Gives([legacy EXCEPT !.tasks[t] = row], <<Requeued(v2.tasks[t]), TRUE>>)
    BY <1>1, <1>4, <1>6 DEF LegacyRequeueTaskIfLeaseExpired
  <2>2. V2requeueTaskAt(v2, t, e) = Gives(Tracked(v2, t, row), <<Requeued(v2.tasks[t]), TRUE>>)
    BY <1>6 DEF V2requeueTaskAt
  <2> HIDE DEF row
  <2> QED  BY <1>3, <2>1, <2>2, GivesIs DEF SameCall
<1> QED  BY <1>5, <1>6

\* RequeueExpiredRunningTasks: the scan and the heap find the same leases.
LEMMA CallRequeueAll ==
    ASSUME CfInv
    PROVE  SameCall(LegacyRequeueExpiredRunningTasks(legacy), requeueExpiredRunning(v2))
<1> DEFINE old == {t \in CfTasks : LegacyExpired(v2.tasks[t])}
           popped == V2popRunningBefore(v2)
           old2 == {d.t : d \in {x \in popped : ~Stale(v2, x.t, x.epoch)}}
           ts == [t \in CfTasks |-> IF t \in old THEN [Requeued(v2.tasks[t]) EXCEPT !.worker = ""] ELSE v2.tasks[t]]
           rs == v2.running \ popped
           found == {<<t, Requeued(v2.tasks[t])>> : t \in old}
           l2 == [legacy EXCEPT !.tasks = ts]
           n2 == [v2 EXCEPT !.running = rs, !.tasks = ts]
<1>1. /\ Alike(legacy, v2) /\ legacy.tasks = v2.tasks /\ v2.tasks \in [CfTasks -> TaskRows]
      /\ now \in Nat /\ MaxAge \in Nat /\ v2.running \in SUBSET LeaseRows
      /\ legacy \in LegacyStores /\ v2 \in V2Stores
  BY AlikeParts, CfAssumption DEF CfInv, Alike
<1>2. \A d \in v2.running : d.t \in CfTasks /\ v2.tasks[d.t].st = "RUNNING" /\ d.upd = v2.tasks[d.t].upd /\ d.epoch = v2.tasks[d.t].epoch
  <2> SUFFICES ASSUME NEW d \in v2.running
               PROVE  /\ d.t \in CfTasks /\ v2.tasks[d.t].st = "RUNNING"
                      /\ d.upd = v2.tasks[d.t].upd /\ d.epoch = v2.tasks[d.t].epoch
    OBVIOUS
  <2>1. v2.tasks[d.t].st = "RUNNING" /\ d = LeaseOf(v2.tasks, d.t)
    BY <1>1 DEF Alike
  <2>2. LeaseOf(v2.tasks, d.t).upd = v2.tasks[d.t].upd /\ LeaseOf(v2.tasks, d.t).epoch = v2.tasks[d.t].epoch
    BY DEF LeaseOf
  <2>3. d.t \in CfTasks
    BY <1>1 DEF LeaseRows
  <2> QED  BY <2>1, <2>2, <2>3
<1>3. \A t \in CfTasks : v2.tasks[t].upd \in Nat /\ v2.tasks[t].st \in CfStatuses /\ v2.tasks[t].epoch \in Nat
  BY <1>1 DEF TaskRows
<1>4. \A d \in v2.running : d \in popped <=> d.t \in old
  BY <1>1, <1>2, <1>3 DEF V2popRunningBefore, LegacyExpired
<1>5. \A d \in popped : d \in v2.running /\ ~Stale(v2, d.t, d.epoch)
  <2> SUFFICES ASSUME NEW d \in popped PROVE d \in v2.running /\ ~Stale(v2, d.t, d.epoch)
    OBVIOUS
  <2>1. d \in v2.running /\ d.upd <= now - MaxAge
    BY DEF V2popRunningBefore
  <2> QED  BY <1>1, <1>2, <1>3, <2>1 DEF Stale
<1>6. \A t \in old : LeaseOf(v2.tasks, t) \in popped /\ LeaseOf(v2.tasks, t).t = t
  <2> SUFFICES ASSUME NEW t \in old PROVE LeaseOf(v2.tasks, t) \in popped /\ LeaseOf(v2.tasks, t).t = t
    OBVIOUS
  <2>1. t \in CfTasks /\ v2.tasks[t].st = "RUNNING"
    BY DEF LegacyExpired
  <2>2. LeaseOf(v2.tasks, t) \in v2.running /\ LeaseOf(v2.tasks, t).t = t
    BY <1>1, <2>1 DEF Alike, LeaseOf
  <2> QED  BY <1>4, <2>2
<1>7. old2 = old
  <2>1. ASSUME NEW t \in old PROVE t \in old2
    BY <1>5, <1>6
  <2>2. ASSUME NEW t \in old2 PROVE t \in old
    <3>1. PICK d \in popped : t = d.t
      OBVIOUS
    <3> QED  BY <1>4, <1>5, <3>1
  <2> QED  BY <2>1, <2>2
<1>8. LegacyRequeueExpiredRunningTasks(legacy) = Gives(l2, found)
  BY <1>1 DEF LegacyRequeueExpiredRunningTasks
<1>9. requeueExpiredRunning(v2) = Gives(n2, found)
  <2>1. requeueExpiredRunning(v2)
          = Gives([v2 EXCEPT !.running = v2.running \ popped,
                             !.tasks = [t \in CfTasks |-> IF t \in old2 THEN [Requeued(v2.tasks[t]) EXCEPT !.worker = ""]
                                                          ELSE v2.tasks[t]]],
                  {<<t, Requeued(v2.tasks[t])>> : t \in old2})
    BY DEF requeueExpiredRunning
  <2> HIDE DEF old2, old, popped
  <2> QED  BY <1>7, <2>1
<1>10. ts \in [CfTasks -> TaskRows]
  <2> SUFFICES ASSUME NEW t \in CfTasks PROVE ts[t] \in TaskRows
    OBVIOUS
  <2>1. v2.tasks[t] \in TaskRows
    BY <1>1
  <2>2. [Requeued(v2.tasks[t]) EXCEPT !.worker = ""] \in TaskRows
    BY <1>1, <2>1 DEF Requeued, TaskRows, CfStatuses
  <2> QED  BY <2>1, <2>2
<1>11. \A t \in CfTasks : IF t \in old THEN ts[t].st = "QUEUED" ELSE ts[t] = v2.tasks[t]
  <2> SUFFICES ASSUME NEW t \in CfTasks PROVE IF t \in old THEN ts[t].st = "QUEUED" ELSE ts[t] = v2.tasks[t]
    OBVIOUS
  <2>1. v2.tasks[t] \in TaskRows
    BY <1>1
  <2>2. [Requeued(v2.tasks[t]) EXCEPT !.worker = ""].st = "QUEUED"
    BY <2>1 DEF Requeued, TaskRows
  <2> QED  BY <2>2
<1> HIDE DEF ts, old, popped, found
<1>12. /\ l2 \in LegacyStores /\ l2.tasks = ts /\ l2.keys = legacy.keys /\ l2.workers = legacy.workers
       /\ l2.docs = legacy.docs /\ l2.docKeys = legacy.docKeys
  BY <1>1, <1>10 DEF LegacyStores
<1>13. rs \in SUBSET LeaseRows
  BY <1>1
<1>14. /\ n2 \in V2Stores /\ n2.tasks = ts /\ n2.byIdem = v2.byIdem /\ n2.records = v2.records
       /\ n2.docs = v2.docs /\ n2.docByKey = v2.docByKey /\ n2.running = rs
  BY <1>1, <1>10, <1>13 DEF V2Stores
<1>15. \A d \in rs : d.t \in CfTasks /\ d.t \notin old /\ ts[d.t] = v2.tasks[d.t]
  BY <1>2, <1>4, <1>11
<1>16. \A k \in CfKeys : n2.byIdem[k] # "" => n2.tasks[n2.byIdem[k]].st # "none"
  <2>1. \A k \in CfKeys : v2.byIdem[k] # "" => v2.byIdem[k] \in CfTasks /\ v2.tasks[v2.byIdem[k]].st # "none"
    BY <1>1 DEF Alike, V2Stores
  <2> SUFFICES ASSUME NEW k \in CfKeys, v2.byIdem[k] # "" PROVE ts[v2.byIdem[k]].st # "none"
    BY <1>14
  <2> QED  BY <1>11, <2>1
<1>17. \A t \in CfTasks : n2.tasks[t].st = "RUNNING" => n2.tasks[t].epoch > 0
  BY <1>1, <1>11, <1>14 DEF Alike
<1>18. \A d \in n2.running : n2.tasks[d.t].st = "RUNNING" /\ d = LeaseOf(n2.tasks, d.t)
  <2> SUFFICES ASSUME NEW d \in rs PROVE ts[d.t].st = "RUNNING" /\ d = LeaseOf(ts, d.t)
    BY <1>14
  <2> QED  BY <1>1, <1>15 DEF Alike, LeaseOf
<1>19. \A t \in CfTasks : n2.tasks[t].st = "RUNNING" => LeaseOf(n2.tasks, t) \in n2.running
  <2> SUFFICES ASSUME NEW t \in CfTasks, ts[t].st = "RUNNING" PROVE LeaseOf(ts, t) \in rs
    BY <1>14
  <2>1. t \notin old /\ ts[t] = v2.tasks[t]
    BY <1>11
  <2>2. LeaseOf(ts, t) = LeaseOf(v2.tasks, t) /\ LeaseOf(v2.tasks, t) \in v2.running /\ LeaseOf(v2.tasks, t).t = t
    BY <1>1, <2>1 DEF Alike, LeaseOf
  <2> QED  BY <1>4, <2>1, <2>2
<1> HIDE DEF l2, n2
<1>20. Alike(l2, n2)
  BY <1>1, <1>12, <1>14, <1>16, <1>17, <1>18, <1>19 DEF Alike
<1> QED  BY <1>8, <1>9, <1>20, GivesIs DEF SameCall

\* Records of workers are equal when their fields are.
LEMMA RowsEqual ==
    ASSUME NEW a \in CfWorkerRows, NEW b \in CfWorkerRows,
           a.cap = b.cap, a.load = b.load, a.hb = b.hb, a.cached = b.cached
    PROVE  a = b
BY DEF CfWorkerRows

\* The calls about workers.
LEMMA CallsOnWorker ==
    ASSUME CfInv, NEW w \in CfWorkers
    PROVE  /\ \A cap \in 1 .. 2 : SameCall(LegacyUpsertWorker(legacy, w, cap), V2upsert(v2, w, cap))
           /\ \A report \in {"nil", "none", "m"} :
                 SameCall(LegacyHeartbeat(legacy, w, report), V2heartbeat(v2, w, report))
           /\ SameCall(LegacyIncrementWorkerLoad(legacy, w), V2incrementLoad(v2, w))
           /\ SameCall(LegacyDecrementWorkerLoad(legacy, w), V2decrementLoad(v2, w))
<1> DEFINE old == v2.records[w]
           made == V2getOrCreate(v2, w)
           seen == Seen(old)
<1>1. /\ Alike(legacy, v2) /\ now \in Nat /\ legacy.workers = v2.records /\ legacy \in LegacyStores /\ v2 \in V2Stores
      /\ v2.records \in [CfWorkers -> CfWorkerRows]
  BY AlikeParts DEF CfInv, Alike
<1>2. /\ old \in CfWorkerRows /\ (old.cap = 0 => old = Unknown)
      /\ old.cap \in Nat /\ old.load \in Nat /\ old.hb \in Nat /\ old.cached \in {"none", "m"}
  <2>1. old \in CfWorkerRows /\ (old.cap = 0 => old = Unknown)
    BY <1>1 DEF Alike
  <2> QED  BY <2>1 DEF CfWorkerRows
<1>3. Unknown.cap = 0 /\ Unknown.load = 0 /\ Unknown.hb = 0 /\ Unknown.cached = "none"
  BY DEF Unknown
<1>4. made \in CfWorkerRows /\ made.cap # 0 /\ made.load = old.load /\ made.cached = old.cached
      /\ made.cap = IF old.cap = 0 THEN 1 ELSE old.cap
  <2>1. CASE old = Unknown
    <3>1. made = [Unknown EXCEPT !.cap = 1]
      BY <2>1 DEF V2getOrCreate
    <3> QED  BY <1>3, <2>1, <3>1 DEF Unknown, CfWorkerRows
  <2>2. CASE old # Unknown
    BY <1>2, <2>2 DEF V2getOrCreate
  <2> QED  BY <2>1, <2>2
<1>5. /\ seen \in CfWorkerRows /\ seen.cap = made.cap /\ seen.load = old.load /\ seen.hb = now
      /\ seen.cached = old.cached
  <2>1. seen = [old EXCEPT !.cap = IF old.cap = 0 THEN 1 ELSE old.cap, !.hb = now]
    BY DEF Seen
  <2> HIDE DEF seen, old, made
  <2> QED  BY <1>1, <1>2, <1>4, <2>1 DEF CfWorkerRows
<1>6. ASSUME NEW cap \in 1 .. 2 PROVE SameCall(LegacyUpsertWorker(legacy, w, cap), V2upsert(v2, w, cap))
  <2> DEFINE r == [cap |-> cap, load |-> old.load, hb |-> now, cached |-> "none"]
  <2>1. made.load = old.load
    BY <1>4
  <2>2. /\ LegacyUpsertWorker(legacy, w, cap) = Gives([legacy EXCEPT !.workers[w] = r], "ok")
        /\ V2upsert(v2, w, cap) = Gives([v2 EXCEPT !.records[w] = r], "ok")
    BY <1>1, <2>1 DEF LegacyUpsertWorker, V2upsert
  <2>3. r \in CfWorkerRows /\ r.cap # 0
    BY <1>1, <1>2 DEF CfWorkerRows
  <2> HIDE DEF r
  <2>4. Alike([legacy EXCEPT !.workers[w] = r], [v2 EXCEPT !.records[w] = r])
    BY <1>1, <2>3, AlikeWorker
  <2> QED  BY <2>2, <2>4, GivesIs DEF SameCall
<1>7. ASSUME NEW report \in {"nil", "none", "m"}
      PROVE  SameCall(LegacyHeartbeat(legacy, w, report), V2heartbeat(v2, w, report))
  <2> DEFINE a == [seen EXCEPT !.cached = IF report = "nil" THEN @ ELSE report]
             r == [made EXCEPT !.hb = now, !.cached = IF report = "nil" THEN @ ELSE report]
  <2>1. /\ r \in CfWorkerRows /\ r.cap = made.cap /\ r.load = made.load /\ r.hb = now
        /\ r.cached = IF report = "nil" THEN made.cached ELSE report
    <3> HIDE DEF made
    <3> QED  BY <1>1, <1>4 DEF CfWorkerRows
  <2>2. /\ a \in CfWorkerRows /\ a.cap = seen.cap /\ a.load = seen.load /\ a.hb = seen.hb
        /\ a.cached = IF report = "nil" THEN seen.cached ELSE report
    <3> HIDE DEF seen
    <3> QED  BY <1>5 DEF CfWorkerRows
  <2>3. a = r
    <3> HIDE DEF a, r, seen, made, old
    <3> QED  BY <1>4, <1>5, <2>1, <2>2, RowsEqual
  <2>4. /\ LegacyHeartbeat(legacy, w, report) = Gives([legacy EXCEPT !.workers[w] = a], <<a, old # Unknown>>)
        /\ V2heartbeat(v2, w, report) = Gives([v2 EXCEPT !.records[w] = r], <<r, old # Unknown>>)
    BY <1>1 DEF LegacyHeartbeat, V2heartbeat
  <2>5. r.cap # 0
    BY <1>4, <2>1
  <2> HIDE DEF r, a
  <2>6. Alike([legacy EXCEPT !.workers[w] = r], [v2 EXCEPT !.records[w] = r])
    BY <1>1, <2>1, <2>5, AlikeWorker
  <2> QED  BY <2>3, <2>4, <2>6, GivesIs DEF SameCall
<1>8. SameCall(LegacyIncrementWorkerLoad(legacy, w), V2incrementLoad(v2, w))
  <2> DEFINE a == [seen EXCEPT !.load = seen.load + 1]
             r == [made EXCEPT !.load = made.load + 1, !.hb = now]
  <2>1. made.load + 1 \in Nat /\ seen.load + 1 \in Nat /\ seen.load + 1 = made.load + 1
    BY <1>2, <1>4, <1>5
  <2>2. r \in CfWorkerRows /\ r.cap = made.cap /\ r.load = made.load + 1 /\ r.hb = now /\ r.cached = made.cached
    <3> DEFINE y == made.load + 1
    <3> HIDE DEF made, y
    <3>1. y \in Nat
      BY <2>1 DEF y
    <3>2. LET x == [made EXCEPT !.load = y, !.hb = now]
          IN  x \in CfWorkerRows /\ x.cap = made.cap /\ x.load = y /\ x.hb = now /\ x.cached = made.cached
      BY <1>1, <1>4, <3>1 DEF CfWorkerRows
    <3> QED  BY <3>2 DEF y
  <2>3. a \in CfWorkerRows /\ a.cap = seen.cap /\ a.load = seen.load + 1 /\ a.hb = seen.hb /\ a.cached = seen.cached
    <3> DEFINE y == seen.load + 1
    <3>1. y \in Nat
      BY <2>1
    <3> HIDE DEF seen, y
    <3>2. LET x == [seen EXCEPT !.load = y]
          IN  x \in CfWorkerRows /\ x.cap = seen.cap /\ x.load = y /\ x.hb = seen.hb /\ x.cached = seen.cached
      BY <1>5, <3>1 DEF CfWorkerRows
    <3> QED  BY <3>2 DEF y
  <2>4. a = r
    <3> HIDE DEF a, r, seen, made, old
    <3> QED  BY <1>4, <1>5, <2>1, <2>2, <2>3, RowsEqual
  <2>5. /\ LegacyIncrementWorkerLoad(legacy, w) = Gives([legacy EXCEPT !.workers[w] = a], "ok")
        /\ V2incrementLoad(v2, w) = Gives([v2 EXCEPT !.records[w] = r], "ok")
    BY <1>1 DEF LegacyIncrementWorkerLoad, V2incrementLoad
  <2>6. r.cap # 0
    BY <1>4, <2>2
  <2> HIDE DEF r, a
  <2>7. Alike([legacy EXCEPT !.workers[w] = r], [v2 EXCEPT !.records[w] = r])
    BY <1>1, <2>2, <2>6, AlikeWorker
  <2> QED  BY <2>4, <2>5, <2>7, GivesIs DEF SameCall
<1>9. SameCall(LegacyDecrementWorkerLoad(legacy, w), V2decrementLoad(v2, w))
  <2> DEFINE m == IF old.load > 0 THEN old.load - 1 ELSE 0
             r == [old EXCEPT !.load = m]
  <2>1. m \in Nat /\ (old.load = 0 => m = old.load)
    BY <1>2
  <2>2. r \in CfWorkerRows /\ r.cap = old.cap /\ r.load = m /\ r.hb = old.hb /\ r.cached = old.cached
    <3> HIDE DEF m, old
    <3> QED  BY <1>2, <2>1 DEF CfWorkerRows
  <2>3. old.load = 0 => r = old
    <3> HIDE DEF m, old, r
    <3> QED  BY <1>2, <2>1, <2>2, RowsEqual
  <2>4. r.cap = 0 => r = Unknown
    <3>1. ASSUME old.cap = 0 PROVE old.load = 0 /\ old = Unknown
      BY <1>2, <1>3, <3>1
    <3> QED  BY <2>2, <2>3, <3>1
  <2>5. LegacyDecrementWorkerLoad(legacy, w) = Gives([legacy EXCEPT !.workers[w] = r], "ok")
    <3>1. LegacyDecrementWorkerLoad(legacy, w)
            = Gives([legacy EXCEPT !.workers[w].load = IF legacy.workers[w].load > 0 THEN legacy.workers[w].load - 1 ELSE 0], "ok")
      BY DEF LegacyDecrementWorkerLoad
    <3> QED  BY <1>1, <3>1
  <2>6. V2decrementLoad(v2, w) = Gives([v2 EXCEPT !.records[w] = r], "ok")
    <3>1. CASE old.load = 0
      <4>1. [v2 EXCEPT !.records[w] = old] = v2
        BY <1>1 DEF V2Stores
      <4> QED  BY <2>3, <3>1, <4>1 DEF V2decrementLoad
    <3>2. CASE old.load # 0
      <4>1. m = old.load - 1
        BY <1>2, <3>2
      <4>2. V2decrementLoad(v2, w) = Gives([v2 EXCEPT !.records[w].load = v2.records[w].load - 1], "ok")
        BY <3>2 DEF V2decrementLoad
      <4> QED  BY <4>1, <4>2
    <3> QED  BY <3>1, <3>2
  <2> HIDE DEF r, m
  <2>7. Alike([legacy EXCEPT !.workers[w] = r], [v2 EXCEPT !.records[w] = r])
    BY <1>1, <2>2, <2>4, AlikeWorker
  <2> QED  BY <2>5, <2>6, <2>7, GivesIs DEF SameCall
<1> QED  BY <1>6, <1>7, <1>8, <1>9

\* ActiveWorkers.
LEMMA CallActive ==
    ASSUME CfInv
    PROVE  SameCall(LegacyActiveWorkers(legacy), V2active(v2))
<1>1. Alike(legacy, v2) /\ legacy.workers = v2.records
  BY AlikeParts DEF CfInv
<1>2. LegacyActiveWorkers(legacy).answer = V2active(v2).answer
  BY <1>1, GivesIs DEF LegacyActiveWorkers, V2active
<1>3. LegacyActiveWorkers(legacy).store = legacy /\ V2active(v2).store = v2
  BY GivesIs DEF LegacyActiveWorkers, V2active
<1> QED  BY <1>1, <1>2, <1>3 DEF SameCall

\* The calls about workflows and actors.
LEMMA CallsOnDoc ==
    ASSUME CfInv, NEW id \in CfIds
    PROVE  /\ \A k \in CfKeys \cup {""} : SameCall(LegacyCreateWorkflow(legacy, id, k), createWorkflow(v2, id, k))
           /\ \A ok \in BOOLEAN : SameCall(LegacyUpdateWorkflow(legacy, id, ok), updateWorkflow(v2, id, ok))
<1>1. /\ Alike(legacy, v2) /\ legacy.docs = v2.docs /\ legacy.docKeys = v2.docByKey
      /\ legacy \in LegacyStores /\ v2 \in V2Stores
      /\ v2.docs \in [CfIds -> DocRows] /\ v2.docByKey \in [CfKeys -> CfIds \cup {""}]
  BY AlikeParts DEF CfInv, Alike
<1>2. ASSUME NEW k \in CfKeys \cup {""}
      PROVE  SameCall(LegacyCreateWorkflow(legacy, id, k), createWorkflow(v2, id, k))
  <2>1. CASE k # "" /\ v2.docByKey[k] # ""
    <3>1. /\ LegacyCreateWorkflow(legacy, id, k) = Gives(legacy, v2.docs[v2.docByKey[k]])
          /\ createWorkflow(v2, id, k) = Gives(v2, v2.docs[v2.docByKey[k]])
      BY <1>1, <2>1 DEF LegacyCreateWorkflow, createWorkflow
    <3> QED  BY <1>1, <3>1, SameGives
  <2>2. CASE ~(k # "" /\ v2.docByKey[k] # "")
    <3> DEFINE row == [key |-> k, version |-> 1]
               ds == [v2.docs EXCEPT ![id] = row]
               ks == IF k = "" THEN v2.docByKey ELSE [v2.docByKey EXCEPT ![k] = id]
               l2 == [legacy EXCEPT !.docs = ds, !.docKeys = ks]
               n2 == [v2 EXCEPT !.docs = ds, !.docByKey = ks]
    <3>1. row \in DocRows
      BY DEF DocRows
    <3>2. ds \in [CfIds -> DocRows] /\ ks \in [CfKeys -> CfIds \cup {""}]
      BY <1>1, <3>1
    <3>3. /\ LegacyCreateWorkflow(legacy, id, k) = Gives(l2, row)
          /\ createWorkflow(v2, id, k) = Gives(n2, row)
      BY <1>1, <2>2 DEF LegacyCreateWorkflow, createWorkflow
    <3> HIDE DEF ds, ks, row
    <3>4. Alike(l2, n2)
      BY <1>1, <3>2, AlikeDoc
    <3> HIDE DEF l2, n2
    <3> QED  BY <3>3, <3>4, SameGives
  <2> QED  BY <2>1, <2>2
<1>3. ASSUME NEW ok \in BOOLEAN
      PROVE  SameCall(LegacyUpdateWorkflow(legacy, id, ok), updateWorkflow(v2, id, ok))
  <2>1. CASE v2.docs[id] = NoDoc \/ ~ok
    <3>1. LegacyUpdateWorkflow(legacy, id, ok) = Gives(legacy, "error") /\ updateWorkflow(v2, id, ok) = Gives(v2, "error")
      BY <1>1, <2>1 DEF LegacyUpdateWorkflow, updateWorkflow, Fails
    <3> QED  BY <1>1, <3>1, SameGives
  <2>2. CASE ~(v2.docs[id] = NoDoc \/ ~ok)
    <3> DEFINE was == v2.docs[id]
               row == [was EXCEPT !.version = was.version + 1]
               ds == [v2.docs EXCEPT ![id] = row]
    <3>1. was \in DocRows
      BY <1>1
    <3>2. row \in DocRows
      <4> DEFINE y == was.version + 1
      <4> HIDE DEF was
      <4>1. was.version \in Nat
        BY <3>1 DEF DocRows
      <4>2. y \in Nat
        BY <4>1
      <4> HIDE DEF y
      <4>3. [was EXCEPT !.version = y] \in DocRows
        BY <3>1, <4>2 DEF DocRows
      <4> QED  BY <4>3 DEF y
    <3>3. ds \in [CfIds -> DocRows]
      BY <1>1, <3>2
    <3>4. LegacyUpdateWorkflow(legacy, id, ok) = Gives([legacy EXCEPT !.docs = ds], v2.docs[id].version + 1)
      BY <1>1, <2>2 DEF LegacyUpdateWorkflow
    <3>5. updateWorkflow(v2, id, ok) = Gives([v2 EXCEPT !.docs = ds], v2.docs[id].version + 1)
      BY <1>1, <2>2 DEF updateWorkflow
    <3> HIDE DEF ds, row
    <3>6. Alike([legacy EXCEPT !.docs = ds, !.docKeys = v2.docByKey], [v2 EXCEPT !.docs = ds, !.docByKey = v2.docByKey])
      BY <1>1, <3>3, AlikeDoc
    <3>7. [legacy EXCEPT !.docs = ds, !.docKeys = v2.docByKey] = [legacy EXCEPT !.docs = ds]
      BY <1>1 DEF LegacyStores
    <3>8. [v2 EXCEPT !.docs = ds, !.docByKey = v2.docByKey] = [v2 EXCEPT !.docs = ds]
      BY <1>1 DEF V2Stores
    <3> QED  BY <3>4, <3>5, <3>6, <3>7, <3>8, GivesIs DEF SameCall
  <2> QED  BY <2>1, <2>2
<1> QED  BY <1>2, <1>3

\* Empty stores are alike.
LEMMA CfInvInit == CfInit => CfInv
<1> SUFFICES ASSUME CfInit PROVE CfInv
  OBVIOUS
<1>1. legacy = [tasks |-> [t \in CfTasks |-> Nobody], keys |-> [k \in CfKeys |-> ""],
                workers |-> [w \in CfWorkers |-> Unknown],
                docs |-> [i \in CfIds |-> NoDoc], docKeys |-> [k \in CfKeys |-> ""]]
  BY DEF CfInit
<1>2. v2 = [tasks |-> [t \in CfTasks |-> Nobody], byIdem |-> [k \in CfKeys |-> ""], running |-> {},
            records |-> [w \in CfWorkers |-> Unknown],
            docs |-> [i \in CfIds |-> NoDoc], docByKey |-> [k \in CfKeys |-> ""]]
  BY DEF CfInit
<1>3. Nobody \in TaskRows /\ Unknown \in CfWorkerRows /\ NoDoc \in DocRows
  BY DEF Nobody, TaskRows, CfStatuses, Unknown, CfWorkerRows, NoDoc, DocRows
<1>4. /\ legacy.tasks = v2.tasks /\ legacy.keys = v2.byIdem /\ legacy.workers = v2.records
      /\ legacy.docs = v2.docs /\ legacy.docKeys = v2.docByKey
      /\ v2.running = {} /\ v2.byIdem = [k \in CfKeys |-> ""]
      /\ v2.tasks = [t \in CfTasks |-> Nobody] /\ v2.records = [w \in CfWorkers |-> Unknown]
  BY <1>1, <1>2
<1>5. legacy \in LegacyStores
  BY <1>1, <1>3 DEF LegacyStores
<1>6. v2 \in V2Stores
  BY <1>2, <1>3 DEF V2Stores
<1>7. \A t \in CfTasks : v2.tasks[t].st # "RUNNING"
  BY <1>4, NobodyIs
<1>8. Alike(legacy, v2)
  BY <1>4, <1>5, <1>6, <1>7 DEF Alike
<1>9. answers[1] = answers[2] /\ now \in Nat
  BY DEF CfInit
<1> QED  BY <1>8, <1>9 DEF CfInv

\* A call that both stores answer alike leaves them alike.
LEMMA BothAlike ==
    ASSUME CfInv, NEW a, NEW b, Both(a, b), SameCall(a, b)
    PROVE  CfInv'
<1>1. legacy' = a.store /\ v2' = b.store /\ answers' = <<a.answer, b.answer>> /\ now' = now
  BY DEF Both
<1>2. Alike(a.store, b.store) /\ a.answer = b.answer /\ now \in Nat
  BY DEF SameCall, CfInv
<1>3. Alike(legacy, v2)'
  BY <1>1, <1>2 DEF Alike
<1>4. answers'[1] = answers'[2]
  BY <1>1, <1>2
<1> QED  BY <1>1, <1>2, <1>3, <1>4 DEF CfInv

\* Every call leaves the stores alike.
LEMMA CfInvStep == CfInv /\ [CfNext]_cfVars => CfInv'
<1> SUFFICES ASSUME CfInv, [CfNext]_cfVars PROVE CfInv'
  OBVIOUS
<1>1. CASE CallTasks
  <2>1. PICK t \in CfTasks :
          \/ \E k \in CfKeys \cup {""} : Both(LegacyCreateTask(legacy, t, k), V2create(v2, t, k))
          \/ \E w \in CfWorkers :
               \/ Both(LegacyLeaseTask(legacy, t, w), V2lease(v2, t, w))
               \/ \E e \in Epochs :
                    \/ Both(LegacyValidateTaskLease(legacy, t, w, e), validateLease(v2, t, w, e))
                    \/ \E st \in TerminalStatuses : Both(LegacyCompleteTask(legacy, t, w, e, st), V2complete(v2, t, w, e, st))
          \/ \E e \in Epochs : Both(LegacyRequeueTaskIfLeaseExpired(legacy, t, e), V2requeueTaskAt(v2, t, e))
    BY <1>1 DEF CallTasks
  <2>2. Epochs \subseteq Nat
    BY DEF Epochs
  <2>3. ASSUME NEW k \in CfKeys \cup {""}, Both(LegacyCreateTask(legacy, t, k), V2create(v2, t, k)) PROVE CfInv'
    BY <2>3, CallCreate, BothAlike
  <2>4. ASSUME NEW w \in CfWorkers, Both(LegacyLeaseTask(legacy, t, w), V2lease(v2, t, w)) PROVE CfInv'
    BY <2>4, CallLease, BothAlike
  <2>5. ASSUME NEW w \in CfWorkers, NEW e \in Epochs,
               Both(LegacyValidateTaskLease(legacy, t, w, e), validateLease(v2, t, w, e))
        PROVE  CfInv'
    BY <2>2, <2>5, CallValidate, BothAlike
  <2>6. ASSUME NEW w \in CfWorkers, NEW e \in Epochs, NEW st \in TerminalStatuses,
               Both(LegacyCompleteTask(legacy, t, w, e, st), V2complete(v2, t, w, e, st))
        PROVE  CfInv'
    BY <2>2, <2>6, CallComplete, BothAlike
  <2>7. ASSUME NEW e \in Epochs, Both(LegacyRequeueTaskIfLeaseExpired(legacy, t, e), V2requeueTaskAt(v2, t, e))
        PROVE  CfInv'
    BY <2>2, <2>7, CallRequeueOne, BothAlike
  <2> QED  BY <2>1, <2>3, <2>4, <2>5, <2>6, <2>7
<1>2. CASE CallRequeue
  BY <1>2, CallRequeueAll, BothAlike DEF CallRequeue
<1>3. CASE CallWorkers
  <2>1. ASSUME NEW w \in CfWorkers, NEW cap \in 1 .. 2, Both(LegacyUpsertWorker(legacy, w, cap), V2upsert(v2, w, cap))
        PROVE  CfInv'
    BY <2>1, CallsOnWorker, BothAlike
  <2>2. ASSUME NEW w \in CfWorkers, NEW report \in {"nil", "none", "m"},
               Both(LegacyHeartbeat(legacy, w, report), V2heartbeat(v2, w, report))
        PROVE  CfInv'
    BY <2>2, CallsOnWorker, BothAlike
  <2>3. ASSUME NEW w \in CfWorkers, Both(LegacyIncrementWorkerLoad(legacy, w), V2incrementLoad(v2, w)) PROVE CfInv'
    BY <2>3, CallsOnWorker, BothAlike
  <2>4. ASSUME NEW w \in CfWorkers, Both(LegacyDecrementWorkerLoad(legacy, w), V2decrementLoad(v2, w)) PROVE CfInv'
    BY <2>4, CallsOnWorker, BothAlike
  <2>5. ASSUME Both(LegacyActiveWorkers(legacy), V2active(v2)) PROVE CfInv'
    BY <2>5, CallActive, BothAlike
  <2> QED  BY <1>3, <2>1, <2>2, <2>3, <2>4, <2>5 DEF CallWorkers
<1>4. CASE CallDocs
  <2>1. ASSUME NEW id \in CfIds, NEW k \in CfKeys \cup {""},
               Both(LegacyCreateWorkflow(legacy, id, k), createWorkflow(v2, id, k))
        PROVE  CfInv'
    BY <2>1, CallsOnDoc, BothAlike
  <2>2. ASSUME NEW id \in CfIds, NEW ok \in BOOLEAN, Both(LegacyUpdateWorkflow(legacy, id, ok), updateWorkflow(v2, id, ok))
        PROVE  CfInv'
    BY <2>2, CallsOnDoc, BothAlike
  <2> QED  BY <1>4, <2>1, <2>2 DEF CallDocs
<1>5. CASE Later \/ UNCHANGED cfVars
  <2>1. legacy' = legacy /\ v2' = v2 /\ answers' = answers /\ now' \in Nat
    BY <1>5 DEF Later, cfVars, CfInv
  <2>2. Alike(legacy, v2)'
    BY <2>1 DEF CfInv, Alike
  <2> QED  BY <2>1, <2>2 DEF CfInv
<1> QED  BY <1>1, <1>2, <1>3, <1>4, <1>5 DEF CfNext

\* The sharded store replaces the legacy one: after any sequence of calls of any length, with any
\* number of tasks, keys, workers and documents, both give the same answers and hold the same rows,
\* and the heap of V2 holds the running leases (memory.go, memory_v2.go).
THEOREM DropInReplacementHolds == CfSpec => []DropInReplacement
<1>1. CfInv => DropInReplacement
  <2> SUFFICES ASSUME CfInv PROVE DropInReplacement
    OBVIOUS
  <2>1. Alike(legacy, v2) /\ answers[1] = answers[2] /\ legacy.tasks = v2.tasks /\ v2.running \in SUBSET LeaseRows
    BY AlikeParts DEF CfInv
  <2>2. StoresAgree
    BY <2>1 DEF StoresAgree, Alike
  <2> DEFINE held == {<<d.t, d.upd, d.epoch>> : d \in v2.running}
             leases == {<<t, v2.tasks[t].upd, v2.tasks[t].epoch>> : t \in {x \in CfTasks : v2.tasks[x].st = "RUNNING"}}
  <2>3. ASSUME NEW d \in v2.running
        PROVE  /\ d.t \in CfTasks /\ v2.tasks[d.t].st = "RUNNING"
               /\ <<d.t, d.upd, d.epoch>> = <<d.t, v2.tasks[d.t].upd, v2.tasks[d.t].epoch>>
    <3>1. d.t \in CfTasks
      BY <2>1 DEF LeaseRows
    <3>2. v2.tasks[d.t].st = "RUNNING" /\ d = LeaseOf(v2.tasks, d.t)
      BY <2>1 DEF Alike
    <3>3. /\ LeaseOf(v2.tasks, d.t).upd = v2.tasks[d.t].upd
          /\ LeaseOf(v2.tasks, d.t).epoch = v2.tasks[d.t].epoch
      BY DEF LeaseOf
    <3>4. d.upd = v2.tasks[d.t].upd /\ d.epoch = v2.tasks[d.t].epoch
      BY <3>2, <3>3
    <3> QED  BY <3>1, <3>2, <3>4
  <2>4. ASSUME NEW t \in CfTasks, v2.tasks[t].st = "RUNNING"
        PROVE  \E d \in v2.running : <<t, v2.tasks[t].upd, v2.tasks[t].epoch>> = <<d.t, d.upd, d.epoch>>
    <3>1. LeaseOf(v2.tasks, t) \in v2.running
      BY <2>1, <2>4 DEF Alike
    <3>2. /\ LeaseOf(v2.tasks, t).t = t /\ LeaseOf(v2.tasks, t).upd = v2.tasks[t].upd
          /\ LeaseOf(v2.tasks, t).epoch = v2.tasks[t].epoch
      BY DEF LeaseOf
    <3> QED  BY <3>1, <3>2
  <2>5. held \subseteq leases
    <3> SUFFICES ASSUME NEW d \in v2.running PROVE <<d.t, d.upd, d.epoch>> \in leases
      OBVIOUS
    <3> QED  BY <2>3
  <2>6. leases \subseteq held
    <3> SUFFICES ASSUME NEW t \in CfTasks, v2.tasks[t].st = "RUNNING"
                 PROVE  <<t, v2.tasks[t].upd, v2.tasks[t].epoch>> \in held
      OBVIOUS
    <3> QED  BY <2>4
  <2>7. HeapHoldsRunning
    BY <2>5, <2>6 DEF HeapHoldsRunning
  <2> QED  BY <2>2, <2>7 DEF DropInReplacement
<1> QED  BY <1>1, CfInvInit, CfInvStep, PTL DEF CfSpec

-----------------------------------------------------------------------------
(* The event streams.  Every record delivered is below the cursor, and a   *)
(* poll of the log that brings records moves the cursor past the one of    *)
(* the last frame, so its frame differs from it and is sent.               *)

\* What a stream shows, and the frames it sends.
Texts == Shown \cup {""}
Frames == [records : Seq(Nat), next : Nat, value : Texts]

\* The records of a sequence come once and in order.
Ascending(rs) == \A i, j \in 1 .. Len(rs) : i < j => rs[i] < rs[j]

\* What the stream, the subscription and the screen are.
EvTypes ==
    /\ appended \in Nat /\ trimmed \in Nat /\ value \in Shown
    /\ sub \in [pc : {"closed", "first", "ticking"}, mode : {"log", "state"}, from : Nat, last : Frames]
    /\ screen \in [records : Seq(Nat), value : Texts, polled : Texts]

\* A log subscription has delivered records below its cursor only, and its last frame left the
\* cursor where it is.
CursorPast ==
    sub.pc # "closed" /\ sub.mode = "log" =>
        /\ \A i \in 1 .. Len(screen.records) : screen.records[i] < sub.from
        /\ sub.pc = "ticking" => sub.last.next = sub.from

\* A state subscription shows what its last frame and its last poll say.
StateShown ==
    sub.pc = "ticking" /\ sub.mode = "state" => screen.value = sub.last.value /\ screen.polled = sub.last.value

\* The inductive invariant.
EvInv == EvTypes /\ missed = {} /\ Ascending(screen.records) /\ CursorPast /\ StateShown

\* No records yet.
LEMMA EmptyRecords == <<>> \in Seq(Nat) /\ Len(<<>>) = 0
OBVIOUS

\* The subscription starts closed, with a blank screen.
LEMMA EvInvInit == EvInit => EvInv
<1> SUFFICES ASSUME EvInit PROVE EvInv
  OBVIOUS
<1>1. value \in Shown
  BY EvAssumption DEF EvInit
<1>2. NoFrame \in Frames
  BY EmptyRecords DEF NoFrame, Frames, Texts
<1>3. EvTypes
  BY <1>1, <1>2, EmptyRecords DEF EvInit, EvTypes, Closed, Blank, Texts
<1>4. screen.records = <<>> /\ sub.pc = "closed" /\ missed = {}
  BY DEF EvInit, Closed, Blank
<1> QED  BY <1>3, <1>4, EmptyRecords DEF EvInv, Ascending, CursorPast, StateShown

\* What a read of the log can return is a run of the records kept, from the cursor on.
LEMMA ReadsRun ==
    ASSUME EvTypes, NEW from \in Nat, NEW rs \in ReadLog(from)
    PROVE  \E first \in Nat, n \in Nat :
              /\ first = (IF trimmed + 1 > from THEN trimmed + 1 ELSE from)
              /\ rs = [i \in 1 .. n |-> first + i - 1] /\ first + n - 1 <= appended
<1> DEFINE first == IF trimmed + 1 > from THEN trimmed + 1 ELSE from
<1>1. first \in Nat
  BY DEF EvTypes
<1> HIDE DEF first
<1>2. PICK n \in {k \in 0 .. ReadLimit : first + k - 1 <= appended /\ (k = 0 => first > appended)} :
             rs = [i \in 1 .. n |-> first + i - 1]
  BY DEF ReadLog, first
<1>3. n \in Nat /\ first + n - 1 <= appended
  BY <1>2, EvAssumption
<1> QED  BY <1>1, <1>2, <1>3 DEF first

\* A run is an ascending sequence, every record of it at or after the cursor; the new cursor is
\* behind its last record; and it holds each record kept between the two cursors.
LEMMA RunFacts ==
    ASSUME EvTypes, NEW from \in Nat, NEW rs \in ReadLog(from)
    PROVE  /\ rs \in Seq(Nat) /\ NextSeq(from, rs) \in Nat /\ NextSeq(from, rs) >= from
           /\ rs = <<>> => NextSeq(from, rs) = from
           /\ rs # <<>> => NextSeq(from, rs) > from
           /\ Ascending(rs)
           /\ \A i \in 1 .. Len(rs) : from <= rs[i] /\ rs[i] < NextSeq(from, rs)
           /\ \A r \in (trimmed + 1) .. appended :
                 from <= r /\ r < NextSeq(from, rs) => \E i \in 1 .. Len(rs) : rs[i] = r
<1>1. PICK first \in Nat, n \in Nat :
          /\ first = (IF trimmed + 1 > from THEN trimmed + 1 ELSE from)
          /\ rs = [i \in 1 .. n |-> first + i - 1] /\ first + n - 1 <= appended
  BY ReadsRun
<1>2. first >= from /\ (first = from \/ first = trimmed + 1) /\ trimmed \in Nat
  BY <1>1 DEF EvTypes
<1>3. \A i \in 1 .. n : first + i - 1 \in Nat
  OBVIOUS
<1>4. rs \in Seq(Nat) /\ Len(rs) = n /\ \A i \in 1 .. n : rs[i] = first + i - 1
  BY <1>1, <1>3
<1>5. CASE n = 0
  <2>1. rs = <<>>
    BY <1>4, <1>5
  <2>2. NextSeq(from, rs) = from
    BY <2>1 DEF NextSeq
  <2> QED  BY <1>4, <1>5, <2>1, <2>2 DEF Ascending
<1>6. CASE n # 0
  <2>1. rs # <<>> /\ rs[n] = first + n - 1 /\ rs[n] >= from
    BY <1>2, <1>4, <1>6
  <2>2. NextSeq(from, rs) = first + n
    BY <1>4, <2>1 DEF NextSeq
  <2>3. \A r \in (trimmed + 1) .. appended : from <= r /\ r < first + n => \E i \in 1 .. n : rs[i] = r
    <3> SUFFICES ASSUME NEW r \in (trimmed + 1) .. appended, from <= r, r < first + n
                 PROVE  \E i \in 1 .. n : rs[i] = r
      OBVIOUS
    <3>1. r \in Nat /\ first <= r
      BY <1>2 DEF EvTypes
    <3>2. (r - first + 1) \in 1 .. n /\ first + (r - first + 1) - 1 = r
      BY <3>1
    <3> QED  BY <1>4, <3>2
  <2>4. Ascending(rs)
    BY <1>4 DEF Ascending
  <2>5. \A i \in 1 .. Len(rs) : from <= rs[i] /\ rs[i] < first + n
    BY <1>2, <1>4
  <2> QED  BY <1>2, <1>4, <1>6, <2>1, <2>2, <2>3, <2>4, <2>5
<1> QED  BY <1>5, <1>6

\* Records from a cursor on, behind records below it.
LEMMA AscendingJoined ==
    ASSUME NEW old \in Seq(Nat), NEW new \in Seq(Nat), NEW from \in Nat, NEW next \in Nat, next >= from,
           Ascending(old), Ascending(new), \A i \in 1 .. Len(old) : old[i] < from,
           \A i \in 1 .. Len(new) : from <= new[i] /\ new[i] < next
    PROVE  Ascending(old \o new) /\ \A i \in 1 .. Len(old \o new) : (old \o new)[i] < next
<1>1. Len(old \o new) = Len(old) + Len(new) /\ Len(old) \in Nat /\ Len(new) \in Nat
  OBVIOUS
<1>2. \A i \in 1 .. Len(old) : (old \o new)[i] = old[i] /\ old[i] \in Nat
  OBVIOUS
<1>3. \A i \in 1 .. Len(old) + Len(new) :
          i > Len(old) => /\ (old \o new)[i] = new[i - Len(old)] /\ i - Len(old) \in 1 .. Len(new)
                          /\ new[i - Len(old)] \in Nat
  OBVIOUS
<1>4. \A i \in 1 .. Len(old) + Len(new) : (old \o new)[i] < next
  <2> SUFFICES ASSUME NEW i \in 1 .. Len(old) + Len(new) PROVE (old \o new)[i] < next
    OBVIOUS
  <2>1. CASE i > Len(old)
    BY <1>3, <2>1
  <2>2. CASE i <= Len(old)
    BY <1>1, <1>2, <2>2
  <2> QED  BY <1>1, <2>1, <2>2
<1>5. ASSUME NEW i \in 1 .. Len(old) + Len(new), NEW j \in 1 .. Len(old) + Len(new), i < j
      PROVE  (old \o new)[i] < (old \o new)[j]
  <2>1. CASE j <= Len(old)
    BY <1>1, <1>2, <1>5, <2>1 DEF Ascending
  <2>2. CASE i > Len(old)
    <3>1. j > Len(old) /\ i - Len(old) < j - Len(old)
      BY <1>1, <1>5, <2>2
    <3> QED  BY <1>3, <2>2, <3>1 DEF Ascending
  <2>3. CASE i <= Len(old) /\ j > Len(old)
    <3>1. (old \o new)[i] < from /\ (old \o new)[i] \in Nat
      BY <1>1, <1>2, <2>3
    <3>2. from <= (old \o new)[j] /\ (old \o new)[j] \in Nat
      BY <1>3, <2>3
    <3> DEFINE a == (old \o new)[i]
               b == (old \o new)[j]
    <3>3. a < from /\ a \in Nat /\ from <= b /\ b \in Nat
      BY <3>1, <3>2
    <3> HIDE DEF a, b
    <3>4. a < b
      BY <3>3
    <3> QED  BY <3>4 DEF a, b
  <2>4. j <= Len(old) \/ i > Len(old) \/ (i <= Len(old) /\ j > Len(old))
    BY <1>1
  <2> QED  BY <2>1, <2>2, <2>3, <2>4
<1> QED  BY <1>1, <1>4, <1>5 DEF Ascending

\* A poll of the log.
LEMMA PollsLog ==
    ASSUME EvInv, Poll, sub.mode = "log"
    PROVE  EvInv'
<1>1. PICK frame \in Payloads :
         LET sent == sub.pc = "first" \/ frame # sub.last
             from == IF sub.mode = "log" THEN frame.next ELSE sub.from
         IN  /\ screen' = IF sent THEN [records |-> screen.records \o frame.records, value |-> frame.value,
                                             polled |-> frame.value]
                          ELSE [screen EXCEPT !.polled = frame.value]
             /\ sub' = [sub EXCEPT !.pc = "ticking", !.from = from,
                                   !.last = IF sent THEN Remember(frame) ELSE sub.last]
             /\ missed' = missed \cup
                   {n \in (trimmed + 1)..appended :
                       /\ sub.from <= n /\ n < from
                       /\ ~(sent /\ \E i \in 1..Len(frame.records) : frame.records[i] = n)}
  BY DEF Poll
<1>2. PICK rs \in ReadLog(sub.from) : frame = [records |-> rs, next |-> NextSeq(sub.from, rs), value |-> ""]
  BY DEF Payloads
<1>3. /\ EvTypes /\ missed = {} /\ Ascending(screen.records) /\ sub.from \in Nat /\ screen.records \in Seq(Nat)
      /\ sub.pc \in {"first", "ticking"} /\ sub.last \in Frames
      /\ \A i \in 1 .. Len(screen.records) : screen.records[i] < sub.from
      /\ sub.pc = "ticking" => sub.last.next = sub.from
  BY DEF EvInv, EvTypes, CursorPast, Poll
<1> DEFINE next == NextSeq(sub.from, rs)
           sent == sub.pc = "first" \/ frame # sub.last
<1>4. /\ rs \in Seq(Nat) /\ next \in Nat /\ next >= sub.from /\ (rs = <<>> => next = sub.from)
      /\ rs # <<>> => next > sub.from
      /\ Ascending(rs) /\ \A i \in 1 .. Len(rs) : sub.from <= rs[i] /\ rs[i] < next
      /\ \A r \in (trimmed + 1) .. appended :
            sub.from <= r /\ r < next => \E i \in 1 .. Len(rs) : rs[i] = r
  BY <1>3, RunFacts
<1> HIDE DEF next
<1>5. frame.records = rs /\ frame.next = next /\ frame.value = "" /\ frame \in Frames
  BY <1>2, <1>4 DEF next, Frames, Texts
<1>6. rs # <<>> => sent
  <2> SUFFICES ASSUME rs # <<>>, sub.pc = "ticking" PROVE frame # sub.last
    BY <1>3
  <2>1. next > sub.from /\ sub.last.next = sub.from
    BY <1>3, <1>4
  <2>2. \A x, y \in Nat : x > y => x # y
    OBVIOUS
  <2>3. next # sub.from
    BY <1>3, <1>4, <2>1, <2>2
  <2>4. frame.next # sub.last.next
    BY <1>5, <2>1, <2>3
  <2> QED  BY <2>4
<1>7. /\ sub'.pc = "ticking" /\ sub'.mode = "log" /\ sub'.from = next
      /\ sub'.last = (IF sent THEN frame ELSE sub.last)
      /\ sub' \in [pc : {"closed", "first", "ticking"}, mode : {"log", "state"}, from : Nat, last : Frames]
  BY <1>1, <1>3, <1>4, <1>5 DEF EvTypes, Remember
<1>8. missed' = {}
  <2> SUFFICES ASSUME NEW n \in (trimmed + 1)..appended, sub.from <= n, n < next,
                      ~(sent /\ \E i \in 1 .. Len(rs) : rs[i] = n)
               PROVE  FALSE
    BY <1>1, <1>3, <1>5
  <2>1. \E i \in 1 .. Len(rs) : rs[i] = n
    BY <1>4
  <2>2. rs # <<>>
    BY <2>1
  <2> QED  BY <1>6, <2>1, <2>2
<1>9. /\ screen' \in [records : Seq(Nat), value : Texts, polled : Texts]
      /\ screen'.records = screen.records \o rs
  <2>1. CASE sent
    <3>1. screen' = [records |-> screen.records \o rs, value |-> "", polled |-> ""]
      BY <1>1, <1>5, <2>1
    <3>2. screen.records \o rs \in Seq(Nat)
      BY <1>3, <1>4
    <3> QED  BY <3>1, <3>2 DEF Texts
  <2>2. CASE ~sent
    <3>1. screen' = [screen EXCEPT !.polled = ""] /\ rs = <<>>
      BY <1>1, <1>5, <1>6, <2>2
    <3>2. screen.records \o <<>> = screen.records
      BY <1>3
    <3> QED  BY <3>1, <3>2, <1>3 DEF EvTypes, Texts
  <2> QED  BY <2>1, <2>2
<1>10. EvTypes'
  BY <1>3, <1>7, <1>9 DEF EvTypes, Poll
<1>11. Ascending(screen'.records) /\ \A i \in 1 .. Len(screen'.records) : screen'.records[i] < next
  BY <1>3, <1>4, <1>9, AscendingJoined
<1>12. sub'.last.next = next
  <2>1. CASE sent
    BY <1>5, <1>7, <2>1
  <2>2. CASE ~sent
    BY <1>5, <1>7, <2>2
  <2> QED  BY <2>1, <2>2
<1>13. CursorPast'
  BY <1>7, <1>11, <1>12 DEF CursorPast
<1>14. StateShown'
  BY <1>7 DEF StateShown
<1>15. Ascending(screen.records)'
  BY <1>11 DEF Ascending
<1> QED  BY <1>8, <1>10, <1>13, <1>14, <1>15 DEF EvInv

\* A poll of the state.
LEMMA PollsState ==
    ASSUME EvInv, Poll, sub.mode = "state"
    PROVE  EvInv'
<1> DEFINE frame == [records |-> <<>>, next |-> 0, value |-> value]
           sent == sub.pc = "first" \/ frame # sub.last
<1>1. /\ screen' = IF sent THEN [records |-> screen.records \o frame.records, value |-> frame.value,
                                      polled |-> frame.value]
                   ELSE [screen EXCEPT !.polled = frame.value]
      /\ sub' = [sub EXCEPT !.pc = "ticking", !.from = sub.from, !.last = IF sent THEN frame ELSE sub.last]
      /\ missed' = missed \cup
            {n \in (trimmed + 1)..appended :
                /\ sub.from <= n /\ n < sub.from
                /\ ~(sent /\ \E i \in 1..Len(frame.records) : frame.records[i] = n)}
  BY DEF Poll, Payloads, Remember
<1>2. /\ EvTypes /\ missed = {} /\ Ascending(screen.records) /\ sub.from \in Nat /\ screen.records \in Seq(Nat)
      /\ sub.pc \in {"first", "ticking"} /\ sub.last \in Frames /\ trimmed \in Nat /\ appended \in Nat
      /\ value \in Texts
      /\ sub.pc = "ticking" => screen.value = sub.last.value
  BY DEF EvInv, EvTypes, StateShown, Poll, Texts
<1>3. frame \in Frames /\ frame.value = value /\ frame.records = <<>>
  BY <1>2, EmptyRecords DEF Frames
<1> HIDE DEF frame
<1>4. missed' = {}
  BY <1>1, <1>2
<1>5. /\ sub'.pc = "ticking" /\ sub'.mode = "state" /\ sub'.last = (IF sent THEN frame ELSE sub.last)
      /\ sub' \in [pc : {"closed", "first", "ticking"}, mode : {"log", "state"}, from : Nat, last : Frames]
  BY <1>1, <1>2, <1>3 DEF EvTypes
<1>6. screen.records \o <<>> = screen.records
  BY <1>2
<1>7. /\ screen' \in [records : Seq(Nat), value : Texts, polled : Texts]
      /\ screen'.records = screen.records
      /\ screen'.value = value /\ screen'.polled = value /\ sub'.last.value = value
  <2>1. CASE sent
    <3>1. screen' = [records |-> screen.records, value |-> value, polled |-> value]
      BY <1>1, <1>3, <1>6, <2>1
    <3> QED  BY <1>2, <1>3, <1>5, <2>1, <3>1
  <2>2. CASE ~sent
    <3>1. screen' = [screen EXCEPT !.polled = value]
      BY <1>1, <1>3, <2>2
    <3>2. sub.last = frame /\ sub.pc = "ticking"
      BY <1>2, <2>2
    <3> QED  BY <1>2, <1>3, <1>5, <2>2, <3>1, <3>2 DEF EvTypes
  <2> QED  BY <2>1, <2>2
<1>8. EvTypes'
  BY <1>2, <1>5, <1>7 DEF EvTypes, Poll
<1>9. Ascending(screen.records)'
  BY <1>2, <1>7 DEF Ascending
<1> QED  BY <1>4, <1>5, <1>7, <1>8, <1>9 DEF EvInv, CursorPast, StateShown

\* One lemma for every action: a subscription opens and closes, polls, or what it follows changes.
LEMMA EvInvStep == EvInv /\ [EvNext]_evVars => EvInv'
<1> SUFFICES ASSUME EvInv, [EvNext]_evVars PROVE EvInv'
  OBVIOUS
<1>1. ASSUME sub' = sub, screen' = screen, missed' = missed, appended' \in Nat, trimmed' \in Nat, value' \in Shown
      PROVE  EvInv'
  BY <1>1 DEF EvInv, EvTypes, Ascending, CursorPast, StateShown
<1>2. appended \in Nat /\ trimmed \in Nat /\ value \in Shown
  BY DEF EvInv, EvTypes
<1>3. CASE AppendRecord
  BY <1>1, <1>2, <1>3 DEF AppendRecord
<1>4. CASE TrimRecords
  <2>1. trimmed' \in Nat
    BY <1>2, <1>4 DEF TrimRecords
  <2> QED  BY <1>1, <1>2, <1>4, <2>1 DEF TrimRecords
<1>5. CASE ChangeState
  BY <1>1, <1>2, <1>5 DEF ChangeState
<1>6. CASE parseEventSubscription
  <2>1. PICK mode \in {"log", "state"}, from \in 1..2 :
             sub' = [pc |-> "first", mode |-> mode, from |-> from, last |-> NoFrame]
    BY <1>6 DEF parseEventSubscription
  <2>2. NoFrame \in Frames /\ from \in Nat
    BY EmptyRecords DEF NoFrame, Frames, Texts
  <2>3. /\ sub' \in [pc : {"closed", "first", "ticking"}, mode : {"log", "state"}, from : Nat, last : Frames]
        /\ sub'.pc = "first"
    BY <2>1, <2>2
  <2>4. screen' \in [records : Seq(Nat), value : Texts, polled : Texts] /\ screen'.records = <<>> /\ missed' = {}
    BY <1>6, EmptyRecords DEF parseEventSubscription, Blank, Texts
  <2>5. EvTypes'
    BY <1>2, <1>6, <2>3, <2>4 DEF EvTypes, parseEventSubscription
  <2> QED  BY <2>3, <2>4, <2>5, EmptyRecords DEF EvInv, Ascending, CursorPast, StateShown
<1>7. CASE Poll
  BY <1>7, PollsLog, PollsState DEF EvInv, EvTypes
<1>8. CASE EndStream
  <2>1. NoFrame \in Frames
    BY EmptyRecords DEF NoFrame, Frames, Texts
  <2>2. /\ sub' \in [pc : {"closed", "first", "ticking"}, mode : {"log", "state"}, from : Nat, last : Frames]
        /\ sub'.pc = "closed"
    BY <1>8, <2>1 DEF EndStream, Closed
  <2>3. EvTypes' /\ missed' = {} /\ Ascending(screen.records)'
    BY <1>8, <2>2 DEF EndStream, EvInv, EvTypes, Ascending
  <2> QED  BY <2>2, <2>3 DEF EvInv, CursorPast, StateShown
<1>9. CASE UNCHANGED evVars
  BY <1>1, <1>2, <1>9 DEF evVars
<1> QED  BY <1>3, <1>4, <1>5, <1>6, <1>7, <1>8, <1>9 DEF EvNext

\* A client of an event stream gets every record that the cursor passes, once and in order, and
\* shows the state that the last poll read, for any length of the stream and of a read, whatever
\* is appended and trimmed between polls and although a frame equal to the last one is not sent
\* (eventLogRecords, handleEvents).
THEOREM ClientCurrentHolds == EvSpec => []ClientCurrent
<1>1. EvInv => ClientCurrent
  BY DEF EvInv, ClientCurrent, RecordsOnce, ScreenCurrent, Ascending, StateShown
<1> QED  BY <1>1, EvInvInit, EvInvStep, PTL DEF EvSpec

-----------------------------------------------------------------------------
(* The materializer.  A delta is known by its version; merging keeps the   *)
(* greatest, so what is accepted last for a row stays among its versions   *)
(* until a transaction has written it.                                     *)

\* Deltas of a row, and the maps that hold at most one for each row.
RowDeltas == [key : MatKeys, rev : Nat, ver : Nat]
Deltas == RowDeltas \cup {None}
DeltaMaps == {m \in [MatKeys -> Deltas] : \A k \in MatKeys : m[k] = None \/ m[k].key = k}

\* The fields of a delta and of the absent one.
LEMMA DeltaParts ==
    /\ None.ver = 0 /\ None.rev = 0
    /\ \A d \in Deltas : d.ver \in Nat /\ d.rev \in Nat
    /\ \A m \in DeltaMaps, k \in MatKeys : m[k] \in Deltas /\ m[k].ver \in Nat /\ m[k].rev \in Nat
    /\ \A m \in DeltaMaps, k \in MatKeys : m[k] # None => m[k] \in RowDeltas /\ m[k].key = k
<1>1. None.ver = 0 /\ None.rev = 0
  BY DEF None
<1>2. \A d \in Deltas : d.ver \in Nat /\ d.rev \in Nat
  BY <1>1 DEF Deltas, RowDeltas
<1>3. \A m \in DeltaMaps, k \in MatKeys : m[k] \in Deltas
  BY DEF DeltaMaps
<1> QED  BY <1>1, <1>2, <1>3 DEF DeltaMaps, Deltas

\* Merging a delta leaves a map whose versions are not lower, that of the delta's row not below it.
LEMMA MergeFacts ==
    ASSUME NEW m \in DeltaMaps, NEW d \in RowDeltas
    PROVE  /\ mergeDelta(m, d) \in DeltaMaps
           /\ \A k \in MatKeys : mergeDelta(m, d)[k].ver >= m[k].ver
           /\ mergeDelta(m, d)[d.key].ver >= d.ver
           /\ \A k \in MatKeys : mergeDelta(m, d)[k] = m[k] \/ (k = d.key /\ mergeDelta(m, d)[k] = d)
<1>0. d.key \in MatKeys /\ d \in Deltas /\ d.ver \in Nat
  BY DEF RowDeltas, Deltas
<1>1. \A k \in MatKeys : m[k] \in Deltas /\ m[k].ver \in Nat
  BY DeltaParts
<1>2. CASE m[d.key].ver > d.ver
  <2>1. mergeDelta(m, d) = m
    BY <1>2 DEF mergeDelta
  <2> QED  BY <1>0, <1>1, <1>2, <2>1
<1>3. CASE ~(m[d.key].ver > d.ver)
  <2>1. mergeDelta(m, d) = [m EXCEPT ![d.key] = d]
    BY <1>3 DEF mergeDelta
  <2>2. m \in [MatKeys -> Deltas]
    BY DEF DeltaMaps
  <2>3. /\ mergeDelta(m, d) \in [MatKeys -> Deltas] /\ mergeDelta(m, d)[d.key] = d
        /\ \A k \in MatKeys : k # d.key => mergeDelta(m, d)[k] = m[k]
    BY <1>0, <2>1, <2>2
  <2>4. mergeDelta(m, d) \in DeltaMaps
    BY <2>3 DEF DeltaMaps
  <2>5. \A k \in MatKeys : mergeDelta(m, d)[k].ver >= m[k].ver
    BY <1>0, <1>1, <1>3, <2>3
  <2> QED  BY <1>0, <2>3, <2>4, <2>5
<1> QED  BY <1>2, <1>3

\* Draining a queue merges its deltas one after the other.
LEMMA DrainSteps ==
    ASSUME NEW m \in DeltaMaps, NEW q \in Seq(RowDeltas)
    PROVE  \E h : /\ h[0] = m /\ \A i \in 1 .. Len(q) : h[i] = mergeDelta(h[i - 1], q[i])
                  /\ FoldLeft(mergeDelta, m, q) = h[Len(q)]
<1> DEFINE n == Len(q)
           D == 1 .. n
           Run(g) == g = [s \in SUBSET D |-> IF s = {} THEN m ELSE mergeDelta(g[s \ {Max(s)}], q[Max(s)])]
           step == [p \in D \X DeltaMaps |-> mergeDelta(p[2], q[p[1]])]
<1>1. n \in Nat /\ DOMAIN q = D /\ \A i \in D : q[i] \in RowDeltas
  OBVIOUS
<1>2. FoldLeft(mergeDelta, m, q) = (CHOOSE g : Run(g))[D]
  BY <1>1 DEF FoldLeft, MapThenFoldSet
<1>3. step \in [D \X DeltaMaps -> DeltaMaps]
  <2> SUFFICES ASSUME NEW p \in D \X DeltaMaps PROVE mergeDelta(p[2], q[p[1]]) \in DeltaMaps
    OBVIOUS
  <2> QED  BY <1>1, MergeFacts
<1>4. \E f \in [SUBSET D -> DeltaMaps] : FoldsLeft(f, n, m, step)
  <2> HIDE DEF step, n
  <2> QED  BY <1>1, <1>3, FoldLeftExists
<1>5. PICK f \in [SUBSET D -> DeltaMaps] : \A s \in SUBSET D :
          f[s] = IF s = {} THEN m ELSE step[<<Max(s), f[s \ {Max(s)}]>>]
  BY <1>4 DEF FoldsLeft
<1>6. \A s \in SUBSET D : f[s] = IF s = {} THEN m ELSE mergeDelta(f[s \ {Max(s)}], q[Max(s)])
  <2> SUFFICES ASSUME NEW s \in SUBSET D, s # {} PROVE f[s] = mergeDelta(f[s \ {Max(s)}], q[Max(s)])
    BY <1>5
  <2>1. Max(s) \in D /\ s \ {Max(s)} \in SUBSET D
    BY <1>1, MaxOfFinite
  <2>2. <<Max(s), f[s \ {Max(s)}]>> \in D \X DeltaMaps
    BY <2>1
  <2>3. step[<<Max(s), f[s \ {Max(s)}]>>] = mergeDelta(f[s \ {Max(s)}], q[Max(s)])
    BY <2>2
  <2> QED  BY <1>5, <2>3
<1>7. Run(f)
  BY <1>6
<1> HIDE DEF step
<1>8. PICK g : g = (CHOOSE x : Run(x)) /\ Run(g)
  <2> HIDE DEF Run
  <2> QED  BY <1>7
<1>9. g[{}] = m /\ \A i \in D : g[1 .. i] = mergeDelta(g[1 .. i - 1], q[i])
  <2>1. {} \in SUBSET D
    OBVIOUS
  <2>2. ASSUME NEW i \in D PROVE g[1 .. i] = mergeDelta(g[1 .. i - 1], q[i])
    <3>1. 1 .. i \in SUBSET D /\ 1 .. i # {} /\ Max(1 .. i) = i /\ (1 .. i) \ {i} = 1 .. i - 1
      BY <1>1, MaxOfRange
    <3> QED  BY <1>8, <3>1
  <2> QED  BY <1>8, <2>1, <2>2
<1> DEFINE h == [i \in 0 .. n |-> g[1 .. i]]
<1>10. h[0] = m
  <2>1. 1 .. 0 = {} /\ 0 \in 0 .. n
    BY <1>1
  <2> QED  BY <1>9, <2>1
<1>11. ASSUME NEW i \in D PROVE h[i] = mergeDelta(h[i - 1], q[i])
  <2>1. i \in 0 .. n /\ i - 1 \in 0 .. n
    BY <1>1
  <2> QED  BY <1>9, <2>1
<1>12. FoldLeft(mergeDelta, m, q) = h[n]
  BY <1>1, <1>2, <1>8
<1> QED  BY <1>10, <1>11, <1>12

\* What a drained queue leaves: no version lower than one it met, none above what bounds all.
LEMMA DrainFacts ==
    ASSUME NEW m \in DeltaMaps, NEW q \in Seq(RowDeltas), NEW a \in [MatKeys -> Nat],
           \A k \in MatKeys : m[k].ver <= a[k], \A i \in 1 .. Len(q) : q[i].ver <= a[q[i].key]
    PROVE  LET r == FoldLeft(mergeDelta, m, q) IN
           /\ r \in DeltaMaps
           /\ \A k \in MatKeys : r[k].ver >= m[k].ver /\ r[k].ver <= a[k]
           /\ \A i \in 1 .. Len(q) : r[q[i].key].ver >= q[i].ver
<1>1. PICK h : /\ h[0] = m /\ \A i \in 1 .. Len(q) : h[i] = mergeDelta(h[i - 1], q[i])
               /\ FoldLeft(mergeDelta, m, q) = h[Len(q)]
  BY DrainSteps
<1> DEFINE n == Len(q)
           Good(i) == /\ h[i] \in DeltaMaps
                      /\ \A k \in MatKeys : h[i][k].ver >= m[k].ver /\ h[i][k].ver <= a[k]
                      /\ \A j \in 1 .. i : h[i][q[j].key].ver >= q[j].ver
           P == {i \in 0 .. n : Good(i)}
<1>2. n \in Nat /\ \A i \in 1 .. n : q[i] \in RowDeltas /\ q[i].key \in MatKeys /\ q[i].ver \in Nat
  <2>1. n \in Nat /\ \A i \in 1 .. n : q[i] \in RowDeltas
    OBVIOUS
  <2>2. \A d \in RowDeltas : d.key \in MatKeys /\ d.ver \in Nat
    BY DEF RowDeltas
  <2> QED  BY <2>1, <2>2
<1>3. 0 \in P
  BY <1>1, <1>2, DeltaParts
<1>4. ASSUME NEW i \in 0 .. n - 1, i \in P PROVE i + 1 \in P
  <2> DEFINE j == i + 1
             d == q[j]
  <2>1. j \in 1 .. n /\ j \in 0 .. n /\ j - 1 = i /\ i \in Nat
    BY <1>2
  <2>2. h[j] = mergeDelta(h[i], d) /\ d \in RowDeltas /\ d.key \in MatKeys /\ d.ver \in Nat /\ d.ver <= a[d.key]
    BY <1>1, <1>2, <2>1
  <2>3. Good(i)
    BY <1>4
  <2> HIDE DEF d
  <2>4. /\ h[j] \in DeltaMaps /\ \A k \in MatKeys : h[j][k].ver >= h[i][k].ver
        /\ h[j][d.key].ver >= d.ver
        /\ \A k \in MatKeys : h[j][k] = h[i][k] \/ (k = d.key /\ h[j][k] = d)
    <3> DEFINE x == h[i]
    <3>1. x \in DeltaMaps /\ h[j] = mergeDelta(x, d) /\ d \in RowDeltas
      BY <2>2, <2>3
    <3> HIDE DEF x, j
    <3> SUFFICES /\ h[j] \in DeltaMaps /\ \A k \in MatKeys : h[j][k].ver >= x[k].ver
                 /\ h[j][d.key].ver >= d.ver
                 /\ \A k \in MatKeys : h[j][k] = x[k] \/ (k = d.key /\ h[j][k] = d)
      BY DEF x
    <3>2. /\ mergeDelta(x, d) \in DeltaMaps
          /\ \A k \in MatKeys : mergeDelta(x, d)[k].ver >= x[k].ver
          /\ mergeDelta(x, d)[d.key].ver >= d.ver
          /\ \A k \in MatKeys : mergeDelta(x, d)[k] = x[k] \/ (k = d.key /\ mergeDelta(x, d)[k] = d)
      BY <3>1, MergeFacts
    <3> QED  BY <3>1, <3>2
  <2>5. \A k \in MatKeys : h[j][k].ver \in Nat /\ h[i][k].ver \in Nat /\ m[k].ver \in Nat
    BY <2>3, <2>4, DeltaParts
  <2>6. \A k \in MatKeys : h[j][k].ver >= m[k].ver /\ h[j][k].ver <= a[k]
    BY <2>2, <2>3, <2>4, <2>5
  <2>7. ASSUME NEW x \in 1 .. j PROVE h[j][q[x].key].ver >= q[x].ver
    <3>1. CASE x = j
      BY <2>4, <3>1 DEF d
    <3>2. CASE x # j
      <4>1. x \in 1 .. i /\ x \in 1 .. n
        BY <2>1, <3>2
      <4>2. h[i][q[x].key].ver >= q[x].ver /\ q[x].key \in MatKeys /\ q[x].ver \in Nat
        BY <1>2, <2>3, <4>1
      <4> QED  BY <2>4, <2>5, <4>2
    <3> QED  BY <3>1, <3>2
  <2> QED  BY <2>1, <2>4, <2>6, <2>7
<1>5. n \in P
  <2>1. \A i \in 0 .. n - 1 : i \in P => i + 1 \in P
    BY <1>4
  <2>2. n \in 0 .. n
    BY <1>2
  <2> HIDE DEF P, n
  <2>3. \A i \in 0 .. n : i \in P
    BY <1>2, <1>3, <2>1, StepsTo
  <2> QED  BY <2>2, <2>3
<1> QED  BY <1>1, <1>5

-----------------------------------------------------------------------------
\* What the overflow map adds.
LEMMA OverflowFacts ==
    ASSUME NEW m \in DeltaMaps, overflow \in DeltaMaps, NEW a \in [MatKeys -> Nat],
           \A k \in MatKeys : m[k].ver <= a[k] /\ overflow[k].ver <= a[k]
    PROVE  /\ drainOverflow(m) \in DeltaMaps
           /\ \A k \in MatKeys : /\ drainOverflow(m)[k].ver >= m[k].ver
                                 /\ drainOverflow(m)[k].ver >= overflow[k].ver
                                 /\ drainOverflow(m)[k].ver <= a[k]
<1> DEFINE r == drainOverflow(m)
<1>1. ASSUME NEW k \in MatKeys
      PROVE  /\ r[k] \in Deltas /\ (r[k] = None \/ r[k].key = k)
             /\ r[k].ver >= m[k].ver /\ r[k].ver >= overflow[k].ver /\ r[k].ver <= a[k]
  <2>0. /\ m[k] \in Deltas /\ m[k].ver \in Nat /\ overflow[k] \in Deltas /\ overflow[k].ver \in Nat
        /\ (m[k] = None \/ m[k].key = k) /\ m[k].ver <= a[k] /\ overflow[k].ver <= a[k] /\ a[k] \in Nat
    BY DeltaParts
  <2>1. CASE overflow[k] = None
    <3>1. r[k] = m[k]
      BY <2>1 DEF drainOverflow
    <3> QED  BY <2>0, <2>1, <3>1, DeltaParts
  <2>2. CASE overflow[k] # None
    <3> DEFINE d == overflow[k]
    <3>1. d \in RowDeltas /\ d.key = k
      BY <2>2, DeltaParts
    <3>2. r[k] = mergeDelta(m, d)[k]
      BY <2>2 DEF drainOverflow
    <3> HIDE DEF d
    <3>3. /\ mergeDelta(m, d) \in DeltaMaps
          /\ \A x \in MatKeys : mergeDelta(m, d)[x].ver >= m[x].ver
          /\ mergeDelta(m, d)[d.key].ver >= d.ver
          /\ \A x \in MatKeys : mergeDelta(m, d)[x] = m[x] \/ (x = d.key /\ mergeDelta(m, d)[x] = d)
      BY <3>1, MergeFacts
    <3>4. r[k] \in Deltas /\ (r[k] = None \/ r[k].key = k)
      BY <3>2, <3>3, DeltaParts
    <3> HIDE DEF r
    <3>5. r[k].ver >= m[k].ver /\ r[k].ver >= d.ver
      BY <3>1, <3>2, <3>3
    <3>6. r[k].ver <= a[k]
      BY <2>0, <3>1, <3>2, <3>3 DEF d
    <3> QED  BY <3>4, <3>5, <3>6 DEF d
  <2> QED  BY <2>1, <2>2
<1>2. r = [k \in MatKeys |-> r[k]]
  BY DEF drainOverflow
<1> HIDE DEF r
<1>3. r \in DeltaMaps
  BY <1>1, <1>2 DEF DeltaMaps
<1> QED  BY <1>1, <1>3 DEF r

\* Where a handler is, and what it carries.
HandlerSteps == {"rest", "read", "persist", "mirror", "confirm", "version", "enqueue"}
HandlerStates == [pc : HandlerSteps, d : Deltas, create : BOOLEAN, wrote : BOOLEAN, told : {"none", "ok", "error"}]

\* A handler under way writes a row of its own kind, at once in sync mode only.
WriterOK(x) ==
    /\ x \in HandlerStates
    /\ x.pc # "rest" => x.d \in RowDeltas
    /\ x.pc = "mirror" => x.d.key \notin WorkerRows
    /\ x.pc \in {"persist", "mirror"} => matMode = "sync"

\* The kinds of the variables.
MatTypes ==
    /\ mem \in [MatKeys -> Nat] /\ deltaSeq \in Nat
    /\ writer \in [MatWriters -> HandlerStates] /\ \A w \in MatWriters : WriterOK(writer[w])
    /\ matQueue \in Seq(RowDeltas) /\ overflow \in DeltaMaps /\ pendingMap \in DeltaMaps
    /\ db \in [MatKeys -> Deltas] /\ parts \in [MatKeys -> Nat]
    /\ accepted \in [MatKeys -> Nat] /\ written \in [MatKeys -> Nat]
    /\ flushReq \in [pc : {"rest", "asked", "waiting", "done", "failed"}, seen : [MatKeys -> Nat]]

\* No version on its way is above the highest accepted.
VersionsBounded ==
    /\ \A i \in 1 .. Len(matQueue) : matQueue[i].ver <= accepted[matQueue[i].key]
    /\ \A k \in MatKeys : overflow[k].ver <= accepted[k] /\ pendingMap[k].ver <= accepted[k]

\* The newest version accepted is on its way or written, also once the goroutine has stopped.
Kept ==
    \A k \in MatKeys :
        \/ written[k] >= accepted[k]
        \/ \E i \in 1 .. Len(matQueue) : matQueue[i].key = k /\ matQueue[i].ver = accepted[k]
        \/ overflow[k].ver = accepted[k] \/ pendingMap[k].ver = accepted[k]

\* While a Flush is served, what it saw accepted and has not been written is pending.
FlushCovered ==
    /\ matRun = "reply" =>
       /\ flushReq.pc = "waiting"
       /\ \A k \in MatKeys : written[k] >= flushReq.seen[k] \/ pendingMap[k].ver >= flushReq.seen[k]
    /\ FlushDurable

\* The inductive invariant.
MatInv == MatTypes /\ VersionsBounded /\ Kept /\ FlushCovered /\ RowWhole

\* An empty queue and an empty map are of their kinds.
LEMMA EmptyQueue == <<>> \in Seq(RowDeltas) /\ Len(<<>>) = 0
OBVIOUS

\* No row has a delta.
LEMMA EmptyMap == [k \in MatKeys |-> None] \in DeltaMaps /\ \A k \in MatKeys : [x \in MatKeys |-> None][k].ver = 0
BY DEF DeltaMaps, Deltas, None

\* The invariant holds at the start.
LEMMA MatInvInit == MatInit => MatInv
<1> SUFFICES ASSUME MatInit PROVE MatInv
  OBVIOUS
<1>1. WriterOK(RestW) /\ RestW \in HandlerStates
  BY DEF WriterOK, RestW, HandlerStates, HandlerSteps, Deltas
<1>2. MatTypes
  <2>1. writer \in [MatWriters -> HandlerStates] /\ \A w \in MatWriters : WriterOK(writer[w])
    BY <1>1 DEF MatInit
  <2>2. db \in [MatKeys -> Deltas]
    BY DEF MatInit, Deltas
  <2> QED  BY <2>1, <2>2, EmptyQueue, EmptyMap DEF MatInit, MatTypes
<1>3. VersionsBounded /\ Kept
  BY EmptyMap, EmptyQueue DEF MatInit, VersionsBounded, Kept
<1>4. FlushCovered
  BY DEF MatInit, FlushCovered, FlushDurable
<1>5. RowWhole
  BY DEF MatInit, RowWhole, None
<1> QED  BY <1>2, <1>3, <1>4, <1>5 DEF MatInv

\* The handlers' own steps: the channel, the maps, the run goroutine and PostgreSQL stay.
LEMMA HandlersOnly ==
    ASSUME MatInv, mem' \in [MatKeys -> Nat], deltaSeq' \in Nat, NEW w \in MatWriters, NEW x,
           WriterOK(x), writer' = [writer EXCEPT ![w] = x],
           UNCHANGED <<matMode, parts, matQueue, overflow, pendingMap, matRun, flushReq, db, accepted, written>>
    PROVE  MatInv'
<1>1. writer' \in [MatWriters -> HandlerStates] /\ \A v \in MatWriters : WriterOK(writer'[v])
  BY DEF MatInv, MatTypes, WriterOK
<1>2. (\A v \in MatWriters : WriterOK(writer[v]))'
  BY <1>1 DEF WriterOK
<1>3. MatTypes'
  BY <1>1, <1>2 DEF MatInv, MatTypes
<1>4. VersionsBounded' /\ Kept' /\ FlushCovered' /\ RowWhole'
  BY DEF MatInv, VersionsBounded, Kept, FlushCovered, FlushDurable, RowWhole
<1> QED  BY <1>3, <1>4 DEF MatInv

\* The same when the row is written to PostgreSQL in sync mode.
LEMMA HandlerWrites ==
    ASSUME MatInv, NEW w \in MatWriters, NEW x, WriterOK(x), writer' = [writer EXCEPT ![w] = x],
           db' \in [MatKeys -> Deltas], parts' \in [MatKeys -> Nat], RowWhole',
           UNCHANGED <<matMode, mem, deltaSeq, matQueue, overflow, pendingMap, matRun, flushReq, accepted, written>>
    PROVE  MatInv'
<1>1. writer' \in [MatWriters -> HandlerStates] /\ \A v \in MatWriters : WriterOK(writer'[v])
  BY DEF MatInv, MatTypes, WriterOK
<1>2. (\A v \in MatWriters : WriterOK(writer[v]))'
  BY <1>1 DEF WriterOK
<1>3. MatTypes'
  BY <1>1, <1>2 DEF MatInv, MatTypes
<1>4. VersionsBounded' /\ Kept' /\ FlushCovered'
  BY DEF MatInv, VersionsBounded, Kept, FlushCovered, FlushDurable
<1> QED  BY <1>3, <1>4 DEF MatInv

\* Handlers change rows and number their deltas.
LEMMA MutateInv ==
    ASSUME MatInv, NEW w \in MatWriters, MutateRow(w) \/ MutateWorker(w) \/ ReadWorker(w) \/ enqueueDelta(w)
    PROVE  MatInv'
<1>0. /\ mem \in [MatKeys -> Nat] /\ deltaSeq \in Nat /\ writer \in [MatWriters -> HandlerStates]
      /\ writer[w] \in HandlerStates /\ WriterOK(writer[w])
  BY DEF MatInv, MatTypes
<1>1. CASE MutateRow(w)
  <2>1. PICK k \in MatKeys \ WorkerRows :
            /\ mem' = [mem EXCEPT ![k] = @ + 1]
            /\ writer' = [writer EXCEPT ![w] = [RestW EXCEPT !.pc = IF matMode = "sync" THEN "persist" ELSE "version",
                                                             !.create = mem[k] = 0,
                                                             !.d = [key |-> k, rev |-> mem[k] + 1, ver |-> 0]]]
    BY <1>1 DEF MutateRow
  <2> DEFINE d == [key |-> k, rev |-> mem[k] + 1, ver |-> 0]
             x == [RestW EXCEPT !.pc = IF matMode = "sync" THEN "persist" ELSE "version",
                                !.create = mem[k] = 0, !.d = d]
  <2>2. mem' \in [MatKeys -> Nat] /\ mem[k] + 1 \in Nat
    BY <1>0, <2>1
  <2>3. d \in RowDeltas /\ d \in Deltas /\ d.key = k
    BY <2>2 DEF RowDeltas, Deltas
  <2>4. WriterOK(x)
    <3> HIDE DEF d
    <3>1. /\ x.pc = (IF matMode = "sync" THEN "persist" ELSE "version") /\ x.d = d /\ x.create \in BOOLEAN
          /\ x \in HandlerStates
      BY <2>3 DEF RestW, HandlerStates, HandlerSteps
    <3> QED  BY <2>3, <3>1 DEF WriterOK
  <2>5. writer' = [writer EXCEPT ![w] = x]
    BY <2>1
  <2>6. /\ deltaSeq' = deltaSeq
        /\ UNCHANGED <<matMode, parts, matQueue, overflow, pendingMap, matRun, flushReq, db, accepted, written>>
    BY <1>1 DEF MutateRow
  <2> HIDE DEF x, d
  <2> QED  BY <1>0, <2>2, <2>4, <2>5, <2>6, HandlersOnly
<1>2. CASE MutateWorker(w)
  <2>1. PICK k \in WorkerRows :
            /\ mem' = [mem EXCEPT ![k] = @ + 1]
            /\ writer' = [writer EXCEPT ![w] = [RestW EXCEPT !.pc = "read", !.create = TRUE,
                                                             !.d = [key |-> k, rev |-> 0, ver |-> 0]]]
    BY <1>2 DEF MutateWorker
  <2> DEFINE d == [key |-> k, rev |-> 0, ver |-> 0]
             x == [RestW EXCEPT !.pc = "read", !.create = TRUE, !.d = d]
  <2>2. k \in MatKeys /\ mem' \in [MatKeys -> Nat]
    BY <1>0, <2>1, MatAssumption
  <2>3. d \in RowDeltas /\ d \in Deltas /\ d.key = k
    BY <2>2 DEF RowDeltas, Deltas
  <2>4. WriterOK(x)
    <3> HIDE DEF d
    <3>1. x.pc = "read" /\ x.d = d /\ x \in HandlerStates
      BY <2>3 DEF RestW, HandlerStates, HandlerSteps
    <3> QED  BY <2>3, <3>1 DEF WriterOK
  <2>5. writer' = [writer EXCEPT ![w] = x]
    BY <2>1
  <2>6. /\ deltaSeq' = deltaSeq
        /\ UNCHANGED <<matMode, parts, matQueue, overflow, pendingMap, matRun, flushReq, db, accepted, written>>
    BY <1>2 DEF MutateWorker
  <2> HIDE DEF x, d
  <2> QED  BY <1>0, <2>2, <2>4, <2>5, <2>6, HandlersOnly
<1>3. CASE ReadWorker(w)
  <2> DEFINE d == [writer[w].d EXCEPT !.rev = mem[writer[w].d.key]]
             x == [writer[w] EXCEPT !.pc = IF matMode = "sync" THEN "persist" ELSE "version", !.d = d]
  <2>1. writer[w].d \in RowDeltas /\ writer[w].pc = "read"
    BY <1>0, <1>3 DEF ReadWorker, WriterOK
  <2>2. d \in RowDeltas /\ d \in Deltas /\ d.key = writer[w].d.key
    BY <1>0, <2>1 DEF RowDeltas, Deltas
  <2>3. writer' = [writer EXCEPT ![w] = x]
    <3>1. writer' = [writer EXCEPT ![w].pc = IF matMode = "sync" THEN "persist" ELSE "version", ![w].d = d]
      BY <1>3 DEF ReadWorker
    <3> HIDE DEF d
    <3> QED  BY <1>0, <3>1
  <2>4. WriterOK(x)
    <3> HIDE DEF d
    <3>1. x \in HandlerStates /\ x.d = d /\ x.pc \in HandlerSteps \ {"rest", "mirror"} /\ (x.pc = "persist" => matMode = "sync")
      BY <1>0, <2>2 DEF HandlerStates, HandlerSteps
    <3> QED  BY <2>2, <3>1 DEF WriterOK
  <2>6. /\ deltaSeq' = deltaSeq /\ mem' = mem
        /\ UNCHANGED <<matMode, parts, matQueue, overflow, pendingMap, matRun, flushReq, db, accepted, written>>
    BY <1>3 DEF ReadWorker
  <2> HIDE DEF x, d
  <2> QED  BY <1>0, <2>3, <2>4, <2>6, HandlersOnly
<1>4. CASE enqueueDelta(w)
  <2> DEFINE n == deltaSeq + 1
             d == [writer[w].d EXCEPT !.ver = n]
             x == [writer[w] EXCEPT !.pc = "enqueue", !.d = d]
  <2>1. writer[w].d \in RowDeltas /\ n \in Nat
    BY <1>0, <1>4 DEF enqueueDelta, WriterOK
  <2>2. d \in RowDeltas /\ d \in Deltas
    <3> HIDE DEF n
    <3> QED  BY <1>0, <2>1 DEF RowDeltas, Deltas
  <2>3. writer' = [writer EXCEPT ![w] = x] /\ deltaSeq' = n
    <3>1. writer' = [writer EXCEPT ![w].pc = "enqueue", ![w].d = d] /\ deltaSeq' = n
      BY <1>4 DEF enqueueDelta
    <3> HIDE DEF d, n
    <3> QED  BY <1>0, <3>1
  <2>4. WriterOK(x)
    <3> HIDE DEF d
    <3>1. x \in HandlerStates /\ x.d = d /\ x.pc \in HandlerSteps \ {"rest", "mirror"} /\ (x.pc = "persist" => matMode = "sync")
      BY <1>0, <2>2 DEF HandlerStates, HandlerSteps
    <3> QED  BY <2>2, <3>1 DEF WriterOK
  <2>6. /\ mem' = mem
        /\ UNCHANGED <<matMode, parts, matQueue, overflow, pendingMap, matRun, flushReq, db, accepted, written>>
    BY <1>4 DEF enqueueDelta
  <2> HIDE DEF x, d, n
  <2> QED  BY <1>0, <2>1, <2>3, <2>4, <2>6, HandlersOnly
<1> QED  BY <1>1, <1>2, <1>3, <1>4

\* A handler writes its row at once, in sync mode.
LEMMA PersistInv ==
    ASSUME MatInv, NEW w \in MatWriters,
           persistTask(w) \/ persistMirror(w) \/ persistWorker(w) \/ metadataPersisted(w)
    PROVE  MatInv'
<1>0. /\ mem \in [MatKeys -> Nat] /\ deltaSeq \in Nat /\ writer \in [MatWriters -> HandlerStates]
      /\ writer[w] \in HandlerStates /\ WriterOK(writer[w])
      /\ db \in [MatKeys -> Deltas] /\ parts \in [MatKeys -> Nat] /\ RowWhole
  BY DEF MatInv, MatTypes
<1> DEFINE d == writer[w].d
           k == d.key
<1>1. /\ \A ok \in BOOLEAN : Recorded(w, ok) => \E x : WriterOK(x) /\ writer' = [writer EXCEPT ![w] = x]
      /\ writer' = [writer EXCEPT ![w].pc = "mirror"] /\ k \notin WorkerRows /\ writer[w].pc = "persist"
         => \E x : WriterOK(x) /\ writer' = [writer EXCEPT ![w] = x]
      /\ metadataPersisted(w) => \E x : WriterOK(x) /\ writer' = [writer EXCEPT ![w] = x]
  <2>1. ASSUME NEW ok \in BOOLEAN, Recorded(w, ok)
        PROVE  \E x : WriterOK(x) /\ writer' = [writer EXCEPT ![w] = x]
    <3> DEFINE p == IF writer[w].create THEN "confirm" ELSE "rest"
               t == IF writer[w].create THEN "none" ELSE IF ok THEN "ok" ELSE "error"
               x == [writer[w] EXCEPT !.wrote = ok, !.pc = p, !.told = t]
    <3>0. Recorded(w, ok) => writer' = [writer EXCEPT ![w].wrote = ok, ![w].pc = p, ![w].told = t]
      BY DEF Recorded
    <3>1. p \in {"confirm", "rest"} /\ t \in {"none", "ok", "error"} /\ (p # "rest" => writer[w].create)
      OBVIOUS
    <3>2. p # "rest" \/ p = "rest"
      OBVIOUS
    <3> HIDE DEF p, t
    <3>3. writer' = [writer EXCEPT ![w] = x]
      BY <1>0, <2>1, <3>0
    <3>4. x \in HandlerStates /\ x.pc = p /\ x.d = d
      BY <1>0, <3>1 DEF HandlerStates, HandlerSteps
    <3>5. Recorded(w, ok) /\ (persistTask(w) \/ persistMirror(w) \/ persistWorker(w)) => d \in RowDeltas
      BY <1>0 DEF WriterOK, persistTask, persistMirror, persistWorker
    <3>6. persistTask(w) \/ persistMirror(w) \/ persistWorker(w) \/ metadataPersisted(w)
      OBVIOUS
    <3>7. metadataPersisted(w) => d \in RowDeltas
      BY <1>0 DEF WriterOK, metadataPersisted
    <3>8. WriterOK(x)
      <4> HIDE DEF x
      <4> QED  BY <2>1, <3>1, <3>4, <3>5, <3>6, <3>7 DEF WriterOK
    <3> QED  BY <3>3, <3>8
  <2>2. ASSUME writer' = [writer EXCEPT ![w].pc = "mirror"], k \notin WorkerRows, writer[w].pc = "persist"
        PROVE  \E x : WriterOK(x) /\ writer' = [writer EXCEPT ![w] = x]
    <3> DEFINE x == [writer[w] EXCEPT !.pc = "mirror"]
    <3>1. x \in HandlerStates /\ x.pc = "mirror" /\ x.d = d
      BY <1>0 DEF HandlerStates, HandlerSteps
    <3>2. WriterOK(x)
      BY <1>0, <2>2, <3>1 DEF WriterOK
    <3>3. writer' = [writer EXCEPT ![w] = x]
      BY <1>0, <2>2
    <3> QED  BY <3>2, <3>3
  <2>3. ASSUME metadataPersisted(w) PROVE \E x : WriterOK(x) /\ writer' = [writer EXCEPT ![w] = x]
    <3> DEFINE t == IF lastErr THEN "error" ELSE "ok"
               x == [writer[w] EXCEPT !.pc = "rest", !.told = t]
    <3>0. metadataPersisted(w) => writer' = [writer EXCEPT ![w].pc = "rest", ![w].told = t]
      BY DEF metadataPersisted
    <3>1. t \in {"none", "ok", "error"}
      OBVIOUS
    <3> HIDE DEF t
    <3>2. x \in HandlerStates /\ x.pc = "rest" /\ writer' = [writer EXCEPT ![w] = x]
      BY <1>0, <2>3, <3>0, <3>1 DEF HandlerStates, HandlerSteps
    <3>3. WriterOK(x)
      BY <3>2 DEF WriterOK
    <3> QED  BY <3>2, <3>3
  <2> QED  BY <2>1, <2>2, <2>3
<1>2. /\ UNCHANGED <<matMode, mem, deltaSeq, matQueue, overflow, pendingMap, matRun, flushReq, accepted, written>>
      /\ \E x : WriterOK(x) /\ writer' = [writer EXCEPT ![w] = x]
  BY <1>1 DEF persistTask, persistMirror, persistWorker, metadataPersisted
<1>3. /\ db' \in [MatKeys -> Deltas] /\ parts' \in [MatKeys -> Nat] /\ RowWhole'
  <2>1. CASE UNCHANGED <<db, parts>>
    BY <1>0, <1>2, <2>1 DEF RowWhole
  <2>2. CASE writer[w].pc \in {"persist", "mirror"}
    <3>1. d \in RowDeltas /\ d \in Deltas /\ d.rev \in Nat /\ k \in MatKeys /\ matMode = "sync"
          /\ (writer[w].pc = "mirror" => k \notin WorkerRows)
      BY <1>0, <2>2 DEF WriterOK, RowDeltas, Deltas
    <3>2. \/ UNCHANGED <<db, parts>>
          \/ db' = [db EXCEPT ![k] = d] /\ parts' = parts /\ k \notin WorkerRows
          \/ db' = db /\ parts' = [parts EXCEPT ![k] = d.rev] /\ k \notin WorkerRows
          \/ db' = [db EXCEPT ![k] = d] /\ parts' = [parts EXCEPT ![k] = d.rev]
      BY <3>1 DEF persistTask, persistMirror, persistWorker, metadataPersisted
    <3> HIDE DEF d
    <3>3. db' \in [MatKeys -> Deltas] /\ parts' \in [MatKeys -> Nat]
      BY <1>0, <3>1, <3>2
    <3>4. \A j \in MatKeys : j \in WorkerRows => parts'[j] = db'[j].rev
      BY <1>0, <3>1, <3>2 DEF RowWhole
    <3>5. matMode' = "sync"
      BY <1>2, <3>1
    <3> QED  BY <3>3, <3>4, <3>5 DEF RowWhole
  <2>3. CASE metadataPersisted(w)
    BY <2>1, <2>3 DEF metadataPersisted
  <2> QED  BY <2>2, <2>3 DEF persistTask, persistMirror, persistWorker
<1> QED  BY <1>2, <1>3, HandlerWrites

\* What the channel, the overflow map and the pending map hold now is bounded and keeps the newest.
LEMMA HeldInv ==
    ASSUME MatInv, matQueue' \in Seq(RowDeltas), overflow' \in DeltaMaps, pendingMap' \in DeltaMaps,
           accepted' \in [MatKeys -> Nat], (\A v \in MatWriters : WriterOK(writer[v]))',
           writer' \in [MatWriters -> HandlerStates],
           flushReq' \in [pc : {"rest", "asked", "waiting", "done", "failed"}, seen : [MatKeys -> Nat]],
           VersionsBounded', Kept', FlushCovered',
           UNCHANGED <<matMode, mem, deltaSeq, parts, db, written>>
    PROVE  MatInv'
<1>1. MatTypes'
  BY DEF MatInv, MatTypes
<1>2. RowWhole'
  BY DEF MatInv, RowWhole
<1> QED  BY <1>1, <1>2 DEF MatInv

\* Enqueue puts the delta into the channel or merges it into the overflow map.
LEMMA EnqueueInv ==
    ASSUME MatInv, NEW w \in MatWriters, Enqueue(w)
    PROVE  MatInv'
<1>0. /\ mem \in [MatKeys -> Nat] /\ deltaSeq \in Nat /\ writer \in [MatWriters -> HandlerStates]
      /\ WriterOK(writer[w]) /\ matQueue \in Seq(RowDeltas) /\ overflow \in DeltaMaps /\ pendingMap \in DeltaMaps
      /\ accepted \in [MatKeys -> Nat] /\ written \in [MatKeys -> Nat]
      /\ flushReq \in [pc : {"rest", "asked", "waiting", "done", "failed"}, seen : [MatKeys -> Nat]]
  BY DEF MatInv, MatTypes
<1>1. WriterOK(RestW) /\ RestW \in HandlerStates
  BY DEF WriterOK, RestW, HandlerStates, HandlerSteps, Deltas
<1>2. /\ writer' = [writer EXCEPT ![w] = RestW]
      /\ UNCHANGED <<matMode, mem, deltaSeq, parts, pendingMap, matRun, flushReq, matDone, db, written>>
  BY DEF Enqueue
<1>3. CASE matDone
  <2>1. UNCHANGED <<matQueue, overflow, accepted>>
    BY <1>3 DEF Enqueue
  <2> QED  BY <1>0, <1>1, <1>2, <2>1, HandlersOnly
<1>4. CASE ~matDone
  <2> DEFINE d == writer[w].d
             k == d.key
             a == Higher(accepted[k], d.ver)
  <2>1. d \in RowDeltas /\ k \in MatKeys /\ d.ver \in Nat /\ accepted[k] \in Nat
    BY <1>0 DEF WriterOK, Enqueue, RowDeltas
  <2>2. a \in Nat /\ a >= accepted[k] /\ a >= d.ver /\ (a = accepted[k] \/ a = d.ver)
    BY <2>1 DEF Higher
  <2>3. /\ accepted' = [accepted EXCEPT ![k] = a]
        /\ \/ matQueue' = Append(matQueue, d) /\ overflow' = overflow
           \/ overflow' = mergeDelta(overflow, d) /\ matQueue' = matQueue
    BY <1>4 DEF Enqueue
  <2> HIDE DEF a, d
  <2>4. accepted' \in [MatKeys -> Nat] /\ accepted'[k] = a /\ \A j \in MatKeys : j # k => accepted'[j] = accepted[j]
    BY <1>0, <2>1, <2>2, <2>3
  <2>5. \A j \in MatKeys : accepted'[j] >= accepted[j] /\ accepted[j] \in Nat /\ accepted'[j] \in Nat
    <3>1. \A j \in MatKeys : accepted[j] \in Nat /\ accepted'[j] \in Nat
      BY <1>0, <2>4
    <3>2. ASSUME NEW j \in MatKeys PROVE accepted'[j] >= accepted[j]
      <4>1. CASE j = k
        BY <2>2, <2>4, <4>1
      <4>2. CASE j # k
        <5>1. accepted'[j] = accepted[j] /\ accepted[j] \in Nat
          BY <2>4, <3>1, <4>2
        <5> QED  BY <5>1
      <4> QED  BY <4>1, <4>2
    <3> QED  BY <3>1, <3>2
  <2>6. writer' \in [MatWriters -> HandlerStates] /\ (\A v \in MatWriters : WriterOK(writer[v]))'
    <3>1. writer' \in [MatWriters -> HandlerStates] /\ \A v \in MatWriters : WriterOK(writer'[v])
      BY <1>0, <1>1, <1>2 DEF MatInv, MatTypes
    <3> QED  BY <1>2, <3>1 DEF WriterOK
  <2>7. FlushCovered'
    BY <1>2 DEF MatInv, FlushCovered, FlushDurable
  <2>8. \A j \in MatKeys : overflow[j].ver \in Nat /\ pendingMap[j].ver \in Nat
    BY <1>0, DeltaParts
  <2>9. \A i \in 1 .. Len(matQueue) : matQueue[i] \in RowDeltas /\ matQueue[i].key \in MatKeys /\ matQueue[i].ver \in Nat
    <3>1. \A i \in 1 .. Len(matQueue) : matQueue[i] \in RowDeltas
      BY <1>0
    <3> QED  BY <3>1 DEF RowDeltas
  <2>10. CASE matQueue' = Append(matQueue, d) /\ overflow' = overflow
    <3> DEFINE n == Len(matQueue) + 1
    <3>1. /\ Len(matQueue') = n /\ matQueue' \in Seq(RowDeltas) /\ matQueue'[n] = d /\ n \in Nat
          /\ \A i \in 1 .. Len(matQueue) : matQueue'[i] = matQueue[i]
          /\ 1 .. Len(matQueue') = 1 .. Len(matQueue) \cup {n}
      BY <1>0, <2>1, <2>10
    <3> HIDE DEF n
    <3>2. VersionsBounded'
      <4>1. ASSUME NEW i \in 1 .. Len(matQueue') PROVE matQueue'[i].ver <= accepted'[matQueue'[i].key]
        <5>1. CASE i = n
          BY <2>1, <2>2, <2>4, <3>1, <5>1
        <5>2. CASE i \in 1 .. Len(matQueue)
          BY <2>5, <2>9, <3>1, <5>2 DEF MatInv, VersionsBounded
        <5> QED  BY <3>1, <5>1, <5>2
      <4>2. \A j \in MatKeys : overflow'[j].ver <= accepted'[j] /\ pendingMap'[j].ver <= accepted'[j]
        BY <1>2, <2>5, <2>8, <2>10 DEF MatInv, VersionsBounded
      <4> QED  BY <4>1, <4>2 DEF VersionsBounded
    <3>3. Kept'
      <4> SUFFICES ASSUME NEW j \in MatKeys
                   PROVE  \/ written'[j] >= accepted'[j]
                          \/ \E i \in 1 .. Len(matQueue') : matQueue'[i].key = j /\ matQueue'[i].ver = accepted'[j]
                          \/ overflow'[j].ver = accepted'[j] \/ pendingMap'[j].ver = accepted'[j]
        BY DEF Kept
      <4>1. CASE j = k /\ a = d.ver
        <5>1. n \in 1 .. Len(matQueue') /\ matQueue'[n].key = j /\ matQueue'[n].ver = accepted'[j]
          BY <2>4, <3>1, <4>1
        <5> QED  BY <5>1
      <4>2. CASE accepted'[j] = accepted[j]
        BY <1>2, <2>10, <3>1, <4>2 DEF MatInv, Kept
      <4> QED  BY <2>2, <2>4, <4>1, <4>2
    <3> QED  BY <1>0, <1>2, <2>4, <2>6, <2>7, <2>10, <3>1, <3>2, <3>3, HeldInv
  <2>11. CASE overflow' = mergeDelta(overflow, d) /\ matQueue' = matQueue
    <3>1. /\ mergeDelta(overflow, d) \in DeltaMaps
          /\ \A j \in MatKeys : mergeDelta(overflow, d)[j].ver >= overflow[j].ver
          /\ mergeDelta(overflow, d)[d.key].ver >= d.ver
          /\ \A j \in MatKeys : mergeDelta(overflow, d)[j] = overflow[j] \/ (j = d.key /\ mergeDelta(overflow, d)[j] = d)
      BY <1>0, <2>1, MergeFacts
    <3>2. /\ overflow' \in DeltaMaps /\ \A j \in MatKeys : overflow'[j].ver >= overflow[j].ver
          /\ overflow'[k].ver >= d.ver
          /\ \A j \in MatKeys : overflow'[j] = overflow[j] \/ (j = k /\ overflow'[j] = d)
      BY <2>11, <3>1
    <3>3. \A j \in MatKeys : overflow'[j].ver <= accepted'[j]
      <4>1. \A j \in MatKeys : overflow[j].ver <= accepted[j]
        BY DEF MatInv, VersionsBounded
      <4> QED  BY <2>1, <2>2, <2>4, <2>5, <2>8, <3>2, <4>1
    <3>4. VersionsBounded'
      <4>1. \A i \in 1 .. Len(matQueue) : matQueue[i].ver <= accepted'[matQueue[i].key]
        BY <2>5, <2>9 DEF MatInv, VersionsBounded
      <4>2. \A j \in MatKeys : pendingMap[j].ver <= accepted'[j]
        BY <2>5, <2>8 DEF MatInv, VersionsBounded
      <4> QED  BY <1>2, <2>11, <3>3, <4>1, <4>2 DEF VersionsBounded
    <3>5. \A j \in MatKeys : overflow'[j].ver \in Nat
      BY <3>2, DeltaParts
    <3>6. Kept'
      <4> SUFFICES ASSUME NEW j \in MatKeys
                   PROVE  \/ written'[j] >= accepted'[j]
                          \/ \E i \in 1 .. Len(matQueue') : matQueue'[i].key = j /\ matQueue'[i].ver = accepted'[j]
                          \/ overflow'[j].ver = accepted'[j] \/ pendingMap'[j].ver = accepted'[j]
        BY DEF Kept
      <4>1. CASE j = k /\ a = d.ver
        BY <2>1, <2>4, <3>2, <3>3, <3>5, <4>1
      <4>2. CASE accepted'[j] = accepted[j]
        <5>1. CASE overflow[j].ver = accepted[j]
          BY <2>5, <2>8, <3>2, <3>3, <3>5, <4>2, <5>1
        <5>2. CASE overflow[j].ver # accepted[j]
          BY <1>2, <2>11, <4>2, <5>2 DEF MatInv, Kept
        <5> QED  BY <5>1, <5>2
      <4> QED  BY <2>2, <2>4, <4>1, <4>2
    <3> QED  BY <1>0, <1>2, <2>4, <2>6, <2>7, <2>11, <3>2, <3>4, <3>6, HeldInv
  <2> QED  BY <2>3, <2>10, <2>11
<1> QED  BY <1>3, <1>4

\* The goroutine takes over what the channel and the overflow map hold: all of it, or the map alone.
LEMMA TakenOver ==
    ASSUME MatInv, NEW m \in DeltaMaps, pendingMap' = drainOverflow(m), overflow' = [k \in MatKeys |-> None],
           \A k \in MatKeys : m[k].ver >= pendingMap[k].ver /\ m[k].ver <= accepted[k],
           \/ matQueue' = matQueue
           \/ matQueue' = <<>> /\ \A i \in 1 .. Len(matQueue) : m[matQueue[i].key].ver >= matQueue[i].ver,
           UNCHANGED <<matMode, mem, deltaSeq, writer, parts, db, accepted, written>>
    PROVE  /\ pendingMap' \in DeltaMaps /\ VersionsBounded' /\ Kept'
           /\ \A k \in MatKeys : pendingMap'[k].ver >= pendingMap[k].ver
           /\ matQueue' = <<>> => \A k \in MatKeys : written[k] >= accepted[k] \/ pendingMap'[k].ver = accepted[k]
<1>0. /\ matQueue \in Seq(RowDeltas) /\ overflow \in DeltaMaps /\ pendingMap \in DeltaMaps
      /\ accepted \in [MatKeys -> Nat] /\ VersionsBounded /\ Kept
  BY DEF MatInv, MatTypes
<1>1. /\ pendingMap' \in DeltaMaps
      /\ \A k \in MatKeys : /\ pendingMap'[k].ver >= m[k].ver /\ pendingMap'[k].ver >= overflow[k].ver
                            /\ pendingMap'[k].ver <= accepted[k]
  <2>1. \A k \in MatKeys : m[k].ver <= accepted[k] /\ overflow[k].ver <= accepted[k]
    BY <1>0 DEF VersionsBounded
  <2>2. /\ drainOverflow(m) \in DeltaMaps
        /\ \A k \in MatKeys : /\ drainOverflow(m)[k].ver >= m[k].ver
                              /\ drainOverflow(m)[k].ver >= overflow[k].ver
                              /\ drainOverflow(m)[k].ver <= accepted[k]
    BY <1>0, <2>1, OverflowFacts
  <2> QED  BY <2>2
<1>2. \A k \in MatKeys : /\ pendingMap'[k].ver \in Nat /\ pendingMap[k].ver \in Nat /\ m[k].ver \in Nat
                         /\ overflow[k].ver \in Nat /\ accepted[k] \in Nat
  BY <1>0, <1>1, DeltaParts
<1>3. \A k \in MatKeys : pendingMap'[k].ver >= pendingMap[k].ver
  BY <1>1, <1>2
<1>4. /\ \A k \in MatKeys : overflow'[k].ver = 0
      /\ matQueue' = <<>> => Len(matQueue') = 0
  BY EmptyMap
<1>5. VersionsBounded'
  <2>1. \A i \in 1 .. Len(matQueue') : matQueue'[i].ver <= accepted[matQueue'[i].key]
    <3>1. CASE matQueue' = matQueue
      BY <1>0, <3>1 DEF VersionsBounded
    <3>2. CASE matQueue' = <<>>
      BY <1>4, <3>2
    <3> QED  BY <3>1, <3>2
  <2>2. \A k \in MatKeys : overflow'[k].ver <= accepted[k] /\ pendingMap'[k].ver <= accepted[k]
    BY <1>1, <1>2, <1>4
  <2> QED  BY <2>1, <2>2 DEF VersionsBounded
<1>6. ASSUME NEW k \in MatKeys
      PROVE  \/ written[k] >= accepted[k]
             \/ matQueue' = matQueue /\ \E i \in 1 .. Len(matQueue) : matQueue[i].key = k /\ matQueue[i].ver = accepted[k]
             \/ pendingMap'[k].ver = accepted[k]
  <2>1. CASE written[k] >= accepted[k]
    BY <2>1
  <2>2. CASE overflow[k].ver = accepted[k] \/ pendingMap[k].ver = accepted[k]
    BY <1>1, <1>2, <1>3, <2>2
  <2>3. CASE \E i \in 1 .. Len(matQueue) : matQueue[i].key = k /\ matQueue[i].ver = accepted[k]
    <3>1. CASE matQueue' = matQueue
      BY <2>3, <3>1
    <3>2. CASE \A i \in 1 .. Len(matQueue) : m[matQueue[i].key].ver >= matQueue[i].ver
      <4>1. m[k].ver >= accepted[k]
        BY <2>3, <3>2
      <4> QED  BY <1>1, <1>2, <4>1
    <3> QED  BY <3>1, <3>2
  <2> QED  BY <1>0, <2>1, <2>2, <2>3 DEF Kept
<1>7. Kept'
  BY <1>6 DEF Kept
<1>8. matQueue' = <<>> => \A k \in MatKeys : written[k] >= accepted[k] \/ pendingMap'[k].ver = accepted[k]
  <2> SUFFICES ASSUME matQueue' = <<>>, NEW k \in MatKeys PROVE written[k] >= accepted[k] \/ pendingMap'[k].ver = accepted[k]
    OBVIOUS
  <2>1. 1 .. Len(matQueue') = {}
    BY <1>4
  <2> QED  BY <1>6, <2>1
<1> QED  BY <1>1, <1>3, <1>5, <1>7, <1>8

\* The same for a full drain.
LEMMA Absorbed ==
    ASSUME MatInv, Absorb, UNCHANGED <<matMode, mem, deltaSeq, writer, parts, db, accepted, written>>
    PROVE  /\ pendingMap' \in DeltaMaps /\ VersionsBounded' /\ Kept'
           /\ \A k \in MatKeys : pendingMap'[k].ver >= pendingMap[k].ver
           /\ \A k \in MatKeys : written[k] >= accepted[k] \/ pendingMap'[k].ver = accepted[k]
           /\ matQueue' = <<>> /\ overflow' = [k \in MatKeys |-> None]
<1> DEFINE m == drainQueue(pendingMap)
<1>0. /\ matQueue \in Seq(RowDeltas) /\ pendingMap \in DeltaMaps /\ accepted \in [MatKeys -> Nat] /\ VersionsBounded
  BY DEF MatInv, MatTypes
<1>1. /\ pendingMap' = drainOverflow(m) /\ matQueue' = <<>> /\ overflow' = [k \in MatKeys |-> None]
  BY DEF Absorb
<1>2. /\ m \in DeltaMaps
      /\ \A k \in MatKeys : m[k].ver >= pendingMap[k].ver /\ m[k].ver <= accepted[k]
      /\ \A i \in 1 .. Len(matQueue) : m[matQueue[i].key].ver >= matQueue[i].ver
  <2>1. /\ \A k \in MatKeys : pendingMap[k].ver <= accepted[k]
        /\ \A i \in 1 .. Len(matQueue) : matQueue[i].ver <= accepted[matQueue[i].key]
    BY <1>0 DEF VersionsBounded
  <2>2. LET r == FoldLeft(mergeDelta, pendingMap, matQueue) IN
        /\ r \in DeltaMaps
        /\ \A k \in MatKeys : r[k].ver >= pendingMap[k].ver /\ r[k].ver <= accepted[k]
        /\ \A i \in 1 .. Len(matQueue) : r[matQueue[i].key].ver >= matQueue[i].ver
    BY <1>0, <2>1, DrainFacts
  <2> QED  BY <2>2 DEF drainQueue
<1> HIDE DEF m
<1> QED  BY <1>1, <1>2, TakenOver

\* The goroutine's wake-ups.
LEMMA WakeInv ==
    ASSUME MatInv, Wake \/ Tick \/ ServeFlush \/ ServeClose
    PROVE  MatInv'
<1>0. /\ MatTypes /\ flushReq \in [pc : {"rest", "asked", "waiting", "done", "failed"}, seen : [MatKeys -> Nat]]
      /\ pendingMap \in DeltaMaps /\ accepted \in [MatKeys -> Nat] /\ written \in [MatKeys -> Nat]
  BY DEF MatInv, MatTypes
<1>1. UNCHANGED <<matMode, mem, deltaSeq, writer, parts, db, accepted, written>> /\ matRun = "select"
  BY DEF Wake, Tick, ServeFlush, ServeClose
<1>2. /\ pendingMap' \in DeltaMaps /\ VersionsBounded' /\ Kept' /\ overflow' = [k \in MatKeys |-> None]
      /\ matQueue' = <<>> \/ matQueue' = matQueue
      /\ ServeFlush => \A k \in MatKeys : written[k] >= accepted[k] \/ pendingMap'[k].ver = accepted[k]
  <2>1. CASE Absorb
    BY <1>1, <2>1, Absorbed
  <2>2. CASE ~Absorb
    <3> DEFINE m == pendingMap
    <3>1. pendingMap' = drainOverflow(m) /\ overflow' = [k \in MatKeys |-> None] /\ matQueue' = matQueue /\ ~ServeFlush
      BY <2>2 DEF Wake, Tick, ServeFlush, ServeClose, DrainAll
    <3>2. \A k \in MatKeys : m[k].ver >= pendingMap[k].ver /\ m[k].ver <= accepted[k] /\ m \in DeltaMaps
      BY <1>0, DeltaParts DEF MatInv, VersionsBounded
    <3> HIDE DEF m
    <3>3. m \in DeltaMaps
      BY <1>0 DEF m
    <3>4. pendingMap' \in DeltaMaps /\ VersionsBounded' /\ Kept'
      BY <1>1, <3>1, <3>2, <3>3, TakenOver
    <3> QED  BY <3>1, <3>4
  <2> QED  BY <2>1, <2>2
<1>3. writer' \in [MatWriters -> HandlerStates] /\ (\A v \in MatWriters : WriterOK(writer[v]))'
  BY <1>0, <1>1 DEF MatTypes, WriterOK
<1>4. /\ flushReq' \in [pc : {"rest", "asked", "waiting", "done", "failed"}, seen : [MatKeys -> Nat]]
      /\ FlushCovered'
  <2>1. CASE ServeFlush
    <3>1. flushReq' = [pc |-> "waiting", seen |-> accepted] /\ matRun' = "reply"
      BY <2>1 DEF ServeFlush, DrainAll
    <3>2. \A k \in MatKeys : written'[k] >= flushReq'.seen[k] \/ pendingMap'[k].ver >= flushReq'.seen[k]
      BY <1>0, <1>1, <1>2, <2>1, <3>1
    <3>3. flushReq'.pc # "done"
      BY <3>1
    <3> QED  BY <1>0, <3>1, <3>2, <3>3 DEF FlushCovered, FlushDurable
  <2>2. CASE ~ServeFlush
    <3>1. flushReq' = flushReq /\ matRun' # "reply"
      BY <2>2 DEF Wake, Tick, ServeClose, DrainAll
    <3> QED  BY <1>0, <1>1, <3>1 DEF MatInv, FlushCovered, FlushDurable
  <2> QED  BY <2>1, <2>2
<1>5. matQueue' \in Seq(RowDeltas) /\ overflow' \in DeltaMaps /\ accepted' \in [MatKeys -> Nat]
  BY <1>0, <1>1, <1>2, EmptyQueue, EmptyMap DEF MatTypes
<1> QED  BY <1>1, <1>2, <1>3, <1>4, <1>5, HeldInv

\* A transaction writes a batch.
LEMMA FlushBatchInv ==
    ASSUME MatInv, FlushBatch
    PROVE  MatInv'
<1>0. /\ MatTypes /\ flushReq \in [pc : {"rest", "asked", "waiting", "done", "failed"}, seen : [MatKeys -> Nat]]
      /\ pendingMap \in DeltaMaps /\ accepted \in [MatKeys -> Nat] /\ written \in [MatKeys -> Nat]
      /\ db \in [MatKeys -> Deltas] /\ parts \in [MatKeys -> Nat] /\ overflow \in DeltaMaps
  BY DEF MatInv, MatTypes
<1>1. /\ UNCHANGED <<matMode, mem, deltaSeq, writer, matQueue, overflow, accepted>>
      /\ db' = [k \in MatKeys |-> IF k \in Batch THEN pendingMap[k] ELSE db[k]]
      /\ parts' = [k \in MatKeys |-> IF k \in Batch THEN pendingMap[k].rev ELSE parts[k]]
      /\ written' = [k \in MatKeys |-> IF k \in Batch THEN Higher(written[k], pendingMap[k].ver) ELSE written[k]]
      /\ pendingMap' = [k \in MatKeys |-> IF k \in Batch THEN None ELSE pendingMap[k]]
  BY DEF FlushBatch
<1>2. flushReq' = flushReq /\ (matRun' = "reply" => matRun = "reply")
  BY DEF FlushBatch, Ended
<1>3. \A k \in MatKeys : /\ pendingMap[k] \in Deltas /\ pendingMap[k].ver \in Nat /\ pendingMap[k].rev \in Nat
                         /\ (pendingMap[k] = None \/ pendingMap[k].key = k)
                         /\ written[k] \in Nat /\ accepted[k] \in Nat
  BY <1>0, DeltaParts
<1>4. \A k \in MatKeys : /\ written'[k] \in Nat /\ written'[k] >= written[k]
                         /\ k \in Batch => written'[k] >= pendingMap[k].ver
                         /\ k \notin Batch => pendingMap'[k] = pendingMap[k]
                         /\ k \in Batch => pendingMap'[k] = None
  BY <1>1, <1>3 DEF Higher
<1>5. /\ db' \in [MatKeys -> Deltas] /\ parts' \in [MatKeys -> Nat] /\ written' \in [MatKeys -> Nat]
  <2>1. db' \in [MatKeys -> Deltas] /\ parts' \in [MatKeys -> Nat]
    BY <1>0, <1>1, <1>3
  <2>2. written' = [k \in MatKeys |-> written'[k]]
    BY <1>1
  <2> QED  BY <1>4, <2>1, <2>2
<1>6. pendingMap' \in DeltaMaps
  <2>1. None \in Deltas
    BY DEF Deltas
  <2> QED  BY <1>1, <1>3, <2>1 DEF DeltaMaps
<1>7. MatTypes'
  <2>1. (\A v \in MatWriters : WriterOK(writer[v]))'
    BY <1>0, <1>1 DEF MatTypes, WriterOK
  <2> QED  BY <1>0, <1>1, <1>2, <1>5, <1>6, <2>1 DEF MatTypes
<1>8. VersionsBounded'
  <2>1. \A k \in MatKeys : pendingMap'[k].ver <= accepted[k]
    BY <1>3, <1>4, DeltaParts DEF MatInv, VersionsBounded
  <2> QED  BY <1>1, <2>1 DEF MatInv, VersionsBounded
<1>9. Kept'
  <2> SUFFICES ASSUME NEW k \in MatKeys
               PROVE  \/ written'[k] >= accepted'[k]
                      \/ \E i \in 1 .. Len(matQueue') : matQueue'[i].key = k /\ matQueue'[i].ver = accepted'[k]
                      \/ overflow'[k].ver = accepted'[k] \/ pendingMap'[k].ver = accepted'[k]
    BY DEF Kept
  <2>1. CASE written[k] >= accepted[k]
    BY <1>1, <1>3, <1>4, <2>1
  <2>2. CASE pendingMap[k].ver = accepted[k]
    BY <1>1, <1>3, <1>4, <2>2
  <2> QED  BY <1>1, <2>1, <2>2 DEF MatInv, Kept
<1>10. FlushCovered'
  <2> DEFINE s == flushReq.seen
  <2>1. s \in [MatKeys -> Nat]
    BY <1>0
  <2>2. ASSUME NEW k \in MatKeys, written[k] >= s[k] \/ pendingMap[k].ver >= s[k]
        PROVE  written'[k] >= s[k] \/ pendingMap'[k].ver >= s[k]
    <3>1. s[k] \in Nat
      BY <2>1
    <3> QED  BY <1>3, <1>4, <2>2, <3>1
  <2>3. \A k \in MatKeys : written[k] >= s[k] => written'[k] >= s[k]
    <3>1. \A k \in MatKeys : s[k] \in Nat
      BY <2>1
    <3> QED  BY <1>3, <1>4, <3>1
  <2> QED  BY <1>2, <2>2, <2>3 DEF MatInv, FlushCovered, FlushDurable
<1>11. RowWhole'
  BY <1>1 DEF MatInv, RowWhole
<1> QED  BY <1>7, <1>8, <1>9, <1>10, <1>11 DEF MatInv

\* A flush ends, and callers ask for one or close the store.
LEMMA FlushEndInv ==
    ASSUME MatInv, FlushFails \/ FlushedAll \/ CallFlush \/ CallClose \/ UNCHANGED matVars
    PROVE  MatInv'
<1>0. /\ MatTypes /\ flushReq \in [pc : {"rest", "asked", "waiting", "done", "failed"}, seen : [MatKeys -> Nat]]
      /\ pendingMap \in DeltaMaps /\ accepted \in [MatKeys -> Nat] /\ written \in [MatKeys -> Nat] /\ FlushCovered
  BY DEF MatInv, MatTypes
<1>1. UNCHANGED <<matMode, mem, deltaSeq, writer, parts, matQueue, overflow, pendingMap, db, accepted, written>>
  BY DEF FlushFails, FlushedAll, CallFlush, CallClose, matVars
<1>2. VersionsBounded' /\ Kept'
  BY <1>1 DEF MatInv, VersionsBounded, Kept
<1>3. writer' \in [MatWriters -> HandlerStates] /\ (\A v \in MatWriters : WriterOK(writer[v]))'
  BY <1>0, <1>1 DEF MatTypes, WriterOK
<1>4. /\ flushReq' \in [pc : {"rest", "asked", "waiting", "done", "failed"}, seen : [MatKeys -> Nat]]
      /\ FlushCovered'
  <2>1. CASE FlushFails
    <3>1. matRun' # "reply" /\ (flushReq' = flushReq \/ flushReq' = [flushReq EXCEPT !.pc = "failed"])
      BY <2>1 DEF FlushFails, Ended
    <3>2. /\ flushReq' \in [pc : {"rest", "asked", "waiting", "done", "failed"}, seen : [MatKeys -> Nat]]
          /\ flushReq'.pc = "done" => flushReq' = flushReq
      BY <1>0, <3>1
    <3> QED  BY <1>0, <1>1, <3>1, <3>2 DEF FlushCovered, FlushDurable
  <2>2. CASE FlushedAll
    <3>1. /\ matRun' # "reply"
          /\ \/ flushReq' = flushReq
             \/ matRun = "reply" /\ flushReq' = [flushReq EXCEPT !.pc = "done"]
      BY <2>2 DEF FlushedAll, Ended
    <3>2. \A k \in MatKeys : pendingMap[k].ver = 0 /\ flushReq.seen[k] \in Nat /\ written[k] \in Nat
      BY <1>0, <2>2, DeltaParts DEF FlushedAll, Keys
    <3>3. /\ flushReq' \in [pc : {"rest", "asked", "waiting", "done", "failed"}, seen : [MatKeys -> Nat]]
          /\ flushReq'.seen = flushReq.seen
          /\ flushReq' = flushReq \/ matRun = "reply"
      BY <1>0, <3>1
    <3>4. matRun = "reply" => \A k \in MatKeys : written[k] >= flushReq.seen[k]
      BY <1>0, <3>2 DEF FlushCovered
    <3> QED  BY <1>0, <1>1, <3>1, <3>3, <3>4 DEF FlushCovered, FlushDurable
  <2>3. CASE CallFlush
    <3>1. flushReq' = [pc |-> "asked", seen |-> accepted] /\ matRun' = matRun /\ flushReq.pc \in {"rest", "done", "failed"}
      BY <2>3 DEF CallFlush
    <3> QED  BY <1>0, <1>1, <3>1 DEF FlushCovered, FlushDurable
  <2>4. CASE CallClose \/ UNCHANGED matVars
    <3>1. flushReq' = flushReq /\ matRun' = matRun
      BY <2>4 DEF CallClose, matVars
    <3> QED  BY <1>0, <1>1, <3>1 DEF FlushCovered, FlushDurable
  <2> QED  BY <2>1, <2>2, <2>3, <2>4
<1>5. matQueue' \in Seq(RowDeltas) /\ overflow' \in DeltaMaps /\ pendingMap' \in DeltaMaps /\ accepted' \in [MatKeys -> Nat]
  BY <1>0, <1>1 DEF MatTypes
<1> QED  BY <1>1, <1>2, <1>3, <1>4, <1>5, HeldInv

\* Every step of the materializer.
LEMMA MatInvStep == MatInv /\ [MatNext]_matVars => MatInv'
BY MutateInv, PersistInv, EnqueueInv, WakeInv, FlushBatchInv, FlushEndInv DEF MatNext

\* What the store accepted reaches PostgreSQL.
THEOREM RowsPersistedHolds == MatSpec => []RowsPersisted
<1>1. MatInv => RowsPersisted
  <2> SUFFICES ASSUME MatInv PROVE RowsPersisted
    OBVIOUS
  <2>1. DOMAIN matQueue = 1 .. Len(matQueue)
    BY DEF MatInv, MatTypes
  <2>2. NewestKept
    BY <2>1 DEF MatInv, Kept, NewestKept
  <2> QED  BY <2>2 DEF MatInv, FlushCovered, RowsPersisted
<1> QED  BY <1>1, MatInvInit, MatInvStep, PTL DEF MatSpec

-----------------------------------------------------------------------------
(* The checkpoint cache.  Bytes is a sum over a set, so it grows and       *)
(* shrinks with each entry; the index is good when list, byte count and    *)
(* markers agree; loads are exclusive because the loader of a model is the *)
(* executor that inflight names.                                           *)

\* The byte count of a set of models as a function.
LEMMA BytesSum ==
    \E f \in [SUBSET CacheModels -> Nat] :
        /\ f[{}] = 0
        /\ \A s \in SUBSET CacheModels : Bytes(s) = f[s]
        /\ \A s \in SUBSET CacheModels : \A m \in s : f[s] = f[s \ {m}] + ModelSize[m]
<1> DEFINE D == CacheModels
           pick == [s \in SUBSET D |-> CHOOSE x \in s : TRUE]
           step == [p \in D \X Nat |-> p[2] + ModelSize[p[1]]]
           Run(g, S) == g = [s \in SUBSET S |-> IF s = {} THEN 0
                                               ELSE g[s \ {CHOOSE x \in s : TRUE}] + ModelSize[CHOOSE x \in s : TRUE]]
<1>1. IsFiniteSet(D) /\ ModelSize \in [D -> Nat]
  BY CacheAssumption
<1>2. \A s \in SUBSET D : pick[s] = CHOOSE x \in s : TRUE
  OBVIOUS
<1>3. \A s : s # {} => (CHOOSE x \in s : TRUE) \in s
  OBVIOUS
<1>4. \A s \in SUBSET D : s # {} => pick[s] \in s
  BY <1>2, <1>3
<1>5. step \in [D \X Nat -> Nat]
  BY <1>1
<1>6. \E f \in [SUBSET D -> Nat] : FoldsBy(f, D, 0, pick, step)
  <2> HIDE DEF D, pick, step
  <2> QED  BY <1>1, <1>4, <1>5, FoldExists
<1>7. PICK f \in [SUBSET D -> Nat] : \A s \in SUBSET D : f[s] = IF s = {} THEN 0 ELSE step[<<pick[s], f[s \ {pick[s]}]>>]
  BY <1>6 DEF FoldsBy
<1>8. ASSUME NEW s \in SUBSET D, s # {} PROVE pick[s] \in s /\ f[s] = f[s \ {pick[s]}] + ModelSize[pick[s]]
  <2>1. pick[s] \in D /\ f[s \ {pick[s]}] \in Nat /\ pick[s] \in s
    BY <1>4, <1>8
  <2>2. <<pick[s], f[s \ {pick[s]}]>> \in D \X Nat
    BY <2>1
  <2> HIDE DEF pick
  <2>3. step[<<pick[s], f[s \ {pick[s]}]>>] = f[s \ {pick[s]}] + ModelSize[pick[s]]
    BY <2>2
  <2> QED  BY <1>7, <1>8, <2>1, <2>3
<1>9. f[{}] = 0
  BY <1>7
<1> HIDE DEF step
<1>10. ASSUME NEW S \in SUBSET D PROVE Bytes(S) = f[S]
  <2> DEFINE h == [s \in SUBSET S |-> f[s]]
  <2>1. Run(h, S)
    <3>1. ASSUME NEW s \in SUBSET S
          PROVE  f[s] = IF s = {} THEN 0 ELSE h[s \ {CHOOSE x \in s : TRUE}] + ModelSize[CHOOSE x \in s : TRUE]
      <4>1. s \in SUBSET D
        OBVIOUS
      <4>2. CASE s = {}
        BY <1>9, <4>2
      <4>3. CASE s # {}
        <5>1. pick[s] = CHOOSE x \in s : TRUE
          BY <1>2, <4>1
        <5>2. s \ {pick[s]} \in SUBSET S
          OBVIOUS
        <5>3. h[s \ {pick[s]}] = f[s \ {pick[s]}]
          BY <5>2
        <5> HIDE DEF h, pick
        <5> QED  BY <1>8, <4>1, <4>3, <5>1, <5>3
      <4> QED  BY <4>2, <4>3
    <3> QED  BY <3>1
  <2>2. Bytes(S) = (CHOOSE g : Run(g, S))[S]
    BY DEF Bytes, FoldSet, MapThenFoldSet
  <2>3. PICK g : g = (CHOOSE x : Run(x, S)) /\ Run(g, S)
    <3> HIDE DEF Run, h
    <3> QED  BY <2>1
  <2>4. IsFiniteSet(S) /\ SumBy(f, S, ModelSize, pick)
    <3>1. \A s \in SUBSET S : s \in SUBSET D
      OBVIOUS
    <3> QED  BY <1>1, <1>8, <1>9, <3>1, FS_Subset DEF SumBy
  <2>5. SumBy(g, S, ModelSize, pick)
    <3>1. g[{}] = 0
      BY <2>3
    <3>2. ASSUME NEW s \in SUBSET S, s # {} PROVE pick[s] \in s /\ g[s] = g[s \ {pick[s]}] + ModelSize[pick[s]]
      <4>1. s \in SUBSET D
        OBVIOUS
      <4>2. pick[s] = (CHOOSE x \in s : TRUE) /\ pick[s] \in s
        BY <1>2, <1>8, <3>2, <4>1
      <4> HIDE DEF pick
      <4> QED  BY <2>3, <3>2, <4>2
    <3> HIDE DEF pick
    <3> QED  BY <3>1, <3>2 DEF SumBy
  <2>6. f[S] = g[S]
    <3> HIDE DEF pick
    <3> QED  BY <2>4, <2>5, SumsAgree
  <2> QED  BY <2>2, <2>3, <2>6
<1>11. SumOf(f, D, ModelSize)
  <2>1. SumBy(f, D, ModelSize, pick)
    BY <1>8, <1>9 DEF SumBy
  <2> HIDE DEF D, pick
  <2> QED  BY <1>1, <1>7, <2>1, SumTakes
<1> QED  BY <1>9, <1>10, <1>11 DEF SumOf

\* What one model adds to the byte count of a set, and takes from it.
LEMMA BytesFacts ==
    ASSUME NEW S \in SUBSET CacheModels, NEW m \in CacheModels
    PROVE  /\ Bytes({}) = 0 /\ Bytes(S) \in Nat /\ ModelSize[m] \in Nat
           /\ m \in S => Bytes(S) = Bytes(S \ {m}) + ModelSize[m] /\ Bytes(S \ {m}) \in Nat
           /\ m \notin S => Bytes(S \cup {m}) = Bytes(S) + ModelSize[m]
<1>1. PICK f \in [SUBSET CacheModels -> Nat] :
        /\ f[{}] = 0
        /\ \A s \in SUBSET CacheModels : Bytes(s) = f[s]
        /\ \A s \in SUBSET CacheModels : \A x \in s : f[s] = f[s \ {x}] + ModelSize[x]
  BY BytesSum
<1>2. {} \in SUBSET CacheModels /\ S \ {m} \in SUBSET CacheModels /\ S \cup {m} \in SUBSET CacheModels
  OBVIOUS
<1>3. m \notin S => (S \cup {m}) \ {m} = S
  OBVIOUS
<1> QED  BY <1>1, <1>2, <1>3, CacheAssumption

\* Lists without repetition, and the indexes whose list, byte count and markers agree.
Lists == {s \in Seq(CacheModels) : \A i, j \in 1 .. Len(s) : s[i] = s[j] => i = j}
Indexes == [lru : Lists, used : Int, warm : SUBSET CacheModels]
GoodIndex == {i \in Indexes : i.used = Bytes(Range(i.lru)) /\ i.warm = Range(i.lru)}

\* The models of a list.
LEMMA ListRange ==
    ASSUME NEW s \in Seq(CacheModels)
    PROVE  /\ Len(s) \in Nat /\ DOMAIN s = 1 .. Len(s) /\ \A i \in 1 .. Len(s) : s[i] \in CacheModels
           /\ Range(s) = {s[i] : i \in 1 .. Len(s)} /\ Range(s) \subseteq CacheModels
<1>1. Len(s) \in Nat /\ DOMAIN s = 1 .. Len(s) /\ \A i \in 1 .. Len(s) : s[i] \in CacheModels
  OBVIOUS
<1>2. Range(s) = {s[i] : i \in 1 .. Len(s)}
  BY <1>1 DEF Range
<1> QED  BY <1>1, <1>2

\* A model is taken out of the list.
LEMMA LessFacts ==
    ASSUME NEW s \in Lists, NEW m
    PROVE  Less(s, m) \in Lists /\ Range(Less(s, m)) = Range(s) \ {m}
<1>0. /\ s \in Seq(CacheModels) /\ \A i, j \in 1 .. Len(s) : s[i] = s[j] => i = j
  BY DEF Lists
<1>1. /\ Len(s) \in Nat /\ DOMAIN s = 1 .. Len(s) /\ \A i \in 1 .. Len(s) : s[i] \in CacheModels
      /\ Range(s) = {s[i] : i \in 1 .. Len(s)}
  BY <1>0, ListRange
<1>2. CASE m \notin Range(s)
  BY <1>2 DEF Less
<1>3. CASE m \in Range(s)
  <2> DEFINE p == CHOOSE i \in DOMAIN s : s[i] = m
             n == Len(s)
             t == RemoveAt(s, p)
  <2>1. p \in 1 .. n /\ s[p] = m /\ n \in Nat
    BY <1>1, <1>3
  <2>2. Less(s, m) = t
    BY <1>3 DEF Less
  <2> HIDE DEF p
  <2>3. /\ t \in Seq(CacheModels) /\ Len(t) = n - 1
        /\ \A i \in 1 .. n - 1 : t[i] = IF i < p THEN s[i] ELSE s[i + 1]
    <3> DEFINE a == SubSeq(s, 1, p - 1)
               b == SubSeq(s, p + 1, n)
    <3>1. /\ a \in Seq(CacheModels) /\ Len(a) = p - 1 /\ \A i \in 1 .. p - 1 : a[i] = s[i]
      BY <1>0, <2>1
    <3>2. /\ b \in Seq(CacheModels) /\ Len(b) = n - p /\ \A i \in 1 .. n - p : b[i] = s[p + i]
      BY <1>0, <2>1
    <3>3. t = a \o b
      BY DEF RemoveAt
    <3> HIDE DEF a, b, t
    <3>4. /\ t \in Seq(CacheModels) /\ Len(t) = n - 1
          /\ \A i \in 1 .. n - 1 : t[i] = IF i <= p - 1 THEN a[i] ELSE b[i - (p - 1)]
      <4>1. /\ t \in Seq(CacheModels) /\ Len(t) = Len(a) + Len(b)
            /\ \A i \in 1 .. Len(a) + Len(b) : t[i] = IF i <= Len(a) THEN a[i] ELSE b[i - Len(a)]
        BY <3>1, <3>2, <3>3, ConcatProperties
      <4>2. Len(a) + Len(b) = n - 1
        BY <2>1, <3>1, <3>2
      <4> QED  BY <3>1, <4>1, <4>2
    <3>5. ASSUME NEW i \in 1 .. n - 1 PROVE t[i] = IF i < p THEN s[i] ELSE s[i + 1]
      <4>1. CASE i < p
        BY <2>1, <3>1, <3>4, <4>1
      <4>2. CASE ~(i < p)
        <5>1. i - (p - 1) \in 1 .. n - p /\ p + (i - (p - 1)) = i + 1 /\ ~(i <= p - 1)
          BY <2>1, <4>2
        <5> QED  BY <3>2, <3>4, <4>2, <5>1
      <4> QED  BY <4>1, <4>2
    <3> QED  BY <3>4, <3>5
  <2> HIDE DEF t
  <2>4. \A i, j \in 1 .. n - 1 : t[i] = t[j] => i = j
    <3> SUFFICES ASSUME NEW i \in 1 .. n - 1, NEW j \in 1 .. n - 1, t[i] = t[j] PROVE i = j
      OBVIOUS
    <3> DEFINE x == IF i < p THEN i ELSE i + 1
               y == IF j < p THEN j ELSE j + 1
    <3>1. t[i] = s[x] /\ t[j] = s[y] /\ x \in 1 .. n /\ y \in 1 .. n
      BY <2>1, <2>3
    <3>2. x = y
      <4> HIDE DEF x, y
      <4> QED  BY <1>0, <3>1
    <3> QED  BY <2>1, <3>2
  <2>5. t \in Lists
    BY <2>3, <2>4 DEF Lists
  <2>6. Range(t) = {t[i] : i \in 1 .. n - 1}
    BY <2>3, ListRange
  <2>7. Range(t) \subseteq Range(s) \ {m}
    <3> SUFFICES ASSUME NEW i \in 1 .. n - 1 PROVE t[i] \in Range(s) /\ t[i] # m
      BY <2>6
    <3> DEFINE x == IF i < p THEN i ELSE i + 1
    <3>1. t[i] = s[x] /\ x \in 1 .. n /\ x # p
      BY <2>1, <2>3
    <3> HIDE DEF x
    <3> QED  BY <1>0, <1>1, <2>1, <3>1
  <2>8. Range(s) \ {m} \subseteq Range(t)
    <3> SUFFICES ASSUME NEW x \in 1 .. n, s[x] # m PROVE s[x] \in Range(t)
      BY <1>1
    <3> DEFINE i == IF x < p THEN x ELSE x - 1
    <3>1. x # p
      BY <2>1
    <3>2. i \in 1 .. n - 1 /\ (i < p => x = i) /\ (~(i < p) => x = i + 1)
      BY <2>1, <3>1
    <3>3. t[i] = s[x]
      <4> HIDE DEF i
      <4> QED  BY <2>3, <3>2
    <3> QED  BY <2>6, <3>2, <3>3
  <2> QED  BY <2>2, <2>5, <2>7, <2>8
<1> QED  BY <1>2, <1>3

\* An entry is put in front.
LEMMA PutFacts ==
    ASSUME NEW idx \in Indexes, NEW m \in CacheModels
    PROVE  /\ putEntryLocked(idx, m) \in Indexes
           /\ idx \in GoodIndex => putEntryLocked(idx, m) \in GoodIndex
<1> DEFINE s == idx.lru
           l == Less(s, m)
           t == <<m>> \o l
           r == putEntryLocked(idx, m)
<1>0. s \in Lists /\ idx.used \in Int /\ idx.warm \in SUBSET CacheModels /\ ModelSize[m] \in Nat
  BY CacheAssumption DEF Indexes
<1>1. l \in Lists /\ Range(l) = Range(s) \ {m}
  BY <1>0, LessFacts
<1> HIDE DEF l
<1>2. /\ l \in Seq(CacheModels) /\ Len(l) \in Nat /\ Range(l) = {l[i] : i \in 1 .. Len(l)}
      /\ \A i, j \in 1 .. Len(l) : l[i] = l[j] => i = j
  BY <1>1, ListRange DEF Lists
<1>3. /\ t \in Seq(CacheModels) /\ Len(t) = Len(l) + 1 /\ t[1] = m
      /\ \A i \in 2 .. Len(l) + 1 : t[i] = l[i - 1]
  BY <1>2
<1> HIDE DEF t
<1>4. Range(t) = {t[i] : i \in 1 .. Len(t)}
  BY <1>3, ListRange
<1>5. Range(t) = Range(s) \cup {m}
  <2>1. ASSUME NEW i \in 1 .. Len(t) PROVE t[i] = m \/ t[i] \in Range(l)
    <3>1. CASE i = 1
      BY <1>3, <3>1
    <3>2. CASE i # 1
      <4>1. i \in 2 .. Len(l) + 1 /\ i - 1 \in 1 .. Len(l)
        BY <1>2, <1>3, <3>2
      <4> QED  BY <1>2, <1>3, <4>1
    <3> QED  BY <3>1, <3>2
  <2>2. ASSUME NEW i \in 1 .. Len(l) PROVE l[i] \in Range(t)
    <3>1. i + 1 \in 2 .. Len(l) + 1 /\ i + 1 \in 1 .. Len(t) /\ (i + 1) - 1 = i
      BY <1>2, <1>3
    <3>2. t[i + 1] = l[i]
      BY <1>3, <3>1
    <3> QED  BY <1>4, <3>1, <3>2
  <2>3. m \in Range(t)
    <3>1. 1 \in 1 .. Len(t)
      BY <1>2, <1>3
    <3> QED  BY <1>3, <1>4, <3>1
  <2>4. Range(t) \subseteq Range(l) \cup {m} /\ Range(l) \subseteq Range(t)
    BY <1>2, <1>4, <2>1, <2>2
  <2> QED  BY <1>1, <2>3, <2>4
<1>6. t \in Lists
  <2> SUFFICES ASSUME NEW i \in 1 .. Len(t), NEW j \in 1 .. Len(t), t[i] = t[j] PROVE i = j
    BY <1>3 DEF Lists
  <2>1. \A x \in 1 .. Len(t) : x # 1 => x \in 2 .. Len(l) + 1 /\ x - 1 \in 1 .. Len(l)
    BY <1>2, <1>3
  <2>2. ASSUME NEW x \in 1 .. Len(t), x # 1 PROVE t[x] = l[x - 1] /\ t[x] # m
    <3>1. t[x] = l[x - 1] /\ x - 1 \in 1 .. Len(l)
      BY <1>3, <2>1, <2>2
    <3>2. l[x - 1] \in Range(l)
      BY <1>2, <3>1
    <3> QED  BY <1>1, <3>1, <3>2
  <2>3. CASE i = 1 \/ j = 1
    BY <1>3, <2>2, <2>3
  <2>4. CASE i # 1 /\ j # 1
    <3>1. i - 1 = j - 1
      BY <1>2, <2>1, <2>2, <2>4
    <3> QED  BY <3>1
  <2> QED  BY <2>3, <2>4
<1>7. /\ r.lru = t /\ r.warm = idx.warm \cup {m}
      /\ r.used = IF m \in Range(s) THEN idx.used ELSE idx.used + ModelSize[m]
      /\ r = [lru |-> r.lru, used |-> r.used, warm |-> r.warm]
  BY DEF putEntryLocked, t, l
<1> HIDE DEF r, s
<1>8. r \in Indexes
  <2>1. r.used \in Int /\ r.warm \in SUBSET CacheModels
    BY <1>0, <1>7
  <2> QED  BY <1>6, <1>7, <2>1 DEF Indexes
<1>9. ASSUME idx \in GoodIndex PROVE r \in GoodIndex
  <2>1. idx.used = Bytes(Range(s)) /\ idx.warm = Range(s)
    BY <1>9 DEF GoodIndex, s
  <2>2. Range(s) \in SUBSET CacheModels
    BY <1>0, ListRange DEF Lists
  <2>3. CASE m \in Range(s)
    <3>1. Range(t) = Range(s)
      BY <1>5, <2>3
    <3> QED  BY <1>7, <1>8, <2>1, <2>3, <3>1 DEF GoodIndex
  <2>4. CASE m \notin Range(s)
    <3>1. Bytes(Range(s) \cup {m}) = Bytes(Range(s)) + ModelSize[m]
      BY <2>2, <2>4, BytesFacts
    <3> QED  BY <1>5, <1>7, <1>8, <2>1, <2>4, <3>1 DEF GoodIndex
  <2> QED  BY <2>3, <2>4
<1> QED  BY <1>8, <1>9 DEF r

\* An entry is removed.
LEMMA RemoveFacts ==
    ASSUME NEW idx \in Indexes, NEW m \in CacheModels
    PROVE  /\ removeElementLocked(idx, m) \in Indexes
           /\ Range(removeElementLocked(idx, m).lru) = Range(idx.lru) \ {m}
           /\ idx \in GoodIndex /\ m \in Range(idx.lru) => removeElementLocked(idx, m) \in GoodIndex
<1> DEFINE s == idx.lru
           l == Less(s, m)
           r == removeElementLocked(idx, m)
<1>0. s \in Lists /\ idx.used \in Int /\ idx.warm \in SUBSET CacheModels /\ ModelSize[m] \in Nat
  BY CacheAssumption DEF Indexes
<1>1. l \in Lists /\ Range(l) = Range(s) \ {m}
  BY <1>0, LessFacts
<1>2. /\ r.lru = l /\ r.warm = idx.warm \ {m} /\ r.used = idx.used - ModelSize[m]
      /\ r = [lru |-> r.lru, used |-> r.used, warm |-> r.warm]
  BY DEF removeElementLocked
<1> HIDE DEF r, l
<1>3. r \in Indexes
  <2>1. r.used \in Int /\ r.warm \in SUBSET CacheModels
    BY <1>0, <1>2
  <2> QED  BY <1>1, <1>2, <2>1 DEF Indexes
<1>4. ASSUME idx \in GoodIndex, m \in Range(s) PROVE r \in GoodIndex
  <2>1. idx.used = Bytes(Range(s)) /\ idx.warm = Range(s)
    BY <1>4 DEF GoodIndex
  <2>2. Range(s) \in SUBSET CacheModels
    BY <1>0, ListRange DEF Lists
  <2>3. Bytes(Range(s)) = Bytes(Range(s) \ {m}) + ModelSize[m] /\ Bytes(Range(s) \ {m}) \in Nat
    <3> HIDE DEF s
    <3> QED  BY <1>4, <2>2, BytesFacts
  <2>4. r.used = Bytes(Range(r.lru))
    <3>1. r.used = Bytes(Range(s) \ {m})
      BY <1>0, <1>2, <2>1, <2>3
    <3> QED  BY <1>1, <1>2, <3>1
  <2> QED  BY <1>1, <1>2, <1>3, <2>1, <2>4 DEF GoodIndex
<1> QED  BY <1>1, <1>2, <1>3, <1>4 DEF r

\* A restart puts its entries one after the other.
LEMMA PutSteps ==
    ASSUME NEW m \in Indexes, NEW q \in Seq(CacheModels)
    PROVE  \E h : /\ h[0] = m /\ \A i \in 1 .. Len(q) : h[i] = putEntryLocked(h[i - 1], q[i])
                  /\ FoldLeft(putEntryLocked, m, q) = h[Len(q)]
<1> DEFINE n == Len(q)
           D == 1 .. n
           Run(g) == g = [s \in SUBSET D |-> IF s = {} THEN m ELSE putEntryLocked(g[s \ {Max(s)}], q[Max(s)])]
           step == [p \in D \X Indexes |-> putEntryLocked(p[2], q[p[1]])]
<1>1. n \in Nat /\ DOMAIN q = D /\ \A i \in D : q[i] \in CacheModels
  OBVIOUS
<1>2. FoldLeft(putEntryLocked, m, q) = (CHOOSE g : Run(g))[D]
  BY <1>1 DEF FoldLeft, MapThenFoldSet
<1>3. step \in [D \X Indexes -> Indexes]
  <2> SUFFICES ASSUME NEW p \in D \X Indexes PROVE putEntryLocked(p[2], q[p[1]]) \in Indexes
    OBVIOUS
  <2> QED  BY <1>1, PutFacts
<1>4. \E f \in [SUBSET D -> Indexes] : FoldsLeft(f, n, m, step)
  <2> HIDE DEF step, n
  <2> QED  BY <1>1, <1>3, FoldLeftExists
<1>5. PICK f \in [SUBSET D -> Indexes] : \A s \in SUBSET D :
          f[s] = IF s = {} THEN m ELSE step[<<Max(s), f[s \ {Max(s)}]>>]
  BY <1>4 DEF FoldsLeft
<1>6. \A s \in SUBSET D : f[s] = IF s = {} THEN m ELSE putEntryLocked(f[s \ {Max(s)}], q[Max(s)])
  <2> SUFFICES ASSUME NEW s \in SUBSET D, s # {} PROVE f[s] = putEntryLocked(f[s \ {Max(s)}], q[Max(s)])
    BY <1>5
  <2>1. Max(s) \in D /\ s \ {Max(s)} \in SUBSET D
    BY <1>1, MaxOfFinite
  <2>2. <<Max(s), f[s \ {Max(s)}]>> \in D \X Indexes
    BY <2>1
  <2>3. step[<<Max(s), f[s \ {Max(s)}]>>] = putEntryLocked(f[s \ {Max(s)}], q[Max(s)])
    BY <2>2
  <2> QED  BY <1>5, <2>3
<1>7. Run(f)
  BY <1>6
<1> HIDE DEF step
<1>8. PICK g : g = (CHOOSE x : Run(x)) /\ Run(g)
  <2> HIDE DEF Run
  <2> QED  BY <1>7
<1>9. g[{}] = m /\ \A i \in D : g[1 .. i] = putEntryLocked(g[1 .. i - 1], q[i])
  <2>1. {} \in SUBSET D
    OBVIOUS
  <2>2. ASSUME NEW i \in D PROVE g[1 .. i] = putEntryLocked(g[1 .. i - 1], q[i])
    <3>1. 1 .. i \in SUBSET D /\ 1 .. i # {} /\ Max(1 .. i) = i /\ (1 .. i) \ {i} = 1 .. i - 1
      BY <1>1, MaxOfRange
    <3> QED  BY <1>8, <3>1
  <2> QED  BY <1>8, <2>1, <2>2
<1> DEFINE h == [i \in 0 .. n |-> g[1 .. i]]
<1>10. h[0] = m
  <2>1. 1 .. 0 = {} /\ 0 \in 0 .. n
    BY <1>1
  <2> QED  BY <1>9, <2>1
<1>11. ASSUME NEW i \in D PROVE h[i] = putEntryLocked(h[i - 1], q[i])
  <2>1. i \in 0 .. n /\ i - 1 \in 0 .. n
    BY <1>1
  <2> QED  BY <1>9, <2>1
<1>12. FoldLeft(putEntryLocked, m, q) = h[n]
  BY <1>1, <1>2, <1>8
<1> QED  BY <1>10, <1>11, <1>12

\* An eviction removes its victims one after the other.
LEMMA RemoveSteps ==
    ASSUME NEW m \in Indexes, NEW q \in Seq(CacheModels)
    PROVE  \E h : /\ h[0] = m /\ \A i \in 1 .. Len(q) : h[i] = removeElementLocked(h[i - 1], q[i])
                  /\ FoldLeft(removeElementLocked, m, q) = h[Len(q)]
<1> DEFINE n == Len(q)
           D == 1 .. n
           Run(g) == g = [s \in SUBSET D |-> IF s = {} THEN m ELSE removeElementLocked(g[s \ {Max(s)}], q[Max(s)])]
           step == [p \in D \X Indexes |-> removeElementLocked(p[2], q[p[1]])]
<1>1. n \in Nat /\ DOMAIN q = D /\ \A i \in D : q[i] \in CacheModels
  OBVIOUS
<1>2. FoldLeft(removeElementLocked, m, q) = (CHOOSE g : Run(g))[D]
  BY <1>1 DEF FoldLeft, MapThenFoldSet
<1>3. step \in [D \X Indexes -> Indexes]
  <2> SUFFICES ASSUME NEW p \in D \X Indexes PROVE removeElementLocked(p[2], q[p[1]]) \in Indexes
    OBVIOUS
  <2> QED  BY <1>1, RemoveFacts
<1>4. \E f \in [SUBSET D -> Indexes] : FoldsLeft(f, n, m, step)
  <2> HIDE DEF step, n
  <2> QED  BY <1>1, <1>3, FoldLeftExists
<1>5. PICK f \in [SUBSET D -> Indexes] : \A s \in SUBSET D :
          f[s] = IF s = {} THEN m ELSE step[<<Max(s), f[s \ {Max(s)}]>>]
  BY <1>4 DEF FoldsLeft
<1>6. \A s \in SUBSET D : f[s] = IF s = {} THEN m ELSE removeElementLocked(f[s \ {Max(s)}], q[Max(s)])
  <2> SUFFICES ASSUME NEW s \in SUBSET D, s # {} PROVE f[s] = removeElementLocked(f[s \ {Max(s)}], q[Max(s)])
    BY <1>5
  <2>1. Max(s) \in D /\ s \ {Max(s)} \in SUBSET D
    BY <1>1, MaxOfFinite
  <2>2. <<Max(s), f[s \ {Max(s)}]>> \in D \X Indexes
    BY <2>1
  <2>3. step[<<Max(s), f[s \ {Max(s)}]>>] = removeElementLocked(f[s \ {Max(s)}], q[Max(s)])
    BY <2>2
  <2> QED  BY <1>5, <2>3
<1>7. Run(f)
  BY <1>6
<1> HIDE DEF step
<1>8. PICK g : g = (CHOOSE x : Run(x)) /\ Run(g)
  <2> HIDE DEF Run
  <2> QED  BY <1>7
<1>9. g[{}] = m /\ \A i \in D : g[1 .. i] = removeElementLocked(g[1 .. i - 1], q[i])
  <2>1. {} \in SUBSET D
    OBVIOUS
  <2>2. ASSUME NEW i \in D PROVE g[1 .. i] = removeElementLocked(g[1 .. i - 1], q[i])
    <3>1. 1 .. i \in SUBSET D /\ 1 .. i # {} /\ Max(1 .. i) = i /\ (1 .. i) \ {i} = 1 .. i - 1
      BY <1>1, MaxOfRange
    <3> QED  BY <1>8, <3>1
  <2> QED  BY <1>8, <2>1, <2>2
<1> DEFINE h == [i \in 0 .. n |-> g[1 .. i]]
<1>10. h[0] = m
  <2>1. 1 .. 0 = {} /\ 0 \in 0 .. n
    BY <1>1
  <2> QED  BY <1>9, <2>1
<1>11. ASSUME NEW i \in D PROVE h[i] = removeElementLocked(h[i - 1], q[i])
  <2>1. i \in 0 .. n /\ i - 1 \in 0 .. n
    BY <1>1
  <2> QED  BY <1>9, <2>1
<1>12. FoldLeft(removeElementLocked, m, q) = h[n]
  BY <1>1, <1>2, <1>8
<1> QED  BY <1>10, <1>11, <1>12

\* The empty list.
LEMMA EmptyList == <<>> \in Lists /\ Range(<<>>) = {}
<1>1. <<>> \in Seq(CacheModels) /\ 1 .. Len(<<>>) = {}
  OBVIOUS
<1>2. DOMAIN <<>> = {}
  OBVIOUS
<1> QED  BY <1>1, <1>2 DEF Lists, Range

\* The index after a restart.
LEMMA ReindexFacts ==
    ASSUME NEW q \in Seq(CacheModels)
    PROVE  loadCheckpointManifests(q) \in GoodIndex
<1> DEFINE m == [lru |-> <<>>, used |-> 0, warm |-> {}]
<1>0. m \in GoodIndex
  <2>2. <<>> \in Lists /\ Range(<<>>) = {}
    BY EmptyList
  <2>3. m \in Indexes
    BY <2>2 DEF Indexes
  <2>4. Bytes({}) = 0
    BY BytesSum
  <2> QED  BY <2>2, <2>3, <2>4 DEF GoodIndex
<1> HIDE DEF m
<1>1. m \in Indexes
  BY <1>0 DEF GoodIndex
<1>2. PICK h : /\ h[0] = m /\ \A i \in 1 .. Len(q) : h[i] = putEntryLocked(h[i - 1], q[i])
               /\ FoldLeft(putEntryLocked, m, q) = h[Len(q)]
  BY <1>1, PutSteps
<1> DEFINE n == Len(q)
           P == {i \in 0 .. n : h[i] \in GoodIndex}
<1>3. n \in Nat /\ \A i \in 1 .. n : q[i] \in CacheModels
  OBVIOUS
<1>4. 0 \in P
  BY <1>0, <1>2, <1>3
<1>5. ASSUME NEW i \in 0 .. n - 1, i \in P PROVE i + 1 \in P
  <2> DEFINE x == h[i]
             e == q[i + 1]
  <2>1. i + 1 \in 1 .. n /\ i + 1 \in 0 .. n /\ (i + 1) - 1 = i
    BY <1>3
  <2>2. x \in GoodIndex /\ x \in Indexes /\ e \in CacheModels /\ h[i + 1] = putEntryLocked(x, e)
    BY <1>2, <1>3, <1>5, <2>1 DEF GoodIndex
  <2> HIDE DEF x, e
  <2>3. putEntryLocked(x, e) \in GoodIndex
    BY <2>2, PutFacts
  <2> QED  BY <2>1, <2>2, <2>3
<1>6. n \in P
  <2>1. \A i \in 0 .. n - 1 : i \in P => i + 1 \in P
    BY <1>5
  <2>2. n \in 0 .. n
    BY <1>3
  <2> HIDE DEF P, n
  <2>3. \A i \in 0 .. n : i \in P
    BY <1>3, <1>4, <2>1, StepsTo
  <2> QED  BY <2>2, <2>3
<1> QED  BY <1>2, <1>6 DEF loadCheckpointManifests, m

\* The index after evictions.
LEMMA EvictFacts ==
    ASSUME NEW m \in GoodIndex, NEW q \in Lists, Range(q) \subseteq Range(m.lru)
    PROVE  RemoveAll(m, q) \in GoodIndex
<1>0. q \in Seq(CacheModels) /\ \A i, j \in 1 .. Len(q) : q[i] = q[j] => i = j
  BY DEF Lists
<1>1. m \in Indexes
  BY DEF GoodIndex
<1>2. PICK h : /\ h[0] = m /\ \A i \in 1 .. Len(q) : h[i] = removeElementLocked(h[i - 1], q[i])
               /\ FoldLeft(removeElementLocked, m, q) = h[Len(q)]
  BY <1>0, <1>1, RemoveSteps
<1> DEFINE n == Len(q)
           P == {i \in 0 .. n : h[i] \in GoodIndex /\ \A j \in i + 1 .. n : q[j] \in Range(h[i].lru)}
<1>3. n \in Nat /\ (\A i \in 1 .. n : q[i] \in CacheModels) /\ \A i \in 1 .. n : q[i] \in Range(m.lru)
  BY <1>0, ListRange
<1>4. 0 \in P
  BY <1>2, <1>3
<1>5. ASSUME NEW i \in 0 .. n - 1, i \in P PROVE i + 1 \in P
  <2> DEFINE x == h[i]
             e == q[i + 1]
  <2>1. i + 1 \in 1 .. n /\ i + 1 \in 0 .. n /\ (i + 1) - 1 = i /\ i + 1 \in i + 1 .. n
    BY <1>3
  <2>2. /\ x \in GoodIndex /\ x \in Indexes /\ e \in CacheModels /\ h[i + 1] = removeElementLocked(x, e)
        /\ e \in Range(x.lru)
    BY <1>2, <1>3, <1>5, <2>1 DEF GoodIndex
  <2>3. ASSUME NEW j \in (i + 1) + 1 .. n PROVE q[j] \in Range(x.lru) /\ q[j] # e
    <3>1. j \in i + 1 .. n /\ j \in 1 .. n /\ j # i + 1
      BY <1>3
    <3> QED  BY <1>0, <1>5, <2>1, <3>1
  <2> HIDE DEF x, e
  <2>4. removeElementLocked(x, e) \in GoodIndex /\ Range(removeElementLocked(x, e).lru) = Range(x.lru) \ {e}
    BY <2>2, RemoveFacts
  <2> QED  BY <2>1, <2>2, <2>3, <2>4
<1>6. n \in P
  <2>1. \A i \in 0 .. n - 1 : i \in P => i + 1 \in P
    BY <1>5
  <2>2. n \in 0 .. n
    BY <1>3
  <2> HIDE DEF P, n
  <2>3. \A i \in 0 .. n : i \in P
    BY <1>3, <1>4, <2>1, StepsTo
  <2> QED  BY <2>2, <2>3
<1> QED  BY <1>2, <1>6 DEF RemoveAll

\* What an eviction may remove: the last entries of the list.
LEMMA SuffixFacts ==
    ASSUME lru \in Lists, NEW q \in Suffixes(lru)
    PROVE  q \in Lists /\ Range(q) \subseteq Range(lru) /\ Len(q) \in Nat
<1> DEFINE n == Len(lru)
<1>0. lru \in Seq(CacheModels) /\ n \in Nat /\ \A i, j \in 1 .. n : lru[i] = lru[j] => i = j
  BY DEF Lists
<1>1. Range(lru) = {lru[i] : i \in 1 .. n}
  BY <1>0, ListRange
<1>2. CASE q = <<>>
  <2>1. Len(<<>>) = 0
    OBVIOUS
  <2> QED  BY <1>2, <2>1, EmptyList
<1>3. CASE q # <<>>
  <2>1. PICK l \in 1 .. n : q = SubSeq(lru, l, n)
    BY <1>3 DEF Suffixes
  <2>2. /\ q \in Seq(CacheModels) /\ Len(q) = n - l + 1 /\ \A i \in 1 .. n - l + 1 : q[i] = lru[l + i - 1]
    BY <1>0, <2>1
  <2>3. \A i \in 1 .. n - l + 1 : l + i - 1 \in 1 .. n
    BY <1>0
  <2>4. q \in Lists
    <3> SUFFICES ASSUME NEW i \in 1 .. n - l + 1, NEW j \in 1 .. n - l + 1, q[i] = q[j] PROVE i = j
      BY <2>2 DEF Lists
    <3>1. l + i - 1 = l + j - 1
      <4> DEFINE a == l + i - 1
                 b == l + j - 1
      <4>1. q[i] = lru[a] /\ q[j] = lru[b] /\ a \in 1 .. n /\ b \in 1 .. n
        BY <2>2, <2>3
      <4> HIDE DEF a, b
      <4>2. a = b
        BY <1>0, <4>1
      <4> QED  BY <4>2 DEF a, b
    <3> QED  BY <1>0, <3>1
  <2>5. Range(q) = {q[i] : i \in 1 .. n - l + 1}
    BY <2>2, ListRange
  <2>6. ASSUME NEW i \in 1 .. n - l + 1 PROVE q[i] \in Range(lru)
    BY <1>1, <2>2, <2>3
  <2>7. n - l + 1 \in Nat
    BY <1>0
  <2> QED  BY <2>2, <2>4, <2>5, <2>6, <2>7
<1> QED  BY <1>2, <1>3

\* The victims are the shortest suffix that makes room.
LEMMA VictimsFacts ==
    ASSUME Index \in GoodIndex, NEW m \in CacheModels
    PROVE  Victims(ModelSize[m]) \in Suffixes(lru)
<1> DEFINE z == ModelSize[m]
           Room(s) == usedBytes - Bytes(Range(s)) + z <= CacheBytes
           Fit == {s \in Suffixes(lru) : Room(s) \/ Len(s) = Len(lru)}
           L == {Len(s) : s \in Fit}
<1>0. lru \in Lists /\ usedBytes \in Int /\ z \in Nat /\ CacheBytes \in Nat
  BY CacheAssumption DEF Index, GoodIndex, Indexes
<1>1. lru \in Fit
  <2>1. lru \in Seq(CacheModels) /\ Len(lru) \in Nat
    BY <1>0 DEF Lists
  <2>2. CASE Len(lru) = 0
    <3>1. lru = <<>>
      BY <2>1, <2>2
    <3>2. lru \in Suffixes(lru)
      BY <3>1 DEF Suffixes
    <3> QED  BY <3>2
  <2>3. CASE Len(lru) # 0
    <3>1. SubSeq(lru, 1, Len(lru)) = lru /\ 1 \in 1 .. Len(lru)
      BY <2>1, <2>3, SubSeqFull
    <3>2. lru \in Suffixes(lru)
      BY <3>1 DEF Suffixes
    <3> QED  BY <3>2
  <2> QED  BY <2>2, <2>3
<1>2. \A s \in Suffixes(lru) : Len(s) \in Nat /\ Bytes(Range(s)) \in Nat
  <2> SUFFICES ASSUME NEW s \in Suffixes(lru) PROVE Len(s) \in Nat /\ Bytes(Range(s)) \in Nat
    OBVIOUS
  <2>1. s \in Lists /\ Len(s) \in Nat
    BY <1>0, SuffixFacts
  <2>2. Range(s) \in SUBSET CacheModels
    BY <2>1, ListRange DEF Lists
  <2> QED  BY <2>1, <2>2, BytesFacts
<1>3. PICK k \in L : \A y \in L : k <= y
  <2>1. L \in SUBSET Nat /\ L # {}
    BY <1>1, <1>2
  <2> HIDE DEF L
  <2> QED  BY <2>1, LeastNat
<1>4. PICK s \in Fit : k = Len(s)
  BY <1>3
<1>5. ASSUME NEW t \in Suffixes(lru), Len(t) < Len(s) PROVE usedBytes - Bytes(Range(t)) + z > CacheBytes
  <2>1. t \notin Fit
    <3>1. t \in Fit => Len(t) \in L
      OBVIOUS
    <3>2. Len(t) \in L => Len(s) <= Len(t)
      BY <1>3, <1>4
    <3>3. Len(t) \in Nat /\ Len(s) \in Nat
      BY <1>2, <1>4
    <3> QED  BY <1>5, <3>1, <3>2, <3>3
  <2>2. ~(usedBytes - Bytes(Range(t)) + z <= CacheBytes)
    BY <2>1
  <2>3. Bytes(Range(t)) \in Nat
    BY <1>2
  <2> HIDE DEF z
  <2> QED  BY <1>0, <2>2, <2>3
<1>6. \E x \in Suffixes(lru) :
        /\ usedBytes - Bytes(Range(x)) + z <= CacheBytes \/ Len(x) = Len(lru)
        /\ \A t \in Suffixes(lru) : Len(t) < Len(x) => usedBytes - Bytes(Range(t)) + z > CacheBytes
  BY <1>4, <1>5
<1> QED  BY <1>6 DEF Victims

-----------------------------------------------------------------------------
\* The steps of an executor.
CachePcs == {"idle", "look", "touch", "stat", "discover", "read", "call", "wait"} \cup Loading
CacheUserStates == [pc : CachePcs, model : CacheModels \cup {"none"}, probing : BOOLEAN]

\* The load of a model belongs to the executor inflight names, and to no other.
LoadInv ==
    /\ user \in [CacheUsers -> CacheUserStates] /\ inflight \in [CacheModels -> CacheUsers \cup {0}]
    /\ \A e \in CacheUsers : user[e].pc # "idle" => user[e].model \in CacheModels
    /\ \A e \in CacheUsers : user[e].pc \in Loading => inflight[user[e].model] = e
    /\ \A e \in CacheUsers : user[e].pc = "wait" => inflight[user[e].model] # 0
    /\ \A m \in CacheModels : inflight[m] # 0 => user[inflight[m]].pc \in Loading /\ user[inflight[m]].model = m

\* Files are those of models, and the index is good.
DirInv == ckFiles \subseteq CacheModels /\ ckManifests \subseteq CacheModels /\ Index \in GoodIndex

\* Numbers of executors start at 1.
LEMMA NoZeroUser == 0 \notin CacheUsers
BY CacheAssumption

\* An executor at rest.
LEMMA IdleState == Idle \in CacheUserStates /\ Idle.pc = "idle" /\ Idle.pc \notin Loading
BY DEF Idle, CacheUserStates, CachePcs, Loading

\* An executor moves on without taking or leaving a load.
LEMMA UserMoves ==
    ASSUME LoadInv, NEW e \in CacheUsers, NEW y \in CacheUserStates, user' = [user EXCEPT ![e] = y],
           y.pc # "idle" => y.model \in CacheModels, inflight' = inflight,
           y.pc \in Loading <=> user[e].pc \in Loading, y.pc \in Loading => y.model = user[e].model,
           y.pc = "wait" => inflight[y.model] # 0
    PROVE  LoadInv'
<1>1. user' \in [CacheUsers -> CacheUserStates] /\ user'[e] = y /\ \A x \in CacheUsers : x # e => user'[x] = user[x]
  BY DEF LoadInv
<1>2. \A x \in CacheUsers : user'[x].pc # "idle" => user'[x].model \in CacheModels
  BY <1>1 DEF LoadInv
<1>3. \A x \in CacheUsers : user'[x].pc \in Loading => inflight[user'[x].model] = x
  BY <1>1 DEF LoadInv
<1>4. \A x \in CacheUsers : user'[x].pc = "wait" => inflight[user'[x].model] # 0
  BY <1>1 DEF LoadInv
<1>5. ASSUME NEW m \in CacheModels, inflight[m] # 0
      PROVE  user'[inflight[m]].pc \in Loading /\ user'[inflight[m]].model = m
  <2>1. inflight[m] \in CacheUsers /\ user[inflight[m]].pc \in Loading /\ user[inflight[m]].model = m
    BY <1>5 DEF LoadInv
  <2>2. CASE inflight[m] = e
    BY <1>1, <2>1, <2>2
  <2>3. CASE inflight[m] # e
    BY <1>1, <2>1, <2>3
  <2> QED  BY <2>2, <2>3
<1> QED  BY <1>1, <1>2, <1>3, <1>4, <1>5 DEF LoadInv

\* Goto and Answer change one executor.
LEMMA GotoFacts ==
    ASSUME LoadInv, NEW e \in CacheUsers, NEW pc \in CachePcs, Goto(e, pc)
    PROVE  \E y \in CacheUserStates : /\ user' = [user EXCEPT ![e] = y] /\ y.pc = pc /\ y.model = user[e].model
<1> DEFINE y == [user[e] EXCEPT !.pc = pc]
<1>1. user[e] \in CacheUserStates /\ user \in [CacheUsers -> CacheUserStates]
  BY DEF LoadInv
<1>2. y \in CacheUserStates /\ y.pc = pc /\ y.model = user[e].model
  BY <1>1 DEF CacheUserStates
<1>3. user' = [user EXCEPT ![e] = y]
  BY <1>1 DEF Goto
<1> QED  BY <1>2, <1>3

\* The same for an answer of cachedCheckpoint.
LEMMA AnswerFacts ==
    ASSUME LoadInv, NEW e \in CacheUsers, NEW pc \in CachePcs, Answer(e, pc)
    PROVE  \E y \in CacheUserStates : /\ user' = [user EXCEPT ![e] = y] /\ y.pc \in {"look", pc} /\ y.model = user[e].model
<1> DEFINE p == IF user[e].probing THEN "look" ELSE pc
           y == [pc |-> p, model |-> Model(e), probing |-> FALSE]
<1>0. p \in {"look", pc} /\ p \in CachePcs
  BY DEF CachePcs
<1>1. user[e] \in CacheUserStates /\ user \in [CacheUsers -> CacheUserStates]
  BY DEF LoadInv
<1>2. user' = [user EXCEPT ![e] = y]
  BY DEF Answer
<1> HIDE DEF p
<1>3. y \in CacheUserStates /\ y.pc = p /\ y.model = user[e].model
  BY <1>0, <1>1 DEF CacheUserStates, Model
<1> QED  BY <1>0, <1>2, <1>3

\* Loads and waiters through the steps that neither take nor finish a load.
LEMMA LoadKept ==
    ASSUME LoadInv, NEW e \in CacheUsers, CacheStep(e), ~loadCallForKey(e), ~finishLoadCall(e)
    PROVE  LoadInv'
<1>0. user[e] \in CacheUserStates /\ (user[e].pc # "idle" => user[e].model \in CacheModels)
  BY DEF LoadInv
<1>1. inflight' = inflight
  BY DEF CacheStep, BeginModel, LookupEntry, StatPath, DiscoverFile, TouchManifest, ReadHit, WaitCancelled,
         BeginLoad, copyCheckpoint, readCheckpoint, writeCheckpointManifest, InsertEntry, EvictionFails
<1>2. CASE \E m \in CacheModels : BeginModel(e, m)
  <2>1. PICK m \in CacheModels : BeginModel(e, m)
    BY <1>2
  <2> DEFINE y == [pc |-> "look", model |-> m, probing |-> TRUE]
  <2>2. y \in CacheUserStates /\ y.pc = "look" /\ y.model = m /\ "look" \notin Loading
    BY DEF CacheUserStates, CachePcs, Loading
  <2>3. user' = [user EXCEPT ![e] = y] /\ user[e].pc \notin Loading
    BY <2>1, IdleState DEF BeginModel
  <2> HIDE DEF y
  <2> QED  BY <1>1, <2>2, <2>3, UserMoves
<1>3. CASE user' = [user EXCEPT ![e] = Idle] /\ user[e].pc \in {"read", "wait"}
  <2>1. user[e].pc \notin Loading
    BY <1>3 DEF Loading
  <2> QED  BY <1>1, <1>3, <2>1, IdleState, UserMoves
<1>4. ASSUME NEW p \in CachePcs \ {"wait"}, NEW y \in CacheUserStates, user' = [user EXCEPT ![e] = y],
             y.pc = p, y.model = user[e].model, p \in Loading <=> user[e].pc \in Loading, user[e].pc # "idle"
      PROVE  LoadInv'
  BY <1>0, <1>1, <1>4, UserMoves
<1>5. CASE \E p \in {"touch", "stat", "discover"} : Goto(e, p) /\ user[e].pc \in {"look", "stat", "discover"}
  <2>1. PICK p \in {"touch", "stat", "discover"} : Goto(e, p) /\ user[e].pc \in {"look", "stat", "discover"}
    BY <1>5
  <2>2. p \in CachePcs \ {"wait"} /\ p \notin Loading /\ user[e].pc \notin Loading /\ user[e].pc # "idle"
    BY <2>1 DEF CachePcs, Loading
  <2>3. PICK y \in CacheUserStates : user' = [user EXCEPT ![e] = y] /\ y.pc = p /\ y.model = user[e].model
    BY <2>1, <2>2, GotoFacts
  <2> QED  BY <1>4, <2>2, <2>3
<1>6. CASE \E p \in {"call", "read"} : Answer(e, p) /\ user[e].pc \in {"stat", "touch"}
  <2>1. PICK p \in {"call", "read"} : Answer(e, p) /\ user[e].pc \in {"stat", "touch"}
    BY <1>6
  <2>2. /\ \A q \in {"look", p} : q \in CachePcs \ {"wait"} /\ q \notin Loading
        /\ user[e].pc \notin Loading /\ user[e].pc # "idle" /\ p \in CachePcs
    BY <2>1 DEF CachePcs, Loading
  <2>3. PICK y \in CacheUserStates : user' = [user EXCEPT ![e] = y] /\ y.pc \in {"look", p} /\ y.model = user[e].model
    BY <2>1, <2>2, AnswerFacts
  <2> QED  BY <1>4, <2>2, <2>3
<1>7. CASE \E p \in Loading : Goto(e, p) /\ user[e].pc \in Loading
  <2>1. PICK p \in Loading : Goto(e, p) /\ user[e].pc \in Loading
    BY <1>7
  <2>2. p \in CachePcs \ {"wait"} /\ user[e].pc # "idle"
    BY <2>1 DEF CachePcs, Loading
  <2>3. PICK y \in CacheUserStates : user' = [user EXCEPT ![e] = y] /\ y.pc = p /\ y.model = user[e].model
    BY <2>1, <2>2, GotoFacts
  <2> QED  BY <1>4, <2>1, <2>2, <2>3
<1>8. \/ \E p \in {"touch", "stat", "discover"} : Goto(e, p) /\ user[e].pc \in {"look", "stat", "discover"}
      \/ \E p \in {"call", "read"} : Answer(e, p) /\ user[e].pc \in {"stat", "touch"}
      \/ \E p \in Loading : Goto(e, p) /\ user[e].pc \in Loading
      \/ user' = [user EXCEPT ![e] = Idle] /\ user[e].pc \in {"read", "wait"}
      \/ \E m \in CacheModels : BeginModel(e, m)
  <2>1. LookupEntry(e) \/ DiscoverFile(e)
        => \E p \in {"touch", "stat", "discover"} : Goto(e, p) /\ user[e].pc \in {"look", "stat", "discover"}
    BY DEF LookupEntry, DiscoverFile, At
  <2>2. StatPath(e)
        => \/ \E p \in {"touch", "stat", "discover"} : Goto(e, p) /\ user[e].pc \in {"look", "stat", "discover"}
           \/ \E p \in {"call", "read"} : Answer(e, p) /\ user[e].pc \in {"stat", "touch"}
    BY DEF StatPath, At
  <2>3. TouchManifest(e) => \E p \in {"call", "read"} : Answer(e, p) /\ user[e].pc \in {"stat", "touch"}
    BY DEF TouchManifest, At
  <2>4. BeginLoad(e) \/ copyCheckpoint(e) \/ readCheckpoint(e) \/ writeCheckpointManifest(e)
        => \E p \in Loading : Goto(e, p) /\ user[e].pc \in Loading
    BY DEF BeginLoad, copyCheckpoint, readCheckpoint, writeCheckpointManifest, At, Loading
  <2>5. InsertEntry(e) \/ EvictionFails(e) => \E p \in Loading : Goto(e, p) /\ user[e].pc \in Loading
    BY DEF InsertEntry, EvictionFails, At, Loading
  <2>6. ReadHit(e) \/ WaitCancelled(e) => user' = [user EXCEPT ![e] = Idle] /\ user[e].pc \in {"read", "wait"}
    BY DEF ReadHit, WaitCancelled, At
  <2> QED  BY <2>1, <2>2, <2>3, <2>4, <2>5, <2>6 DEF CacheStep
<1> QED  BY <1>2, <1>3, <1>5, <1>6, <1>7, <1>8

\* A load is taken, or joined.
LEMMA LoadTaken ==
    ASSUME LoadInv, NEW e \in CacheUsers, loadCallForKey(e)
    PROVE  LoadInv'
<1> DEFINE k == user[e].model
<1>0. user[e] \in CacheUserStates /\ user[e].pc = "call" /\ k \in CacheModels /\ user[e].pc \notin Loading
  BY DEF LoadInv, loadCallForKey, At, Loading
<1>1. CASE inflight[k] # 0 /\ Goto(e, "wait") /\ inflight' = inflight
  <2>1. "wait" \in CachePcs /\ "wait" \notin Loading
    BY DEF CachePcs, Loading
  <2>2. PICK y \in CacheUserStates : user' = [user EXCEPT ![e] = y] /\ y.pc = "wait" /\ y.model = user[e].model
    BY <1>1, <2>1, GotoFacts
  <2> QED  BY <1>0, <1>1, <2>1, <2>2, UserMoves
<1>2. CASE inflight[k] = 0 /\ inflight' = [inflight EXCEPT ![k] = e] /\ Goto(e, "load")
  <2>1. "load" \in CachePcs /\ "load" \in Loading
    BY DEF CachePcs, Loading
  <2>2. PICK y \in CacheUserStates : user' = [user EXCEPT ![e] = y] /\ y.pc = "load" /\ y.model = k
    BY <1>2, <2>1, GotoFacts
  <2>3. user' \in [CacheUsers -> CacheUserStates] /\ user'[e] = y /\ \A x \in CacheUsers : x # e => user'[x] = user[x]
    BY <2>2 DEF LoadInv
  <2>4. /\ inflight' \in [CacheModels -> CacheUsers \cup {0}] /\ inflight'[k] = e
        /\ \A m \in CacheModels : m # k => inflight'[m] = inflight[m]
    BY <1>0, <1>2 DEF LoadInv
  <2>5. \A x \in CacheUsers : user'[x].pc # "idle" => user'[x].model \in CacheModels
    BY <1>0, <2>2, <2>3 DEF LoadInv
  <2>6. ASSUME NEW x \in CacheUsers, user'[x].pc \in Loading PROVE inflight'[user'[x].model] = x
    <3>1. CASE x = e
      BY <2>2, <2>3, <2>4, <3>1
    <3>2. CASE x # e
      <4>1. user'[x] = user[x] /\ user[x].pc # "idle" /\ user[x].model \in CacheModels /\ inflight[user[x].model] = x
        BY <2>3, <2>6, <3>2 DEF LoadInv, Loading
      <4>2. user[x].model # k
        BY <1>2, <4>1, NoZeroUser
      <4> QED  BY <2>4, <4>1, <4>2
    <3> QED  BY <3>1, <3>2
  <2>7. ASSUME NEW x \in CacheUsers, user'[x].pc = "wait" PROVE inflight'[user'[x].model] # 0
    <3>1. x # e
      BY <2>2, <2>3, <2>7
    <3>2. user'[x] = user[x] /\ user[x].model \in CacheModels /\ inflight[user[x].model] # 0
      BY <2>3, <2>7, <3>1 DEF LoadInv
    <3> QED  BY <2>4, <3>2, NoZeroUser
  <2>8. ASSUME NEW m \in CacheModels, inflight'[m] # 0
        PROVE  user'[inflight'[m]].pc \in Loading /\ user'[inflight'[m]].model = m
    <3>1. CASE m = k
      BY <2>1, <2>2, <2>3, <2>4, <3>1
    <3>2. CASE m # k
      <4>1. inflight'[m] = inflight[m] /\ inflight[m] \in CacheUsers /\ user[inflight[m]].pc \in Loading
            /\ user[inflight[m]].model = m
        BY <2>4, <2>8, <3>2 DEF LoadInv
      <4>2. inflight[m] # e
        BY <1>0, <4>1
      <4> QED  BY <2>3, <4>1, <4>2
    <3> QED  BY <3>1, <3>2
  <2> QED  BY <2>3, <2>4, <2>5, <2>6, <2>7, <2>8 DEF LoadInv
<1> QED  BY <1>1, <1>2 DEF loadCallForKey, Model

\* A load ends: its waiters return or look again.
LEMMA LoadFinished ==
    ASSUME LoadInv, NEW e \in CacheUsers, finishLoadCall(e)
    PROVE  LoadInv'
<1> DEFINE k == user[e].model
<1>0. user[e] \in CacheUserStates /\ user[e].pc \in {"loaded", "failed"} /\ k \in CacheModels
  BY DEF LoadInv, finishLoadCall, At
<1>1. inflight[k] = e
  BY <1>0 DEF LoadInv, Loading
<1>2. /\ inflight' \in [CacheModels -> CacheUsers \cup {0}] /\ inflight'[k] = 0
      /\ \A m \in CacheModels : m # k => inflight'[m] = inflight[m]
  BY <1>0 DEF LoadInv, finishLoadCall, Model
<1>3. /\ user' = [x \in CacheUsers |-> user'[x]] /\ user'[e] = Idle
      /\ \A x \in CacheUsers \ {e} : user[x].pc = "wait" /\ user[x].model = k
                                   => user'[x] = Idle \/ user'[x] = [user[x] EXCEPT !.pc = "look"]
      /\ \A x \in CacheUsers \ {e} : ~(user[x].pc = "wait" /\ user[x].model = k) => user'[x] = user[x]
  <2> DEFINE U(x) == CASE x = e -> Idle
                       [] x # e /\ At(x, "wait") /\ Model(x) = Model(e) ->
                            IF At(e, "failed") THEN Idle ELSE [user[x] EXCEPT !.pc = "look"]
                       [] OTHER -> user[x]
  <2>1. user' = [x \in CacheUsers |-> U(x)]
    BY DEF finishLoadCall
  <2>2. U(e) = Idle
    OBVIOUS
  <2>3. ASSUME NEW x \in CacheUsers \ {e}, user[x].pc = "wait" /\ user[x].model = k
        PROVE  U(x) = Idle \/ U(x) = [user[x] EXCEPT !.pc = "look"]
    BY <2>3 DEF At, Model
  <2>4. ASSUME NEW x \in CacheUsers \ {e}, ~(user[x].pc = "wait" /\ user[x].model = k) PROVE U(x) = user[x]
    BY <2>4 DEF At, Model
  <2> HIDE DEF U
  <2> QED  BY <2>1, <2>2, <2>3, <2>4
<1>4. ASSUME NEW x \in CacheUsers
      PROVE  /\ user'[x] \in CacheUserStates
             /\ user'[x] = Idle \/ user'[x] = user[x] \/ (user'[x].pc = "look" /\ user'[x].model = user[x].model
                                                         /\ user[x].pc = "wait")
  <2>1. user[x] \in CacheUserStates
    BY DEF LoadInv
  <2>2. [user[x] EXCEPT !.pc = "look"] \in CacheUserStates
    BY <2>1 DEF CacheUserStates, CachePcs
  <2>3. [user[x] EXCEPT !.pc = "look"].pc = "look" /\ [user[x] EXCEPT !.pc = "look"].model = user[x].model
    BY <2>1 DEF CacheUserStates
  <2> QED  BY <1>3, <2>1, <2>2, <2>3, IdleState
<1>5. user' \in [CacheUsers -> CacheUserStates]
  BY <1>3, <1>4
<1>6. "look" \notin Loading /\ "wait" \notin Loading /\ "idle" \notin Loading
  BY DEF Loading
<1>7. \A x \in CacheUsers : user'[x].pc # "idle" => user'[x].model \in CacheModels
  BY <1>4, IdleState DEF LoadInv
<1>8. ASSUME NEW x \in CacheUsers, user'[x].pc \in Loading PROVE inflight'[user'[x].model] = x
  <2>1. user'[x] = user[x] /\ x # e
    BY <1>3, <1>4, <1>6, <1>8, IdleState
  <2>2. user[x].pc # "idle" /\ user[x].model \in CacheModels /\ inflight[user[x].model] = x
    BY <1>6, <1>8, <2>1 DEF LoadInv
  <2> QED  BY <1>1, <1>2, <2>1, <2>2
<1>9. ASSUME NEW x \in CacheUsers, user'[x].pc = "wait" PROVE inflight'[user'[x].model] # 0
  <2>1. user'[x] = user[x] /\ x # e
    BY <1>3, <1>4, <1>9, IdleState
  <2>2. user[x].model # k
    <3>1. user[x].pc = "wait"
      BY <1>9, <2>1
    <3>2. CASE user[x].model = k
      <4>1. user'[x] = Idle \/ user'[x] = [user[x] EXCEPT !.pc = "look"]
        BY <1>3, <2>1, <3>1, <3>2
      <4>2. user[x] \in CacheUserStates
        BY DEF LoadInv
      <4>3. [user[x] EXCEPT !.pc = "look"].pc = "look"
        BY <4>2 DEF CacheUserStates
      <4> QED  BY <1>9, <4>1, <4>3, IdleState
    <3> QED  BY <3>2
  <2>3. user[x].model \in CacheModels /\ inflight[user[x].model] # 0
    BY <1>9, <2>1 DEF LoadInv
  <2> QED  BY <1>2, <2>1, <2>2, <2>3
<1>10. ASSUME NEW m \in CacheModels, inflight'[m] # 0
       PROVE  user'[inflight'[m]].pc \in Loading /\ user'[inflight'[m]].model = m
  <2>1. m # k /\ inflight'[m] = inflight[m]
    BY <1>2, <1>10
  <2>2. inflight[m] \in CacheUsers /\ user[inflight[m]].pc \in Loading /\ user[inflight[m]].model = m
    BY <1>10, <2>1 DEF LoadInv
  <2>3. inflight[m] # e
    BY <2>1, <2>2
  <2>4. user'[inflight[m]] = user[inflight[m]]
    BY <1>3, <1>6, <2>2, <2>3
  <2> QED  BY <2>1, <2>2, <2>4
<1> QED  BY <1>2, <1>5, <1>7, <1>8, <1>9, <1>10 DEF LoadInv

\* The index of the next state is the one set.
LEMMA IndexSet ==
    ASSUME NEW i \in GoodIndex, SetIndex(i)
    PROVE  (Index \in GoodIndex)'
<1>1. Index' = [lru |-> i.lru, used |-> i.used, warm |-> i.warm]
  BY DEF Index, SetIndex
<1>2. i = [lru |-> i.lru, used |-> i.used, warm |-> i.warm]
  BY DEF GoodIndex, Indexes
<1>3. Index' \in GoodIndex
  BY <1>1, <1>2
<1> QED  BY <1>3 DEF GoodIndex, Indexes, Lists, Bytes, FoldSet, MapThenFoldSet, Range

\* Files and index through every step of an executor.
LEMMA DirKept ==
    ASSUME LoadInv, DirInv, NEW e \in CacheUsers, CacheStep(e)
    PROVE  DirInv'
<1> DEFINE k == user[e].model
<1>0. /\ ckFiles \subseteq CacheModels /\ ckManifests \subseteq CacheModels /\ Index \in GoodIndex /\ Index \in Indexes
      /\ Index.lru = lru /\ lru \in Lists
      /\ user[e].pc # "idle" => k \in CacheModels
  BY DEF DirInv, LoadInv, GoodIndex, Index, Indexes
<1>1. ASSUME UNCHANGED <<lru, usedBytes, warm>> PROVE (Index \in GoodIndex)'
  <2>1. Index' = Index
    BY <1>1 DEF Index
  <2>2. Index' \in GoodIndex
    BY <1>0, <2>1
  <2> QED  BY <2>2 DEF GoodIndex, Indexes, Lists, Bytes, FoldSet, MapThenFoldSet, Range
<1>2. CASE LookupEntry(e)
  <2>1. k \in CacheModels /\ UNCHANGED <<ckFiles, ckManifests>>
    BY <1>0, <1>2 DEF LookupEntry, At
  <2>2. CASE SetIndex(putEntryLocked(Index, k))
    <3>1. putEntryLocked(Index, k) \in GoodIndex
      BY <1>0, <2>1, PutFacts
    <3> QED  BY <1>0, <2>1, <2>2, <3>1, IndexSet DEF DirInv
  <2>3. CASE SetIndex(removeElementLocked(Index, k)) /\ k \in Entries
    <3>1. k \in Range(Index.lru)
      BY <1>0, <2>3 DEF Entries
    <3>2. removeElementLocked(Index, k) \in GoodIndex
      BY <1>0, <2>1, <3>1, RemoveFacts
    <3> QED  BY <1>0, <2>1, <2>3, <3>2, IndexSet DEF DirInv
  <2>4. CASE UNCHANGED <<lru, usedBytes, warm>>
    BY <1>0, <1>1, <2>1, <2>4 DEF DirInv
  <2> QED  BY <1>2, <2>2, <2>3, <2>4 DEF LookupEntry, Model
<1>3. CASE DiscoverFile(e)
  <2>1. k \in CacheModels /\ UNCHANGED <<ckFiles, ckManifests>> /\ SetIndex(putEntryLocked(Index, k))
    BY <1>0, <1>3 DEF DiscoverFile, At, Model
  <2>2. putEntryLocked(Index, k) \in GoodIndex
    BY <1>0, <2>1, PutFacts
  <2> QED  BY <1>0, <2>1, <2>2, IndexSet DEF DirInv
<1>4. CASE InsertEntry(e)
  <2> DEFINE gone == Victims(ModelSize[k])
  <2>1. /\ k \in CacheModels /\ SetIndex(putEntryLocked(RemoveAll(Index, gone), k))
        /\ ckFiles' \subseteq ckFiles /\ ckManifests' \subseteq ckManifests
    BY <1>0, <1>4 DEF InsertEntry, At, Model
  <2>2. gone \in Suffixes(lru)
    BY <1>0, <2>1, VictimsFacts
  <2> HIDE DEF gone
  <2>3. gone \in Lists /\ Range(gone) \subseteq Range(lru)
    BY <1>0, <2>2, SuffixFacts
  <2> DEFINE i == RemoveAll(Index, gone)
  <2>4. i \in GoodIndex
    BY <1>0, <2>3, EvictFacts
  <2> HIDE DEF i
  <2>5. putEntryLocked(i, k) \in GoodIndex
    <3>1. i \in Indexes
      BY <2>4 DEF GoodIndex
    <3> QED  BY <2>1, <2>4, <3>1, PutFacts
  <2>6. SetIndex(putEntryLocked(i, k))
    BY <2>1 DEF i
  <2> QED  BY <1>0, <2>1, <2>5, <2>6, IndexSet DEF DirInv
<1>5. CASE EvictionFails(e)
  <2>1. PICK gone \in Suffixes(lru) :
            SetIndex(RemoveAll(Index, gone)) /\ ckFiles' = ckFiles \ Range(gone) /\ ckManifests' = ckManifests \ Range(gone)
    BY <1>5 DEF EvictionFails
  <2>2. gone \in Lists /\ Range(gone) \subseteq Range(lru)
    BY <1>0, <2>1, SuffixFacts
  <2>3. RemoveAll(Index, gone) \in GoodIndex
    BY <1>0, <2>2, EvictFacts
  <2> QED  BY <1>0, <2>1, <2>3, IndexSet DEF DirInv
<1>6. CASE copyCheckpoint(e) \/ writeCheckpointManifest(e) \/ TouchManifest(e)
  <2>1. k \in CacheModels /\ UNCHANGED <<lru, usedBytes, warm>>
        /\ ckFiles' \subseteq ckFiles \cup {k} /\ ckManifests' \subseteq ckManifests \cup {k}
    BY <1>0, <1>6 DEF copyCheckpoint, writeCheckpointManifest, TouchManifest, At, Model
  <2> QED  BY <1>0, <1>1, <2>1 DEF DirInv
<1>7. CASE UNCHANGED <<ckFiles, ckManifests, lru, usedBytes, warm>>
  BY <1>0, <1>1, <1>7 DEF DirInv
<1> QED  BY <1>2, <1>3, <1>4, <1>5, <1>6, <1>7
         DEF CacheStep, BeginModel, StatPath, ReadHit, loadCallForKey, WaitCancelled, BeginLoad, readCheckpoint, finishLoadCall

\* A restart.
LEMMA CacheRestarts ==
    ASSUME DirInv, RestartCache
    PROVE  LoadInv' /\ DirInv'
<1>1. PICK s \in SetToSeqs(ckManifests \intersect ckFiles) : SetIndex(loadCheckpointManifests(s))
  BY DEF RestartCache
<1>2. s \in Seq(CacheModels)
  <2> DEFINE S == ckManifests \intersect ckFiles
  <2>1. S \in SUBSET CacheModels
    BY DEF DirInv
  <2>2. Cardinality(S) \in Nat
    BY <2>1, CacheAssumption, FS_Subset, FS_CardinalityType
  <2>3. s \in [1 .. Cardinality(S) -> S]
    BY <1>1 DEF SetToSeqs
  <2> HIDE DEF S
  <2>4. s \in [1 .. Cardinality(S) -> CacheModels]
    BY <2>1, <2>3
  <2> QED  BY <2>2, <2>4, IsASeq
<1>3. loadCheckpointManifests(s) \in GoodIndex
  BY <1>2, ReindexFacts
<1>4. DirInv'
  <2>1. UNCHANGED <<ckFiles, ckManifests>>
    BY DEF RestartCache
  <2> QED  BY <1>1, <1>3, <2>1, IndexSet DEF DirInv
<1>5. LoadInv'
  <2>1. user' = [e \in CacheUsers |-> Idle] /\ inflight' = [m \in CacheModels |-> 0]
    BY DEF RestartCache
  <2> QED  BY <2>1, IdleState DEF LoadInv
<1> QED  BY <1>4, <1>5

\* The cache is consistent under concurrent loads, evictions, file errors, timeouts and restarts.
THEOREM CacheConsistentHolds == CacheSpec => []CacheConsistent
<1>1. CacheInit => LoadInv /\ DirInv
  <2> SUFFICES ASSUME CacheInit PROVE LoadInv /\ DirInv
    OBVIOUS
  <2>1. LoadInv
    BY IdleState DEF CacheInit, LoadInv
  <2>2. Index \in GoodIndex
    <3>1. Index = [lru |-> <<>>, used |-> 0, warm |-> {}]
      BY DEF CacheInit, Index
    <3>2. Index \in Indexes /\ Index.lru = <<>> /\ Index.used = 0 /\ Index.warm = {}
      BY <3>1, EmptyList DEF Indexes
    <3>3. Bytes({}) = 0
      BY BytesSum
    <3> QED  BY <3>2, <3>3, EmptyList DEF GoodIndex
  <2> QED  BY <2>1, <2>2 DEF CacheInit, DirInv
<1>2. LoadInv /\ DirInv /\ [CacheNext]_cacheVars => LoadInv' /\ DirInv'
  <2> SUFFICES ASSUME LoadInv, DirInv, [CacheNext]_cacheVars PROVE LoadInv' /\ DirInv'
    OBVIOUS
  <2>1. CASE RestartCache
    BY <2>1, CacheRestarts
  <2>2. ASSUME NEW e \in CacheUsers, CacheStep(e) PROVE LoadInv' /\ DirInv'
    BY <2>2, LoadKept, LoadTaken, LoadFinished, DirKept
  <2>3. CASE UNCHANGED cacheVars
    <3>1. LoadInv'
      BY <2>3 DEF cacheVars, LoadInv
    <3>2. Index' = Index
      BY <2>3 DEF cacheVars, Index
    <3>3. Index' \in GoodIndex
      BY <3>2 DEF DirInv
    <3>4. (Index \in GoodIndex)'
      BY <3>3 DEF GoodIndex, Indexes, Lists, Bytes, FoldSet, MapThenFoldSet, Range
    <3> QED  BY <2>3, <3>1, <3>4 DEF cacheVars, DirInv
  <2> QED  BY <2>1, <2>2, <2>3 DEF CacheNext
<1>3. LoadInv /\ DirInv => CacheConsistent
  <2> SUFFICES ASSUME LoadInv, DirInv PROVE CacheConsistent
    OBVIOUS
  <2>1. OneCopy
    <3> SUFFICES ASSUME NEW e \in CacheUsers, NEW x \in CacheUsers, user[e].pc = "copy", user[x].pc = "copy",
                        user[e].model = user[x].model
                 PROVE  e = x
      BY DEF OneCopy, At, Model
    <3>1. "copy" \in Loading
      BY DEF Loading
    <3> QED  BY <3>1 DEF LoadInv
  <2>2. WaiterHasProducer
    <3> SUFFICES ASSUME NEW e \in CacheUsers, user[e].pc = "wait"
                 PROVE  \E x \in CacheUsers : user[x].model = user[e].model /\ user[x].pc \in Loading
                                            /\ inflight[user[e].model] = x
      BY DEF WaiterHasProducer, At, Model
    <3>1. user[e].model \in CacheModels /\ inflight[user[e].model] # 0
      BY DEF LoadInv
    <3>2. inflight[user[e].model] \in CacheUsers
      BY <3>1 DEF LoadInv
    <3> QED  BY <3>1, <3>2 DEF LoadInv
  <2>3. UsedExact /\ AdvertisedIndexed
    <3>1. Index.lru = lru /\ Index.used = usedBytes /\ Index.warm = warm
      BY DEF Index
    <3> QED  BY <3>1 DEF DirInv, GoodIndex, UsedExact, AdvertisedIndexed, Entries
  <2> QED  BY <2>1, <2>2, <2>3 DEF CacheConsistent
<1> QED  BY <1>1, <1>2, <1>3, PTL DEF CacheSpec
=============================================================================
