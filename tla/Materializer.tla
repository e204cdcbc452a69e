---------------------------- MODULE Materializer ----------------------------
(***************************************************************************)
(* Persistence of the metadata store to PostgreSQL                         *)
(* (internal/metadata/materializer.go, postgres.go).  A mutation changes   *)
(* the in-memory row and then, outside its lock, writes a snapshot of it:  *)
(* at once in sync mode, through the materializer in async mode.  The      *)
(* materializer is one goroutine that owns the pending map; producers      *)
(* reach it through a bounded channel and an overflow map.                 *)
(*                                                                         *)
(* A row is known by its revision, the number of mutations it has seen; a  *)
(* delta by the version enqueueDelta gave it.                              *)
(***************************************************************************)
EXTENDS Integers, FiniteSets, FiniteSetsExt, Sequences, SequencesExt

CONSTANTS MatKeys,       \* kind:id of rows, ordered
          WorkerRows,    \* the worker rows among them; the others are tasks of an LLM model
          MatWriters,    \* handlers that mutate metadata
          QueueSize, BatchMax,
          MatModes,      \* PostgresWriteMode
          MaxMutations   \* bound

ASSUME MatAssumption ==
    /\ MatKeys \subseteq Nat /\ IsFiniteSet(MatKeys) /\ WorkerRows \subseteq MatKeys
    /\ QueueSize \in Nat \ {0} /\ BatchMax \in Nat \ {0} /\ MatModes \subseteq {"sync", "async"}

VARIABLES
    matMode,
    mem,       \* mem[k]: revision of the in-memory row
    deltaSeq,
    writer,    \* writer[w]: step, delta, whether it created the row, whether its write
               \* succeeded and what it answered
    lastErr,   \* PostgresStore.last is an error
    matQueue,
    overflow, overflowSignal,
    pendingMap,   \* the pending map of run
    matRun,    \* what run is doing: "select", a flush of one batch or of all, "stopped"
    flushReq,  \* the caller of Flush: step, and what it had seen accepted
    matDone,   \* closed by Close
    db,        \* db[k]: version and revision of the row in PostgreSQL
    parts,     \* parts[k]: revision of its rows in the second table (llm_requests,
               \* worker_model_cache)
    accepted,  \* accepted[k]: highest version Enqueue has accepted
    written    \* written[k]: highest version a flush has written

matVars == <<matMode, mem, deltaSeq, writer, lastErr, parts, matQueue, overflow, overflowSignal, pendingMap, matRun,
             flushReq, matDone, db, accepted, written>>

None == [key |-> 0, rev |-> 0, ver |-> 0]
RestW == [pc |-> "rest", d |-> None, create |-> FALSE, wrote |-> TRUE, told |-> "none"]
Higher(a, b) == IF a > b THEN a ELSE b

-----------------------------------------------------------------------------
\* Mutant: the delta merged last wins.
mergeLast(m, d) == [m EXCEPT ![d.key] = d]

mergeDelta(m, d) == IF m[d.key].ver > d.ver THEN m ELSE [m EXCEPT ![d.key] = d]

\* All deltas of the channel, and of the overflow map, join the pending ones.
drainQueue(m) == FoldLeft(mergeDelta, m, matQueue)

drainOverflow(m) == [k \in MatKeys |-> IF overflow[k] = None THEN m[k] ELSE mergeDelta(m, overflow[k])[k]]

Keys(m) == {k \in MatKeys : m[k] # None}

\* The batch of one flush: the first keys in order, at most BatchMax.
Batch == {k \in Keys(pendingMap) : Cardinality({x \in Keys(pendingMap) : x < k}) < BatchMax}

-----------------------------------------------------------------------------
(* Handlers. *)

\* The mutations so far, which MaxMutations bounds.
Mutations == FoldFunctionOnSet(+, 0, mem, MatKeys)

\* The in-memory mutation returns a copy of the row; a worker row is read back.
MutateRow(w) ==
    /\ writer[w].pc = "rest" /\ Mutations < MaxMutations
    /\ \E k \in MatKeys \ WorkerRows :
       /\ mem' = [mem EXCEPT ![k] = @ + 1]
       /\ writer' = [writer EXCEPT ![w] = [RestW EXCEPT !.pc = IF matMode = "sync" THEN "persist" ELSE "version",
                                                        !.create = mem[k] = 0,
                                                        !.d = [key |-> k, rev |-> mem[k] + 1, ver |-> 0]]]
    /\ UNCHANGED <<matMode, deltaSeq, lastErr, parts, matQueue, overflow, overflowSignal, pendingMap, matRun,
                   flushReq, matDone, db, accepted, written>>

\* UpsertWorker, IncrementWorkerLoad and DecrementWorkerLoad change the worker ...
MutateWorker(w) ==
    /\ writer[w].pc = "rest" /\ Mutations < MaxMutations
    /\ \E k \in WorkerRows :
       /\ mem' = [mem EXCEPT ![k] = @ + 1]
       /\ writer' = [writer EXCEPT ![w] = [RestW EXCEPT !.pc = "read", !.create = TRUE,
                                                        !.d = [key |-> k, rev |-> 0, ver |-> 0]]]
    /\ UNCHANGED <<matMode, deltaSeq, lastErr, parts, matQueue, overflow, overflowSignal, pendingMap, matRun,
                   flushReq, matDone, db, accepted, written>>

\* ... and read it again for the write.
ReadWorker(w) ==
    /\ writer[w].pc = "read"
    /\ writer' = [writer EXCEPT ![w].pc = IF matMode = "sync" THEN "persist" ELSE "version",
                                ![w].d = [writer[w].d EXCEPT !.rev = mem[writer[w].d.key]]]
    /\ UNCHANGED <<matMode, mem, deltaSeq, lastErr, parts, matQueue, overflow, overflowSignal, pendingMap,
                   matRun, flushReq, matDone, db, accepted, written>>

\* The write of a handler ends: recordPersist remembers the outcome for the whole
\* store.  A create asks for it later (metadataPersisted); an update returns its own.
Recorded(w, ok) ==
    /\ lastErr' = ~ok
    /\ writer' = [writer EXCEPT ![w].wrote = ok, ![w].pc = IF writer[w].create THEN "confirm" ELSE "rest",
                                ![w].told = IF writer[w].create THEN "none" ELSE IF ok THEN "ok" ELSE "error"]

\* Sync mode: the UPSERT of a task, a statement of its own.
persistTask(w) ==
    /\ writer[w].pc = "persist" /\ writer[w].d.key \notin WorkerRows
    /\ \/ /\ db' = [db EXCEPT ![writer[w].d.key] = writer[w].d]
          /\ writer' = [writer EXCEPT ![w].pc = "mirror"]
          /\ UNCHANGED lastErr
       \/ Recorded(w, FALSE) /\ UNCHANGED db
    /\ UNCHANGED <<matMode, mem, deltaSeq, parts, matQueue, overflow, overflowSignal, pendingMap, matRun,
                   flushReq, matDone, accepted, written>>

\* The second statement mirrors the model into llm_requests.
persistMirror(w) ==
    /\ writer[w].pc = "mirror"
    /\ \/ parts' = [parts EXCEPT ![writer[w].d.key] = writer[w].d.rev] /\ Recorded(w, TRUE)
       \/ Recorded(w, FALSE) /\ UNCHANGED parts
    /\ UNCHANGED <<matMode, mem, deltaSeq, matQueue, overflow, overflowSignal, pendingMap, matRun,
                   flushReq, matDone, db, accepted, written>>

\* A worker and its cache rows are one transaction, like a workflow and its steps.
persistWorker(w) ==
    /\ writer[w].pc = "persist" /\ writer[w].d.key \in WorkerRows
    /\ \/ /\ db' = [db EXCEPT ![writer[w].d.key] = writer[w].d]
          /\ parts' = [parts EXCEPT ![writer[w].d.key] = writer[w].d.rev]
          /\ Recorded(w, TRUE)
       \/ Recorded(w, FALSE) /\ UNCHANGED <<db, parts>>
    /\ UNCHANGED <<matMode, mem, deltaSeq, matQueue, overflow, overflowSignal, pendingMap, matRun,
                   flushReq, matDone, accepted, written>>

\* The handler answers by the store's last error.
metadataPersisted(w) ==
    /\ writer[w].pc = "confirm"
    /\ writer' = [writer EXCEPT ![w].pc = "rest", ![w].told = IF lastErr THEN "error" ELSE "ok"]
    /\ UNCHANGED <<matMode, mem, deltaSeq, lastErr, parts, matQueue, overflow, overflowSignal, pendingMap,
                   matRun, flushReq, matDone, db, accepted, written>>

enqueueDelta(w) ==
    /\ writer[w].pc = "version"
    /\ deltaSeq' = deltaSeq + 1
    /\ writer' = [writer EXCEPT ![w].pc = "enqueue", ![w].d = [writer[w].d EXCEPT !.ver = deltaSeq + 1]]
    /\ UNCHANGED <<matMode, mem, lastErr, parts, matQueue, overflow, overflowSignal, pendingMap, matRun,
                   flushReq, matDone, db, accepted, written>>

\* Enqueue: refused once Close was called; a full channel diverts to the overflow map.
Enqueue(w) ==
    /\ writer[w].pc = "enqueue"
    /\ LET d == writer[w].d IN
       IF matDone THEN lastErr' = TRUE /\ UNCHANGED <<matQueue, overflow, overflowSignal, accepted>>
       ELSE /\ UNCHANGED lastErr
            /\ accepted' = [accepted EXCEPT ![d.key] = Higher(@, d.ver)]
            /\ IF Len(matQueue) < QueueSize
               THEN matQueue' = Append(matQueue, d) /\ UNCHANGED <<overflow, overflowSignal>>
               ELSE overflow' = mergeDelta(overflow, d) /\ overflowSignal' = TRUE /\ UNCHANGED matQueue
    /\ writer' = [writer EXCEPT ![w] = RestW]
    /\ UNCHANGED <<matMode, mem, deltaSeq, parts, pendingMap, matRun, flushReq, matDone, db, written>>

-----------------------------------------------------------------------------
(* The run goroutine. *)

Absorb ==
    /\ pendingMap' = drainOverflow(drainQueue(pendingMap))
    /\ matQueue' = <<>>
    /\ overflow' = [k \in MatKeys |-> None]

\* A delta or the overflow signal wakes the goroutine; a batch is flushed once it is
\* full.  The overflow signal alone leaves the channel to the next iteration.
Wake ==
    /\ matRun = "select"
    /\ \/ matQueue # <<>> /\ Absorb /\ UNCHANGED overflowSignal
       \/ /\ overflowSignal
          /\ pendingMap' = drainOverflow(pendingMap)
          /\ overflow' = [k \in MatKeys |-> None]
          /\ overflowSignal' = FALSE
          /\ UNCHANGED matQueue
    /\ matRun' = IF Cardinality(Keys(pendingMap')) >= BatchMax THEN "batch" ELSE "select"
    /\ UNCHANGED <<matMode, mem, deltaSeq, writer, lastErr, parts, flushReq, matDone, db, accepted, written>>

\* Ticker, Flush and Close drain everything visible and flush all of it.
DrainAll(goal) == Absorb /\ matRun' = goal

Tick ==
    /\ matRun = "select" /\ DrainAll("all")
    /\ UNCHANGED <<matMode, mem, deltaSeq, writer, lastErr, parts, overflowSignal, flushReq, matDone, db, accepted, written>>

ServeFlush ==
    /\ matRun = "select" /\ flushReq.pc = "asked" /\ DrainAll("reply")
    /\ flushReq' = [pc |-> "waiting", seen |-> accepted]
    /\ UNCHANGED <<matMode, mem, deltaSeq, writer, lastErr, parts, overflowSignal, matDone, db, accepted, written>>

ServeClose ==
    /\ matRun = "select" /\ matDone /\ DrainAll("closing")
    /\ UNCHANGED <<matMode, mem, deltaSeq, writer, lastErr, parts, overflowSignal, flushReq, matDone, db, accepted, written>>

\* What run does after its flush ended with or without an error.
Ended(ok) ==
    /\ matRun' = IF matRun = "closing" THEN "stopped" ELSE "select"
    /\ flushReq' = IF matRun = "reply" THEN [flushReq EXCEPT !.pc = IF ok THEN "done" ELSE "failed"] ELSE flushReq

\* flushPending: persistDeltas writes the batch in one transaction.
FlushBatch ==
    /\ matRun \in {"batch", "all", "reply", "closing"} /\ Keys(pendingMap) # {}
    /\ db' = [k \in MatKeys |-> IF k \in Batch THEN pendingMap[k] ELSE db[k]]
    /\ parts' = [k \in MatKeys |-> IF k \in Batch THEN pendingMap[k].rev ELSE parts[k]]
    /\ lastErr' = FALSE
    /\ written' = [k \in MatKeys |-> IF k \in Batch THEN Higher(written[k], pendingMap[k].ver) ELSE written[k]]
    /\ pendingMap' = [k \in MatKeys |-> IF k \in Batch THEN None ELSE pendingMap[k]]
    /\ IF matRun = "batch" THEN Ended(TRUE) ELSE UNCHANGED <<matRun, flushReq>>
    /\ UNCHANGED <<matMode, mem, deltaSeq, writer, matQueue, overflow, overflowSignal, matDone, accepted>>

\* The transaction fails: nothing is written, the keys stay pending.
FlushFails ==
    /\ matRun \in {"batch", "all", "reply", "closing"} /\ Keys(pendingMap) # {}
    /\ Ended(FALSE) /\ lastErr' = TRUE
    /\ UNCHANGED <<matMode, mem, deltaSeq, writer, parts, matQueue, overflow, overflowSignal, pendingMap, matDone,
                   db, accepted, written>>

\* flushAllPending returns nil on an empty map.
FlushedAll ==
    /\ matRun \in {"all", "reply", "closing"} /\ Keys(pendingMap) = {}
    /\ Ended(TRUE)
    /\ UNCHANGED <<matMode, mem, deltaSeq, writer, lastErr, parts, matQueue, overflow, overflowSignal, pendingMap, matDone,
                   db, accepted, written>>

\* Callers of Flush and Close.
CallFlush ==
    /\ matMode = "async" /\ flushReq.pc \in {"rest", "done", "failed"}
    /\ flushReq' = [pc |-> "asked", seen |-> accepted]
    /\ UNCHANGED <<matMode, mem, deltaSeq, writer, lastErr, parts, matQueue, overflow, overflowSignal, pendingMap, matRun,
                   matDone, db, accepted, written>>

CallClose ==
    /\ matMode = "async" /\ ~matDone
    /\ matDone' = TRUE
    /\ UNCHANGED <<matMode, mem, deltaSeq, writer, lastErr, parts, matQueue, overflow, overflowSignal, pendingMap, matRun,
                   flushReq, db, accepted, written>>

MatInit ==
    /\ matMode \in MatModes
    /\ mem = [k \in MatKeys |-> 0] /\ deltaSeq = 0
    /\ writer = [w \in MatWriters |-> RestW] /\ lastErr = FALSE
    /\ parts = [k \in MatKeys |-> 0]
    /\ matQueue = <<>> /\ overflow = [k \in MatKeys |-> None] /\ overflowSignal = FALSE
    /\ pendingMap = [k \in MatKeys |-> None]
    /\ matRun = IF matMode = "async" THEN "select" ELSE "stopped"
    /\ flushReq = [pc |-> "rest", seen |-> [k \in MatKeys |-> 0]] /\ matDone = FALSE
    /\ db = [k \in MatKeys |-> None]
    /\ accepted = [k \in MatKeys |-> 0] /\ written = [k \in MatKeys |-> 0]

MatNext ==
    \/ \E w \in MatWriters : \/ MutateRow(w) \/ MutateWorker(w) \/ ReadWorker(w)
                            \/ persistTask(w) \/ persistMirror(w) \/ persistWorker(w) \/ metadataPersisted(w)
                            \/ enqueueDelta(w) \/ Enqueue(w)
    \/ Wake \/ Tick \/ ServeFlush \/ ServeClose \/ FlushBatch \/ FlushFails \/ FlushedAll
    \/ CallFlush \/ CallClose

MatSpec == MatInit /\ [][MatNext]_matVars

-----------------------------------------------------------------------------
\* The newest version of a row that Enqueue has accepted is on its way or has been
\* written, through channel, overflow map, pending map, failed transactions and
\* the bounded batches (mergeDelta, flushPending).
NewestKept ==
    matRun # "stopped" => \A k \in MatKeys :
        \/ written[k] >= accepted[k]
        \/ \E i \in DOMAIN matQueue : matQueue[i].key = k /\ matQueue[i].ver = accepted[k]
        \/ overflow[k].ver = accepted[k] \/ pendingMap[k].ver = accepted[k]

\* A Flush that returns nil has written everything accepted before it was called:
\* "waits until all currently visible queued, overflow, and pending deltas have
\* been persisted" (Flush).
FlushDurable ==
    flushReq.pc = "done" => \A k \in MatKeys : written[k] >= flushReq.seen[k]

\* A row and its rows in the second table are of one revision, whatever statement
\* failed, except for an LLM task written in sync mode, which has no transaction
\* (persistWorker, persistDeltas).
RowWhole ==
    \A k \in MatKeys : k \in WorkerRows \/ matMode = "async" => parts[k] = db[k].rev

\* What the store accepted reaches PostgreSQL: the newest version of each row is not
\* lost, a Flush answers for what it saw, and rows are written whole.
RowsPersisted == NewestKept /\ FlushDurable /\ RowWhole
=============================================================================
