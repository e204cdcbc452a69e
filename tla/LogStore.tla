------------------------------- MODULE LogStore -------------------------------
(***************************************************************************)
(* The durable log of logd (internal/logstore): segment files, their index *)
(* files, the retention file, the compaction manifest, and the in-memory   *)
(* index and idempotency map that Open rebuilds from them.                 *)
(*                                                                         *)
(* Append, Trim and Compact run under Store.mu.  They are split into steps *)
(* where a crash leaves different files behind, or where a reader, which   *)
(* opens segments without the lock, can see the difference.                *)
(*                                                                         *)
(* Simplifications: a record is one unit long, so an offset is a position; *)
(* an index file is the number of records it lists; FsyncPolicy is         *)
(* "always" and a crash loses no write that returned; removing the two     *)
(* files of a segment is one step, because a manifest that removes a       *)
(* segment removes what is left of it again.                               *)
(***************************************************************************)
EXTENDS Naturals, FiniteSets, SequencesExt

CONSTANTS Streams, Keys, NoKey,
          Torn,         \* a record that was not written to its end
          SegCap,       \* records that fit in a segment (SegmentSizeBytes)
          CopyPartial,  \* CompactionOptions.CopyPartialSegments
          Readers,      \* concurrent ReadRawEach calls
          Batch,        \* rawReadBatchEntries
          MaxSeg,       \* bound: segment ids
          MaxAppends,   \* bound: records appended
          MaxStops,     \* bound: crashes and closes
          FaultKinds,   \* kinds of failure that happen: "sync", "write", "trim", "copy"
          MaxFaults     \* bound: failed file operations, cancelled compactions

ASSUME LogAssumption ==
    /\ NoKey \notin Keys \cup Streams /\ CopyPartial \in BOOLEAN
    /\ SegCap \in Nat \ {0} /\ Batch \in Nat \ {0}
    /\ MaxSeg \in Nat \ {0} /\ MaxAppends \in Nat /\ MaxStops \in Nat /\ MaxFaults \in Nat

VARIABLES
    \* the directory
    logs,     \* logs[g]: the records of segment file g; its domain is the .log files
    idx,      \* idx[g]: how many records .index file g lists
    tmpLog,   \* tmpLog[g]: the records of a .log.compact.tmp file
    tmpIdx,   \* ids of the .index.compact.tmp files
    ret,      \* retention.json
    manifest, \* the compaction manifest: segments to delete, segments copied
    \* the Store
    active, size,  \* activeSegmentID, activeSegmentBytes
    entries,  \* the entries of all streams
    next, trim,    \* nextSeq and trimBefore of each stream
    idem,     \* the idempotency map: the record of each stream and key
    pc,       \* what the holder of mu does; "idle": mu is free
    pend,     \* the record that an Append in progress writes
    todo,     \* copies that a Compact or an Open in progress has still to make
    rd,       \* the ReadRawEach calls
    \* history and bounds
    acked,    \* records whose Append returned
    sent, stops, faults

disk == <<logs, idx, tmpLog, tmpIdx, ret, manifest>>
mem == <<active, size, entries, next, trim, idem>>
bounds == <<sent, stops, faults>>
vars == <<disk, mem, pc, pend, todo, rd, acked, bounds>>

-----------------------------------------------------------------------------
Segs == 1 .. MaxSeg
Records == [stream : Streams, seq : Nat, key : Keys \cup {NoKey}, id : Nat]
ASSUME TornAssumption == Torn \notin Records

Entries == [stream : Streams, seq : Nat, seg : Segs, pos : Nat]
Copies == [old : Segs, new : Segs]
NoRecord == [stream |-> NoKey, seq |-> 0, key |-> NoKey, id |-> 0]
NoFiles == [g \in {} |-> <<>>]

Without(f, S) == Restrict(f, DOMAIN f \ S)
With(f, g, v) == [h \in DOMAIN f \cup {g} |-> IF h = g THEN v ELSE f[h]]

\* Recovery reads a segment up to the first record it cannot read.
Readable(q) ==
    LET torn == {i \in DOMAIN q : q[i] = Torn}
    IN  IF torn = {} THEN q ELSE SubSeq(q, 1, Min(torn) - 1)

EntriesOf(lg) ==
    UNION {{[stream |-> lg[g][i].stream, seq |-> lg[g][i].seq, seg |-> g, pos |-> i] :
            i \in DOMAIN lg[g]} : g \in DOMAIN lg}

\* rebuildIdempotencyLocked and recovery visit records in physical order and
\* keep the last one of each key.
After(e, f) == e.seg > f.seg \/ (e.seg = f.seg /\ e.pos > f.pos)

IdemOf(ents, lg) ==
    {lg[e.seg][e.pos] : e \in
        {e \in ents :
            LET r == lg[e.seg][e.pos]
            IN  /\ r.key # NoKey
                /\ \A f \in ents : LET q == lg[f.seg][f.pos]
                                   IN  q.stream = r.stream /\ q.key = r.key => ~After(f, e)}}

\* The number of records the index of segment g lists when it is flushed.
Listed(g) == Cardinality({e \in entries : e.seg = g})

Live(e) == e.seq >= trim[e.stream]

Busy(g) == \E r \in Readers : rd[r].seg = g

IdleReader == [pc |-> "start", stream |-> NoRecord.stream, lo |-> 0, from |-> 1, to |-> 0,
               todo |-> {}, seg |-> 0, fd |-> <<>>, out |-> <<>>]

\* A Store that is not open.
Closed ==
    /\ active' = 0 /\ size' = 0 /\ entries' = {} /\ idem' = {}
    /\ next' = [s \in Streams |-> 1]
    /\ trim' = [s \in Streams |-> 0]
    /\ pend' = NoRecord
    /\ todo' = {}
    /\ rd' = [r \in Readers |-> IdleReader]

\* An empty directory.
Init ==
    /\ logs = NoFiles /\ idx = NoFiles /\ tmpLog = NoFiles /\ tmpIdx = {}
    /\ ret = [s \in Streams |-> 0]
    /\ manifest = [del |-> {}, copies |-> {}]
    /\ active = 0 /\ size = 0 /\ entries = {} /\ idem = {}
    /\ next = [s \in Streams |-> 1]
    /\ trim = [s \in Streams |-> 0]
    /\ pc = "down" /\ pend = NoRecord /\ todo = {}
    /\ rd = [r \in Readers |-> IdleReader]
    /\ acked = {} /\ sent = 0 /\ stops = 0 /\ faults = 0

-----------------------------------------------------------------------------
\* Append.

Known(s, k) == {r \in idem : r.stream = s /\ r.key = k}

AppendDuplicate(s, k) ==
    /\ pc = "idle"
    /\ Known(s, k) # {}
    /\ acked' = acked \cup Known(s, k)
    /\ UNCHANGED <<disk, mem, pc, pend, todo, rd, bounds>>

\* The record gets the next number; a full segment is rolled first.
AppendStart(s, k) ==
    /\ pc = "idle"
    /\ sent < MaxAppends
    /\ k = NoKey \/ Known(s, k) = {}
    /\ sent' = sent + 1
    /\ pend' = [stream |-> s, seq |-> next[s], key |-> k, id |-> sent + 1]
    /\ pc' = IF size > 0 /\ size + 1 > SegCap THEN "roll" ELSE "write"
    /\ UNCHANGED <<disk, mem, todo, rd, acked, stops, faults>>

\* The index of the full segment is flushed, the next log file is created.
AppendRoll ==
    /\ pc = "roll"
    /\ active < MaxSeg
    /\ idx' = With(idx, active, Listed(active))
    /\ active' = active + 1
    /\ logs' = IF active' \in DOMAIN logs THEN logs ELSE With(logs, active', <<>>)
    /\ size' = Len(logs'[active'])
    /\ pc' = "rollIndex"
    /\ UNCHANGED <<tmpLog, tmpIdx, ret, manifest, entries, next, trim, idem, pend, todo, rd, acked, bounds>>

AppendRollIndex ==
    /\ pc = "rollIndex"
    /\ idx' = IF active \in DOMAIN idx THEN idx ELSE With(idx, active, 0)
    /\ pc' = "write"
    /\ UNCHANGED <<logs, tmpLog, tmpIdx, ret, manifest, mem, pend, todo, rd, acked, bounds>>

AppendWrite ==
    /\ pc = "write"
    /\ \/ /\ logs' = [logs EXCEPT ![active] = Append(@, pend)]
          /\ pc' = "written"
       \/ /\ logs' = [logs EXCEPT ![active] = Append(@, Torn)]
          /\ pc' = "torn"
    /\ UNCHANGED <<idx, tmpLog, tmpIdx, ret, manifest, mem, pend, todo, rd, acked, bounds>>

\* After the sync.  The entry's offset is where the Store thinks the file ended.
AppendCommit ==
    /\ pc = "written"
    /\ size' = size + 1
    /\ entries' = entries \cup
          {[stream |-> pend.stream, seq |-> pend.seq, seg |-> active, pos |-> size + 1]}
    /\ next' = [next EXCEPT ![pend.stream] = pend.seq + 1]
    /\ idem' = IF pend.key = NoKey THEN idem ELSE idem \cup {pend}
    /\ acked' = acked \cup {pend}
    /\ pend' = NoRecord
    /\ pc' = "idle"
    /\ UNCHANGED <<disk, active, trim, todo, rd, bounds>>

-----------------------------------------------------------------------------
\* Trim: the watermark moves in memory, then retention.json is replaced.
Trim(s) ==
    /\ pc = "idle"
    /\ next[s] > 1
    /\ \E b \in 1 .. next[s] :
          /\ b > trim[s]
          /\ trim' = [trim EXCEPT ![s] = b]
          /\ ret' = trim'
    /\ UNCHANGED <<logs, idx, tmpLog, tmpIdx, manifest, active, size, entries, next, idem,
                   pc, pend, todo, rd, acked, bounds>>

-----------------------------------------------------------------------------
\* Compact.

Total(g) == {e \in entries : e.seg = g}
LiveIn(g) == {e \in Total(g) : Live(e)}
Candidates == {g \in {e.seg : e \in entries} : g # active /\ ~Busy(g)}
\* Mutant: a segment with a trimmed record is deleted.
FullyTrimmedAny == {g \in Candidates : LiveIn(g) # Total(g)}

FullyTrimmed == {g \in Candidates : LiveIn(g) = {}}

\* Sparse segments: the default CopyLiveRatioThreshold is one half.
Sparse ==
    {g \in Candidates : /\ CopyPartial
                        /\ LiveIn(g) # {}
                        /\ LiveIn(g) # Total(g)
                        /\ 2 * Cardinality(LiveIn(g)) <= Cardinality(Total(g))}

PlannedCopies ==
    {[old |-> g, new |-> Max(DOMAIN logs) + Cardinality({h \in Sparse : h <= g})] : g \in Sparse}

\* The copy whose turn it is: plans are in the order of the old segments.
Turn == CHOOSE c \in todo : \A d \in todo : c.old <= d.old

Olds == {c.old : c \in manifest.copies}
News == {c.new : c \in manifest.copies}

\* The manifest is written before any file goes or comes.
CompactPlan ==
    /\ pc = "idle"
    /\ FullyTrimmed \cup Sparse # {}
    /\ Sparse # {} => Max(DOMAIN logs) + Cardinality(Sparse) < MaxSeg
    /\ manifest' = [del |-> FullyTrimmed, copies |-> PlannedCopies]
    /\ todo' = PlannedCopies
    /\ pc' = "delete"
    /\ UNCHANGED <<logs, idx, tmpLog, tmpIdx, ret, mem, pend, rd, acked, bounds>>

RemoveSegments(S) ==
    /\ logs' = Without(logs, S)
    /\ idx' = Without(idx, S)

CompactDelete ==
    /\ pc = "delete"
    /\ \E g \in manifest.del \cap DOMAIN logs :
          /\ \A h \in manifest.del \cap DOMAIN logs : g <= h
          /\ RemoveSegments({g})
    /\ UNCHANGED <<tmpLog, tmpIdx, ret, manifest, mem, pc, pend, todo, rd, acked, bounds>>

\* applyCompactionIndexChangesLocked, rebuildIdempotencyLocked
CompactDeleted ==
    /\ pc = "delete"
    /\ manifest.del \cap DOMAIN logs = {}
    /\ entries' = {e \in entries : e.seg \notin manifest.del}
    /\ idem' = IdemOf(entries', logs)
    /\ pc' = IF todo = {} THEN "idle" ELSE "copy"
    /\ UNCHANGED <<disk, active, size, next, trim, pend, todo, rd, acked, bounds>>

CompactCopy ==
    /\ pc = "copy"
    /\ \E live \in SetToSeqs(LiveIn(Turn.old)) :
          /\ \A i, j \in DOMAIN live : i < j => live[i].pos < live[j].pos
          /\ tmpLog' = With(tmpLog, Turn.new, [i \in DOMAIN live |-> logs[Turn.old][live[i].pos]])
    /\ pc' = "copyIndex"
    /\ UNCHANGED <<logs, idx, tmpIdx, ret, manifest, mem, pend, todo, rd, acked, bounds>>

CompactCopyIndex ==
    /\ pc = "copyIndex"
    /\ tmpIdx' = tmpIdx \cup {Turn.new}
    /\ pc' = "renameLog"
    /\ UNCHANGED <<logs, idx, tmpLog, ret, manifest, mem, pend, todo, rd, acked, bounds>>

CompactRenameLog ==
    /\ pc = "renameLog"
    /\ logs' = With(logs, Turn.new, tmpLog[Turn.new])
    /\ tmpLog' = Without(tmpLog, {Turn.new})
    /\ pc' = "renameIndex"
    /\ UNCHANGED <<idx, tmpIdx, ret, manifest, mem, pend, todo, rd, acked, bounds>>

CompactRenameIndex ==
    /\ pc = "renameIndex"
    /\ idx' = With(idx, Turn.new, Len(logs[Turn.new]))
    /\ tmpIdx' = tmpIdx \ {Turn.new}
    /\ todo' = todo \ {Turn}
    /\ pc' = IF todo' = {} THEN "switch" ELSE "copy"
    /\ UNCHANGED <<logs, tmpLog, ret, manifest, mem, pend, rd, acked, bounds>>

\* Mutant: the entries of the copies are not added.
CompactSwitchLost ==
    /\ pc = "switch"
    /\ entries' = {e \in entries : e.seg \notin Olds}
    /\ idem' = IdemOf(entries', logs)
    /\ pc' = "remove"
    /\ UNCHANGED <<disk, active, size, next, trim, pend, todo, rd, acked, bounds>>

\* The entries move to the copies before the old segments go.
CompactSwitch ==
    /\ pc = "switch"
    /\ entries' = {e \in entries : e.seg \notin Olds} \cup EntriesOf(Restrict(logs, News))
    /\ idem' = IdemOf(entries', logs)
    /\ pc' = "remove"
    /\ UNCHANGED <<disk, active, size, next, trim, pend, todo, rd, acked, bounds>>

CompactRemove ==
    /\ pc = "remove"
    /\ \E g \in Olds \cap DOMAIN logs :
          /\ \A h \in Olds \cap DOMAIN logs : g <= h
          /\ RemoveSegments({g})
    /\ UNCHANGED <<tmpLog, tmpIdx, ret, manifest, mem, pc, pend, todo, rd, acked, bounds>>

\* The active segment moves above the copies; the manifest stays, completed.
CompactFinish ==
    /\ pc = "remove"
    /\ Olds \cap DOMAIN logs = {}
    /\ active' = Max(News) + 1
    /\ size' = 0
    /\ logs' = With(logs, active', <<>>)
    /\ idx' = With(With(idx, active, Listed(active)), active', 0)
    /\ pc' = "idle"
    /\ UNCHANGED <<tmpLog, tmpIdx, ret, manifest, entries, next, trim, idem, pend, todo, rd, acked, bounds>>

-----------------------------------------------------------------------------
\* Close, crash, Open.

Stop == stops < MaxStops /\ stops' = stops + 1 /\ pc' = "down" /\ Closed

Close ==
    /\ pc = "idle"
    /\ Stop
    /\ idx' = With(idx, active, Listed(active))
    /\ UNCHANGED <<logs, tmpLog, tmpIdx, ret, manifest, acked, sent, faults>>

Crash ==
    /\ pc \notin {"down", "stuck"}
    /\ Stop
    /\ UNCHANGED <<disk, acked, sent, faults>>

Open ==
    /\ pc = "down"
    /\ todo' = manifest.copies
    /\ pc' = "reconcile"
    /\ UNCHANGED <<disk, mem, pend, rd, acked, bounds>>

\* reconcileCopiedSegmentBeforeRecover: rename what is complete, then remove the
\* old segment, or else the unfinished copy.
ReconcileCopy ==
    /\ pc = "reconcile"
    /\ todo # {}
    /\ LET new == Turn.new
           renameLog == new \notin DOMAIN logs /\ new \in DOMAIN tmpLog /\ new \in tmpIdx
           hasLog == new \in DOMAIN logs \/ renameLog
           renameIndex == new \notin DOMAIN idx /\ new \in tmpIdx /\ hasLog
           hasIndex == new \in DOMAIN idx \/ renameIndex
           logs1 == IF renameLog THEN With(logs, new, tmpLog[new]) ELSE logs
           idx1 == IF renameIndex THEN With(idx, new, Len(logs1[new])) ELSE idx
           tmpLog1 == IF renameLog THEN Without(tmpLog, {new}) ELSE tmpLog
           tmpIdx1 == IF renameIndex THEN tmpIdx \ {new} ELSE tmpIdx
       IN  \/ /\ hasLog /\ hasIndex
              /\ logs' = Without(logs1, {Turn.old})
              /\ idx' = Without(idx1, {Turn.old})
              /\ tmpLog' = tmpLog1 /\ tmpIdx' = tmpIdx1
              /\ pc' = pc /\ todo' = todo \ {Turn}
           \/ /\ ~(hasLog /\ hasIndex)
              /\ Turn.old \in DOMAIN logs
              /\ RemoveSegments({new})
              /\ tmpLog' = Without(tmpLog, {new}) /\ tmpIdx' = tmpIdx \ {new}
              /\ pc' = pc /\ todo' = todo \ {Turn}
           \/ /\ ~(hasLog /\ hasIndex)
              /\ Turn.old \notin DOMAIN logs
              /\ pc' = IF hasLog \/ hasIndex \/ new \in DOMAIN tmpLog1 \/ new \in tmpIdx1
                       THEN "stuck"      \* Open returns an error
                       ELSE pc
              /\ todo' = todo \ {Turn}
              /\ logs' = logs1 /\ idx' = idx1 /\ tmpLog' = tmpLog1 /\ tmpIdx' = tmpIdx1
    /\ UNCHANGED <<ret, manifest, mem, pend, rd, acked, bounds>>

ReconcileDelete ==
    /\ pc = "reconcile"
    /\ todo = {}
    /\ RemoveSegments(manifest.del)
    /\ pc' = "recover"
    /\ UNCHANGED <<tmpLog, tmpIdx, ret, manifest, mem, pend, todo, rd, acked, bounds>>

\* loadRetention: numbers below the watermark are never given out again.
RecoveredNext(s, lg) ==
    Max({1, ret[s]} \cup {e.seq + 1 : e \in {e \in EntriesOf(lg) : e.stream = s}})

\* Mutant: recovery does not rebuild the idempotency map.
LoadedNoKeys(lg) ==
    /\ entries' = EntriesOf(lg)
    /\ idem' = {}
    /\ active' = Max({1} \cup DOMAIN lg)
    /\ size' = IF lg = NoFiles THEN 0 ELSE Len(lg[active'])
    /\ trim' = ret
    /\ next' = [s \in Streams |-> RecoveredNext(s, lg)]

Loaded(lg) ==
    /\ entries' = EntriesOf(lg)
    /\ idem' = IdemOf(EntriesOf(lg), lg)
    /\ active' = Max({1} \cup DOMAIN lg)
    /\ size' = IF lg = NoFiles THEN 0 ELSE Len(lg[active'])
    /\ trim' = ret
    /\ next' = [s \in Streams |-> RecoveredNext(s, lg)]

\* validateIndexedSegmentCoverage for every segment
IndexesCover ==
    /\ logs # NoFiles
    /\ \A g \in DOMAIN logs : g \in DOMAIN idx /\ idx[g] = Len(logs[g])

OpenFromIndex ==
    /\ pc = "recover"
    /\ IndexesCover
    /\ Loaded(logs)
    /\ pc' = "idle"
    /\ UNCHANGED <<disk, pend, todo, rd, acked, bounds>>

\* Segments are scanned and cut at the first unreadable record; rewriteIndex
\* begins by removing every index file.
OpenScan ==
    /\ pc = "recover"
    /\ ~IndexesCover
    /\ logs' = [g \in DOMAIN logs |-> Readable(logs[g])]
    /\ idx' = NoFiles
    /\ Loaded(logs')
    /\ pc' = "reindex"
    /\ UNCHANGED <<tmpLog, tmpIdx, ret, manifest, pend, todo, rd, acked, bounds>>

OpenReindex ==
    /\ pc = "reindex"
    /\ idx' = [g \in DOMAIN logs \cup {active} |-> Listed(g)]
    /\ logs' = IF active \in DOMAIN logs THEN logs ELSE With(logs, active, <<>>)
    /\ pc' = "idle"
    /\ UNCHANGED <<tmpLog, tmpIdx, ret, manifest, mem, pend, todo, rd, acked, bounds>>

-----------------------------------------------------------------------------
\* ReadRawEach.  Only ReadBatch and ReadRegister hold mu.  A reader found in the
\* cache is a ReadOpen and a ReadRegister with nothing in between.

\* The first Batch of these entries of one stream.
Batched(all) == {e \in all : Cardinality({f \in all : f.seq < e.seq}) < Batch}

\* Mutant: a batch starts after `from`.
SelectedAfter(s, from, to) ==
    Batched({e \in entries : e.stream = s /\ e.seq > from /\ e.seq < to})

\* A batch starts at `from` and stays below `to`.
Selected(s, from, to) ==
    Batched({e \in entries : e.stream = s /\ e.seq >= from /\ e.seq < to})

\* The entry of a batch that is read next.
FirstOf(left) == CHOOSE e \in left : \A f \in left : e.seq <= f.seq

\* Where a reader with these entries left goes on.
ReadPC(left, seg) ==
    IF left = {} THEN "batch" ELSE IF FirstOf(left).seg = seg THEN "read" ELSE "open"

\* Reader r, in state v, takes its next batch, or ends.
NextBatch(r, v) ==
    LET left == Selected(v.stream, v.from, v.to)
    IN  rd' = [rd EXCEPT ![r] =
                  IF left = {} THEN [v EXCEPT !.pc = "done", !.seg = 0, !.fd = <<>>]
                  ELSE [v EXCEPT !.pc = ReadPC(left, v.seg), !.todo = left]]

\* The first batch fixes the end of the scan.
ReadStart(r, s) ==
    /\ pc = "idle"
    /\ rd[r].pc = "start"
    /\ next[s] > 1
    /\ LET lo == Max({1, trim[s]})
       IN  NextBatch(r, [rd[r] EXCEPT !.stream = s, !.lo = lo, !.from = lo, !.to = next[s]])
    /\ UNCHANGED <<disk, mem, pc, pend, todo, acked, bounds>>

ReadBatch(r) ==
    /\ pc = "idle"
    /\ rd[r].pc = "batch"
    /\ NextBatch(r, rd[r])
    /\ UNCHANGED <<disk, mem, pc, pend, todo, acked, bounds>>

\* The reader of the previous segment is released; the file may be gone.
ReadOpen(r) ==
    /\ rd[r].pc = "open"
    /\ LET g == FirstOf(rd[r].todo).seg
       IN  rd' = [rd EXCEPT ![r] =
                     IF g \in DOMAIN logs
                     THEN [rd[r] EXCEPT !.pc = "register", !.seg = 0, !.fd = logs[g]]
                     ELSE [rd[r] EXCEPT !.pc = "failed", !.seg = 0, !.fd = <<>>]]
    /\ UNCHANGED <<disk, mem, pc, pend, todo, acked, bounds>>

ReadRegister(r) ==
    /\ pc = "idle"
    /\ rd[r].pc = "register"
    /\ rd' = [rd EXCEPT ![r].pc = "read", ![r].seg = FirstOf(rd[r].todo).seg]
    /\ UNCHANGED <<disk, mem, pc, pend, todo, acked, bounds>>

\* readIndexedRawRecordFromReader rejects a record that is not the entry's.
ReadRecord(r) ==
    /\ rd[r].pc = "read"
    /\ LET e == FirstOf(rd[r].todo)
           q == rd[r].fd
           left == rd[r].todo \ {e}
           ok == /\ e.pos <= Len(q) /\ q[e.pos] # Torn
                 /\ q[e.pos].stream = e.stream /\ q[e.pos].seq = e.seq
       IN  rd' = [rd EXCEPT ![r] =
                     IF ok THEN [rd[r] EXCEPT !.pc = ReadPC(left, rd[r].seg), !.todo = left,
                                              !.from = e.seq + 1, !.out = Append(@, q[e.pos])]
                     ELSE [rd[r] EXCEPT !.pc = "failed", !.seg = 0, !.fd = <<>>]]
    /\ UNCHANGED <<disk, mem, pc, pend, todo, acked, bounds>>

-----------------------------------------------------------------------------
\* Failed file operations.

Fault(kind) == kind \in FaultKinds /\ faults < MaxFaults /\ faults' = faults + 1

\* The record is in the file, its sync failed: the Store forgets it.
SyncFails ==
    /\ pc = "written"
    /\ Fault("sync")
    /\ pc' = "idle" /\ pend' = NoRecord
    /\ UNCHANGED <<disk, mem, todo, rd, acked, sent, stops>>

\* Part of the record is in the file.
WriteFails ==
    /\ pc = "torn"
    /\ Fault("write")
    /\ pc' = "idle" /\ pend' = NoRecord
    /\ UNCHANGED <<disk, mem, todo, rd, acked, sent, stops>>

\* retention.json could not be replaced.
TrimUnsaved(s) ==
    /\ pc = "idle"
    /\ next[s] > 1
    /\ Fault("trim")
    /\ \E b \in 1 .. next[s] : b > trim[s] /\ trim' = [trim EXCEPT ![s] = b]
    /\ UNCHANGED <<disk, active, size, entries, next, idem, pc, pend, todo, rd, acked, sent, stops>>

\* A copy fails, or Close cancels it: its files are removed, the manifest stays.
CopyAborts ==
    /\ pc \in {"copy", "copyIndex", "renameLog", "renameIndex"}
    /\ Fault("copy")
    /\ RemoveSegments({Turn.new})
    /\ tmpLog' = Without(tmpLog, {Turn.new}) /\ tmpIdx' = tmpIdx \ {Turn.new}
    /\ pc' = "idle" /\ todo' = {}
    /\ UNCHANGED <<ret, manifest, mem, pend, rd, acked, sent, stops>>

-----------------------------------------------------------------------------
AppendStep == AppendRoll \/ AppendRollIndex \/ AppendWrite \/ AppendCommit

CompactStep == \/ CompactDelete \/ CompactDeleted \/ CompactCopy \/ CompactCopyIndex
               \/ CompactRenameLog \/ CompactRenameIndex \/ CompactSwitch
               \/ CompactRemove \/ CompactFinish

OpenStep == Open \/ ReconcileCopy \/ ReconcileDelete \/ OpenFromIndex \/ OpenScan \/ OpenReindex

ReadStep(r) == \/ \E s \in Streams : ReadStart(r, s)
               \/ ReadBatch(r) \/ ReadOpen(r) \/ ReadRegister(r) \/ ReadRecord(r)

Next ==
    \/ \E s \in Streams : Trim(s)
    \/ \E s \in Streams, k \in Keys : AppendDuplicate(s, k)
    \/ \E s \in Streams, k \in Keys \cup {NoKey} : AppendStart(s, k)
    \/ AppendStep
    \/ CompactPlan
    \/ CompactStep
    \/ OpenStep
    \/ Close
    \/ Crash
    \/ \E r \in Readers : ReadStep(r)

FaultNext ==
    \/ Next
    \/ SyncFails
    \/ WriteFails
    \/ CopyAborts
    \/ \E s \in Streams : TrimUnsaved(s)

Spec == Init /\ [][Next]_vars
FaultSpec == Init /\ [][FaultNext]_vars

-----------------------------------------------------------------------------
(***************************************************************************)
(* Properties.                                                             *)
(***************************************************************************)

PCs == {"down", "reconcile", "recover", "reindex", "stuck", "idle",
        "roll", "rollIndex", "write", "torn", "written",
        "delete", "copy", "copyIndex", "renameLog", "renameIndex", "switch", "remove"}

\* Every variable holds a value of its kind.
TypeOK ==
    /\ DOMAIN logs \subseteq Segs /\ \A g \in DOMAIN logs : ToSet(logs[g]) \subseteq Records \cup {Torn}
    /\ DOMAIN idx \subseteq Segs /\ \A g \in DOMAIN idx : idx[g] \in Nat
    /\ DOMAIN tmpLog \subseteq Segs /\ \A g \in DOMAIN tmpLog : ToSet(tmpLog[g]) \subseteq Records
    /\ tmpIdx \subseteq Segs
    /\ ret \in [Streams -> Nat]
    /\ manifest.del \subseteq Segs /\ manifest.copies \subseteq Copies
    /\ active \in Segs \cup {0} /\ size \in Nat
    /\ entries \subseteq Entries
    /\ next \in [Streams -> Nat] /\ trim \in [Streams -> Nat]
    /\ idem \subseteq Records
    /\ pc \in PCs /\ pend \in Records \cup {NoRecord} /\ todo \subseteq Copies
    /\ acked \subseteq Records
    /\ sent \in Nat /\ stops \in Nat /\ faults \in Nat

Stored == UNION {ToSet(Readable(logs[g])) : g \in DOMAIN logs}
NextIn(stored, s) == Max({1, ret[s]} \cup {r.seq + 1 : r \in {r \in stored : r.stream = s}})
StoredNext == LET stored == Stored IN [s \in Streams |-> NextIn(stored, s)]

Log == INSTANCE SharedLog WITH recs <- Stored, trim <- ret,
                               next <- StoredNext

\* Whatever crashes, recoveries and compactions come between, the records in the
\* directory behave as one append-only log: a number is given once and in order, a
\* key is stored once, and only trimmed records go.
ImplementsSharedLog == Log!Spec

\* A record whose Append returned is stored until it is trimmed.
AckedStored ==
    LET stored == Stored
    IN  \A a \in acked : a \in stored \/ a.seq < ret[a.stream]

\* When mu is free, the index of the Store is what recovery would make of the
\* directory: one entry for every stored record and number, the idempotency map of
\* exactly the stored keys, and the same next numbers.
IndexExact ==
    pc = "idle" =>
        /\ entries = EntriesOf(logs)
        /\ Cardinality({<<e.stream, e.seq>> : e \in entries}) = Cardinality(entries)
        /\ idem = {r \in Stored : r.key # NoKey}
        /\ next = StoredNext
        /\ active = Max(DOMAIN logs) /\ size = Len(logs[active])

\* A read that ends returns, in order and once, every record from its start to its
\* end that has not been trimmed meanwhile.
ReadComplete ==
    \A r \in Readers : rd[r].pc = "done" =>
        LET out == rd[r].out
        IN  /\ \A i, j \in DOMAIN out : i < j => out[i].seq < out[j].seq
            /\ \A q \in rd[r].lo .. rd[r].to - 1 :
                  q < trim[rd[r].stream] \/ \E i \in DOMAIN out : out[i].seq = q

=============================================================================
