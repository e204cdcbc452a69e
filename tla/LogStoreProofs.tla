---------------------------- MODULE LogStoreProofs ----------------------------
(***************************************************************************)
(* Theorems about the durable log (LogStore), for any number of streams,   *)
(* keys, records, segments and readers: what was acknowledged is stored,   *)
(* the in-memory index is the one that the files give, a reader delivers   *)
(* every live record in order, and the Store implements SharedLog.         *)
(*                                                                         *)
(* They are proved of CalmSpec: any step of Next, at any moment, except a  *)
(* crash between the manifest of a compaction that copies segments and the *)
(* end of the copying.  There the Store does lose an acknowledged record   *)
(* (log_copy_crash finds it), so no theorem can include that crash.        *)
(* Crashes in an Append, a Trim, the deletion of segments, the removal of  *)
(* the copied ones and in Open itself are all included, and a Store that   *)
(* does not copy (CopyPartialSegments off) never has the excluded one, so  *)
(* LogWithoutCopies is about Spec as it is.                                *)
(*                                                                         *)
(* The argument has three layers.  FilesOK is about the directory alone.   *)
(* MemOK adds the Store that was built from it.  AbsOK is about the set of *)
(* stored records, to which an action does one of four things (LogStep):   *)
(* nothing, append the next record of a stream, drop trimmed records, or   *)
(* raise a watermark.  Each layer has one lemma per action.  The readers   *)
(* come last: ReadInv relates what each has delivered to the numbers and   *)
(* watermarks, which only grow while the Store is open.                    *)
(*                                                                         *)
(* The last part is about the records of one segment (RecordCodec): after  *)
(* any crash in a write, the scan finds exactly the records that were      *)
(* written whole, and both decoders read the same.                         *)
(***************************************************************************)
EXTENDS LogStore, RecordCodec, FoldTheorems, FiniteSetTheorems, SequenceTheorems, TLAPS

\* Before the entries move to the copies a copied record counts in its old segment.
PreSwitch == {"delete", "copy", "copyIndex", "renameLog", "renameIndex", "switch"}
\* The Store is not in memory.
Loading == {"down", "reconcile", "recover", "stuck"}
\* The last record of the active segment is not in the Store's index yet.
Writing == {"written", "torn"}
\* An Append holds mu.
Appending == {"roll", "rollIndex", "write"} \cup Writing

\* Segments to be copied are planned and their copies not complete.
MidCopy == pc \in PreSwitch \ {"switch"} /\ manifest.copies # {}

\* No crash falls inside the copying of segments.
CalmNext == Next /\ ~(MidCopy /\ pc' = "down")
\* The Store, without a crash inside the copying of segments.
CalmSpec == Init /\ [][CalmNext]_vars

\* The segments in which a record is looked for.
View == DOMAIN logs \ (IF pc \in PreSwitch THEN News ELSE Olds)

\* What the files hold, and the steps of a Compact or an Open in progress.
TypesA ==
    /\ DOMAIN logs \subseteq Segs /\ logs \in [DOMAIN logs -> Seq(Records \cup {Torn})]
    /\ DOMAIN idx \subseteq DOMAIN logs /\ idx \in [DOMAIN idx -> Nat]
    /\ DOMAIN tmpLog \subseteq Segs /\ tmpLog \in [DOMAIN tmpLog -> Seq(Records)]
    /\ tmpIdx \subseteq Segs
    /\ ret \in [Streams -> Nat]
    /\ manifest \in [del : SUBSET Segs, copies : SUBSET Copies]
    /\ pc \in PCs /\ todo \subseteq Copies
\* What the Store holds in memory, and the history.
TypesB ==
    /\ active \in Segs \cup {0} /\ size \in Nat
    /\ entries \subseteq Entries
    /\ next \in [Streams -> Nat] /\ trim \in [Streams -> Nat]
    /\ idem \subseteq Records
    /\ pend \in Records \cup {NoRecord}
    /\ acked \subseteq Records
    /\ sent \in Nat /\ stops \in Nat /\ faults \in Nat

\* Only the last record of a segment may be unreadable, and only until Open has cut it.
TornLast ==
    \A g \in DOMAIN logs : \A i \in DOMAIN logs[g] :
        logs[g][i] = Torn => i = Len(logs[g]) /\ pc \in Loading \cup {"torn"}

\* An index file lists no more than the readable records of its segment.
IdxBound ==
    \A g \in DOMAIN idx : /\ idx[g] <= Len(logs[g])
                          /\ \A i \in 1 .. idx[g] : logs[g][i] # Torn

\* n is the greatest member of S.
IsTop(S, n) == n \in S /\ \A m \in S : m <= n
\* The segments that the manifest gives up.
Gone == manifest.del \cup Olds

\* The segment with the greatest id is never given up: ids are not used again.
TopSafe ==
    /\ DOMAIN logs = {} => Gone = {} /\ pc \in Loading \cup {"reindex"}
    /\ DOMAIN logs # {} => \E t \in DOMAIN logs : /\ IsTop(DOMAIN logs, t)
                                                  /\ \A g \in Gone : g < t

\* What the manifest names.
ManifestOK ==
    /\ manifest.del \cap Olds = {}
    /\ \A c \in manifest.copies : /\ c.new < MaxSeg
                                  /\ \A g \in Gone : g < c.new
    /\ \A c, d \in manifest.copies : c.old = d.old \/ c.new = d.new => c = d

\* A segment that the manifest deletes holds nothing but trimmed records.
DelTrimmed ==
    \A g \in manifest.del \cap DOMAIN logs : \A i \in DOMAIN logs[g] :
        logs[g][i] # Torn => logs[g][i].seq < ret[logs[g][i].stream]

\* q holds every live record of segment g.
LiveCopied(q, g) ==
    \A j \in DOMAIN logs[g] :
        logs[g][j] # Torn /\ logs[g][j].seq >= ret[logs[g][j].stream]
            => \E i \in DOMAIN q : q[i] = logs[g][j]
\* q holds live records of segment g, all of them, each once.
CopyOf(q, g) ==
    /\ \A i \in DOMAIN q : \E j \in DOMAIN logs[g] : logs[g][j] = q[i]
    /\ \A i, j \in DOMAIN q : q[i].stream = q[j].stream /\ q[i].seq = q[j].seq => i = j
    /\ LiveCopied(q, g)

\* The copies of a compaction in progress.
CopyState ==
    /\ pc \in PreSwitch => /\ todo \subseteq manifest.copies
                           /\ Olds \subseteq DOMAIN logs
                           /\ \A c \in manifest.copies \ todo :
                                 c.new \in DOMAIN idx /\ CopyOf(logs[c.new], c.old)
    /\ pc = "delete" => todo = manifest.copies
    /\ pc \in {"copy", "copyIndex", "renameLog", "renameIndex"} => todo # {}
    /\ pc = "switch" => todo = {}
    /\ pc \in {"switch", "remove"} => manifest.copies # {}
    /\ pc = "remove" => \A c \in manifest.copies : c.new \in DOMAIN logs
    /\ pc \in PreSwitch => \A c \in todo :
          c.new \in DOMAIN logs => pc = "renameIndex" /\ c = Turn
    /\ pc = "renameIndex" => Turn.new \in DOMAIN logs /\ CopyOf(logs[Turn.new], Turn.old)
    /\ pc \in {"copyIndex", "renameLog"} =>
          /\ DOMAIN tmpLog = {Turn.new}
          /\ CopyOf(tmpLog[Turn.new], Turn.old)
    /\ pc \notin {"copyIndex", "renameLog"} => DOMAIN tmpLog = {}
    /\ tmpIdx \subseteq (IF pc \in {"renameLog", "renameIndex"} THEN {Turn.new} ELSE {})

\* The copies of a compaction whose copies are complete.
Leftover ==
    /\ pc \notin PreSwitch => \A c \in manifest.copies : c.old \in DOMAIN logs =>
          c.new \in DOMAIN idx /\ LiveCopied(logs[c.new], c.old)
    /\ pc \notin PreSwitch \cup {"remove", "down", "reconcile", "stuck"} => Olds \cap DOMAIN logs = {}
    /\ pc = "reconcile" => /\ todo \subseteq manifest.copies
                           /\ \A c \in manifest.copies \ todo : c.old \notin DOMAIN logs

\* Two records that may not both be stored: one number, or one key.
SameSeq(r, u) == r.stream = u.stream /\ r.seq = u.seq
SameKey(r, u) == r.stream = u.stream /\ r.key = u.key /\ r.key # NoKey
\* The segments V hold no number of a stream and no key of it twice.
UniqueIn(V) ==
    \A g, h \in V : \A i \in DOMAIN logs[g], j \in DOMAIN logs[h] :
        logs[g][i] # Torn /\ logs[h][j] # Torn /\ (SameSeq(logs[g][i], logs[h][j]) \/ SameKey(logs[g][i], logs[h][j]))
            => g = h /\ i = j
Unique == UniqueIn(View)

\* The invariant of the directory.
FilesOK == /\ TypesA /\ TornLast /\ IdxBound /\ TopSafe /\ ManifestOK /\ DelTrimmed
           /\ CopyState /\ Leftover /\ Unique

\* The index entry of the record at position i of segment g.
EntryAt(g, i) == [stream |-> logs[g][i].stream, seq |-> logs[g][i].seq, seg |-> g, pos |-> i]

\* The position of a record that is stored but not indexed.
Unindexed(g, i) == pc \in Writing /\ g = active /\ i = size + 1

\* The active segment is the last one, but for the copies of a compaction, and the
\* watermarks in memory are those of retention.json.
ActiveOK ==
    pc \notin Loading =>
        /\ active \in Segs
        /\ trim = ret
        /\ pc = "reindex" => (IF active \in DOMAIN logs THEN size = Len(logs[active]) /\ IsTop(DOMAIN logs, active)
                               ELSE size = 0 /\ DOMAIN logs = {})
        /\ pc # "reindex" => /\ active \in DOMAIN logs
                             /\ Len(logs[active]) = IF pc \in Writing THEN size + 1 ELSE size
                             /\ pc \in PreSwitch \cup {"remove"} =>
                                   /\ \A h \in DOMAIN logs : h <= active \/ h \in News
                                   /\ \A g \in Gone : g < active
                                   /\ \A h \in News : active < h
                             /\ pc \notin PreSwitch \cup {"remove"} => IsTop(DOMAIN logs, active)

\* The index has one entry for each indexed record of View and no other, except for the
\* segments that a compaction is deleting; the idempotency map holds the indexed keys.
IndexOK ==
    pc \notin Loading =>
        /\ IsFiniteSet(entries)
        /\ \A e \in entries :
              IF e.seg \in View
              THEN e.pos \in DOMAIN logs[e.seg] /\ ~Unindexed(e.seg, e.pos) /\ e = EntryAt(e.seg, e.pos)
              ELSE pc = "delete" /\ e.seg \in manifest.del
        /\ \A g \in View : \A i \in DOMAIN logs[g] : ~Unindexed(g, i) => EntryAt(g, i) \in entries
        /\ pc # "delete" =>
              /\ \A r \in idem : /\ r.key # NoKey
                                 /\ \E g \in View : \E i \in DOMAIN logs[g] :
                                       ~Unindexed(g, i) /\ logs[g][i] = r
              /\ \A g \in View : \A i \in DOMAIN logs[g] :
                    ~Unindexed(g, i) /\ logs[g][i].key # NoKey => logs[g][i] \in idem

\* The numbers that the next number of stream s is the greatest of.
GivenBy(st, rt, s) == {1, rt[s]} \cup {r.seq + 1 : r \in {r \in st : r.stream = s}}
\* The same, of the files as they are.
Given(s) == GivenBy(Stored, ret, s)

\* The next number of a stream is above all that were given out; the record that is being
\* appended has that number, and no stored record has its key.
Numbers ==
    /\ \A s \in Streams : \E n \in Given(s) : IsTop(Given(s), n)
    /\ pc \notin Loading => \A s \in Streams :
          IsTop(Given(s), IF pc = "written" /\ s = pend.stream THEN next[s] + 1 ELSE next[s])
    /\ pc \in Appending => /\ pend \in Records
                           /\ pend.seq = next[pend.stream]
                           /\ pc # "written" => \A r \in Stored : ~SameKey(r, pend)
    /\ pc = "written" => logs[active][size + 1] = pend
    /\ pc = "torn" => logs[active][size + 1] = Torn

\* No number at or above the watermark is missing below one that is stored.
NoGapIn(st, rt) ==
    \A r \in st : \A q \in 1 .. r.seq :
        q >= rt[r.stream] => \E u \in st : u.stream = r.stream /\ u.seq = q
\* The same, of the files as they are.
NoGap == NoGapIn(Stored, ret)

\* What a reader can be.
ReaderPCs == {"start", "batch", "open", "register", "read", "done", "failed"}
ReaderStates ==
    [pc : ReaderPCs, stream : Streams \cup {NoKey}, lo : Nat, from : Nat, to : Nat,
     todo : SUBSET {e \in Entries : e.pos # 0}, seg : Nat, fd : Seq(Records \cup {Torn}), out : Seq(Records)]

\* What a reader has delivered, and what of its batch is left.
ReaderOK(v) ==
    /\ v.pc = "start" => v.todo = {} /\ v.out = <<>>
    /\ v.pc \notin {"start", "failed"} =>
        /\ v.stream \in Streams /\ v.lo # 0 /\ v.lo <= v.from
        /\ v.to <= next[v.stream]
        /\ pc \notin Loading
        /\ \A i \in DOMAIN v.out : v.out[i].seq < v.from
        /\ \A i, j \in DOMAIN v.out : i < j => v.out[i].seq < v.out[j].seq
        /\ \A q \in v.lo .. v.from - 1 : q < trim[v.stream] \/ \E i \in DOMAIN v.out : v.out[i].seq = q
        /\ \A e, f \in v.todo : e.seq = f.seq => e = f
        /\ \A e \in v.todo : /\ e.seq >= v.from /\ e.seq < v.to
                             /\ \A q \in v.from .. e.seq : q < trim[v.stream] \/ \E f \in v.todo : f.seq = q
        /\ v.pc \in {"open", "register", "read"} <=> v.todo # {}
        /\ v.pc = "done" => \A q \in v.from .. v.to - 1 : q < trim[v.stream]

\* The inductive invariant of the Store, and that of its readers.
StoreInv == FilesOK /\ TypesB /\ ActiveOK /\ IndexOK /\ Numbers /\ NoGap /\ AckedStored
ReadInv == rd \in [Readers -> ReaderStates] /\ \A r \in Readers : ReaderOK(rd[r])
-----------------------------------------------------------------------------
\* Numbers, functions and segments.

\* Max is the greatest member of a set that has one.
LEMMA MaxIs ==
    ASSUME NEW S \in SUBSET Nat, NEW n, IsTop(S, n)
    PROVE  Max(S) = n
<1>1. n \in S /\ \A m \in S : n >= m
  BY DEF IsTop
<1>2. Max(S) \in S /\ \A m \in S : Max(S) >= m
  BY <1>1 DEF Max
<1>3. Max(S) \in Nat /\ n \in Nat /\ Max(S) >= n /\ n >= Max(S)
  BY <1>1, <1>2
<1> QED  BY <1>3

\* Files whose last record only may be unreadable.
Tidy(lg) ==
    /\ lg \in [DOMAIN lg -> Seq(Records \cup {Torn})]
    /\ \A g \in DOMAIN lg : \A i \in DOMAIN lg[g] : lg[g][i] = Torn => i = Len(lg[g])

\* The readable part of a segment is all of it but an unreadable last record.
LEMMA ReadableIs ==
    ASSUME NEW q \in Seq(Records \cup {Torn}), \A i \in DOMAIN q : q[i] = Torn => i = Len(q)
    PROVE  /\ Readable(q) \in Seq(Records \cup {Torn})
           /\ Len(Readable(q)) <= Len(q)
           /\ \A i \in 1 .. Len(Readable(q)) : Readable(q)[i] = q[i] /\ q[i] # Torn
           /\ \A i \in 1 .. Len(q) : q[i] # Torn => i <= Len(Readable(q))
<1> DEFINE torn == {i \in DOMAIN q : q[i] = Torn}
<1>1. DOMAIN q = 1 .. Len(q) /\ Len(q) \in Nat
  OBVIOUS
<1>2. CASE torn = {}
  BY <1>1, <1>2 DEF Readable
<1>3. CASE torn # {}
  <2>1. torn = {Len(q)} /\ Len(q) >= 1
    BY <1>1, <1>3
  <2>2. Min(torn) = Len(q)
    BY <2>1, <1>1 DEF Min
  <2>3. Readable(q) = SubSeq(q, 1, Len(q) - 1)
    BY <1>3, <2>2 DEF Readable
  <2> QED  BY <1>1, <2>1, <2>3
<1> QED  BY <1>2, <1>3

\* What is stored is what the segment files hold.
LEMMA HeldIs ==
    ASSUME NEW lg, Tidy(lg), NEW r
    PROVE  r \in UNION {ToSet(Readable(lg[g])) : g \in DOMAIN lg}
             <=> r # Torn /\ \E g \in DOMAIN lg : \E i \in DOMAIN lg[g] : lg[g][i] = r
<1>1. ASSUME NEW g \in DOMAIN lg
      PROVE  r \in ToSet(Readable(lg[g])) <=> r # Torn /\ \E i \in DOMAIN lg[g] : lg[g][i] = r
  <2>1. lg[g] \in Seq(Records \cup {Torn}) /\ \A i \in DOMAIN lg[g] : lg[g][i] = Torn => i = Len(lg[g])
    BY DEF Tidy
  <2>2. DOMAIN lg[g] = 1 .. Len(lg[g]) /\ Len(lg[g]) \in Nat
    BY <2>1
  <2> DEFINE q == lg[g]
  <2> HIDE DEF q
  <2>3. /\ Readable(q) \in Seq(Records \cup {Torn})
        /\ Len(Readable(q)) <= Len(q)
        /\ \A i \in 1 .. Len(Readable(q)) : Readable(q)[i] = q[i] /\ q[i] # Torn
        /\ \A i \in 1 .. Len(q) : q[i] # Torn => i <= Len(Readable(q))
    BY <2>1, ReadableIs DEF q
  <2>4. DOMAIN Readable(q) = 1 .. Len(Readable(q)) /\ Len(Readable(q)) \in Nat
    BY <2>3
  <2>5. r \in ToSet(Readable(q)) <=> \E i \in 1 .. Len(Readable(q)) : Readable(q)[i] = r
    BY <2>4 DEF ToSet
  <2>6. DOMAIN q = 1 .. Len(q) /\ Len(q) \in Nat
    BY <2>2 DEF q
  <2>7. r \in ToSet(Readable(q)) <=> r # Torn /\ \E i \in DOMAIN q : q[i] = r
    BY <2>3, <2>4, <2>5, <2>6
  <2> QED  BY <2>7 DEF q
<1> QED  BY <1>1

-----------------------------------------------------------------------------
\* Sets of records: what an append, a trim and a drop do to next numbers and gaps.

\* Given numbers are numbers.
LEMMA GivenType ==
    ASSUME NEW st \in SUBSET Records, NEW rt \in [Streams -> Nat], NEW s \in Streams
    PROVE  GivenBy(st, rt, s) \in SUBSET Nat
BY DEF GivenBy, Records

\* After the append of a stream's next record, the number after it is the next.
LEMMA AppendTop ==
    ASSUME NEW st \in SUBSET Records, NEW rt \in [Streams -> Nat], NEW p \in Records,
           IsTop(GivenBy(st, rt, p.stream), p.seq)
    PROVE  /\ IsTop(GivenBy(st \cup {p}, rt, p.stream), p.seq + 1)
           /\ \A s \in Streams : s # p.stream => GivenBy(st \cup {p}, rt, s) = GivenBy(st, rt, s)
<1>1. p.stream \in Streams /\ p.seq \in Nat
  BY DEF Records
<1>2. GivenBy(st \cup {p}, rt, p.stream) = GivenBy(st, rt, p.stream) \cup {p.seq + 1}
  BY DEF GivenBy
<1>3. GivenBy(st, rt, p.stream) \in SUBSET Nat
  BY <1>1, GivenType
<1>4. ASSUME NEW m \in GivenBy(st, rt, p.stream) PROVE m <= p.seq + 1
  BY <1>1, <1>3 DEF IsTop
<1>5. p.seq + 1 <= p.seq + 1
  BY <1>1
<1>6. ASSUME NEW s \in Streams, s # p.stream PROVE GivenBy(st \cup {p}, rt, s) = GivenBy(st, rt, s)
  BY <1>6 DEF GivenBy
<1> QED  BY <1>2, <1>4, <1>5, <1>6 DEF IsTop

\* Dropping trimmed records changes no next number: the watermark is above them.
LEMMA DropTop ==
    ASSUME NEW st \in SUBSET Records, NEW rt \in [Streams -> Nat], NEW st2 \in SUBSET st,
           \A r \in st \ st2 : r.seq < rt[r.stream],
           NEW s \in Streams, NEW n, IsTop(GivenBy(st, rt, s), n)
    PROVE  IsTop(GivenBy(st2, rt, s), n)
<1>1. GivenBy(st, rt, s) \in SUBSET Nat
  BY GivenType
<1>2. n \in GivenBy(st, rt, s) /\ \A m \in GivenBy(st, rt, s) : m <= n
  BY DEF IsTop
<1>3. GivenBy(st2, rt, s) \subseteq GivenBy(st, rt, s)
  BY DEF GivenBy
<1>4. n \in GivenBy(st2, rt, s)
  <2>1. CASE n \in {1, rt[s]}
    BY <2>1 DEF GivenBy
  <2>2. CASE n \notin {1, rt[s]}
    <3>1. PICK r \in st : r.stream = s /\ n = r.seq + 1
      BY <1>2, <2>2 DEF GivenBy
    <3>2. CASE r \in st2
      BY <3>1, <3>2 DEF GivenBy
    <3>3. CASE r \notin st2
      <4>1. r.seq < rt[s] /\ r.seq \in Nat /\ rt[s] \in Nat
        BY <3>1, <3>3 DEF Records
      <4>2. rt[s] \in GivenBy(st, rt, s)
        BY DEF GivenBy
      <4>3. rt[s] <= r.seq + 1
        BY <1>2, <3>1, <4>2
      <4> QED  BY <2>2, <3>1, <4>1, <4>3
    <3> QED  BY <3>2, <3>3
  <2> QED  BY <2>1, <2>2
<1> QED  BY <1>2, <1>3, <1>4 DEF IsTop

\* Raising a watermark, to the next number at most, changes no next number.
LEMMA TrimTop ==
    ASSUME NEW st \in SUBSET Records, NEW rt \in [Streams -> Nat], NEW s \in Streams, NEW n,
           IsTop(GivenBy(st, rt, s), n), NEW b \in Nat, b > rt[s], b <= n
    PROVE  /\ IsTop(GivenBy(st, [rt EXCEPT ![s] = b], s), n)
           /\ \A u \in Streams : u # s => GivenBy(st, [rt EXCEPT ![s] = b], u) = GivenBy(st, rt, u)
<1> DEFINE rt2 == [rt EXCEPT ![s] = b]
<1>1. rt2[s] = b /\ \A u \in Streams : u # s => rt2[u] = rt[u]
  OBVIOUS
<1> HIDE DEF rt2
<1>2. GivenBy(st, rt, s) \in SUBSET Nat /\ rt[s] \in Nat
  BY GivenType
<1>3. n \in GivenBy(st, rt, s) /\ \A m \in GivenBy(st, rt, s) : m <= n
  BY DEF IsTop
<1>4. n # rt[s]
  BY <1>2
<1>5. n \in GivenBy(st, rt2, s)
  BY <1>3, <1>4 DEF GivenBy
<1>6. ASSUME NEW m \in GivenBy(st, rt2, s) PROVE m <= n
  <2>1. m = b \/ m \in GivenBy(st, rt, s)
    BY <1>1 DEF GivenBy
  <2> QED  BY <2>1, <1>3
<1>7. ASSUME NEW u \in Streams, u # s PROVE GivenBy(st, rt2, u) = GivenBy(st, rt, u)
  BY <1>1, <1>7 DEF GivenBy
<1> QED  BY <1>5, <1>6, <1>7 DEF IsTop, rt2

\* Appending a stream's next record makes no gap.
LEMMA AppendGap ==
    ASSUME NEW st \in SUBSET Records, NEW rt \in [Streams -> Nat], NEW p \in Records,
           IsTop(GivenBy(st, rt, p.stream), p.seq), NoGapIn(st, rt)
    PROVE  NoGapIn(st \cup {p}, rt)
<1> SUFFICES ASSUME NEW r \in st \cup {p}, NEW q \in 1 .. r.seq, q >= rt[r.stream]
             PROVE  \E u \in st \cup {p} : u.stream = r.stream /\ u.seq = q
  BY DEF NoGapIn
<1>1. CASE r \in st
  BY <1>1 DEF NoGapIn
<1>2. CASE r = p /\ q = p.seq
  BY <1>2
<1>3. CASE r = p /\ q # p.seq
  <2>1. p.seq \in Nat /\ p.stream \in Streams /\ rt[p.stream] \in Nat
    BY DEF Records
  <2>2. q \in Nat /\ 1 <= q /\ q < p.seq /\ rt[p.stream] <= q
    BY <1>3, <2>1
  <2>3. p.seq \in GivenBy(st, rt, p.stream) /\ p.seq # 1 /\ p.seq # rt[p.stream]
    BY <2>1, <2>2 DEF IsTop
  <2>4. PICK v \in st : v.stream = p.stream /\ p.seq = v.seq + 1
    BY <2>3 DEF GivenBy
  <2>5. v.seq \in Nat
    BY DEF Records
  <2>6. q \in 1 .. v.seq
    BY <2>2, <2>4, <2>5
  <2> QED  BY <1>3, <2>2, <2>4, <2>6 DEF NoGapIn
<1> QED  BY <1>1, <1>2, <1>3

\* Dropping trimmed records makes no gap above the watermark.
LEMMA DropGap ==
    ASSUME NEW st \in SUBSET Records, NEW rt \in [Streams -> Nat], NEW st2 \in SUBSET st,
           \A r \in st \ st2 : r.seq < rt[r.stream], NoGapIn(st, rt)
    PROVE  NoGapIn(st2, rt)
<1> SUFFICES ASSUME NEW r \in st2, NEW q \in 1 .. r.seq, q >= rt[r.stream]
             PROVE  \E u \in st2 : u.stream = r.stream /\ u.seq = q
  BY DEF NoGapIn
<1>1. PICK u \in st : u.stream = r.stream /\ u.seq = q
  BY DEF NoGapIn
<1>2. u.seq \in Nat /\ rt[u.stream] \in Nat
  BY DEF Records
<1>3. u \in st2
  BY <1>1, <1>2
<1> QED  BY <1>1, <1>3

\* Raising a watermark makes no gap above it.
LEMMA TrimGap ==
    ASSUME NEW st \in SUBSET Records, NEW rt \in [Streams -> Nat], NEW s \in Streams,
           NEW b \in Nat, b > rt[s], NoGapIn(st, rt)
    PROVE  NoGapIn(st, [rt EXCEPT ![s] = b])
<1> DEFINE rt2 == [rt EXCEPT ![s] = b]
<1>1. \A u \in Streams : rt2[u] \in Nat /\ rt[u] \in Nat /\ rt[u] <= rt2[u]
  OBVIOUS
<1> HIDE DEF rt2
<1> SUFFICES ASSUME NEW r \in st, NEW q \in 1 .. r.seq, q >= rt2[r.stream]
             PROVE  \E u \in st : u.stream = r.stream /\ u.seq = q
  BY DEF NoGapIn, rt2
<1>2. r.stream \in Streams /\ r.seq \in Nat
  BY DEF Records
<1>3. q >= rt[r.stream]
  BY <1>1, <1>2
<1> QED  BY <1>3 DEF NoGapIn

-----------------------------------------------------------------------------
\* The files.

\* A segment file is a sequence of records, the last one perhaps unreadable.
LEMMA SegType ==
    ASSUME TypesA, NEW g \in DOMAIN logs
    PROVE  /\ g \in Nat /\ g \in Segs
           /\ logs[g] \in Seq(Records \cup {Torn})
           /\ Len(logs[g]) \in Nat
           /\ DOMAIN logs[g] = 1 .. Len(logs[g])
           /\ \A i \in DOMAIN logs[g] : logs[g][i] \in Records \cup {Torn}
<1>1. g \in Segs /\ logs[g] \in Seq(Records \cup {Torn})
  BY DEF TypesA
<1>2. g \in Nat
  BY <1>1, LogAssumption DEF Segs
<1> QED  BY <1>1, <1>2

\* The segment files are tidy.
LEMMA TidyLogs ==
    ASSUME TypesA, TornLast
    PROVE  Tidy(logs)
BY DEF TypesA, TornLast, Tidy

\* A record is stored when some segment holds it.
LEMMA StoredIs ==
    ASSUME TypesA, TornLast, NEW r
    PROVE  r \in Stored <=> r # Torn /\ \E g \in DOMAIN logs : \E i \in DOMAIN logs[g] : logs[g][i] = r
BY TidyLogs, HeldIs DEF Stored

\* What is stored are records.
LEMMA StoredType ==
    ASSUME TypesA, TornLast
    PROVE  Stored \in SUBSET Records
<1> SUFFICES ASSUME NEW r \in Stored PROVE r \in Records
  OBVIOUS
<1>1. PICK g \in DOMAIN logs : \E i \in DOMAIN logs[g] : logs[g][i] = r
  BY StoredIs
<1> QED  BY <1>1, StoredIs, SegType

\* Steps that leave the files and the plan alone.
LEMMA FilesFrame ==
    ASSUME FilesOK, UNCHANGED <<disk, pc, todo>>
    PROVE  FilesOK'
<1>1. /\ logs' = logs /\ idx' = idx /\ tmpLog' = tmpLog /\ tmpIdx' = tmpIdx /\ ret' = ret
      /\ manifest' = manifest /\ pc' = pc /\ todo' = todo
  BY DEF disk
<1>2. TypesA' /\ TornLast' /\ IdxBound'
  BY <1>1 DEF FilesOK, TypesA, TornLast, IdxBound
<1>3. TopSafe' /\ ManifestOK' /\ DelTrimmed'
  BY <1>1 DEF FilesOK, TopSafe, ManifestOK, DelTrimmed, Gone, Olds
<1>4. CopyState'
  <2>1. Turn' = Turn /\ Olds' = Olds
    BY <1>1 DEF Turn, Olds
  <2>2. \A q, g : CopyOf(q, g)' <=> CopyOf(q, g)
    BY <1>1 DEF CopyOf, LiveCopied
  <2>3. CopyState
    BY DEF FilesOK
  <2> QED  BY <1>1, <2>1, <2>2, <2>3 DEF CopyState
<1>5. Leftover'
  BY <1>1 DEF FilesOK, Leftover, LiveCopied, Olds
<1>6. Unique'
  BY <1>1 DEF FilesOK, Unique, UniqueIn, View, Olds, News
<1> QED  BY <1>2, <1>3, <1>4, <1>5, <1>6 DEF FilesOK

\* The files an append finds: no torn record, no copy in progress.
Quiet == {"idle", "roll", "rollIndex", "write", "written"}

\* Steps between those files leave the invariant of the directory alone.
LEMMA FilesQuiet ==
    ASSUME FilesOK, UNCHANGED disk, todo' = todo, pc \in Quiet, pc' \in Quiet
    PROVE  FilesOK'
<1>1. /\ logs' = logs /\ idx' = idx /\ tmpLog' = tmpLog /\ tmpIdx' = tmpIdx /\ ret' = ret
      /\ manifest' = manifest /\ todo' = todo
  BY DEF disk
<1>2. TypesA' /\ TornLast' /\ IdxBound'
  BY <1>1 DEF FilesOK, TypesA, TornLast, IdxBound, Quiet, Loading, PCs
<1>3. TopSafe' /\ ManifestOK' /\ DelTrimmed'
  BY <1>1 DEF FilesOK, TopSafe, ManifestOK, DelTrimmed, Gone, Olds, Quiet, Loading
<1>4. CopyState'
  BY <1>1 DEF FilesOK, CopyState, Quiet, PreSwitch
<1>5. Leftover'
  BY <1>1 DEF FilesOK, Leftover, LiveCopied, Olds, Quiet, PreSwitch
<1>6. Unique'
  BY <1>1 DEF FilesOK, Unique, UniqueIn, View, Olds, News, Quiet, PreSwitch
<1> QED  BY <1>2, <1>3, <1>4, <1>5, <1>6 DEF FilesOK

\* The records of two copies come from different positions of the old segments.
LEMMA SwitchUnique ==
    ASSUME FilesOK, pc = "switch"
    PROVE  UniqueIn(DOMAIN logs \ Olds)
<1> DEFINE Source(g, i, h, j) ==
        /\ h \in DOMAIN logs \ News /\ j \in DOMAIN logs[h] /\ logs[h][j] = logs[g][i]
        /\ g \notin News => h = g /\ j = i
        /\ g \in News => \E c \in manifest.copies : c.new = g /\ c.old = h
<1>1. \A c \in manifest.copies : /\ c.new \in DOMAIN idx /\ CopyOf(logs[c.new], c.old)
                                 /\ c.old \in DOMAIN logs \ News
  <2> SUFFICES ASSUME NEW c \in manifest.copies
               PROVE  /\ c.new \in DOMAIN idx /\ CopyOf(logs[c.new], c.old)
                      /\ c.old \in DOMAIN logs \ News
    OBVIOUS
  <2>1. c.new \in DOMAIN idx /\ CopyOf(logs[c.new], c.old) /\ c.old \in DOMAIN logs
    BY DEF FilesOK, CopyState, PreSwitch, Olds
  <2>2. c.old \in Nat
    BY <2>1, SegType DEF FilesOK
  <2>3. c.old \in Gone
    BY DEF Gone, Olds
  <2>4. c.old \notin News
    BY <2>2, <2>3 DEF FilesOK, ManifestOK, News
  <2> QED  BY <2>1, <2>4
<1>2. ASSUME NEW g \in DOMAIN logs \ Olds, NEW i \in DOMAIN logs[g]
      PROVE  \E h, j : Source(g, i, h, j)
  <2>1. CASE g \notin News
    BY <2>1
  <2>2. CASE g \in News
    <3>1. PICK c \in manifest.copies : c.new = g
      BY <2>2 DEF News
    <3>2. PICK j \in DOMAIN logs[c.old] : logs[c.old][j] = logs[g][i]
      BY <1>1, <3>1 DEF CopyOf
    <3> QED  BY <1>1, <3>1, <3>2, <2>2
  <2> QED  BY <2>1, <2>2
<1>3. SUFFICES ASSUME NEW g \in DOMAIN logs \ Olds, NEW h \in DOMAIN logs \ Olds,
                      NEW i \in DOMAIN logs[g], NEW j \in DOMAIN logs[h],
                      logs[g][i] # Torn, logs[h][j] # Torn,
                      SameSeq(logs[g][i], logs[h][j]) \/ SameKey(logs[g][i], logs[h][j])
               PROVE  g = h /\ i = j
  BY DEF UniqueIn
<1>4. PICK g1, i1 : Source(g, i, g1, i1)
  BY <1>2
<1>5. PICK h1, j1 : Source(h, j, h1, j1)
  BY <1>2
<1>6. g1 = h1 /\ i1 = j1
  <2>1. View = DOMAIN logs \ News
    BY DEF View, PreSwitch
  <2> QED  BY <1>3, <1>4, <1>5, <2>1 DEF FilesOK, Unique, UniqueIn
<1>7. logs[g][i] = logs[h][j]
  BY <1>4, <1>5, <1>6
<1>8. CASE g \notin News /\ h \notin News
  BY <1>4, <1>5, <1>6, <1>8
<1>9. CASE g \in News
  <2>1. PICK c \in manifest.copies : c.new = g /\ c.old = g1
    BY <1>4, <1>9
  <2>2. h \in News
    BY <1>5, <1>6, <2>1 DEF Olds
  <2>3. PICK d \in manifest.copies : d.new = h /\ d.old = h1
    BY <1>5, <2>2
  <2>4. c = d
    BY <1>6, <2>1, <2>3 DEF FilesOK, ManifestOK
  <2>5. g = h
    BY <2>1, <2>3, <2>4
  <2> QED  BY <1>1, <1>7, <2>1, <2>5 DEF CopyOf
<1>10. CASE h \in News /\ g \notin News
  <2>1. PICK d \in manifest.copies : d.new = h /\ d.old = h1
    BY <1>5, <1>10
  <2> QED  BY <1>4, <1>6, <1>10, <2>1 DEF Olds
<1> QED  BY <1>8, <1>9, <1>10

\* When no compaction is in progress or left to be finished, every segment counts.
Settled ==
    /\ Olds \cap DOMAIN logs = {}
    /\ View = DOMAIN logs
    /\ UniqueIn(DOMAIN logs)
    /\ DOMAIN tmpLog = {} /\ tmpIdx = {}

\* Outside a compaction and the start of Open the files are settled.
LEMMA SettledAt ==
    ASSUME FilesOK, pc \in Quiet \cup {"torn", "recover", "reindex"}
    PROVE  Settled
<1>1. pc \notin PreSwitch /\ pc \notin PreSwitch \cup {"remove", "down", "reconcile", "stuck"}
  BY DEF Quiet, PreSwitch
<1>2. Olds \cap DOMAIN logs = {}
  BY <1>1 DEF FilesOK, Leftover
<1>3. View = DOMAIN logs
  BY <1>1, <1>2 DEF View
<1>4. DOMAIN tmpLog = {} /\ tmpIdx = {}
  BY DEF FilesOK, CopyState, Quiet
<1> QED  BY <1>2, <1>3, <1>4 DEF Settled, FilesOK, Unique

\* Steps that touch only the index files of settled segments keep the invariant.
LEMMA FilesSettled ==
    ASSUME FilesOK, Settled,
           UNCHANGED <<logs, tmpLog, tmpIdx, ret, manifest>>, todo' \subseteq Copies,
           DOMAIN idx' \subseteq DOMAIN logs, idx' \in [DOMAIN idx' -> Nat], IdxBound',
           pc' \in Quiet \cup {"down", "recover", "reindex"},
           pc' \in {"down", "recover"} \/ \A g \in DOMAIN logs : \A i \in DOMAIN logs[g] : logs[g][i] # Torn,
           DOMAIN logs = {} => pc' \in {"down", "recover", "reindex"}
    PROVE  FilesOK' /\ Settled'
<1>1. TypesA'
  BY DEF FilesOK, TypesA, Quiet, PCs
<1>2. TornLast'
  BY DEF FilesOK, TornLast, Loading
<1>3. TopSafe' /\ ManifestOK' /\ DelTrimmed'
  BY DEF FilesOK, TopSafe, ManifestOK, DelTrimmed, Gone, Olds, Loading
<1>4. CopyState'
  BY DEF Settled, CopyState, Quiet, PreSwitch
<1>5. Leftover'
  BY DEF Settled, Leftover, Olds, Quiet
<1>6. Unique' /\ Settled'
  <2>1. Olds' \cap DOMAIN logs' = {} /\ View' = DOMAIN logs'
    BY DEF Settled, View, Olds, Quiet, PreSwitch
  <2>2. UniqueIn(DOMAIN logs)'
    BY DEF Settled, UniqueIn
  <2> QED  BY <2>1, <2>2 DEF Settled, Unique, UniqueIn
<1> QED  BY <1>1, <1>2, <1>3, <1>4, <1>5, <1>6 DEF FilesOK

\* A new segment file above all others.
LEMMA FilesNewSegment ==
    ASSUME FilesOK, Settled \/ (Olds \cap DOMAIN logs = {} /\ pc = "remove"),
           NEW n \in Segs, \A h \in DOMAIN logs : h < n,
           logs' = With(logs, n, <<>>), UNCHANGED <<tmpLog, tmpIdx, ret, manifest>>,
           todo' \subseteq Copies,
           DOMAIN idx' \subseteq DOMAIN logs', idx' \in [DOMAIN idx' -> Nat], IdxBound',
           pc' \in Quiet,
           \A g \in DOMAIN logs : \A i \in DOMAIN logs[g] : logs[g][i] # Torn
    PROVE  FilesOK'
<1>1. DOMAIN logs' = DOMAIN logs \cup {n} /\ logs'[n] = <<>> /\ n \notin DOMAIN logs
  <2>1. n \in Nat /\ \A h \in DOMAIN logs : h \in Nat
    BY SegType, LogAssumption DEF FilesOK, Segs
  <2>2. DOMAIN With(logs, n, <<>>) = DOMAIN logs \cup {n} /\ With(logs, n, <<>>)[n] = <<>>
    BY DEF With
  <2> QED  BY <2>1, <2>2
<1>2. \A g \in DOMAIN logs : logs'[g] = logs[g]
  <2>1. \A g \in DOMAIN logs : g # n => With(logs, n, <<>>)[g] = logs[g]
    BY DEF With
  <2> QED  BY <1>1, <2>1
<1>3. TypesA'
  <2>1. logs' \in [DOMAIN logs' -> Seq(Records \cup {Torn})]
    <3>1. \A g \in DOMAIN logs : logs'[g] \in Seq(Records \cup {Torn})
      BY <1>2, SegType DEF FilesOK
    <3>2. logs'[n] \in Seq(Records \cup {Torn})
      <4>1. <<>> \in Seq(Records \cup {Torn})
        OBVIOUS
      <4> QED  BY <1>1, <4>1, Zenon
    <3>3. logs' = [g \in DOMAIN logs' |-> logs'[g]]
      BY DEF With
    <3> QED  BY <1>1, <3>1, <3>2, <3>3
  <2>2. DOMAIN logs' \subseteq Segs
    BY <1>1 DEF FilesOK, TypesA
  <2> QED  BY <2>1, <2>2 DEF FilesOK, TypesA, Quiet, PCs
<1>4. DOMAIN logs'[n] = {}
  BY <1>1
<1>5. TornLast'
  BY <1>1, <1>2, <1>4 DEF TornLast
<1>6. \A g \in Gone : g < n /\ g # n
  <2>1. CASE DOMAIN logs = {}
    BY <2>1 DEF FilesOK, TopSafe
  <2>2. CASE DOMAIN logs # {}
    <3>1. PICK t \in DOMAIN logs : \A g \in Gone : g < t
      BY <2>2 DEF FilesOK, TopSafe
    <3>2. t < n /\ t \in Nat /\ n \in Nat
      BY SegType, LogAssumption DEF FilesOK, Segs
    <3>3. Gone \subseteq Nat
      BY LogAssumption DEF FilesOK, TypesA, Gone, Olds, Copies, Segs
    <3> QED  BY <3>1, <3>2, <3>3
  <2> QED  BY <2>1, <2>2
<1>7. TopSafe'
  <2>1. Gone' = Gone
    BY DEF Gone, Olds
  <2>2. IsTop(DOMAIN logs', n)
    <3>1. \A h \in DOMAIN logs : h <= n
      BY SegType, LogAssumption DEF FilesOK, Segs
    <3>2. n <= n
      BY LogAssumption DEF Segs
    <3> QED  BY <1>1, <3>1, <3>2 DEF IsTop
  <2> QED  BY <1>1, <1>6, <2>1, <2>2 DEF TopSafe
<1>8. ManifestOK' /\ DelTrimmed'
  <2>1. ManifestOK'
    BY DEF FilesOK, ManifestOK, Gone, Olds
  <2>2. n \notin manifest.del
    BY <1>6 DEF Gone
  <2> QED  BY <1>1, <1>2, <2>1, <2>2 DEF FilesOK, DelTrimmed
<1>9. CopyState'
  BY DEF FilesOK, Settled, CopyState, Quiet, PreSwitch
<1>10. Olds' \cap DOMAIN logs' = {} /\ View' = DOMAIN logs'
  <2>1. Olds' = Olds /\ n \notin Olds
    BY <1>6 DEF Olds, Gone
  <2> QED  BY <1>1, <2>1 DEF Settled, View, Quiet, PreSwitch
<1>11. Leftover'
  BY <1>10 DEF Leftover, Olds, Quiet
<1>12. Unique'
  <2>1. UniqueIn(DOMAIN logs)
    BY DEF FilesOK, Settled, Unique, View, PreSwitch
  <2> QED  BY <1>1, <1>2, <1>4, <1>10, <2>1 DEF Unique, UniqueIn
<1> QED  BY <1>3, <1>5, <1>7, <1>8, <1>9, <1>11, <1>12 DEF FilesOK

\* Segments that the manifest gives up go; the copies stay.
LEMMA RemoveParts ==
    ASSUME FilesOK, NEW S \in SUBSET Gone, RemoveSegments(S),
           UNCHANGED <<tmpLog, tmpIdx, ret, manifest>>, todo' \subseteq Copies, pc' \in PCs,
           pc \in PreSwitch <=> pc' \in PreSwitch,
           pc \in Loading => pc' \in Loading, pc \notin {"torn", "reindex"}
    PROVE  /\ TypesA' /\ TornLast' /\ IdxBound' /\ TopSafe' /\ ManifestOK' /\ DelTrimmed' /\ Unique'
           /\ DOMAIN logs' = DOMAIN logs \ S /\ \A h \in DOMAIN logs' : logs'[h] = logs[h]
           /\ DOMAIN idx' = DOMAIN idx \ S
           /\ \A c \in manifest.copies : c.new \notin S
<1>1. DOMAIN logs' = DOMAIN logs \ S /\ \A h \in DOMAIN logs' : logs'[h] = logs[h]
  BY DEF RemoveSegments, Without, Restrict
<1>2. DOMAIN idx' = DOMAIN idx \ S /\ \A h \in DOMAIN idx' : idx'[h] = idx[h]
  BY DEF RemoveSegments, Without, Restrict
<1>3. TypesA'
  <2>1. logs' \in [DOMAIN logs' -> Seq(Records \cup {Torn})]
    <3>1. \A g \in DOMAIN logs' : logs'[g] \in Seq(Records \cup {Torn})
      BY <1>1, SegType DEF FilesOK
    <3>2. logs' = [g \in DOMAIN logs' |-> logs'[g]]
      BY DEF RemoveSegments, Without, Restrict
    <3> QED  BY <3>1, <3>2
  <2>2. idx' \in [DOMAIN idx' -> Nat]
    <3>1. \A g \in DOMAIN idx' : idx'[g] \in Nat
      BY <1>2 DEF FilesOK, TypesA
    <3>2. idx' = [g \in DOMAIN idx' |-> idx'[g]]
      BY DEF RemoveSegments, Without, Restrict
    <3> QED  BY <3>1, <3>2
  <2> QED  BY <1>1, <1>2, <2>1, <2>2 DEF FilesOK, TypesA
<1>4. TornLast' /\ DelTrimmed'
  BY <1>1 DEF FilesOK, TornLast, DelTrimmed
<1>5. IdxBound'
  <2>1. \A g \in DOMAIN idx' : g \in DOMAIN idx /\ g \in DOMAIN logs'
    BY <1>1, <1>2 DEF FilesOK, TypesA
  <2> QED  BY <1>1, <1>2, <2>1 DEF FilesOK, IdxBound
<1>6. Gone' = Gone /\ ManifestOK'
  BY DEF FilesOK, ManifestOK, Gone, Olds
<1>7. TopSafe'
  <2>1. CASE DOMAIN logs = {}
    <3>1. pc \in Loading \cup {"reindex"} /\ Gone = {} /\ S = {} /\ DOMAIN logs' = {}
      BY <1>1, <2>1 DEF FilesOK, TopSafe
    <3>2. pc' \in Loading \cup {"reindex"}
      BY <3>1
    <3> QED  BY <1>6, <3>1, <3>2 DEF TopSafe
  <2>2. CASE DOMAIN logs # {}
    <3>1. PICK t \in DOMAIN logs : IsTop(DOMAIN logs, t) /\ \A g \in Gone : g < t
      BY <2>2 DEF FilesOK, TopSafe
    <3>2. t \notin Gone
      BY <3>1, SegType DEF FilesOK
    <3>3. t \in DOMAIN logs' /\ IsTop(DOMAIN logs', t)
      BY <1>1, <3>1, <3>2 DEF IsTop
    <3> QED  BY <1>6, <3>1, <3>3 DEF TopSafe
  <2> QED  BY <2>1, <2>2
<1>8. Unique'
  <2>1. View' \subseteq View
    BY <1>1 DEF View, Olds, News
  <2>2. \A h \in View' : h \in DOMAIN logs'
    BY DEF View
  <2> QED  BY <1>1, <2>1, <2>2 DEF FilesOK, Unique, UniqueIn
<1>9. ASSUME NEW c \in manifest.copies PROVE c.new \notin S
  <2>1. c.new \in Nat
    BY LogAssumption DEF FilesOK, TypesA, Copies, Segs
  <2>2. \A g \in Gone : g < c.new
    BY DEF FilesOK, ManifestOK
  <2> QED  BY <2>1, <2>2
<1> QED  BY <1>1, <1>2, <1>3, <1>4, <1>5, <1>6, <1>7, <1>8, <1>9

\* Deleting fully trimmed segments.
LEMMA FilesCompactDelete ==
    ASSUME FilesOK, CompactDelete
    PROVE  FilesOK'
<1>1. PICK g \in manifest.del \cap DOMAIN logs : RemoveSegments({g})
  BY DEF CompactDelete
<1>2. UNCHANGED <<tmpLog, tmpIdx, ret, manifest, pc, todo>> /\ pc = "delete"
  BY DEF CompactDelete
<1>3. {g} \in SUBSET Gone /\ todo' \subseteq Copies /\ pc' \in PCs
  BY <1>1, <1>2 DEF Gone, FilesOK, TypesA
<1>4. /\ TypesA' /\ TornLast' /\ IdxBound' /\ TopSafe' /\ ManifestOK' /\ DelTrimmed' /\ Unique'
      /\ DOMAIN logs' = DOMAIN logs \ {g} /\ \A h \in DOMAIN logs' : logs'[h] = logs[h]
  BY <1>1, <1>2, <1>3, RemoveParts DEF Loading, PreSwitch
<1>5. g \notin Olds
  BY <1>1 DEF FilesOK, ManifestOK
<1>6. CopyState'
  <2>1. Olds' = Olds /\ Olds \subseteq DOMAIN logs'
    BY <1>2, <1>4, <1>5 DEF FilesOK, CopyState, PreSwitch, Olds
  <2>2. todo = manifest.copies /\ \A c \in todo : c.new \notin DOMAIN logs
    BY <1>2 DEF FilesOK, CopyState, PreSwitch
  <2>3. DOMAIN tmpLog = {} /\ tmpIdx = {}
    BY <1>2 DEF FilesOK, CopyState
  <2> QED  BY <1>2, <1>4, <2>1, <2>2, <2>3 DEF CopyState
<1>7. Leftover'
  BY <1>2 DEF Leftover, PreSwitch
<1> QED  BY <1>4, <1>6, <1>7 DEF FilesOK

\* Removing the segments that were copied: the copies hold what is live.
LEMMA FilesCompactRemove ==
    ASSUME FilesOK, CompactRemove
    PROVE  FilesOK'
<1>1. PICK g \in Olds \cap DOMAIN logs : RemoveSegments({g})
  BY DEF CompactRemove
<1>2. UNCHANGED <<tmpLog, tmpIdx, ret, manifest, pc, todo>> /\ pc = "remove"
  BY DEF CompactRemove
<1>3. {g} \in SUBSET Gone /\ todo' \subseteq Copies /\ pc' \in PCs
  BY <1>1, <1>2 DEF Gone, FilesOK, TypesA
<1>4. /\ TypesA' /\ TornLast' /\ IdxBound' /\ TopSafe' /\ ManifestOK' /\ DelTrimmed' /\ Unique'
      /\ DOMAIN logs' = DOMAIN logs \ {g} /\ (\A h \in DOMAIN logs' : logs'[h] = logs[h])
      /\ DOMAIN idx' = DOMAIN idx \ {g}
      /\ \A c \in manifest.copies : c.new \notin {g}
  BY <1>1, <1>2, <1>3, RemoveParts DEF Loading, PreSwitch
<1>6. CopyState'
  <2>1. manifest.copies # {} /\ \A c \in manifest.copies : c.new \in DOMAIN logs
    BY <1>2 DEF FilesOK, CopyState
  <2>3. DOMAIN tmpLog = {} /\ tmpIdx = {}
    BY <1>2 DEF FilesOK, CopyState
  <2> QED  BY <1>2, <1>4, <2>1, <2>3 DEF CopyState, PreSwitch
<1>7. Leftover'
  <2>1. ASSUME NEW c \in manifest.copies, c.old \in DOMAIN logs'
        PROVE  c.new \in DOMAIN idx' /\ LiveCopied(logs[c.new], c.old)'
    <3>1. c.new \in DOMAIN idx /\ LiveCopied(logs[c.new], c.old)
      BY <1>2, <1>4, <2>1 DEF FilesOK, Leftover, PreSwitch
    <3>2. c.new \in DOMAIN logs /\ c.new \in DOMAIN logs'
      BY <1>4, <3>1 DEF FilesOK, TypesA
    <3> QED  BY <1>2, <1>4, <2>1, <3>1, <3>2 DEF LiveCopied
  <2> QED  BY <1>2, <2>1 DEF Leftover
<1> QED  BY <1>4, <1>6, <1>7 DEF FilesOK

\* What a record of a copied segment may find: Open renames nothing, and only a
\* segment whose copy is complete goes.
LEMMA ReconcileCopyIs ==
    ASSUME FilesOK, ReconcileCopy, Turn \in todo
    PROVE  /\ pc = "reconcile" /\ todo' = todo \ {Turn} /\ pc' \in {"reconcile", "stuck"}
           /\ UNCHANGED <<tmpLog, tmpIdx, ret, manifest>>
           /\ \/ RemoveSegments({Turn.old})
              \/ UNCHANGED <<logs, idx>> /\ Turn.old \notin DOMAIN logs
<1>1. pc = "reconcile" /\ DOMAIN tmpLog = {} /\ tmpIdx = {}
  BY DEF ReconcileCopy, FilesOK, CopyState
<1>2. UNCHANGED <<ret, manifest>>
  BY DEF ReconcileCopy
<1>3. \/ /\ Turn.new \in DOMAIN logs /\ Turn.new \in DOMAIN idx
         /\ logs' = Without(logs, {Turn.old})
         /\ idx' = Without(idx, {Turn.old})
         /\ tmpLog' = tmpLog /\ tmpIdx' = tmpIdx
         /\ pc' = pc /\ todo' = todo \ {Turn}
      \/ /\ ~(Turn.new \in DOMAIN logs /\ Turn.new \in DOMAIN idx)
         /\ Turn.old \in DOMAIN logs
      \/ /\ Turn.old \notin DOMAIN logs
         /\ pc' = pc \/ pc' = "stuck"
         /\ todo' = todo \ {Turn}
         /\ logs' = logs /\ idx' = idx /\ tmpLog' = tmpLog /\ tmpIdx' = tmpIdx
  BY <1>1 DEF ReconcileCopy
<1>4. Turn.old \in DOMAIN logs => Turn.new \in DOMAIN logs /\ Turn.new \in DOMAIN idx
  <2>1. Turn \in manifest.copies
    BY <1>1 DEF FilesOK, Leftover
  <2> QED  BY <1>1, <2>1 DEF FilesOK, Leftover, TypesA, PreSwitch
<1> QED  BY <1>1, <1>2, <1>3, <1>4 DEF RemoveSegments

\* The copy whose turn it is has the least old segment of those left.
LEMMA TurnIn ==
    ASSUME todo \subseteq Copies, todo # {}
    PROVE  Turn \in todo /\ \A d \in todo : Turn.old <= d.old
<1> DEFINE S == {c.old : c \in todo}
<1>1. S \in SUBSET Nat /\ S # {}
  BY LogAssumption DEF Copies, Segs
<1>2. PICK x \in S : \A y \in S : x <= y
  BY <1>1, LeastNat
<1>3. PICK c \in todo : x = c.old
  BY <1>2
<1>4. \A d \in todo : c.old <= d.old
  BY <1>2, <1>3
<1> QED  BY <1>4 DEF Turn

\* Open takes up a copy that a compaction left.
LEMMA FilesReconcileCopy ==
    ASSUME FilesOK, ReconcileCopy
    PROVE  FilesOK'
<1>1. todo # {} /\ Turn \in todo
  BY TurnIn DEF ReconcileCopy, FilesOK, TypesA
<1>2. /\ pc = "reconcile" /\ todo' = todo \ {Turn} /\ pc' \in {"reconcile", "stuck"}
      /\ UNCHANGED <<tmpLog, tmpIdx, ret, manifest>>
  BY <1>1, ReconcileCopyIs
<1>3. Turn \in manifest.copies /\ todo \subseteq manifest.copies
      /\ \A c \in manifest.copies \ todo : c.old \notin DOMAIN logs
  BY <1>1, <1>2 DEF FilesOK, Leftover
<1>4. todo' \subseteq Copies /\ pc' \in PCs
  BY <1>2 DEF FilesOK, TypesA, PCs
<1>5. CopyState'
  BY <1>2 DEF FilesOK, CopyState, PreSwitch
<1>6. CASE RemoveSegments({Turn.old})
  <2>1. {Turn.old} \in SUBSET Gone
    BY <1>3 DEF Gone, Olds
  <2> DEFINE g == Turn.old
  <2> HIDE DEF g
  <2>2. /\ TypesA' /\ TornLast' /\ IdxBound' /\ TopSafe' /\ ManifestOK' /\ DelTrimmed' /\ Unique'
        /\ DOMAIN logs' = DOMAIN logs \ {g} /\ (\A h \in DOMAIN logs' : logs'[h] = logs[h])
        /\ DOMAIN idx' = DOMAIN idx \ {g}
        /\ \A c \in manifest.copies : c.new \notin {g}
    BY <1>2, <1>4, <1>6, <2>1, RemoveParts DEF Loading, PreSwitch, g
  <2>3. Leftover'
    <3>1. ASSUME NEW c \in manifest.copies, c.old \in DOMAIN logs'
          PROVE  c.new \in DOMAIN idx' /\ LiveCopied(logs[c.new], c.old)'
      <4>1. c.new \in DOMAIN idx /\ LiveCopied(logs[c.new], c.old)
        BY <1>2, <2>2, <3>1 DEF FilesOK, Leftover, PreSwitch
      <4>2. c.new \in DOMAIN logs /\ c.new \in DOMAIN logs'
        BY <2>2, <4>1 DEF FilesOK, TypesA
      <4> QED  BY <1>2, <2>2, <3>1, <4>1, <4>2 DEF LiveCopied
    <3>2. \A c \in manifest.copies \ todo' : c.old \notin DOMAIN logs'
      BY <1>2, <1>3, <2>2 DEF g
    <3> QED  BY <1>2, <1>3, <3>1, <3>2 DEF Leftover
  <2> QED  BY <1>5, <2>2, <2>3 DEF FilesOK
<1>7. CASE UNCHANGED <<logs, idx>> /\ Turn.old \notin DOMAIN logs
  <2>1. TypesA' /\ TornLast' /\ IdxBound'
    BY <1>2, <1>4, <1>7 DEF FilesOK, TypesA, TornLast, IdxBound, Loading
  <2>2. TopSafe' /\ ManifestOK' /\ DelTrimmed'
    BY <1>2, <1>7 DEF FilesOK, TopSafe, ManifestOK, DelTrimmed, Gone, Olds, Loading
  <2>3. Leftover'
    <3>1. \A c \in manifest.copies \ todo' : c.old \notin DOMAIN logs'
      BY <1>2, <1>3, <1>7
    <3> QED  BY <1>2, <1>3, <1>7, <3>1 DEF FilesOK, Leftover, LiveCopied, PreSwitch
  <2>4. Unique'
    <3>1. View' = View
      BY <1>2, <1>7 DEF View, Olds, News, PreSwitch
    <3> QED  BY <1>7, <3>1 DEF FilesOK, Unique, UniqueIn
  <2> QED  BY <1>5, <2>1, <2>2, <2>3, <2>4 DEF FilesOK
<1> QED  BY <1>1, <1>6, <1>7, ReconcileCopyIs

\* Open deletes what a compaction had still to delete.
LEMMA FilesReconcileDelete ==
    ASSUME FilesOK, ReconcileDelete
    PROVE  FilesOK'
<1>1. /\ RemoveSegments(manifest.del) /\ pc = "reconcile" /\ todo = {} /\ pc' = "recover"
      /\ UNCHANGED <<tmpLog, tmpIdx, ret, manifest, todo>>
  BY DEF ReconcileDelete
<1>2. manifest.del \in SUBSET Gone /\ todo' \subseteq Copies /\ pc' \in PCs
  BY <1>1 DEF Gone, PCs
<1>3. /\ TypesA' /\ TornLast' /\ IdxBound' /\ TopSafe' /\ ManifestOK' /\ DelTrimmed' /\ Unique'
      /\ DOMAIN logs' = DOMAIN logs \ manifest.del
  BY <1>1, <1>2, RemoveParts DEF Loading, PreSwitch
<1>4. CopyState'
  BY <1>1 DEF FilesOK, CopyState, PreSwitch
<1>5. Olds' \cap DOMAIN logs' = {}
  BY <1>1, <1>3 DEF FilesOK, Leftover, Olds
<1>6. Leftover'
  BY <1>1, <1>5 DEF Leftover, Olds
<1> QED  BY <1>3, <1>4, <1>6 DEF FilesOK

\* An index file that is flushed lists what the Store knows of the segment.
LEMMA ListedBound ==
    ASSUME FilesOK, TypesB, IndexOK, pc \notin Loading, pc # "delete", NEW g
    PROVE  /\ Listed(g) \in Nat
           /\ g \in View => Listed(g) <= Len(logs[g])
           /\ g \notin View => Listed(g) = 0
<1> DEFINE T == {e \in entries : e.seg = g}
<1>1. IsFiniteSet(T)
  BY FS_Subset DEF IndexOK
<1>2. Listed(g) = Cardinality(T)
  BY DEF Listed
<1>3. \A e \in T : g \in View /\ e.pos \in DOMAIN logs[g] /\ e = EntryAt(g, e.pos)
  BY DEF IndexOK
<1> HIDE DEF T
<1>4. CASE g \notin View
  <2>1. T = {}
    BY <1>3, <1>4
  <2> QED  BY <1>2, <1>4, <2>1, FS_EmptySet
<1>5. CASE g \in View
  <2>1. g \in DOMAIN logs
    BY <1>5 DEF View
  <2>2. Len(logs[g]) \in Nat /\ DOMAIN logs[g] = 1 .. Len(logs[g])
    BY <2>1, SegType DEF FilesOK
  <2> DEFINE f == [e \in T |-> e.pos]
  <2>3. f \in Injection(T, 1 .. Len(logs[g]))
    <3>1. f \in [T -> 1 .. Len(logs[g])]
      BY <1>3, <2>2
    <3>2. ASSUME NEW d \in T, NEW e \in T, f[d] = f[e] PROVE d = e
      BY <1>3, <3>2
    <3> QED  BY <3>1, <3>2 DEF Injection, IsInjective
  <2>4. IsFiniteSet(1 .. Len(logs[g])) /\ Cardinality(1 .. Len(logs[g])) = Len(logs[g])
    BY <2>2, FS_Interval
  <2> HIDE DEF f
  <2>5. Cardinality(T) <= Len(logs[g])
    BY <2>3, <2>4, FS_Injection
  <2>6. Cardinality(T) \in Nat
    BY <1>1, FS_CardinalityType
  <2> QED  BY <1>2, <1>5, <2>5, <2>6
<1> QED  BY <1>4, <1>5

\* Raising a watermark: no segment of the manifest gains a live record.
LEMMA FilesTrim ==
    ASSUME FilesOK, ActiveOK, NEW s \in Streams, Trim(s), TypesB
    PROVE  FilesOK'
<1>1. /\ pc = "idle" /\ UNCHANGED <<logs, idx, tmpLog, tmpIdx, manifest, pc, todo>>
  BY DEF Trim
<1>2. PICK b \in 1 .. next[s] : b > trim[s] /\ trim' = [trim EXCEPT ![s] = b] /\ ret' = trim'
  BY DEF Trim
<1>3. trim = ret /\ trim \in [Streams -> Nat] /\ next[s] \in Nat
  BY <1>1 DEF ActiveOK, Loading, TypesB
<1>4. ret' \in [Streams -> Nat] /\ \A u \in Streams : ret[u] <= ret'[u] /\ ret[u] \in Nat /\ ret'[u] \in Nat
  BY <1>2, <1>3
<1>5. Settled
  BY <1>1, SettledAt DEF Quiet
<1>6. TypesA' /\ TornLast' /\ IdxBound'
  BY <1>1, <1>4 DEF FilesOK, TypesA, TornLast, IdxBound
<1>7. TopSafe' /\ ManifestOK'
  BY <1>1 DEF FilesOK, TopSafe, ManifestOK, Gone, Olds
<1>8. DelTrimmed'
  <2> SUFFICES ASSUME NEW g \in manifest.del \cap DOMAIN logs, NEW i \in DOMAIN logs[g], logs[g][i] # Torn
               PROVE  logs[g][i].seq < ret'[logs[g][i].stream]
    BY <1>1 DEF DelTrimmed
  <2>1. logs[g][i] \in Records
    BY SegType DEF FilesOK
  <2>2. logs[g][i].seq < ret[logs[g][i].stream] /\ logs[g][i].seq \in Nat /\ logs[g][i].stream \in Streams
    BY <2>1 DEF FilesOK, DelTrimmed, Records
  <2> QED  BY <1>4, <2>2
<1>9. CopyState' /\ Leftover'
  BY <1>1, <1>5 DEF Settled, CopyState, Leftover, PreSwitch, Olds
<1>10. Unique'
  BY <1>1 DEF FilesOK, Unique, UniqueIn, View, Olds, News
<1> QED  BY <1>6, <1>7, <1>8, <1>9, <1>10 DEF FilesOK

\* A crash leaves the files to Open.
LEMMA FilesCrash ==
    ASSUME FilesOK, Crash, ~MidCopy
    PROVE  FilesOK'
<1>1. /\ logs' = logs /\ idx' = idx /\ tmpLog' = tmpLog /\ tmpIdx' = tmpIdx /\ ret' = ret
      /\ manifest' = manifest /\ pc' = "down" /\ todo' = {}
  BY DEF Crash, Stop, Closed, disk
<1>2. TypesA' /\ TornLast' /\ IdxBound'
  BY <1>1 DEF FilesOK, TypesA, TornLast, IdxBound, PCs, Loading
<1>3. TopSafe' /\ ManifestOK' /\ DelTrimmed'
  BY <1>1 DEF FilesOK, TopSafe, ManifestOK, DelTrimmed, Gone, Olds, Loading
<1>4. pc \notin {"copy", "copyIndex", "renameLog", "renameIndex"}
  BY DEF FilesOK, CopyState, MidCopy, PreSwitch
<1>5. CopyState'
  BY <1>1, <1>4 DEF FilesOK, CopyState, PreSwitch
<1>6. pc = "delete" => manifest.copies = {}
  BY DEF MidCopy, PreSwitch
<1>7. Leftover'
  <2>1. ASSUME NEW c \in manifest.copies, c.old \in DOMAIN logs
        PROVE  c.new \in DOMAIN idx /\ LiveCopied(logs[c.new], c.old)
    <3>1. CASE pc = "switch"
      BY <3>1 DEF FilesOK, CopyState, PreSwitch, CopyOf
    <3>2. CASE pc \notin PreSwitch
      BY <2>1, <3>2 DEF FilesOK, Leftover
    <3> QED  BY <1>4, <1>6, <3>1, <3>2 DEF PreSwitch
  <2> QED  BY <1>1, <2>1 DEF Leftover, LiveCopied, PreSwitch
<1>8. Unique'
  <2>1. View' = DOMAIN logs \ Olds
    BY <1>1 DEF View, PreSwitch, Olds
  <2>2. UniqueIn(DOMAIN logs \ Olds)
    <3>1. CASE pc = "switch"
      BY <3>1, SwitchUnique
    <3>2. CASE pc # "switch"
      <4>1. View = DOMAIN logs \ Olds
        BY <1>4, <1>6, <3>2 DEF View, PreSwitch, Olds, News
      <4> QED  BY <4>1 DEF FilesOK, Unique
    <3> QED  BY <3>1, <3>2
  <2> QED  BY <1>1, <2>1, <2>2 DEF Unique, UniqueIn
<1> QED  BY <1>2, <1>3, <1>5, <1>7, <1>8 DEF FilesOK

\* Open begins: the temporary files of a compaction go.
LEMMA FilesOpen ==
    ASSUME FilesOK, Open
    PROVE  FilesOK'
<1>1. /\ logs' = logs /\ idx' = idx /\ tmpLog' = tmpLog /\ tmpIdx' = tmpIdx /\ ret' = ret
      /\ manifest' = manifest /\ pc = "down" /\ pc' = "reconcile" /\ todo' = manifest.copies
  BY DEF Open, disk
<1>2. TypesA' /\ TornLast' /\ IdxBound'
  BY <1>1 DEF FilesOK, TypesA, TornLast, IdxBound, PCs, Loading
<1>3. TopSafe' /\ ManifestOK' /\ DelTrimmed'
  BY <1>1 DEF FilesOK, TopSafe, ManifestOK, DelTrimmed, Gone, Olds, Loading
<1>4. CopyState'
  BY <1>1 DEF FilesOK, CopyState, PreSwitch
<1>5. Leftover'
  BY <1>1 DEF FilesOK, Leftover, LiveCopied, PreSwitch
<1>6. Unique'
  BY <1>1 DEF FilesOK, Unique, UniqueIn, View, Olds, News, PreSwitch
<1> QED  BY <1>2, <1>3, <1>4, <1>5, <1>6 DEF FilesOK

\* While the Store is open every record is readable, but one that is being written.
LEMMA NoTorn ==
    ASSUME FilesOK, pc \notin Loading \cup {"torn"}, NEW g \in DOMAIN logs, NEW i \in DOMAIN logs[g]
    PROVE  logs[g][i] # Torn /\ logs[g][i] \in Records /\ i \in Nat /\ i <= Len(logs[g])
<1>1. logs[g][i] # Torn
  BY DEF FilesOK, TornLast
<1>2. logs[g][i] \in Records \cup {Torn} /\ Len(logs[g]) \in Nat /\ DOMAIN logs[g] = 1 .. Len(logs[g])
  BY SegType DEF FilesOK
<1> QED  BY <1>1, <1>2

\* An Append that finds the active segment full begins a new one above all others.
LEMMA FilesAppendRoll ==
    ASSUME FilesOK, TypesB, ActiveOK, IndexOK, AppendRoll
    PROVE  FilesOK'
<1>1. /\ pc = "roll" /\ active < MaxSeg /\ idx' = With(idx, active, Listed(active)) /\ active' = active + 1
      /\ logs' = IF active + 1 \in DOMAIN logs THEN logs ELSE With(logs, active + 1, <<>>)
      /\ pc' = "rollIndex"
      /\ UNCHANGED <<tmpLog, tmpIdx, ret, manifest, todo>>
  BY DEF AppendRoll
<1>2. active \in DOMAIN logs /\ IsTop(DOMAIN logs, active) /\ active \in Nat
  BY <1>1, LogAssumption DEF ActiveOK, Loading, PreSwitch, Writing, Segs
<1>3. active + 1 \in Segs /\ \A h \in DOMAIN logs : h < active + 1
  <2>1. \A h \in DOMAIN logs : h \in Nat /\ h <= active
    BY <1>2, SegType DEF FilesOK, IsTop
  <2> QED  BY <1>1, <1>2, <2>1, LogAssumption DEF Segs
<1>4. active + 1 \notin DOMAIN logs
  BY <1>2, <1>3
<1>5. logs' = With(logs, active + 1, <<>>)
  BY <1>1, <1>4
<1>6. Settled
  BY <1>1, SettledAt DEF Quiet
<1>7. Listed(active) \in Nat /\ Listed(active) <= Len(logs[active])
  BY <1>1, <1>2, <1>6, ListedBound DEF Loading, Settled
<1>8. /\ DOMAIN idx' = DOMAIN idx \cup {active} /\ idx'[active] = Listed(active)
      /\ (\A g \in DOMAIN idx : g # active => idx'[g] = idx[g])
      /\ idx' = [g \in DOMAIN idx' |-> idx'[g]]
  BY <1>1 DEF With
<1>9. DOMAIN logs' = DOMAIN logs \cup {active + 1} /\ \A g \in DOMAIN logs : logs'[g] = logs[g]
  BY <1>4, <1>5 DEF With
<1>10. DOMAIN idx' \subseteq DOMAIN logs' /\ idx' \in [DOMAIN idx' -> Nat]
  <2>1. \A g \in DOMAIN idx' : idx'[g] \in Nat
    BY <1>7, <1>8 DEF FilesOK, TypesA
  <2>2. DOMAIN idx' \subseteq DOMAIN logs'
    BY <1>2, <1>8, <1>9 DEF FilesOK, TypesA
  <2> QED  BY <1>8, <2>1, <2>2
<1>11. \A g \in DOMAIN logs : \A i \in DOMAIN logs[g] : logs[g][i] # Torn
  BY <1>1, NoTorn DEF Loading
<1>12. IdxBound'
  <2> SUFFICES ASSUME NEW g \in DOMAIN idx'
               PROVE  idx'[g] <= Len(logs'[g]) /\ \A i \in 1 .. idx'[g] : logs'[g][i] # Torn
    BY DEF IdxBound
  <2>1. CASE g = active
    <3>1. DOMAIN logs[active] = 1 .. Len(logs[active]) /\ Len(logs[active]) \in Nat
      BY <1>2, SegType DEF FilesOK
    <3> QED  BY <1>2, <1>7, <1>8, <1>9, <1>11, <2>1, <3>1
  <2>2. CASE g # active
    <3>1. g \in DOMAIN idx /\ g \in DOMAIN logs
      BY <1>8, <2>2 DEF FilesOK, TypesA
    <3> QED  BY <1>8, <1>9, <2>2, <3>1 DEF FilesOK, IdxBound
  <2> QED  BY <2>1, <2>2
<1>13. pc' \in Quiet /\ todo' \subseteq Copies
  BY <1>1 DEF Quiet, FilesOK, TypesA
<1> QED  BY <1>1, <1>3, <1>5, <1>6, <1>10, <1>11, <1>12, <1>13, FilesNewSegment

\* Its index file is made after it.
LEMMA FilesAppendRollIndex ==
    ASSUME FilesOK, TypesB, ActiveOK, AppendRollIndex
    PROVE  FilesOK'
<1>1. /\ pc = "rollIndex" /\ idx' = (IF active \in DOMAIN idx THEN idx ELSE With(idx, active, 0))
      /\ pc' = "write" /\ UNCHANGED <<logs, tmpLog, tmpIdx, ret, manifest, todo>>
  BY DEF AppendRollIndex
<1>2. active \in DOMAIN logs
  BY <1>1 DEF ActiveOK, Loading
<1>3. Settled
  BY <1>1, SettledAt DEF Quiet
<1>4. /\ DOMAIN idx' = DOMAIN idx \cup {active}
      /\ (\A g \in DOMAIN idx : idx'[g] = idx[g])
      /\ active \in DOMAIN idx \/ idx'[active] = 0
      /\ idx' = [g \in DOMAIN idx' |-> idx'[g]]
  BY <1>1 DEF With, FilesOK, TypesA
<1>5. DOMAIN idx' \subseteq DOMAIN logs /\ idx' \in [DOMAIN idx' -> Nat]
  <2>1. \A g \in DOMAIN idx' : idx'[g] \in Nat
    BY <1>4 DEF FilesOK, TypesA
  <2>2. DOMAIN idx' \subseteq DOMAIN logs
    BY <1>2, <1>4 DEF FilesOK, TypesA
  <2> QED  BY <1>4, <2>1, <2>2
<1>6. IdxBound'
  <2> SUFFICES ASSUME NEW g \in DOMAIN idx'
               PROVE  idx'[g] <= Len(logs[g]) /\ \A i \in 1 .. idx'[g] : logs[g][i] # Torn
    BY <1>1 DEF IdxBound
  <2>1. CASE g \in DOMAIN idx
    BY <1>4, <2>1 DEF FilesOK, IdxBound
  <2>2. CASE g \notin DOMAIN idx
    <3>1. g = active /\ idx'[g] = 0
      BY <1>4, <2>2
    <3>2. Len(logs[g]) \in Nat
      BY <1>2, <3>1, SegType DEF FilesOK
    <3> QED  BY <3>1, <3>2
  <2> QED  BY <2>1, <2>2
<1>7. \A g \in DOMAIN logs : \A i \in DOMAIN logs[g] : logs[g][i] # Torn
  BY <1>1, NoTorn DEF Loading
<1>8. pc' \in Quiet /\ todo' \subseteq Copies
  BY <1>1 DEF Quiet, FilesOK, TypesA
<1> QED  BY <1>1, <1>2, <1>3, <1>5, <1>6, <1>7, <1>8, FilesSettled

\* The record that is being appended has a number and a key of its own.
LEMMA FreshPend ==
    ASSUME FilesOK, TypesB, Numbers, pc \in {"roll", "rollIndex", "write"}, NEW r \in Stored
    PROVE  ~SameSeq(r, pend) /\ ~SameKey(r, pend)
<1>1. pend \in Records /\ pend.seq = next[pend.stream] /\ ~SameKey(r, pend)
  BY DEF Numbers, Appending
<1>2. r \in Records
  BY StoredType DEF FilesOK
<1>3. IsTop(Given(pend.stream), next[pend.stream])
  BY <1>1 DEF Numbers, Loading, Records
<1>4. r.stream = pend.stream => r.seq + 1 <= next[pend.stream]
  <2> SUFFICES ASSUME r.stream = pend.stream PROVE r.seq + 1 \in Given(pend.stream)
    BY <1>3 DEF IsTop
  <2> QED  BY DEF Given, GivenBy
<1>5. r.seq \in Nat /\ pend.seq \in Nat
  BY <1>1, <1>2 DEF Records
<1> QED  BY <1>1, <1>4, <1>5 DEF SameSeq

\* A written record, complete or torn, is the last of the active segment.
LEMMA FilesAppendWrite ==
    ASSUME FilesOK, TypesB, ActiveOK, Numbers, AppendWrite
    PROVE  FilesOK'
<1>1. /\ pc = "write" /\ UNCHANGED <<idx, tmpLog, tmpIdx, ret, manifest, todo>>
  BY DEF AppendWrite
<1>2. PICK x : /\ logs' = [logs EXCEPT ![active] = Append(@, x)]
               /\ \/ x = pend /\ pc' = "written"
                  \/ x = Torn /\ pc' = "torn"
  BY DEF AppendWrite
<1>3. active \in DOMAIN logs /\ IsTop(DOMAIN logs, active) /\ active \in Nat
  BY <1>1, LogAssumption DEF ActiveOK, Loading, PreSwitch, Writing, Segs
<1>4. pend \in Records
  BY <1>1 DEF Numbers, Appending
<1>5. x \in Records \cup {Torn}
  BY <1>2, <1>4
<1> DEFINE n == Len(logs[active]) + 1
<1>6. /\ DOMAIN logs' = DOMAIN logs
      /\ (\A g \in DOMAIN logs : g # active => logs'[g] = logs[g])
      /\ logs'[active] = Append(logs[active], x)
  BY <1>2, <1>3 DEF FilesOK, TypesA
<1>7. /\ Len(logs[active]) \in Nat /\ DOMAIN logs[active] = 1 .. Len(logs[active])
      /\ logs[active] \in Seq(Records \cup {Torn})
  BY <1>3, SegType DEF FilesOK
<1>8. /\ Len(logs'[active]) = n /\ DOMAIN logs'[active] = 1 .. n /\ logs'[active][n] = x
      /\ (\A i \in 1 .. Len(logs[active]) : logs'[active][i] = logs[active][i])
      /\ logs'[active] \in Seq(Records \cup {Torn})
  BY <1>5, <1>6, <1>7
<1>9. \A g \in DOMAIN logs : \A i \in DOMAIN logs[g] : logs[g][i] # Torn /\ logs'[g][i] = logs[g][i]
  BY <1>1, <1>6, <1>7, <1>8, NoTorn DEF Loading
<1>10. \A g \in DOMAIN logs' : \A i \in DOMAIN logs'[g] : (g = active /\ i = n) \/ i \in DOMAIN logs[g]
  BY <1>6, <1>7, <1>8
<1> HIDE DEF n
<1>11. Settled
  BY <1>1, SettledAt DEF Quiet
<1>12. TypesA'
  <2>1. \A g \in DOMAIN logs' : logs'[g] \in Seq(Records \cup {Torn})
    BY <1>6, <1>8, SegType DEF FilesOK
  <2>2. logs' = [g \in DOMAIN logs' |-> logs'[g]]
    BY <1>2 DEF FilesOK, TypesA
  <2>3. pc' \in PCs
    BY <1>2 DEF PCs
  <2> QED  BY <1>1, <1>6, <2>1, <2>2, <2>3 DEF FilesOK, TypesA
<1>13. TornLast'
  <2> SUFFICES ASSUME NEW g \in DOMAIN logs', NEW i \in DOMAIN logs'[g], logs'[g][i] = Torn
               PROVE  i = Len(logs'[g]) /\ pc' \in Loading \cup {"torn"}
    BY DEF TornLast
  <2>1. g = active /\ i = n
    BY <1>6, <1>9, <1>10
  <2>2. x = Torn
    BY <1>8, <2>1
  <2> QED  BY <1>2, <1>4, <1>8, <2>1, <2>2, TornAssumption
<1>14. IdxBound'
  <2> SUFFICES ASSUME NEW g \in DOMAIN idx
               PROVE  idx[g] <= Len(logs'[g]) /\ \A i \in 1 .. idx[g] : logs'[g][i] # Torn
    BY <1>1 DEF IdxBound
  <2>1. /\ g \in DOMAIN logs /\ idx[g] \in Nat /\ idx[g] <= Len(logs[g])
        /\ \A i \in 1 .. idx[g] : logs[g][i] # Torn
    BY DEF FilesOK, IdxBound, TypesA
  <2>2. Len(logs[g]) \in Nat /\ DOMAIN logs[g] = 1 .. Len(logs[g])
    BY <2>1, SegType DEF FilesOK
  <2>3. Len(logs[g]) <= Len(logs'[g]) /\ Len(logs'[g]) \in Nat
    BY <1>6, <1>7, <1>8, <2>1, <2>2 DEF n
  <2> QED  BY <1>9, <2>1, <2>2, <2>3
<1>15. TopSafe' /\ ManifestOK'
  <2>1. DOMAIN logs # {}
    BY <1>3
  <2> QED  BY <1>1, <1>6, <2>1 DEF FilesOK, TopSafe, ManifestOK, Gone, Olds
<1>16. \A g \in Gone : g # active
  <2>1. PICK t \in DOMAIN logs : IsTop(DOMAIN logs, t) /\ \A g \in Gone : g < t
    BY <1>3 DEF FilesOK, TopSafe
  <2>2. t = active
    BY <1>3, <2>1, SegType DEF FilesOK, IsTop
  <2> QED  BY <1>3, <2>1, <2>2
<1>17. DelTrimmed'
  BY <1>1, <1>6, <1>16 DEF FilesOK, DelTrimmed, Gone
<1>18. CopyState' /\ Leftover'
  <2>1. pc' \notin PreSwitch /\ pc' \notin {"copyIndex", "renameLog", "renameIndex", "remove", "reconcile"}
    BY <1>2 DEF PreSwitch
  <2>2. Olds' \cap DOMAIN logs' = {}
    BY <1>1, <1>6, <1>11 DEF Settled, Olds
  <2>3. \A c \in manifest'.copies : c.old \notin DOMAIN logs'
    BY <2>2 DEF Olds
  <2> QED  BY <1>1, <1>11, <2>1, <2>2, <2>3 DEF Settled, CopyState, Leftover, PreSwitch
<1>19. Unique'
  <2>1. View' \subseteq DOMAIN logs
    BY <1>6 DEF View
  <2>2. ASSUME NEW g \in DOMAIN logs, NEW i \in DOMAIN logs[g], pc' = "written"
        PROVE  ~SameSeq(logs[g][i], pend) /\ ~SameKey(logs[g][i], pend)
    BY <1>1, <1>9, FreshPend, StoredIs DEF FilesOK
  <2>3. ASSUME NEW g \in DOMAIN logs, NEW i \in DOMAIN logs[g], pc' = "written"
        PROVE  ~SameSeq(pend, logs[g][i]) /\ ~SameKey(pend, logs[g][i])
    BY <2>2, <2>3 DEF SameSeq, SameKey
  <2> SUFFICES ASSUME NEW g \in DOMAIN logs, NEW h \in DOMAIN logs,
                      NEW i \in DOMAIN logs'[g], NEW j \in DOMAIN logs'[h],
                      logs'[g][i] # Torn, logs'[h][j] # Torn,
                      SameSeq(logs'[g][i], logs'[h][j]) \/ SameKey(logs'[g][i], logs'[h][j])
               PROVE  g = h /\ i = j
    BY <2>1 DEF Unique, UniqueIn
  <2>4. CASE i \in DOMAIN logs[g] /\ j \in DOMAIN logs[h]
    BY <1>9, <1>11, <2>4 DEF Settled, UniqueIn
  <2>5. CASE g = active /\ i = n /\ h = active /\ j = n
    BY <2>5
  <2>6. CASE g = active /\ i = n /\ j \in DOMAIN logs[h]
    BY <1>2, <1>8, <1>9, <2>3, <2>6
  <2>7. CASE h = active /\ j = n /\ i \in DOMAIN logs[g]
    BY <1>2, <1>8, <1>9, <2>2, <2>7
  <2> QED  BY <1>6, <1>10, <2>4, <2>5, <2>6, <2>7
<1> QED  BY <1>12, <1>13, <1>14, <1>15, <1>17, <1>18, <1>19 DEF FilesOK

\* Close flushes an index file that lists what the Store knows.
LEMMA FilesClose ==
    ASSUME FilesOK, TypesB, ActiveOK, IndexOK, Close
    PROVE  FilesOK'
<1>1. /\ pc = "idle" /\ idx' = With(idx, active, Listed(active)) /\ pc' = "down" /\ todo' = {}
      /\ UNCHANGED <<logs, tmpLog, tmpIdx, ret, manifest>>
  BY DEF Close, Stop, Closed
<1>2. active \in DOMAIN logs
  BY <1>1 DEF ActiveOK, Loading
<1>3. Settled
  BY <1>1, SettledAt DEF Quiet
<1>4. Listed(active) \in Nat /\ Listed(active) <= Len(logs[active])
  BY <1>1, <1>2, <1>3, ListedBound DEF Loading, Settled
<1>5. /\ DOMAIN idx' = DOMAIN idx \cup {active} /\ idx'[active] = Listed(active)
      /\ (\A g \in DOMAIN idx : g # active => idx'[g] = idx[g])
      /\ idx' = [g \in DOMAIN idx' |-> idx'[g]]
  BY <1>1 DEF With
<1>6. DOMAIN idx' \subseteq DOMAIN logs /\ idx' \in [DOMAIN idx' -> Nat]
  <2>1. \A g \in DOMAIN idx' : idx'[g] \in Nat
    BY <1>4, <1>5 DEF FilesOK, TypesA
  <2>2. DOMAIN idx' \subseteq DOMAIN logs
    BY <1>2, <1>5 DEF FilesOK, TypesA
  <2> QED  BY <1>5, <2>1, <2>2
<1>7. \A g \in DOMAIN logs : \A i \in DOMAIN logs[g] : logs[g][i] # Torn
  BY <1>1, NoTorn DEF Loading
<1>8. IdxBound'
  <2> SUFFICES ASSUME NEW g \in DOMAIN idx'
               PROVE  idx'[g] <= Len(logs[g]) /\ \A i \in 1 .. idx'[g] : logs[g][i] # Torn
    BY <1>1 DEF IdxBound
  <2>1. CASE g = active
    <3>1. DOMAIN logs[active] = 1 .. Len(logs[active]) /\ Len(logs[active]) \in Nat
      BY <1>2, SegType DEF FilesOK
    <3> QED  BY <1>2, <1>4, <1>5, <1>7, <2>1, <3>1
  <2>2. CASE g # active
    <3>1. g \in DOMAIN idx
      BY <1>5, <2>2
    <3> QED  BY <1>5, <2>2, <3>1 DEF FilesOK, IdxBound
  <2> QED  BY <2>1, <2>2
<1> QED  BY <1>1, <1>3, <1>6, <1>8, FilesSettled

\* Open from complete index files changes none of them.
LEMMA FilesOpenFromIndex ==
    ASSUME FilesOK, OpenFromIndex
    PROVE  FilesOK'
<1>1. /\ pc = "recover" /\ IndexesCover /\ pc' = "idle"
      /\ UNCHANGED <<logs, idx, tmpLog, tmpIdx, ret, manifest, todo>>
  BY DEF OpenFromIndex, disk
<1>2. Settled
  BY <1>1, SettledAt
<1>3. \A g \in DOMAIN logs : \A i \in DOMAIN logs[g] : logs[g][i] # Torn
  <2> SUFFICES ASSUME NEW g \in DOMAIN logs, NEW i \in DOMAIN logs[g] PROVE logs[g][i] # Torn
    OBVIOUS
  <2>1. g \in DOMAIN idx /\ idx[g] = Len(logs[g])
    BY <1>1 DEF IndexesCover
  <2>2. DOMAIN logs[g] = 1 .. Len(logs[g])
    BY SegType DEF FilesOK
  <2> QED  BY <2>1, <2>2 DEF FilesOK, IdxBound
<1>4. DOMAIN logs # {}
  BY <1>1 DEF IndexesCover, NoFiles, FilesOK, TypesA
<1>5. IdxBound' /\ idx' \in [DOMAIN idx' -> Nat] /\ DOMAIN idx' \subseteq DOMAIN logs /\ todo' \subseteq Copies
  BY <1>1 DEF FilesOK, IdxBound, TypesA
<1>6. pc' \in Quiet
  BY <1>1 DEF Quiet
<1> QED  BY <1>1, <1>2, <1>3, <1>4, <1>5, <1>6, FilesSettled

\* What a scan leaves of the files.
LEMMA ScanIs ==
    ASSUME FilesOK, OpenScan
    PROVE  /\ DOMAIN logs' = DOMAIN logs
           /\ logs' \in [DOMAIN logs' -> Seq(Records \cup {Torn})]
           /\ \A g \in DOMAIN logs :
                 /\ Len(logs'[g]) \in Nat /\ DOMAIN logs'[g] = 1 .. Len(logs'[g])
                 /\ \A i \in DOMAIN logs'[g] : i \in DOMAIN logs[g] /\ logs'[g][i] = logs[g][i] /\ logs[g][i] # Torn
                 /\ \A i \in DOMAIN logs[g] : logs[g][i] # Torn => i \in DOMAIN logs'[g]
<1>1. logs' = [g \in DOMAIN logs |-> Readable(logs[g])]
  BY DEF OpenScan
<1>2. ASSUME NEW g \in DOMAIN logs
      PROVE  /\ logs'[g] \in Seq(Records \cup {Torn})
             /\ Len(logs'[g]) \in Nat /\ DOMAIN logs'[g] = 1 .. Len(logs'[g])
             /\ \A i \in DOMAIN logs'[g] : i \in DOMAIN logs[g] /\ logs'[g][i] = logs[g][i] /\ logs[g][i] # Torn
             /\ \A i \in DOMAIN logs[g] : logs[g][i] # Torn => i \in DOMAIN logs'[g]
  <2> DEFINE q == logs[g]
  <2>1. q \in Seq(Records \cup {Torn}) /\ Len(q) \in Nat /\ DOMAIN q = 1 .. Len(q)
    BY SegType DEF FilesOK
  <2>2. \A i \in DOMAIN q : q[i] = Torn => i = Len(q)
    BY DEF FilesOK, TornLast
  <2>3. logs'[g] = Readable(q)
    BY <1>1
  <2> HIDE DEF q
  <2>4. /\ Readable(q) \in Seq(Records \cup {Torn})
        /\ Len(Readable(q)) <= Len(q)
        /\ \A i \in 1 .. Len(Readable(q)) : Readable(q)[i] = q[i] /\ q[i] # Torn
        /\ \A i \in 1 .. Len(q) : q[i] # Torn => i <= Len(Readable(q))
    BY <2>1, <2>2, ReadableIs
  <2>5. DOMAIN Readable(q) = 1 .. Len(Readable(q)) /\ Len(Readable(q)) \in Nat
    BY <2>4
  <2>6. /\ \A i \in DOMAIN Readable(q) : i \in DOMAIN q /\ Readable(q)[i] = q[i] /\ q[i] # Torn
        /\ \A i \in DOMAIN q : q[i] # Torn => i \in DOMAIN Readable(q)
    BY <2>1, <2>4, <2>5
  <2> QED  BY <2>3, <2>4, <2>5, <2>6 DEF q
<1>3. DOMAIN logs' = DOMAIN logs
  BY <1>1
<1>4. logs' \in [DOMAIN logs' -> Seq(Records \cup {Torn})]
  BY <1>1, <1>2, <1>3
<1> QED  BY <1>2, <1>3, <1>4

\* A scan cuts unreadable records and removes the index files.
LEMMA FilesOpenScan ==
    ASSUME FilesOK, OpenScan
    PROVE  FilesOK'
<1>1. /\ pc = "recover" /\ pc' = "reindex" /\ DOMAIN idx' = {} /\ idx' \in [DOMAIN idx' -> Nat]
      /\ UNCHANGED <<tmpLog, tmpIdx, ret, manifest, todo>>
  BY DEF OpenScan, NoFiles
<1>2. Settled
  BY <1>1, SettledAt
<1>3. /\ DOMAIN logs' = DOMAIN logs
      /\ logs' \in [DOMAIN logs' -> Seq(Records \cup {Torn})]
      /\ \A g \in DOMAIN logs : \A i \in DOMAIN logs'[g] :
            i \in DOMAIN logs[g] /\ logs'[g][i] = logs[g][i] /\ logs[g][i] # Torn
  BY ScanIs
<1>4. TypesA'
  BY <1>1, <1>3 DEF FilesOK, TypesA, PCs
<1>5. TornLast' /\ IdxBound'
  BY <1>1, <1>3 DEF TornLast, IdxBound
<1>6. TopSafe' /\ ManifestOK'
  BY <1>1, <1>3 DEF FilesOK, TopSafe, ManifestOK, Gone, Olds
<1>7. DelTrimmed'
  BY <1>1, <1>3 DEF FilesOK, DelTrimmed
<1>8. CopyState'
  BY <1>1, <1>2 DEF Settled, CopyState, PreSwitch
<1>9. Leftover'
  BY <1>1, <1>2, <1>3 DEF Settled, Leftover, PreSwitch, Olds
<1>10. Unique'
  <2>1. View' \subseteq DOMAIN logs
    BY <1>3 DEF View
  <2> QED  BY <1>2, <1>3, <2>1 DEF Settled, Unique, UniqueIn
<1> QED  BY <1>4, <1>5, <1>6, <1>7, <1>8, <1>9, <1>10 DEF FilesOK

\* The index files are written again; an empty Store gets its first segment.
LEMMA FilesOpenReindex ==
    ASSUME FilesOK, TypesB, ActiveOK, IndexOK, OpenReindex
    PROVE  FilesOK'
<1>1. /\ pc = "reindex" /\ pc' = "idle"
      /\ idx' = [g \in DOMAIN logs \cup {active} |-> Listed(g)]
      /\ logs' = IF active \in DOMAIN logs THEN logs ELSE With(logs, active, <<>>)
      /\ UNCHANGED <<tmpLog, tmpIdx, ret, manifest, todo>>
  BY DEF OpenReindex
<1>2. Settled /\ View = DOMAIN logs
  BY <1>1, SettledAt DEF Settled
<1>3. \A g \in DOMAIN logs : \A i \in DOMAIN logs[g] : logs[g][i] # Torn
  BY <1>1, NoTorn DEF Loading
<1>4. \A g : /\ Listed(g) \in Nat
             /\ g \in DOMAIN logs => Listed(g) <= Len(logs[g])
             /\ g \notin DOMAIN logs => Listed(g) = 0
  BY <1>1, <1>2, ListedBound DEF Loading
<1>5. active \in Segs /\ (active \notin DOMAIN logs => DOMAIN logs = {})
  BY <1>1 DEF ActiveOK, Loading
<1>6. DOMAIN idx' = DOMAIN logs \cup {active} /\ idx' \in [DOMAIN idx' -> Nat]
  BY <1>1, <1>4
<1>7. pc' \in Quiet /\ todo' \subseteq Copies
  BY <1>1 DEF Quiet, FilesOK, TypesA
<1>8. CASE active \in DOMAIN logs
  <2>1. logs' = logs /\ DOMAIN idx' = DOMAIN logs
    BY <1>1, <1>6, <1>8
  <2>2. IdxBound'
    <3> SUFFICES ASSUME NEW g \in DOMAIN logs
                 PROVE  Listed(g) <= Len(logs[g]) /\ \A i \in 1 .. Listed(g) : logs[g][i] # Torn
      BY <1>1, <2>1 DEF IdxBound
    <3>1. DOMAIN logs[g] = 1 .. Len(logs[g]) /\ Len(logs[g]) \in Nat
      BY SegType DEF FilesOK
    <3> QED  BY <1>3, <1>4, <3>1
  <2>3. DOMAIN logs # {}
    BY <1>8
  <2> QED  BY <1>1, <1>2, <1>3, <1>6, <1>7, <2>1, <2>2, <2>3, FilesSettled
<1>9. CASE active \notin DOMAIN logs
  <2>1. logs' = With(logs, active, <<>>) /\ DOMAIN logs = {} /\ DOMAIN idx' = {active}
    BY <1>1, <1>5, <1>6, <1>9
  <2>2. DOMAIN logs' = {active} /\ logs'[active] = <<>>
    BY <2>1 DEF With
  <2>3. idx'[active] = 0
    BY <1>1, <1>4, <1>9
  <2>4. IdxBound'
    <3>1. Len(<<>>) = 0
      OBVIOUS
    <3> QED  BY <2>1, <2>2, <2>3, <3>1 DEF IdxBound
  <2> QED  BY <1>1, <1>2, <1>3, <1>5, <1>6, <1>7, <2>1, <2>2, <2>4, FilesNewSegment
<1> QED  BY <1>8, <1>9

-----------------------------------------------------------------------------
\* The files of a compaction.

\* The plan: segments below the active one, and fresh ids above it for the copies.
LEMMA PlanIs ==
    ASSUME FilesOK, TypesB, ActiveOK, IndexOK, pc = "idle",
           Sparse # {} => Max(DOMAIN logs) + Cardinality(Sparse) < MaxSeg
    PROVE  /\ FullyTrimmed \cup Sparse \subseteq DOMAIN logs
           /\ FullyTrimmed \cap Sparse = {}
           /\ \A g \in FullyTrimmed \cup Sparse : g < active
           /\ PlannedCopies \subseteq Copies
           /\ {c.old : c \in PlannedCopies} = Sparse
           /\ \A c \in PlannedCopies : active < c.new /\ c.new < MaxSeg
           /\ \A c, d \in PlannedCopies : c.old = d.old \/ c.new = d.new => c = d
<1>1. active \in DOMAIN logs /\ IsTop(DOMAIN logs, active) /\ active \in Nat
  BY LogAssumption DEF ActiveOK, Loading, PreSwitch, Segs
<1>2. Max(DOMAIN logs) = active
  <2>1. DOMAIN logs \in SUBSET Nat
    BY SegType DEF FilesOK
  <2> QED  BY <1>1, <2>1, MaxIs
<1>3. Settled
  BY SettledAt DEF Quiet
<1>4. \A e \in entries : e.seg \in DOMAIN logs
  BY <1>3 DEF IndexOK, Loading, Settled
<1>5. Candidates \subseteq DOMAIN logs /\ \A g \in Candidates : g < active
  <2>1. \A g \in Candidates : g \in DOMAIN logs /\ g # active
    BY <1>4 DEF Candidates
  <2>2. \A g \in Candidates : g \in Nat /\ g <= active
    BY <1>1, <2>1, SegType DEF FilesOK, IsTop
  <2> QED  BY <1>1, <2>1, <2>2
<1>6. FullyTrimmed \subseteq Candidates /\ Sparse \subseteq Candidates /\ FullyTrimmed \cap Sparse = {}
  BY DEF FullyTrimmed, Sparse
<1>7. \A g \in Sparse : g \in Segs /\ g \in Nat
  BY <1>5, <1>6, SegType DEF FilesOK
<1> HIDE DEF Sparse
<1> DEFINE upto(g) == {h \in Sparse : h <= g}
<1>8. IsFiniteSet(Sparse) /\ Cardinality(Sparse) \in Nat
  <2>1. Sparse \in SUBSET (1 .. MaxSeg)
    BY <1>7 DEF Segs
  <2>2. IsFiniteSet(1 .. MaxSeg)
    BY LogAssumption, FS_Interval
  <2>3. IsFiniteSet(Sparse)
    BY <2>1, <2>2, FS_Subset
  <2> QED  BY <2>3, FS_CardinalityType
<1>9. ASSUME NEW g \in Sparse
      PROVE  /\ IsFiniteSet(upto(g)) /\ Cardinality(upto(g)) \in Nat
             /\ 1 <= Cardinality(upto(g)) /\ Cardinality(upto(g)) <= Cardinality(Sparse)
  <2>1. upto(g) \in SUBSET Sparse
    OBVIOUS
  <2>2. g \in upto(g)
    BY <1>7
  <2> HIDE DEF upto
  <2>3. IsFiniteSet(upto(g)) /\ Cardinality(upto(g)) <= Cardinality(Sparse)
    BY <1>8, <2>1, FS_Subset
  <2>4. Cardinality(upto(g)) \in Nat /\ Cardinality(upto(g)) # 0
    BY <2>2, <2>3, FS_CardinalityType, FS_EmptySet
  <2> QED  BY <2>3, <2>4
<1>10. ASSUME NEW g \in Sparse, NEW h \in Sparse, Cardinality(upto(g)) = Cardinality(upto(h)) PROVE g = h
  <2>1. ASSUME NEW a \in Sparse, NEW b \in Sparse, a < b PROVE Cardinality(upto(a)) # Cardinality(upto(b))
    <3>1. upto(a) \in SUBSET upto(b)
      BY <1>7, <2>1
    <3>2. b \in upto(b) /\ b \notin upto(a)
      BY <1>7, <2>1
    <3>3. IsFiniteSet(upto(b))
      BY <1>9
    <3> HIDE DEF upto
    <3> QED  BY <3>1, <3>2, <3>3, FS_Subset
  <2>2. g < h \/ h < g \/ g = h
    BY <1>7
  <2> QED  BY <1>10, <2>1, <2>2
<1>11. PlannedCopies = {[old |-> g, new |-> active + Cardinality(upto(g))] : g \in Sparse}
  BY <1>2 DEF PlannedCopies
<1> HIDE DEF upto
<1>12. ASSUME NEW g \in Sparse
       PROVE  /\ active + Cardinality(upto(g)) \in Segs
              /\ active < active + Cardinality(upto(g)) /\ active + Cardinality(upto(g)) < MaxSeg
  <2>1. active + Cardinality(Sparse) < MaxSeg
    BY <1>2
  <2> QED  BY <1>1, <1>8, <1>9, <2>1, LogAssumption DEF Segs
<1>13. PlannedCopies \subseteq Copies
  BY <1>7, <1>11, <1>12 DEF Copies
<1>14. {c.old : c \in PlannedCopies} = Sparse
  <2>1. ASSUME NEW c \in PlannedCopies PROVE c.old \in Sparse
    BY <1>11
  <2>2. ASSUME NEW g \in Sparse PROVE \E c \in PlannedCopies : c.old = g
    <3>1. [old |-> g, new |-> active + Cardinality(upto(g))] \in PlannedCopies
      BY <1>11
    <3> QED  BY <3>1
  <2> HIDE DEF PlannedCopies
  <2> QED  BY <2>1, <2>2
<1>15. \A c \in PlannedCopies : active < c.new /\ c.new < MaxSeg
  BY <1>11, <1>12
<1>16. ASSUME NEW c \in PlannedCopies, NEW d \in PlannedCopies, c.old = d.old \/ c.new = d.new PROVE c = d
  <2>1. PICK g \in Sparse : c = [old |-> g, new |-> active + Cardinality(upto(g))]
    BY <1>11
  <2>2. PICK h \in Sparse : d = [old |-> h, new |-> active + Cardinality(upto(h))]
    BY <1>11
  <2>3. c.old = g /\ d.old = h /\ c.new = active + Cardinality(upto(g)) /\ d.new = active + Cardinality(upto(h))
    BY <2>1, <2>2
  <2>4. c.new = d.new => Cardinality(upto(g)) = Cardinality(upto(h))
    BY <1>1, <1>9, <2>3
  <2> QED  BY <1>10, <1>16, <2>1, <2>2, <2>3, <2>4
<1> QED  BY <1>5, <1>6, <1>13, <1>14, <1>15, <1>16

\* The manifest is written.
LEMMA FilesCompactPlan ==
    ASSUME FilesOK, TypesB, ActiveOK, IndexOK, CompactPlan
    PROVE  FilesOK'
<1>1. /\ pc = "idle" /\ pc' = "delete" /\ todo' = PlannedCopies
      /\ manifest' = [del |-> FullyTrimmed, copies |-> PlannedCopies]
      /\ UNCHANGED <<logs, idx, tmpLog, tmpIdx, ret>>
      /\ Sparse # {} => Max(DOMAIN logs) + Cardinality(Sparse) < MaxSeg
  BY DEF CompactPlan
<1>2. /\ FullyTrimmed \cup Sparse \subseteq DOMAIN logs
      /\ FullyTrimmed \cap Sparse = {}
      /\ (\A g \in FullyTrimmed \cup Sparse : g < active)
      /\ PlannedCopies \subseteq Copies
      /\ {c.old : c \in PlannedCopies} = Sparse
      /\ (\A c \in PlannedCopies : active < c.new /\ c.new < MaxSeg)
      /\ \A c, d \in PlannedCopies : c.old = d.old \/ c.new = d.new => c = d
  BY <1>1, PlanIs
<1>3. active \in DOMAIN logs /\ IsTop(DOMAIN logs, active) /\ active \in Nat
  BY <1>1, LogAssumption DEF ActiveOK, Loading, PreSwitch, Segs
<1>4. Olds' = Sparse /\ Gone' = FullyTrimmed \cup Sparse /\ News' = {c.new : c \in PlannedCopies}
  BY <1>1, <1>2 DEF Olds, Gone, News
<1>5. Settled
  BY <1>1, SettledAt DEF Quiet
<1> HIDE DEF FullyTrimmed, Sparse, PlannedCopies
<1>6. TypesA'
  BY <1>1, <1>2 DEF FilesOK, TypesA, PCs
<1>7. TornLast' /\ IdxBound'
  BY <1>1 DEF FilesOK, TornLast, IdxBound, Loading
<1>8. TopSafe'
  <2>1. DOMAIN logs' = DOMAIN logs /\ DOMAIN logs # {}
    BY <1>1, <1>3
  <2>2. \A g \in Gone' : g < active
    BY <1>2, <1>4
  <2> QED  BY <1>3, <2>1, <2>2 DEF TopSafe
<1>9. ManifestOK'
  <2>1. \A c \in PlannedCopies : \A g \in FullyTrimmed \cup Sparse : g < c.new
    <3> SUFFICES ASSUME NEW c \in PlannedCopies, NEW g \in FullyTrimmed \cup Sparse PROVE g < c.new
      OBVIOUS
    <3>1. g \in Nat /\ c.new \in Nat /\ g < active /\ active < c.new
      BY <1>2, SegType, LogAssumption DEF FilesOK, Copies, Segs
    <3> QED  BY <1>3, <3>1
  <2> QED  BY <1>1, <1>2, <1>4, <2>1 DEF ManifestOK
<1>10. DelTrimmed'
  <2> SUFFICES ASSUME NEW g \in FullyTrimmed, NEW i \in DOMAIN logs[g]
               PROVE  logs[g][i].seq < ret[logs[g][i].stream]
    BY <1>1 DEF DelTrimmed
  <2>1. g \in View /\ g \in DOMAIN logs
    BY <1>2, <1>5 DEF Settled
  <2>2. EntryAt(g, i) \in entries
    BY <1>1, <2>1 DEF IndexOK, Loading, Unindexed, Writing
  <2>3. EntryAt(g, i) \notin LiveIn(g)
    BY DEF FullyTrimmed
  <2>4. ~(logs[g][i].seq >= trim[logs[g][i].stream])
    BY <2>2, <2>3 DEF LiveIn, Total, Live, EntryAt
  <2>5. trim = ret
    BY <1>1 DEF ActiveOK, Loading
  <2>6. logs[g][i] \in Records
    BY <1>1, <2>1, NoTorn DEF Loading
  <2>7. logs[g][i].seq \in Nat /\ ret[logs[g][i].stream] \in Nat
    BY <2>6 DEF Records, FilesOK, TypesA
  <2> QED  BY <2>4, <2>5, <2>7
<1>11. \A c \in PlannedCopies : c.new \notin DOMAIN logs
  <2> SUFFICES ASSUME NEW c \in PlannedCopies, c.new \in DOMAIN logs PROVE FALSE
    OBVIOUS
  <2>1. c.new <= active /\ active < c.new /\ c.new \in Nat
    BY <1>2, <1>3, SegType DEF IsTop, FilesOK
  <2> QED  BY <1>3, <2>1
<1>12. CopyState'
  <2>1. Olds' \subseteq DOMAIN logs'
    BY <1>1, <1>2, <1>4
  <2>2. todo' = manifest'.copies
    BY <1>1
  <2> QED  BY <1>1, <1>5, <1>11, <2>1, <2>2 DEF Settled, CopyState
<1>13. Leftover'
  BY <1>1 DEF Leftover, PreSwitch
<1>14. Unique'
  <2>1. View' \subseteq DOMAIN logs
    BY <1>1 DEF View
  <2> QED  BY <1>1, <1>5, <2>1 DEF Settled, Unique, UniqueIn
<1> QED  BY <1>6, <1>7, <1>8, <1>9, <1>10, <1>12, <1>13, <1>14 DEF FilesOK

\* When the deletions are done the copies begin, or the compaction ends.
LEMMA FilesCompactDeleted ==
    ASSUME FilesOK, ActiveOK, CompactDeleted
    PROVE  FilesOK'
<1>1. /\ pc = "delete" /\ pc' = (IF todo = {} THEN "idle" ELSE "copy") /\ todo' = todo
      /\ logs' = logs /\ idx' = idx /\ tmpLog' = tmpLog /\ tmpIdx' = tmpIdx /\ ret' = ret
      /\ manifest' = manifest
  BY DEF CompactDeleted, disk
<1>2. todo = manifest.copies /\ DOMAIN tmpLog = {} /\ tmpIdx = {}
  BY <1>1 DEF FilesOK, CopyState
<1>3. DOMAIN logs # {}
  BY <1>1 DEF ActiveOK, Loading
<1>4. CASE todo = {}
  <2>1. Olds = {} /\ News = {}
    BY <1>2, <1>4 DEF Olds, News
  <2>2. Settled
    BY <1>2, <2>1 DEF Settled, View, FilesOK, Unique
  <2>3. \A g \in DOMAIN logs : \A i \in DOMAIN logs[g] : logs[g][i] # Torn
    BY <1>1, NoTorn DEF Loading
  <2>4. IdxBound' /\ idx' \in [DOMAIN idx' -> Nat] /\ DOMAIN idx' \subseteq DOMAIN logs /\ todo' \subseteq Copies
    BY <1>1 DEF FilesOK, IdxBound, TypesA
  <2>5. pc' \in Quiet
    BY <1>1, <1>4 DEF Quiet
  <2> QED  BY <1>1, <1>3, <2>2, <2>3, <2>4, <2>5, FilesSettled
<1>5. CASE todo # {}
  <2>1. pc' = "copy"
    BY <1>1, <1>5
  <2>2. TypesA' /\ TornLast' /\ IdxBound'
    BY <1>1, <2>1 DEF FilesOK, TypesA, TornLast, IdxBound, PCs, Loading
  <2>3. TopSafe' /\ ManifestOK' /\ DelTrimmed'
    BY <1>1, <1>3 DEF FilesOK, TopSafe, ManifestOK, DelTrimmed, Gone, Olds
  <2>4. CopyState'
    <3>1. Olds' \subseteq DOMAIN logs' /\ \A c \in todo : c.new \notin DOMAIN logs
      BY <1>1 DEF FilesOK, CopyState, PreSwitch, Olds
    <3> QED  BY <1>1, <1>2, <1>5, <2>1, <3>1 DEF CopyState
  <2>5. Leftover'
    BY <2>1 DEF Leftover, PreSwitch
  <2>6. Unique'
    BY <1>1, <2>1 DEF FilesOK, Unique, UniqueIn, View, News, PreSwitch
  <2> QED  BY <2>2, <2>3, <2>4, <2>5, <2>6 DEF FilesOK
<1> QED  BY <1>4, <1>5

\* What a copied segment holds: its live records, each once.
LEMMA CopyIs ==
    ASSUME FilesOK, TypesB, ActiveOK, IndexOK, pc = "copy",
           NEW live \in SetToSeqs(LiveIn(Turn.old)), Turn \in todo
    PROVE  LET q == [i \in DOMAIN live |-> logs[Turn.old][live[i].pos]]
           IN  q \in Seq(Records) /\ CopyOf(q, Turn.old)
<1> DEFINE g == Turn.old
           L == LiveIn(g)
           n == Cardinality(L)
           q == [i \in DOMAIN live |-> logs[g][live[i].pos]]
<1>1. g \in View /\ g \in DOMAIN logs
  <2>1. Turn \in manifest.copies /\ Olds \subseteq DOMAIN logs
    BY DEF FilesOK, CopyState, PreSwitch
  <2>2. g \in Olds /\ g \in Gone
    BY <2>1 DEF Olds, Gone
  <2>3. g \in Nat
    BY <2>1, <2>2, SegType DEF FilesOK
  <2>4. g \notin News
    BY <2>2, <2>3 DEF FilesOK, ManifestOK, News
  <2> QED  BY <2>1, <2>2, <2>4 DEF View, PreSwitch
<1>2. \A e \in L : e \in entries /\ e.seg = g /\ e.seq >= ret[e.stream]
  BY DEF LiveIn, Total, Live, ActiveOK, Loading
<1>3. \A e \in L : e.pos \in DOMAIN logs[g] /\ e = EntryAt(g, e.pos)
  BY <1>1, <1>2 DEF IndexOK, Loading
<1>4. IsFiniteSet(L) /\ n \in Nat
  <2>1. L \in SUBSET entries /\ IsFiniteSet(entries)
    BY <1>2 DEF IndexOK, Loading
  <2> HIDE DEF L
  <2>2. IsFiniteSet(L)
    BY <2>1, FS_Subset
  <2> QED  BY <2>2, FS_CardinalityType
<1>5. live \in [1 .. n -> L] /\ \A i, j \in 1 .. n : i # j => live[i] # live[j]
  BY DEF SetToSeqs
<1> HIDE DEF g, L, n
<1>6. DOMAIN live = 1 .. n
  BY <1>5
<1>7. \A e \in L : \E i \in 1 .. n : live[i] = e
  <2>1. live \in Injection(1 .. n, L)
    BY <1>5 DEF Injection, IsInjective
  <2>2. IsFiniteSet(1 .. n) /\ Cardinality(1 .. n) = Cardinality(L)
    BY <1>4, FS_Interval DEF n
  <2>3. live \in Surjection(1 .. n, L)
    BY <1>4, <2>1, <2>2, FS_Injection
  <2> QED  BY <2>3 DEF Surjection
<1>8. \A i \in 1 .. n : /\ live[i] \in L /\ live[i].pos \in DOMAIN logs[g]
                        /\ q[i] = logs[g][live[i].pos] /\ q[i] \in Records
  <2> SUFFICES ASSUME NEW i \in 1 .. n
               PROVE  /\ live[i] \in L /\ live[i].pos \in DOMAIN logs[g]
                      /\ q[i] = logs[g][live[i].pos] /\ q[i] \in Records
    OBVIOUS
  <2>1. live[i] \in L /\ live[i].pos \in DOMAIN logs[g]
    BY <1>3, <1>5
  <2>2. q[i] = logs[g][live[i].pos]
    BY <1>6
  <2>3. logs[g][live[i].pos] \in Records
    BY <1>1, <2>1, NoTorn DEF Loading
  <2> QED  BY <2>1, <2>2, <2>3
<1>9. DOMAIN q = 1 .. n
  BY <1>6
<1>10. q \in Seq(Records)
  <2>1. q = [i \in 1 .. n |-> q[i]]
    BY <1>6
  <2>2. q \in [1 .. n -> Records]
    BY <1>8, <2>1
  <2> HIDE DEF q
  <2> QED  BY <1>4, <2>2
<1> HIDE DEF q
<1>11. ASSUME NEW i \in 1 .. n, NEW j \in 1 .. n, q[i].stream = q[j].stream, q[i].seq = q[j].seq PROVE i = j
  <2>1. live[i].pos = live[j].pos
    <3>1. logs[g][live[i].pos] # Torn /\ logs[g][live[j].pos] # Torn
      BY <1>1, <1>8, NoTorn DEF Loading
    <3>2. SameSeq(logs[g][live[i].pos], logs[g][live[j].pos])
      BY <1>8, <1>11 DEF SameSeq
    <3> QED  BY <1>1, <1>8, <3>1, <3>2 DEF FilesOK, Unique, UniqueIn
  <2>2. live[i] = live[j]
    BY <1>3, <1>8, <2>1
  <2> QED  BY <1>5, <2>2
<1>12. ASSUME NEW j \in DOMAIN logs[g], logs[g][j].seq >= ret[logs[g][j].stream]
       PROVE  \E i \in 1 .. n : q[i] = logs[g][j]
  <2>1. EntryAt(g, j) \in entries
    BY <1>1 DEF IndexOK, Loading, Unindexed, Writing
  <2>2. EntryAt(g, j) \in L
    BY <1>12, <2>1 DEF L, LiveIn, Total, Live, EntryAt, ActiveOK, Loading
  <2>3. PICK i \in 1 .. n : live[i] = EntryAt(g, j)
    BY <1>7, <2>2
  <2>4. live[i].pos = j
    BY <2>3 DEF EntryAt
  <2> QED  BY <1>8, <2>3, <2>4
<1>13. CopyOf(q, g)
  BY <1>8, <1>9, <1>11, <1>12 DEF CopyOf, LiveCopied
<1> QED  BY <1>10, <1>13 DEF q, g

\* The live records of a segment go to a temporary file.
LEMMA FilesCompactCopy ==
    ASSUME FilesOK, TypesB, ActiveOK, IndexOK, CompactCopy
    PROVE  FilesOK'
<1>1. /\ pc = "copy" /\ pc' = "copyIndex"
      /\ UNCHANGED <<logs, idx, tmpIdx, ret, manifest, todo>>
  BY DEF CompactCopy
<1>2. Turn \in todo /\ Turn' = Turn
  BY <1>1, TurnIn DEF FilesOK, TypesA, CopyState, Turn
<1>3. PICK live \in SetToSeqs(LiveIn(Turn.old)) :
         tmpLog' = With(tmpLog, Turn.new, [i \in DOMAIN live |-> logs[Turn.old][live[i].pos]])
  BY DEF CompactCopy
<1> DEFINE q == [i \in DOMAIN live |-> logs[Turn.old][live[i].pos]]
<1>4. q \in Seq(Records) /\ CopyOf(q, Turn.old)
  BY <1>1, <1>2, CopyIs
<1>5. tmpLog' = With(tmpLog, Turn.new, q)
  BY <1>3
<1> HIDE DEF q
<1>6. DOMAIN tmpLog = {}
  BY <1>1 DEF FilesOK, CopyState
<1>7. DOMAIN tmpLog' = {Turn.new} /\ tmpLog'[Turn.new] = q /\ tmpLog' = [h \in {Turn.new} |-> q]
  BY <1>5, <1>6 DEF With
<1>8. Turn \in Copies
  BY <1>2 DEF FilesOK, TypesA
<1>9. TypesA'
  <2>1. tmpLog' \in [DOMAIN tmpLog' -> Seq(Records)] /\ DOMAIN tmpLog' \subseteq Segs
    BY <1>4, <1>7, <1>8 DEF Copies
  <2> QED  BY <1>1, <2>1 DEF FilesOK, TypesA, PCs
<1>10. TornLast' /\ IdxBound'
  BY <1>1 DEF FilesOK, TornLast, IdxBound, Loading
<1>11. TopSafe' /\ ManifestOK' /\ DelTrimmed'
  BY <1>1 DEF FilesOK, TopSafe, ManifestOK, DelTrimmed, Gone, Olds, Loading
<1>12. \A u, h : CopyOf(u, h)' <=> CopyOf(u, h)
  BY <1>1 DEF CopyOf, LiveCopied
<1>13. CopyState'
  <2>1. /\ todo \subseteq manifest.copies /\ Olds \subseteq DOMAIN logs /\ todo # {} /\ tmpIdx = {}
        /\ (\A c \in manifest.copies \ todo : c.new \in DOMAIN idx /\ CopyOf(logs[c.new], c.old))
        /\ \A c \in todo : c.new \notin DOMAIN logs
    BY <1>1 DEF FilesOK, CopyState, PreSwitch
  <2>2. Olds' = Olds
    BY <1>1 DEF Olds
  <2> QED  BY <1>1, <1>2, <1>4, <1>7, <1>12, <2>1, <2>2 DEF CopyState
<1>14. Leftover'
  BY <1>1 DEF Leftover, PreSwitch
<1>15. Unique'
  BY <1>1 DEF FilesOK, Unique, UniqueIn, View, News, PreSwitch
<1> QED  BY <1>9, <1>10, <1>11, <1>13, <1>14, <1>15 DEF FilesOK

\* Its index goes to another.
LEMMA FilesCompactCopyIndex ==
    ASSUME FilesOK, CompactCopyIndex
    PROVE  FilesOK'
<1>1. /\ pc = "copyIndex" /\ pc' = "renameLog" /\ tmpIdx' = tmpIdx \cup {Turn.new}
      /\ UNCHANGED <<logs, idx, tmpLog, ret, manifest, todo>>
  BY DEF CompactCopyIndex
<1>2. Turn \in todo /\ Turn' = Turn /\ Turn \in Copies
  BY <1>1, TurnIn DEF FilesOK, TypesA, CopyState, Turn
<1>3. TypesA'
  BY <1>1, <1>2 DEF FilesOK, TypesA, PCs, Copies
<1>4. TornLast' /\ IdxBound'
  BY <1>1 DEF FilesOK, TornLast, IdxBound, Loading
<1>5. TopSafe' /\ ManifestOK' /\ DelTrimmed'
  BY <1>1 DEF FilesOK, TopSafe, ManifestOK, DelTrimmed, Gone, Olds, Loading
<1>6. \A u, h : CopyOf(u, h)' <=> CopyOf(u, h)
  BY <1>1 DEF CopyOf, LiveCopied
<1>7. CopyState'
  <2>1. /\ todo \subseteq manifest.copies /\ Olds \subseteq DOMAIN logs /\ todo # {} /\ tmpIdx = {}
        /\ (\A c \in manifest.copies \ todo : c.new \in DOMAIN idx /\ CopyOf(logs[c.new], c.old))
        /\ (\A c \in todo : c.new \notin DOMAIN logs)
        /\ DOMAIN tmpLog = {Turn.new} /\ CopyOf(tmpLog[Turn.new], Turn.old)
    BY <1>1 DEF FilesOK, CopyState, PreSwitch
  <2>2. Olds' = Olds
    BY <1>1 DEF Olds
  <2> QED  BY <1>1, <1>2, <1>6, <2>1, <2>2 DEF CopyState
<1>8. Leftover'
  BY <1>1 DEF Leftover, PreSwitch
<1>9. Unique'
  BY <1>1 DEF FilesOK, Unique, UniqueIn, View, News, PreSwitch
<1> QED  BY <1>3, <1>4, <1>5, <1>7, <1>8, <1>9 DEF FilesOK

\* The copy appears under its id, above all segments, and is not looked at yet.
LEMMA FilesCompactRenameLog ==
    ASSUME FilesOK, CompactRenameLog
    PROVE  FilesOK'
<1>1. /\ pc = "renameLog" /\ pc' = "renameIndex"
      /\ logs' = With(logs, Turn.new, tmpLog[Turn.new]) /\ tmpLog' = Without(tmpLog, {Turn.new})
      /\ UNCHANGED <<idx, tmpIdx, ret, manifest, todo>>
  BY DEF CompactRenameLog
<1>2. Turn \in todo /\ Turn' = Turn /\ Turn \in Copies
  BY <1>1, TurnIn DEF FilesOK, TypesA, CopyState, Turn
<1> DEFINE n == Turn.new
           q == tmpLog[n]
<1>3. /\ todo \subseteq manifest.copies /\ Olds \subseteq DOMAIN logs /\ tmpIdx \subseteq {n}
      /\ (\A c \in manifest.copies \ todo : c.new \in DOMAIN idx /\ CopyOf(logs[c.new], c.old))
      /\ (\A c \in todo : c.new \notin DOMAIN logs)
      /\ DOMAIN tmpLog = {n} /\ CopyOf(q, Turn.old)
  BY <1>1 DEF FilesOK, CopyState, PreSwitch
<1>4. Turn \in manifest.copies /\ n \notin DOMAIN logs /\ n \in Segs /\ n \in Nat
  BY <1>2, <1>3, LogAssumption DEF Copies, Segs
<1>5. logs' = With(logs, n, q) /\ Turn' = Turn /\ Turn.new = n
  BY <1>1, <1>2
<1>6. q \in Seq(Records) /\ DOMAIN q = 1 .. Len(q) /\ \A i \in DOMAIN q : q[i] \in Records
  BY <1>3 DEF FilesOK, TypesA
<1> HIDE DEF n, q
<1>7. /\ DOMAIN logs' = DOMAIN logs \cup {n} /\ logs'[n] = q
      /\ \A g \in DOMAIN logs : logs'[g] = logs[g]
  BY <1>4, <1>5 DEF With
<1>8. DOMAIN tmpLog' = {} /\ tmpLog' \in [DOMAIN tmpLog' -> Seq(Records)]
  BY <1>1, <1>3 DEF Without, Restrict, n
<1>9. TypesA'
  <2>1. logs' \in [DOMAIN logs' -> Seq(Records \cup {Torn})]
    <3>1. \A g \in DOMAIN logs : logs'[g] \in Seq(Records \cup {Torn})
      BY <1>7, SegType DEF FilesOK
    <3>2. logs'[n] \in Seq(Records \cup {Torn})
      BY <1>6, <1>7
    <3>3. logs' = [g \in DOMAIN logs' |-> logs'[g]]
      BY <1>5 DEF With
    <3> QED  BY <1>7, <3>1, <3>2, <3>3
  <2>2. DOMAIN logs' \subseteq Segs
    BY <1>4, <1>7 DEF FilesOK, TypesA
  <2> QED  BY <1>1, <1>7, <1>8, <2>1, <2>2 DEF FilesOK, TypesA, PCs
<1>10. \A g \in DOMAIN logs' : \A i \in DOMAIN logs'[g] : logs'[g][i] # Torn
  <2>1. \A g \in DOMAIN logs : \A i \in DOMAIN logs[g] : logs[g][i] # Torn
    BY <1>1, NoTorn DEF Loading
  <2>2. \A i \in DOMAIN q : q[i] # Torn
    BY <1>6, TornAssumption
  <2> QED  BY <1>7, <2>1, <2>2
<1>11. TornLast' /\ IdxBound'
  <2>1. IdxBound'
    BY <1>1, <1>7 DEF FilesOK, IdxBound, TypesA
  <2> QED  BY <1>10, <2>1 DEF TornLast
<1>12. Gone' = Gone /\ ManifestOK'
  BY <1>1 DEF FilesOK, ManifestOK, Gone, Olds
<1>13. \A g \in Gone : g < n /\ g \in Nat
  <2>1. Gone \subseteq Nat
    BY LogAssumption DEF FilesOK, TypesA, Gone, Olds, Copies, Segs
  <2> QED  BY <1>4, <1>5, <2>1 DEF FilesOK, ManifestOK
<1>14. TopSafe'
  <2>1. DOMAIN logs # {}
    BY <1>1 DEF FilesOK, TopSafe, Loading
  <2>2. PICK t \in DOMAIN logs : IsTop(DOMAIN logs, t) /\ \A g \in Gone : g < t
    BY <2>1 DEF FilesOK, TopSafe
  <2>3. \A h \in DOMAIN logs : h \in Nat /\ h <= t
    BY <2>2, SegType DEF FilesOK, IsTop
  <2>4. CASE n <= t
    <3>1. IsTop(DOMAIN logs', t) /\ t \in DOMAIN logs'
      BY <1>7, <2>2, <2>4 DEF IsTop
    <3> QED  BY <1>7, <1>12, <2>2, <3>1 DEF TopSafe
  <2>5. CASE ~(n <= t)
    <3>1. IsTop(DOMAIN logs', n) /\ n \in DOMAIN logs'
      BY <1>4, <1>7, <2>3, <2>5 DEF IsTop
    <3> QED  BY <1>7, <1>12, <1>13, <3>1 DEF TopSafe
  <2> QED  BY <2>4, <2>5
<1>15. DelTrimmed'
  <2>1. n \notin manifest.del
    BY <1>4, <1>13 DEF Gone
  <2> QED  BY <1>1, <1>7, <2>1 DEF FilesOK, DelTrimmed
<1>16. ASSUME NEW u, NEW h \in DOMAIN logs PROVE CopyOf(u, h)' <=> CopyOf(u, h)
  <2>1. logs'[h] = logs[h] /\ ret' = ret
    BY <1>1, <1>7
  <2> QED  BY <2>1 DEF CopyOf, LiveCopied
<1>17. \A c \in manifest.copies : c.old \in DOMAIN logs
  BY <1>3 DEF Olds
<1>18. CopyState'
  <2>1. Olds' = Olds /\ Olds \subseteq DOMAIN logs'
    BY <1>1, <1>3, <1>7 DEF Olds
  <2>2. ASSUME NEW c \in manifest.copies \ todo
        PROVE  c.new \in DOMAIN idx' /\ CopyOf(logs[c.new], c.old)'
    <3>1. c.new \in DOMAIN idx /\ CopyOf(logs[c.new], c.old) /\ c.new \in DOMAIN logs
      BY <1>3 DEF FilesOK, TypesA
    <3>2. logs'[c.new] = logs[c.new]
      BY <1>7, <3>1
    <3>3. CopyOf(logs[c.new], c.old)' <=> CopyOf(logs[c.new], c.old)
      <4>1. logs'[c.old] = logs[c.old] /\ ret' = ret
        BY <1>1, <1>7, <1>17
      <4> QED  BY <3>2, <4>1 DEF CopyOf, LiveCopied
    <3> QED  BY <1>1, <3>1, <3>3
  <2>3. ASSUME NEW c \in todo, c.new \in DOMAIN logs' PROVE c = Turn
    <3>1. c.new = n /\ c \in manifest.copies
      BY <1>3, <1>7, <2>3
    <3> QED  BY <1>4, <1>5, <3>1 DEF FilesOK, ManifestOK
  <2>4. CopyOf(logs[Turn.new], Turn.old)'
    <3>1. logs'[n] = q /\ logs'[Turn.old] = logs[Turn.old] /\ ret' = ret
      BY <1>1, <1>4, <1>7, <1>17
    <3> QED  BY <1>2, <1>3, <1>5, <3>1 DEF CopyOf, LiveCopied
  <2>5. Turn'.new \in DOMAIN logs' /\ todo' # {}
    BY <1>1, <1>2, <1>5, <1>7
  <2>6. tmpIdx' \subseteq {Turn'.new}
    BY <1>1, <1>3, <1>5
  <2> QED  BY <1>1, <1>2, <1>3, <1>8, <2>1, <2>2, <2>3, <2>4, <2>5, <2>6 DEF CopyState
<1>19. Leftover'
  BY <1>1 DEF Leftover, PreSwitch
<1>20. Unique'
  <2>1. n \in News
    BY <1>4, <1>5 DEF News
  <2>2. View' = View /\ View \subseteq DOMAIN logs
    BY <1>1, <1>7, <2>1 DEF View, News, PreSwitch
  <2> QED  BY <1>7, <2>2 DEF FilesOK, Unique, UniqueIn
<1> QED  BY <1>9, <1>11, <1>12, <1>14, <1>15, <1>18, <1>19, <1>20 DEF FilesOK

\* With its index file the copy is complete.
LEMMA FilesCompactRenameIndex ==
    ASSUME FilesOK, CompactRenameIndex
    PROVE  FilesOK'
<1>1. /\ pc = "renameIndex" /\ idx' = With(idx, Turn.new, Len(logs[Turn.new]))
      /\ tmpIdx' = tmpIdx \ {Turn.new} /\ todo' = todo \ {Turn}
      /\ pc' = (IF todo \ {Turn} = {} THEN "switch" ELSE "copy")
      /\ UNCHANGED <<logs, tmpLog, ret, manifest>>
  BY DEF CompactRenameIndex
<1>2. Turn \in todo /\ Turn \in Copies
  BY <1>1, TurnIn DEF FilesOK, TypesA, CopyState
<1>3. /\ todo \subseteq manifest.copies /\ Olds \subseteq DOMAIN logs /\ tmpIdx \subseteq {Turn.new}
      /\ (\A c \in manifest.copies \ todo : c.new \in DOMAIN idx /\ CopyOf(logs[c.new], c.old))
      /\ (\A c \in todo : c.new \in DOMAIN logs => c = Turn)
      /\ Turn.new \in DOMAIN logs /\ CopyOf(logs[Turn.new], Turn.old)
      /\ DOMAIN tmpLog = {}
  BY <1>1 DEF FilesOK, CopyState, PreSwitch
<1>4. /\ DOMAIN idx' = DOMAIN idx \cup {Turn.new} /\ idx'[Turn.new] = Len(logs[Turn.new])
      /\ (\A g \in DOMAIN idx : g # Turn.new => idx'[g] = idx[g])
      /\ idx' = [g \in DOMAIN idx' |-> idx'[g]]
  BY <1>1 DEF With
<1>5. Len(logs[Turn.new]) \in Nat /\ DOMAIN logs[Turn.new] = 1 .. Len(logs[Turn.new])
  BY <1>3, SegType DEF FilesOK
<1>6. TypesA'
  <2>1. \A g \in DOMAIN idx' : idx'[g] \in Nat
    BY <1>4, <1>5 DEF FilesOK, TypesA
  <2>2. DOMAIN idx' \subseteq DOMAIN logs
    BY <1>3, <1>4 DEF FilesOK, TypesA
  <2>3. idx' \in [DOMAIN idx' -> Nat]
    BY <1>4, <2>1
  <2>4. pc' \in PCs
    BY <1>1 DEF PCs
  <2> QED  BY <1>1, <2>2, <2>3, <2>4 DEF FilesOK, TypesA
<1>7. \A g \in DOMAIN logs : \A i \in DOMAIN logs[g] : logs[g][i] # Torn
  BY <1>1, NoTorn DEF Loading
<1>8. IdxBound'
  <2> SUFFICES ASSUME NEW g \in DOMAIN idx'
               PROVE  idx'[g] <= Len(logs[g]) /\ \A i \in 1 .. idx'[g] : logs[g][i] # Torn
    BY <1>1 DEF IdxBound
  <2>1. CASE g = Turn.new
    BY <1>3, <1>4, <1>5, <1>7, <2>1
  <2>2. CASE g # Turn.new
    <3>1. g \in DOMAIN idx
      BY <1>4, <2>2
    <3> QED  BY <1>4, <2>2, <3>1 DEF FilesOK, IdxBound
  <2> QED  BY <2>1, <2>2
<1>9. TornLast'
  BY <1>1, <1>7 DEF TornLast
<1>10. TopSafe' /\ ManifestOK' /\ DelTrimmed'
  <2>1. DOMAIN logs # {}
    BY <1>3
  <2> QED  BY <1>1, <2>1 DEF FilesOK, TopSafe, ManifestOK, DelTrimmed, Gone, Olds
<1>11. \A u, h : CopyOf(u, h)' <=> CopyOf(u, h)
  BY <1>1 DEF CopyOf, LiveCopied
<1>12. CopyState'
  <2>1. Olds' = Olds /\ Olds \subseteq DOMAIN logs'
    BY <1>1, <1>3 DEF Olds
  <2>2. \A c \in manifest.copies \ todo' : c.new \in DOMAIN idx' /\ CopyOf(logs[c.new], c.old)
    BY <1>1, <1>3, <1>4
  <2>3. \A c \in todo' : c.new \notin DOMAIN logs
    BY <1>1, <1>3
  <2>4. tmpIdx' = {} /\ todo' \subseteq manifest.copies /\ manifest.copies # {}
    BY <1>1, <1>2, <1>3
  <2>5. CASE todo' = {}
    <3>1. pc' = "switch"
      BY <1>1, <2>5
    <3> QED  BY <1>1, <1>3, <1>11, <2>1, <2>2, <2>4, <2>5, <3>1 DEF CopyState
  <2>6. CASE todo' # {}
    <3>1. pc' = "copy"
      BY <1>1, <2>6
    <3> QED  BY <1>1, <1>3, <1>11, <2>1, <2>2, <2>3, <2>4, <2>6, <3>1 DEF CopyState
  <2> QED  BY <2>5, <2>6
<1>13. pc' \in PreSwitch
  BY <1>1 DEF PreSwitch
<1>14. Leftover'
  BY <1>13 DEF Leftover, PreSwitch
<1>15. Unique'
  <2>1. View' = View
    BY <1>1, <1>13 DEF View, News, PreSwitch
  <2> QED  BY <1>1, <2>1 DEF FilesOK, Unique, UniqueIn
<1> QED  BY <1>6, <1>8, <1>9, <1>10, <1>12, <1>14, <1>15 DEF FilesOK

\* With all copies complete, records are looked for in the copies.
LEMMA FilesCompactSwitch ==
    ASSUME FilesOK, CompactSwitch
    PROVE  FilesOK'
<1>1. /\ pc = "switch" /\ pc' = "remove" /\ todo' = todo
      /\ logs' = logs /\ idx' = idx /\ tmpLog' = tmpLog /\ tmpIdx' = tmpIdx /\ ret' = ret
      /\ manifest' = manifest
  BY DEF CompactSwitch, disk
<1>2. /\ todo = {} /\ manifest.copies # {} /\ DOMAIN tmpLog = {} /\ tmpIdx = {}
      /\ \A c \in manifest.copies : c.new \in DOMAIN idx /\ CopyOf(logs[c.new], c.old)
  BY <1>1 DEF FilesOK, CopyState, PreSwitch
<1>3. TypesA' /\ TornLast' /\ IdxBound'
  BY <1>1 DEF FilesOK, TypesA, TornLast, IdxBound, PCs, Loading
<1>4. TopSafe' /\ ManifestOK' /\ DelTrimmed'
  BY <1>1 DEF FilesOK, TopSafe, ManifestOK, DelTrimmed, Gone, Olds, Loading
<1>5. CopyState'
  <2>1. \A c \in manifest.copies : c.new \in DOMAIN logs
    BY <1>2 DEF FilesOK, TypesA
  <2> QED  BY <1>1, <1>2, <2>1 DEF CopyState, PreSwitch
<1>6. Leftover'
  BY <1>1, <1>2 DEF Leftover, LiveCopied, CopyOf, PreSwitch
<1>7. Unique'
  <2>1. View' = DOMAIN logs \ Olds
    BY <1>1 DEF View, PreSwitch, Olds
  <2>2. UniqueIn(DOMAIN logs \ Olds)
    BY <1>1, SwitchUnique
  <2> QED  BY <1>1, <2>1, <2>2 DEF Unique, UniqueIn
<1> QED  BY <1>3, <1>4, <1>5, <1>6, <1>7 DEF FilesOK

\* The id above the copies is above every segment.
LEMMA FinishIs ==
    ASSUME FilesOK, ActiveOK, pc = "remove", Olds \cap DOMAIN logs = {}
    PROVE  /\ Max(News) \in DOMAIN logs /\ IsTop(DOMAIN logs, Max(News))
           /\ Max(News) + 1 \in Segs /\ \A h \in DOMAIN logs : h < Max(News) + 1
           /\ active < Max(News) + 1
<1>1. /\ manifest.copies # {} /\ \A c \in manifest.copies : c.new \in DOMAIN logs
  BY DEF FilesOK, CopyState
<1>2. /\ active \in DOMAIN logs
      /\ (\A h \in DOMAIN logs : h <= active \/ h \in News)
      /\ \A h \in News : active < h
  BY DEF ActiveOK, Loading, PreSwitch
<1>3. PICK t \in DOMAIN logs : IsTop(DOMAIN logs, t)
  BY <1>2 DEF FilesOK, TopSafe
<1>4. News \subseteq DOMAIN logs /\ News # {} /\ DOMAIN logs \subseteq Nat
  BY <1>1, SegType DEF FilesOK, News
<1>5. t \in News
  <2>1. PICK m \in News : TRUE
    BY <1>4
  <2>2. active < m /\ m <= t /\ active \in Nat /\ m \in Nat /\ t \in Nat
    BY <1>2, <1>3, <1>4, <2>1 DEF IsTop
  <2> QED  BY <1>2, <2>2
<1>6. Max(News) = t
  <2>1. IsTop(News, t) /\ News \in SUBSET Nat
    BY <1>3, <1>4, <1>5 DEF IsTop
  <2> QED  BY <2>1, MaxIs
<1>7. t < MaxSeg
  BY <1>5 DEF News, FilesOK, ManifestOK
<1>8. \A h \in DOMAIN logs : h \in Nat /\ h <= t
  BY <1>3, <1>4 DEF IsTop
<1> QED  BY <1>2, <1>3, <1>6, <1>7, <1>8, LogAssumption DEF Segs

\* With the old segments gone a new active segment is begun above the copies.
LEMMA FilesCompactFinish ==
    ASSUME FilesOK, TypesB, ActiveOK, IndexOK, CompactFinish
    PROVE  FilesOK'
<1> DEFINE n == Max(News) + 1
<1>1. /\ pc = "remove" /\ Olds \cap DOMAIN logs = {} /\ pc' = "idle"
      /\ logs' = With(logs, n, <<>>) /\ idx' = With(With(idx, active, Listed(active)), n, 0)
      /\ UNCHANGED <<tmpLog, tmpIdx, ret, manifest, todo>>
  BY DEF CompactFinish
<1>2. n \in Segs /\ (\A h \in DOMAIN logs : h < n) /\ active < n
  BY <1>1, FinishIs
<1> HIDE DEF n
<1>3. active \in DOMAIN logs /\ active \in View
  BY <1>1 DEF ActiveOK, Loading, View, PreSwitch
<1>4. Listed(active) \in Nat /\ Listed(active) <= Len(logs[active])
  BY <1>1, <1>3, ListedBound DEF Loading
<1>5. n \notin DOMAIN logs /\ n \notin DOMAIN idx /\ n # active /\ \A h \in DOMAIN logs : h \in Nat
  BY <1>2, <1>3, SegType DEF FilesOK, TypesA
<1>6. /\ DOMAIN idx' = DOMAIN idx \cup {active, n} /\ idx'[active] = Listed(active) /\ idx'[n] = 0
      /\ (\A g \in DOMAIN idx : g # active => idx'[g] = idx[g])
      /\ idx' = [g \in DOMAIN idx' |-> idx'[g]]
  BY <1>1, <1>5 DEF With
<1>7. DOMAIN logs' = DOMAIN logs \cup {n} /\ logs'[n] = <<>> /\ \A g \in DOMAIN logs : logs'[g] = logs[g]
  BY <1>1, <1>5 DEF With
<1>8. DOMAIN idx' \subseteq DOMAIN logs' /\ idx' \in [DOMAIN idx' -> Nat]
  <2>1. \A g \in DOMAIN idx' : idx'[g] \in Nat
    BY <1>4, <1>6 DEF FilesOK, TypesA
  <2>2. DOMAIN idx' \subseteq DOMAIN logs'
    BY <1>3, <1>6, <1>7 DEF FilesOK, TypesA
  <2> QED  BY <1>6, <2>1, <2>2
<1>9. \A g \in DOMAIN logs : \A i \in DOMAIN logs[g] : logs[g][i] # Torn
  BY <1>1, NoTorn DEF Loading
<1>10. IdxBound'
  <2> SUFFICES ASSUME NEW g \in DOMAIN idx'
               PROVE  idx'[g] <= Len(logs'[g]) /\ \A i \in 1 .. idx'[g] : logs'[g][i] # Torn
    BY DEF IdxBound
  <2>1. CASE g = active
    <3>1. DOMAIN logs[active] = 1 .. Len(logs[active]) /\ Len(logs[active]) \in Nat
      BY <1>3, SegType DEF FilesOK
    <3> QED  BY <1>3, <1>4, <1>6, <1>7, <1>9, <2>1, <3>1
  <2>2. CASE g = n
    BY <1>6, <1>7, <2>2
  <2>3. CASE g # active /\ g # n
    <3>1. g \in DOMAIN idx /\ g \in DOMAIN logs
      BY <1>6, <2>3 DEF FilesOK, TypesA
    <3> QED  BY <1>6, <1>7, <2>3, <3>1 DEF FilesOK, IdxBound
  <2> QED  BY <2>1, <2>2, <2>3
<1>11. pc' \in Quiet /\ todo' \subseteq Copies
  BY <1>1 DEF Quiet, FilesOK, TypesA
<1> QED  BY <1>1, <1>2, <1>8, <1>9, <1>10, <1>11, FilesNewSegment

-----------------------------------------------------------------------------
\* The index of the Store.

\* The entry of a position of lg, and: ents are the entries of the segments V of lg.
EntryIn(lg, g, i) == [stream |-> lg[g][i].stream, seq |-> lg[g][i].seq, seg |-> g, pos |-> i]
Covers(ents, lg, V) ==
    /\ \A e \in ents : e.seg \in V /\ e.pos \in DOMAIN lg[e.seg] /\ e = EntryIn(lg, e.seg, e.pos)
    /\ \A g \in V : \A i \in DOMAIN lg[g] : EntryIn(lg, g, i) \in ents
\* No key of a stream is in these segments twice.
KeyOnce(lg, V) ==
    \A g, h \in V : \A i \in DOMAIN lg[g], j \in DOMAIN lg[h] :
        SameKey(lg[g][i], lg[h][j]) => g = h /\ i = j

\* The entries that recovery makes are those of the records.
LEMMA EntriesCover ==
    ASSUME NEW lg
    PROVE  Covers(EntriesOf(lg), lg, DOMAIN lg)
<1>1. ASSUME NEW g \in DOMAIN lg, NEW i \in DOMAIN lg[g] PROVE EntryIn(lg, g, i) \in EntriesOf(lg)
  BY DEF EntriesOf, EntryIn
<1>2. ASSUME NEW e \in EntriesOf(lg)
      PROVE  e.seg \in DOMAIN lg /\ e.pos \in DOMAIN lg[e.seg] /\ e = EntryIn(lg, e.seg, e.pos)
  <2>1. PICK g \in DOMAIN lg : \E i \in DOMAIN lg[g] : e = EntryIn(lg, g, i)
    BY DEF EntriesOf, EntryIn
  <2>2. PICK i \in DOMAIN lg[g] : e = EntryIn(lg, g, i)
    BY <2>1
  <2>3. e.seg = g /\ e.pos = i
    BY <2>2 DEF EntryIn
  <2> QED  BY <2>1, <2>2, <2>3
<1> QED  BY <1>1, <1>2 DEF Covers

\* They are finitely many.
LEMMA EntriesFinite ==
    ASSUME NEW lg, DOMAIN lg \subseteq Segs, \A g \in DOMAIN lg : lg[g] \in Seq(Records \cup {Torn})
    PROVE  IsFiniteSet(EntriesOf(lg))
<1> DEFINE Of(g) == {[stream |-> lg[g][i].stream, seq |-> lg[g][i].seq, seg |-> g, pos |-> i] : i \in DOMAIN lg[g]}
           F == {Of(g) : g \in DOMAIN lg}
<1>1. ASSUME NEW g \in DOMAIN lg PROVE IsFiniteSet(Of(g))
  <2>1. DOMAIN lg[g] = 1 .. Len(lg[g]) /\ Len(lg[g]) \in Nat
    OBVIOUS
  <2>2. IsFiniteSet(DOMAIN lg[g])
    BY <2>1, FS_Interval
  <2> DEFINE f == [i \in DOMAIN lg[g] |->
                      [stream |-> lg[g][i].stream, seq |-> lg[g][i].seq, seg |-> g, pos |-> i]]
  <2>3. f \in Surjection(DOMAIN lg[g], Of(g))
    BY DEF Surjection
  <2> HIDE DEF f, Of
  <2> QED  BY <2>2, <2>3, FS_Surjection
<1>2. IsFiniteSet(F)
  <2>1. IsFiniteSet(DOMAIN lg)
    <3>1. IsFiniteSet(Segs)
      BY LogAssumption, FS_Interval DEF Segs
    <3> QED  BY <3>1, FS_Subset
  <2> DEFINE f == [g \in DOMAIN lg |-> Of(g)]
  <2> HIDE DEF Of
  <2>2. f \in Surjection(DOMAIN lg, F)
    BY DEF Surjection
  <2> HIDE DEF f, F
  <2> QED  BY <2>1, <2>2, FS_Surjection
<1>3. EntriesOf(lg) = UNION F
  BY DEF EntriesOf
<1>4. \A T \in F : IsFiniteSet(T)
  BY <1>1
<1> HIDE DEF F
<1> QED  BY <1>2, <1>3, <1>4, FS_UNION

\* With one record of each key, the idempotency map holds every record that has one.
LEMMA IdemIs ==
    ASSUME NEW lg, NEW V \in SUBSET Nat, NEW ents, Covers(ents, lg, V), KeyOnce(lg, V),
           \A g \in V : DOMAIN lg[g] \subseteq Nat, NEW r
    PROVE  r \in IdemOf(ents, lg)
             <=> \E g \in V : \E i \in DOMAIN lg[g] : lg[g][i] = r /\ r.key # NoKey
<1>1. ASSUME r \in IdemOf(ents, lg)
      PROVE  \E g \in V : \E i \in DOMAIN lg[g] : lg[g][i] = r /\ r.key # NoKey
  <2>1. PICK e \in ents : r = lg[e.seg][e.pos] /\ r.key # NoKey
    BY <1>1 DEF IdemOf
  <2> QED  BY <2>1 DEF Covers
<1>2. ASSUME NEW g \in V, NEW i \in DOMAIN lg[g], lg[g][i] = r, r.key # NoKey
      PROVE  r \in IdemOf(ents, lg)
  <2> DEFINE e == EntryIn(lg, g, i)
  <2>1. e \in ents /\ e.seg = g /\ e.pos = i
    BY DEF Covers, EntryIn
  <2>2. ASSUME NEW f \in ents, lg[f.seg][f.pos].stream = r.stream, lg[f.seg][f.pos].key = r.key
        PROVE  ~After(f, e)
    <3>1. f.seg \in V /\ f.pos \in DOMAIN lg[f.seg]
      BY DEF Covers
    <3>2. SameKey(lg[f.seg][f.pos], lg[g][i])
      BY <1>2, <2>2 DEF SameKey
    <3>3. f.seg = g /\ f.pos = i
      BY <3>1, <3>2 DEF KeyOnce
    <3>4. g \in Nat /\ i \in Nat
      OBVIOUS
    <3> HIDE DEF e
    <3> QED  BY <2>1, <3>3, <3>4 DEF After
  <2> HIDE DEF e
  <2>3. e \in {x \in ents :
            LET u == lg[x.seg][x.pos]
            IN  /\ u.key # NoKey
                /\ \A f \in ents : LET q == lg[f.seg][f.pos]
                                   IN  q.stream = u.stream /\ q.key = u.key => ~After(f, x)}
    BY <1>2, <2>1, <2>2
  <2> QED  BY <1>2, <2>1, <2>3 DEF IdemOf
<1> QED  BY <1>1, <1>2

\* The invariant of the Store in memory.
MemOK == TypesB /\ ActiveOK /\ IndexOK

\* Steps that leave the files and the Store alone.
LEMMA MemFrame ==
    ASSUME MemOK, UNCHANGED <<disk, mem, pc>>, TypesB'
    PROVE  MemOK'
<1>1. /\ logs' = logs /\ idx' = idx /\ ret' = ret /\ manifest' = manifest /\ pc' = pc
      /\ active' = active /\ size' = size /\ entries' = entries /\ trim' = trim /\ idem' = idem
  BY DEF disk, mem
<1>2. View' = View /\ Gone' = Gone /\ News' = News
  BY <1>1 DEF View, Gone, News, Olds
<1>3. ActiveOK'
  BY <1>1, <1>2 DEF MemOK, ActiveOK
<1>4. IndexOK'
  <2>1. \A g, i : Unindexed(g, i)' <=> Unindexed(g, i)
    BY <1>1 DEF Unindexed
  <2>2. \A g, i : EntryAt(g, i)' = EntryAt(g, i)
    BY <1>1 DEF EntryAt
  <2>3. IndexOK
    BY DEF MemOK
  <2> QED  BY <1>1, <1>2, <2>1, <2>2, <2>3 DEF IndexOK
<1> QED  BY <1>3, <1>4 DEF MemOK

\* Nothing is indexed in a Store that is not in memory.
LEMMA MemLoading ==
    ASSUME TypesB', pc' \in Loading
    PROVE  MemOK'
BY DEF MemOK, ActiveOK, IndexOK

\* Steps that move no record and add at most an empty segment.
LEMMA IndexFrame ==
    ASSUME IndexOK, UNCHANGED <<entries, idem>>,
           pc \notin Loading \cup Writing, pc' \notin Loading \cup Writing, pc # "delete",
           View \subseteq View', \A g \in View : logs'[g] = logs[g],
           \A g \in View' \ View : DOMAIN logs'[g] = {}
    PROVE  IndexOK'
<1>1. \A g, i : ~Unindexed(g, i)' /\ ~Unindexed(g, i)
  BY DEF Unindexed
<1>2. \A g \in View : \A i : EntryAt(g, i)' = EntryAt(g, i)
  BY DEF EntryAt
<1>3. /\ IsFiniteSet(entries)
      /\ (\A e \in entries : e.seg \in View /\ e.pos \in DOMAIN logs[e.seg] /\ e = EntryAt(e.seg, e.pos))
      /\ (\A g \in View : \A i \in DOMAIN logs[g] : EntryAt(g, i) \in entries)
      /\ (\A r \in idem : r.key # NoKey /\ \E g \in View : \E i \in DOMAIN logs[g] : logs[g][i] = r)
      /\ \A g \in View : \A i \in DOMAIN logs[g] : logs[g][i].key # NoKey => logs[g][i] \in idem
  BY <1>1 DEF IndexOK
<1>4. \A e \in entries : /\ e.seg \in View' /\ e.pos \in DOMAIN logs'[e.seg]
                         /\ e = EntryAt(e.seg, e.pos)'
  BY <1>2, <1>3 DEF EntryAt
<1>5. \A g \in View' : \A i \in DOMAIN logs'[g] : EntryAt(g, i)' \in entries
  BY <1>2, <1>3
<1>6. \A r \in idem : r.key # NoKey /\ \E g \in View' : \E i \in DOMAIN logs'[g] : logs'[g][i] = r
  BY <1>3
<1>7. \A g \in View' : \A i \in DOMAIN logs'[g] : logs'[g][i].key # NoKey => logs'[g][i] \in idem
  BY <1>3
<1> QED  BY <1>1, <1>3, <1>4, <1>5, <1>6, <1>7 DEF IndexOK

\* A new Append touches no index.
LEMMA MemAppendStart ==
    ASSUME FilesOK, MemOK, NEW s \in Streams, NEW k \in Keys \cup {NoKey}, AppendStart(s, k)
    PROVE  MemOK'
<1>1. /\ pc = "idle" /\ pc' \in {"roll", "write"} /\ sent' = sent + 1
      /\ pend' = [stream |-> s, seq |-> next[s], key |-> k, id |-> sent + 1]
      /\ UNCHANGED <<logs, ret, manifest, active, size, entries, next, trim, idem, acked, stops, faults>>
  BY DEF AppendStart, disk, mem
<1>2. pend' \in Records
  BY <1>1 DEF MemOK, TypesB, Records
<1>3. TypesB'
  BY <1>1, <1>2 DEF MemOK, TypesB
<1>4. View' = View
  BY <1>1 DEF View, Olds, PreSwitch
<1>5. ActiveOK'
  BY <1>1 DEF MemOK, ActiveOK, Loading, PreSwitch, Writing
<1>6. IndexOK'
  BY <1>1, <1>4, IndexFrame DEF MemOK, Loading, Writing
<1> QED  BY <1>3, <1>5, <1>6 DEF MemOK

\* An Append of a known key changes nothing.
LEMMA MemAppendDuplicate ==
    ASSUME MemOK, NEW s \in Streams, NEW k \in Keys, AppendDuplicate(s, k)
    PROVE  MemOK'
<1>1. UNCHANGED <<disk, mem, pc, pend, bounds>> /\ acked' = acked \cup Known(s, k)
  BY DEF AppendDuplicate
<1>2. TypesB'
  BY <1>1 DEF MemOK, TypesB, Known, mem, bounds
<1> QED  BY <1>1, <1>2, MemFrame

\* A watermark is raised in memory and on disk together.
LEMMA MemTrim ==
    ASSUME FilesOK, MemOK, NEW s \in Streams, Trim(s)
    PROVE  MemOK'
<1>1. /\ pc = "idle" /\ pc' = pc /\ ret' = trim'
      /\ UNCHANGED <<logs, manifest, active, size, entries, next, idem, pend, acked, bounds>>
  BY DEF Trim
<1>2. PICK b \in 1 .. next[s] : trim' = [trim EXCEPT ![s] = b]
  BY DEF Trim
<1>3. TypesB'
  BY <1>1, <1>2 DEF MemOK, TypesB, bounds
<1>4. View' = View
  BY <1>1 DEF View, Olds, News
<1>5. ActiveOK'
  BY <1>1 DEF MemOK, ActiveOK, PreSwitch
<1>6. IndexOK'
  BY <1>1, <1>4, IndexFrame DEF MemOK, Loading, Writing
<1> QED  BY <1>3, <1>5, <1>6 DEF MemOK

\* The new active segment has no entries.
LEMMA MemAppendRoll ==
    ASSUME FilesOK, MemOK, AppendRoll, FilesOK'
    PROVE  MemOK'
<1>1. /\ pc = "roll" /\ active < MaxSeg /\ active' = active + 1
      /\ logs' = IF active + 1 \in DOMAIN logs THEN logs ELSE With(logs, active + 1, <<>>)
      /\ size' = Len(logs'[active']) /\ pc' = "rollIndex"
      /\ UNCHANGED <<ret, manifest, entries, next, trim, idem, pend, acked, bounds>>
  BY DEF AppendRoll
<1>2. active \in DOMAIN logs /\ IsTop(DOMAIN logs, active) /\ active \in Nat /\ active \in Segs /\ trim = ret
  BY <1>1, LogAssumption DEF MemOK, ActiveOK, Loading, PreSwitch, Writing, Segs
<1>3. \A h \in DOMAIN logs : h \in Nat /\ h <= active
  BY <1>2, SegType DEF FilesOK, IsTop
<1>4. active + 1 \notin DOMAIN logs /\ active + 1 \in Segs
  BY <1>1, <1>2, <1>3, LogAssumption DEF Segs
<1>5. /\ DOMAIN logs' = DOMAIN logs \cup {active + 1} /\ logs'[active + 1] = <<>>
      /\ \A g \in DOMAIN logs : logs'[g] = logs[g]
  BY <1>1, <1>4 DEF With
<1>6. size' = 0
  <2>1. Len(<<>>) = 0
    OBVIOUS
  <2> QED  BY <1>1, <1>5, <2>1
<1>7. TypesB'
  BY <1>1, <1>4, <1>6 DEF MemOK, TypesB, bounds
<1>8. ActiveOK'
  <2>1. IsTop(DOMAIN logs', active')
    BY <1>1, <1>2, <1>3, <1>5 DEF IsTop
  <2>2. Len(logs'[active']) = size' /\ active' \in DOMAIN logs' /\ active' \in Segs /\ trim' = ret'
    BY <1>1, <1>2, <1>4, <1>5
  <2> QED  BY <1>1, <2>1, <2>2 DEF ActiveOK, PreSwitch, Writing
<1>9. View \subseteq View' /\ View' \subseteq View \cup {active + 1} /\ View \subseteq DOMAIN logs
  BY <1>1, <1>5 DEF View, Olds, PreSwitch
<1>10. IndexOK'
  <2>1. \A g \in View : logs'[g] = logs[g]
    BY <1>5, <1>9
  <2>2. \A g \in View' \ View : DOMAIN logs'[g] = {}
    BY <1>5, <1>9
  <2> QED  BY <1>1, <1>9, <2>1, <2>2, IndexFrame DEF MemOK, Loading, Writing
<1> QED  BY <1>7, <1>8, <1>10 DEF MemOK

\* Its index file changes nothing in memory.
LEMMA MemAppendRollIndex ==
    ASSUME FilesOK, MemOK, AppendRollIndex
    PROVE  MemOK'
<1>1. /\ pc = "rollIndex" /\ pc' = "write"
      /\ UNCHANGED <<logs, ret, manifest, active, size, entries, next, trim, idem, pend, acked, bounds>>
  BY DEF AppendRollIndex, mem
<1>2. TypesB'
  BY <1>1 DEF MemOK, TypesB, bounds
<1>3. View' = View
  BY <1>1 DEF View, Olds, PreSwitch
<1>4. ActiveOK'
  BY <1>1 DEF MemOK, ActiveOK, Loading, PreSwitch, Writing
<1>5. IndexOK'
  BY <1>1, <1>3, IndexFrame DEF MemOK, Loading, Writing
<1> QED  BY <1>2, <1>4, <1>5 DEF MemOK

\* The written record is not indexed yet.
LEMMA MemAppendWrite ==
    ASSUME FilesOK, MemOK, AppendWrite
    PROVE  MemOK'
<1>1. /\ pc = "write" /\ pc' \in {"written", "torn"}
      /\ UNCHANGED <<ret, manifest, active, size, entries, next, trim, idem, pend, acked, bounds>>
  BY DEF AppendWrite, mem
<1>2. PICK x : logs' = [logs EXCEPT ![active] = Append(@, x)]
  BY DEF AppendWrite
<1>3. /\ active \in DOMAIN logs /\ IsTop(DOMAIN logs, active) /\ active \in Segs /\ trim = ret
      /\ Len(logs[active]) = size
  BY <1>1 DEF MemOK, ActiveOK, Loading, PreSwitch, Writing
<1>4. /\ DOMAIN logs' = DOMAIN logs
      /\ (\A g \in DOMAIN logs : g # active => logs'[g] = logs[g])
      /\ logs'[active] = Append(logs[active], x)
  BY <1>2, <1>3 DEF FilesOK, TypesA
<1>5. DOMAIN logs[active] = 1 .. size /\ size \in Nat /\ logs[active] \in Seq(Records \cup {Torn})
  BY <1>3, SegType DEF FilesOK
<1>6. /\ Len(logs'[active]) = size + 1 /\ DOMAIN logs'[active] = 1 .. size + 1
      /\ \A i \in 1 .. size : logs'[active][i] = logs[active][i]
  BY <1>4, <1>5
<1>7. TypesB'
  BY <1>1 DEF MemOK, TypesB, bounds
<1>8. ActiveOK'
  BY <1>1, <1>3, <1>4, <1>6 DEF ActiveOK, PreSwitch, Writing
<1>9. View' = View /\ View \subseteq DOMAIN logs
  BY <1>1, <1>4 DEF View, Olds, PreSwitch
<1>10. \A g, i : (Unindexed(g, i)' <=> g = active /\ i = size + 1) /\ ~Unindexed(g, i)
  BY <1>1 DEF Unindexed, Writing
<1>11. \A g \in DOMAIN logs : \A i : i \in DOMAIN logs[g] <=> i \in DOMAIN logs'[g] /\ ~Unindexed(g, i)'
  BY <1>4, <1>5, <1>6, <1>10
<1>12. \A g \in DOMAIN logs : \A i \in DOMAIN logs[g] : logs'[g][i] = logs[g][i]
  BY <1>4, <1>5, <1>6
<1>13. \A g \in DOMAIN logs : \A i \in DOMAIN logs[g] : EntryAt(g, i)' = EntryAt(g, i)
  BY <1>12 DEF EntryAt
<1>14. IndexOK'
  <2>1. /\ IsFiniteSet(entries)
        /\ (\A e \in entries : e.seg \in View /\ e.pos \in DOMAIN logs[e.seg] /\ e = EntryAt(e.seg, e.pos))
        /\ (\A g \in View : \A i \in DOMAIN logs[g] : EntryAt(g, i) \in entries)
        /\ (\A r \in idem : r.key # NoKey /\ \E g \in View : \E i \in DOMAIN logs[g] : logs[g][i] = r)
        /\ \A g \in View : \A i \in DOMAIN logs[g] : logs[g][i].key # NoKey => logs[g][i] \in idem
    BY <1>1, <1>10 DEF MemOK, IndexOK, Loading
  <2>2. \A e \in entries : /\ e.seg \in View' /\ e.pos \in DOMAIN logs'[e.seg]
                           /\ ~Unindexed(e.seg, e.pos)' /\ e = EntryAt(e.seg, e.pos)'
    <3> SUFFICES ASSUME NEW e \in entries
                 PROVE  /\ e.seg \in View' /\ e.pos \in DOMAIN logs'[e.seg]
                        /\ ~Unindexed(e.seg, e.pos)' /\ e = EntryAt(e.seg, e.pos)'
      OBVIOUS
    <3>1. e.seg \in View /\ e.seg \in DOMAIN logs /\ e.pos \in DOMAIN logs[e.seg] /\ e = EntryAt(e.seg, e.pos)
      BY <1>9, <2>1
    <3>2. logs'[e.seg][e.pos] = logs[e.seg][e.pos]
      BY <1>12, <3>1
    <3>3. EntryAt(e.seg, e.pos)' = EntryAt(e.seg, e.pos)
      BY <1>1, <3>2 DEF EntryAt
    <3> QED  BY <1>9, <1>11, <3>1, <3>3
  <2>3. \A g \in View' : \A i \in DOMAIN logs'[g] : ~Unindexed(g, i)' => EntryAt(g, i)' \in entries
    BY <1>9, <1>11, <1>13, <2>1
  <2>4. \A r \in idem : /\ r.key # NoKey
                        /\ \E g \in View' : \E i \in DOMAIN logs'[g] : ~Unindexed(g, i)' /\ logs'[g][i] = r
    BY <1>9, <1>11, <1>12, <2>1
  <2>5. \A g \in View' : \A i \in DOMAIN logs'[g] :
           ~Unindexed(g, i)' /\ logs'[g][i].key # NoKey => logs'[g][i] \in idem
    BY <1>9, <1>11, <1>12, <2>1
  <2> QED  BY <1>1, <2>1, <2>2, <2>3, <2>4, <2>5 DEF IndexOK
<1> QED  BY <1>7, <1>8, <1>14 DEF MemOK

\* The written record is indexed, with its key.
LEMMA MemAppendCommit ==
    ASSUME FilesOK, MemOK, Numbers, AppendCommit
    PROVE  MemOK'
<1> DEFINE new == [stream |-> pend.stream, seq |-> pend.seq, seg |-> active, pos |-> size + 1]
<1>1. /\ pc = "written" /\ pc' = "idle" /\ size' = size + 1 /\ entries' = entries \cup {new}
      /\ next' = [next EXCEPT ![pend.stream] = pend.seq + 1]
      /\ idem' = IF pend.key = NoKey THEN idem ELSE idem \cup {pend}
      /\ acked' = acked \cup {pend} /\ pend' = NoRecord
      /\ UNCHANGED <<logs, ret, manifest, active, trim, bounds>>
  BY DEF AppendCommit, disk
<1>2. pend \in Records /\ logs[active][size + 1] = pend
  BY <1>1 DEF Numbers, Appending, Writing
<1>3. /\ active \in DOMAIN logs /\ IsTop(DOMAIN logs, active) /\ active \in Segs /\ trim = ret
      /\ Len(logs[active]) = size + 1 /\ size \in Nat
  BY <1>1 DEF MemOK, TypesB, ActiveOK, Loading, PreSwitch, Writing
<1>4. DOMAIN logs[active] = 1 .. size + 1
  BY <1>3, SegType DEF FilesOK
<1>5. new \in Entries /\ new.seg = active /\ new.pos = size + 1
  BY <1>2, <1>3 DEF Entries, Records
<1>6. new = EntryAt(active, size + 1)
  BY <1>2 DEF EntryAt
<1> HIDE DEF new
<1>7. TypesB'
  BY <1>1, <1>2, <1>3, <1>5 DEF MemOK, TypesB, bounds, Records
<1>8. ActiveOK'
  BY <1>1, <1>3 DEF ActiveOK, PreSwitch, Writing
<1>9. View' = View /\ active \in View
  <2>1. Settled
    BY <1>1, SettledAt DEF Quiet
  <2> QED  BY <1>1, <1>3, <2>1 DEF View, Olds, News, PreSwitch, Settled
<1>10. \A g, i : ~Unindexed(g, i)' /\ (Unindexed(g, i) <=> g = active /\ i = size + 1)
  BY <1>1 DEF Unindexed, Writing
<1>11. \A g, i : EntryAt(g, i)' = EntryAt(g, i)
  BY <1>1 DEF EntryAt
<1>12. IndexOK'
  <2>1. /\ IsFiniteSet(entries)
        /\ (\A e \in entries : e.seg \in View /\ e.pos \in DOMAIN logs[e.seg] /\ e = EntryAt(e.seg, e.pos))
        /\ (\A g \in View : \A i \in DOMAIN logs[g] : ~Unindexed(g, i) => EntryAt(g, i) \in entries)
        /\ (\A r \in idem : r.key # NoKey /\ \E g \in View : \E i \in DOMAIN logs[g] : logs[g][i] = r)
        /\ \A g \in View : \A i \in DOMAIN logs[g] :
              ~Unindexed(g, i) /\ logs[g][i].key # NoKey => logs[g][i] \in idem
    BY <1>1 DEF MemOK, IndexOK, Loading
  <2>2. IsFiniteSet(entries')
    BY <1>1, <2>1, FS_AddElement
  <2>3. size + 1 \in DOMAIN logs[active]
    BY <1>3, <1>4
  <2>4. \A e \in entries' : e.seg \in View /\ e.pos \in DOMAIN logs[e.seg] /\ e = EntryAt(e.seg, e.pos)
    BY <1>1, <1>5, <1>6, <1>9, <2>1, <2>3
  <2>5. \A g \in View : \A i \in DOMAIN logs[g] : EntryAt(g, i) \in entries'
    BY <1>1, <1>6, <1>10, <2>1
  <2>6. \A r \in idem' : r.key # NoKey /\ \E g \in View : \E i \in DOMAIN logs[g] : logs[g][i] = r
    BY <1>1, <1>2, <1>9, <2>1, <2>3
  <2>7. \A g \in View : \A i \in DOMAIN logs[g] : logs[g][i].key # NoKey => logs[g][i] \in idem'
    BY <1>1, <1>2, <1>10, <2>1
  <2> QED  BY <1>1, <1>9, <1>10, <1>11, <2>2, <2>4, <2>5, <2>6, <2>7 DEF IndexOK
<1> QED  BY <1>7, <1>8, <1>12 DEF MemOK

\* An index that is built from the files.
LEMMA IndexRebuilt ==
    ASSUME FilesOK', pc' \notin Loading \cup Writing, IsFiniteSet(entries'),
           Covers(entries', logs', View'), idem' = IdemOf(entries', logs')
    PROVE  IndexOK' /\ entries' \subseteq Entries /\ idem' \subseteq Records
<1>1. /\ DOMAIN logs' \subseteq Segs /\ logs' \in [DOMAIN logs' -> Seq(Records \cup {Torn})]
      /\ \A g \in DOMAIN logs' : \A i \in DOMAIN logs'[g] : logs'[g][i] # Torn
  BY DEF FilesOK, TypesA, TornLast, Writing
<1>2. View' \subseteq DOMAIN logs'
  BY DEF View
<1>3. \A g \in DOMAIN logs' : /\ g \in Segs /\ g \in Nat /\ DOMAIN logs'[g] \subseteq Nat
                              /\ \A i \in DOMAIN logs'[g] : logs'[g][i] \in Records
  BY <1>1, LogAssumption DEF Segs
<1>4. KeyOnce(logs', View')
  <2>1. UniqueIn(View)'
    BY DEF FilesOK, Unique
  <2> QED  BY <1>1, <1>2, <2>1 DEF UniqueIn, KeyOnce
<1>5. ASSUME NEW r
      PROVE  r \in idem' <=> \E g \in View' : \E i \in DOMAIN logs'[g] : logs'[g][i] = r /\ r.key # NoKey
  <2> DEFINE lg == logs'
             V == View'
             ents == entries'
  <2>1. V \in SUBSET Nat /\ Covers(ents, lg, V) /\ KeyOnce(lg, V) /\ \A g \in V : DOMAIN lg[g] \subseteq Nat
    BY <1>2, <1>3, <1>4
  <2> HIDE DEF lg, V, ents
  <2>2. r \in IdemOf(ents, lg) <=> \E g \in V : \E i \in DOMAIN lg[g] : lg[g][i] = r /\ r.key # NoKey
    BY <2>1, IdemIs
  <2> QED  BY <2>2 DEF lg, V, ents
<1>6. \A g, i : ~Unindexed(g, i)' /\ EntryAt(g, i)' = EntryIn(logs', g, i)
  BY DEF Unindexed, EntryAt, EntryIn
<1>7. /\ (\A e \in entries' : e.seg \in View' /\ e.pos \in DOMAIN logs'[e.seg] /\ e = EntryAt(e.seg, e.pos)')
      /\ (\A g \in View' : \A i \in DOMAIN logs'[g] : EntryAt(g, i)' \in entries')
  BY <1>6 DEF Covers
<1>8. IndexOK'
  BY <1>5, <1>6, <1>7 DEF IndexOK
<1>9. entries' \subseteq Entries
  <2> SUFFICES ASSUME NEW e \in entries' PROVE e \in Entries
    OBVIOUS
  <2>1. e.seg \in DOMAIN logs' /\ e.pos \in DOMAIN logs'[e.seg] /\ e = EntryIn(logs', e.seg, e.pos)
    BY <1>2 DEF Covers
  <2>2. e.seg \in Segs /\ e.pos \in Nat /\ logs'[e.seg][e.pos] \in Records
    BY <1>3, <2>1
  <2> QED  BY <2>1, <2>2 DEF EntryIn, Entries, Records
<1>10. idem' \subseteq Records
  BY <1>2, <1>3, <1>5
<1> QED  BY <1>8, <1>9, <1>10

\* A plan leaves the active segment and every copy's id above what it gives up.
LEMMA MemCompactPlan ==
    ASSUME FilesOK, MemOK, CompactPlan
    PROVE  MemOK'
<1>1. /\ pc = "idle" /\ pc' = "delete"
      /\ manifest' = [del |-> FullyTrimmed, copies |-> PlannedCopies]
      /\ UNCHANGED <<logs, ret, active, size, entries, next, trim, idem, pend, acked, bounds>>
      /\ Sparse # {} => Max(DOMAIN logs) + Cardinality(Sparse) < MaxSeg
  BY DEF CompactPlan, mem
<1>2. /\ (\A g \in FullyTrimmed \cup Sparse : g < active)
      /\ PlannedCopies \subseteq Copies
      /\ {c.old : c \in PlannedCopies} = Sparse
      /\ (\A c \in PlannedCopies : active < c.new /\ c.new < MaxSeg)
  BY <1>1, PlanIs DEF MemOK
<1>3. /\ active \in DOMAIN logs /\ IsTop(DOMAIN logs, active) /\ active \in Segs /\ trim = ret
      /\ Len(logs[active]) = size
  BY <1>1 DEF MemOK, ActiveOK, Loading, PreSwitch, Writing
<1>4. Olds' = Sparse /\ Gone' = FullyTrimmed \cup Sparse /\ News' = {c.new : c \in PlannedCopies}
  BY <1>1, <1>2 DEF Olds, Gone, News
<1> HIDE DEF FullyTrimmed, Sparse, PlannedCopies
<1>5. TypesB'
  BY <1>1 DEF MemOK, TypesB, bounds
<1>6. \A h \in News' : active < h
  BY <1>2, <1>4
<1>7. ActiveOK'
  BY <1>1, <1>2, <1>3, <1>4, <1>6 DEF ActiveOK, PreSwitch, Writing, IsTop
<1>8. View' = DOMAIN logs /\ View = DOMAIN logs
  <2>1. Settled
    BY <1>1, SettledAt DEF Quiet
  <2>2. \A h \in DOMAIN logs : h \in Nat /\ h <= active
    BY <1>3, SegType DEF FilesOK, IsTop
  <2>3. DOMAIN logs \cap News' = {}
    BY <1>3, <1>6, <2>2
  <2> QED  BY <1>1, <2>1, <2>3 DEF View, PreSwitch, Settled
<1>9. IndexOK'
  BY <1>1, <1>8, IndexFrame DEF MemOK, Loading, Writing
<1> QED  BY <1>5, <1>7, <1>9 DEF MemOK

\* Entries of a deleted segment stay for the rest of the deletion.
LEMMA MemCompactDelete ==
    ASSUME FilesOK, MemOK, CompactDelete
    PROVE  MemOK'
<1>1. /\ pc = "delete" /\ pc' = pc
      /\ UNCHANGED <<ret, manifest, active, size, entries, next, trim, idem, pend, acked, bounds>>
  BY DEF CompactDelete, mem
<1>2. PICK g \in manifest.del \cap DOMAIN logs : logs' = Without(logs, {g})
  BY DEF CompactDelete, RemoveSegments
<1>3. /\ DOMAIN logs' = DOMAIN logs \ {g}
      /\ \A h \in DOMAIN logs' : logs'[h] = logs[h]
  BY <1>2 DEF Without, Restrict
<1>4. Gone' = Gone /\ News' = News /\ Olds' = Olds
  BY <1>1 DEF Gone, News, Olds
<1>5. /\ active \in DOMAIN logs /\ active \in Segs /\ trim = ret /\ Len(logs[active]) = size
      /\ (\A h \in DOMAIN logs : h <= active \/ h \in News)
      /\ (\A h \in Gone : h < active)
      /\ (\A h \in News : active < h)
  BY <1>1 DEF MemOK, ActiveOK, Loading, PreSwitch, Writing
<1>6. active # g
  <2>1. active \in Nat
    BY <1>5, SegType DEF FilesOK
  <2> QED  BY <1>2, <1>5, <2>1 DEF Gone
<1>7. TypesB'
  BY <1>1 DEF MemOK, TypesB, bounds
<1>8. ActiveOK'
  BY <1>1, <1>3, <1>4, <1>5, <1>6 DEF ActiveOK, PreSwitch, Writing
<1>9. View' = View \ {g}
  BY <1>1, <1>3, <1>4 DEF View
<1>10. IndexOK'
  <2>1. \A h, i : ~Unindexed(h, i)' /\ ~Unindexed(h, i)
    BY <1>1 DEF Unindexed, Writing
  <2>2. \A h \in View' : \A i : EntryAt(h, i)' = EntryAt(h, i)
    BY <1>3 DEF EntryAt, View
  <2>3. \A h \in View' : logs'[h] = logs[h]
    BY <1>3 DEF View
  <2>4. /\ IsFiniteSet(entries)
        /\ (\A e \in entries : IF e.seg \in View THEN e.pos \in DOMAIN logs[e.seg] /\ e = EntryAt(e.seg, e.pos)
                               ELSE e.seg \in manifest.del)
        /\ (\A h \in View : \A i \in DOMAIN logs[h] : EntryAt(h, i) \in entries)
    BY <1>1, <2>1 DEF MemOK, IndexOK, Loading
  <2>5. \A e \in entries : IF e.seg \in View'
                           THEN e.pos \in DOMAIN logs'[e.seg] /\ e = EntryAt(e.seg, e.pos)'
                           ELSE e.seg \in manifest.del
    BY <1>2, <1>9, <2>2, <2>3, <2>4
  <2>6. \A h \in View' : \A i \in DOMAIN logs'[h] : EntryAt(h, i)' \in entries
    BY <1>9, <2>2, <2>3, <2>4
  <2> QED  BY <1>1, <2>1, <2>4, <2>5, <2>6 DEF IndexOK
<1> QED  BY <1>7, <1>8, <1>10 DEF MemOK

\* Then they go, and the idempotency map is built again from what is left.
LEMMA MemCompactDeleted ==
    ASSUME FilesOK, MemOK, CompactDeleted, FilesOK'
    PROVE  MemOK'
<1>1. /\ pc = "delete" /\ manifest.del \cap DOMAIN logs = {}
      /\ entries' = {e \in entries : e.seg \notin manifest.del}
      /\ idem' = IdemOf(entries', logs) /\ pc' = IF todo = {} THEN "idle" ELSE "copy"
      /\ UNCHANGED <<logs, ret, manifest, active, size, next, trim, pend, acked, bounds>>
  BY DEF CompactDeleted, disk
<1>2. Gone' = Gone /\ News' = News /\ Olds' = Olds
  BY <1>1 DEF Gone, News, Olds
<1>3. todo = manifest.copies
  BY <1>1 DEF FilesOK, CopyState
<1>4. View' = View /\ View \subseteq DOMAIN logs
  BY <1>1, <1>2, <1>3 DEF View, PreSwitch, News, Olds
<1>5. ActiveOK'
  <2>1. /\ active \in DOMAIN logs /\ active \in Segs /\ trim = ret /\ Len(logs[active]) = size
        /\ (\A h \in DOMAIN logs : h <= active \/ h \in News)
        /\ (\A h \in Gone : h < active)
        /\ (\A h \in News : active < h)
    BY <1>1 DEF MemOK, ActiveOK, Loading, PreSwitch, Writing
  <2>2. CASE todo = {}
    <3>1. News = {}
      BY <1>3, <2>2 DEF News
    <3> QED  BY <1>1, <2>1, <2>2, <3>1 DEF ActiveOK, PreSwitch, Writing, IsTop
  <2>3. CASE todo # {}
    BY <1>1, <1>2, <2>1, <2>3 DEF ActiveOK, PreSwitch, Writing
  <2> QED  BY <2>2, <2>3
<1>6. /\ IsFiniteSet(entries)
      /\ (\A e \in entries : IF e.seg \in View THEN e.pos \in DOMAIN logs[e.seg] /\ e = EntryAt(e.seg, e.pos)
                             ELSE e.seg \in manifest.del)
      /\ (\A h \in View : \A i \in DOMAIN logs[h] : EntryAt(h, i) \in entries)
  <2>1. \A h, i : ~Unindexed(h, i)
    BY <1>1 DEF Unindexed, Writing
  <2> QED  BY <1>1, <2>1 DEF MemOK, IndexOK, Loading
<1>7. Covers(entries', logs', View')
  <2>1. \A h, i : EntryAt(h, i) = EntryIn(logs, h, i)
    BY DEF EntryAt, EntryIn
  <2>2. \A e \in entries' : e.seg \in View /\ e.pos \in DOMAIN logs[e.seg] /\ e = EntryIn(logs, e.seg, e.pos)
    BY <1>1, <1>6, <2>1
  <2>3. \A h \in View : \A i \in DOMAIN logs[h] : EntryIn(logs, h, i) \in entries'
    <3> SUFFICES ASSUME NEW h \in View, NEW i \in DOMAIN logs[h] PROVE EntryIn(logs, h, i) \in entries'
      OBVIOUS
    <3>1. EntryIn(logs, h, i) \in entries /\ EntryIn(logs, h, i).seg = h /\ h \notin manifest.del
      BY <1>1, <1>4, <1>6, <2>1 DEF EntryIn
    <3> QED  BY <1>1, <3>1
  <2> QED  BY <1>1, <1>4, <2>2, <2>3 DEF Covers
<1>8. IsFiniteSet(entries')
  BY <1>1, <1>6, FS_Subset
<1>9. pc' \notin Loading \cup Writing
  BY <1>1 DEF Loading, Writing
<1>10. IndexOK' /\ entries' \subseteq Entries /\ idem' \subseteq Records
  BY <1>1, <1>7, <1>8, <1>9, IndexRebuilt
<1>11. TypesB'
  BY <1>1, <1>10 DEF MemOK, TypesB, bounds
<1> QED  BY <1>5, <1>10, <1>11 DEF MemOK

\* Steps of the copying.
LEMMA MemCopying ==
    ASSUME FilesOK, MemOK, pc \in PreSwitch \ {"delete"}, pc' \in PreSwitch \ {"delete"},
           UNCHANGED <<ret, manifest, mem, pend, acked, bounds>>,
           logs' = logs \/ \E g \in News : logs' = With(logs, g, tmpLog[g])
    PROVE  MemOK'
<1>1. UNCHANGED <<ret, manifest, active, size, entries, next, trim, idem, pend, acked, bounds>>
  BY DEF mem
<1>2. Gone' = Gone /\ News' = News /\ Olds' = Olds
  BY <1>1 DEF Gone, News, Olds
<1>3. /\ DOMAIN logs \subseteq DOMAIN logs' /\ DOMAIN logs' \subseteq DOMAIN logs \cup News
      /\ \A g \in DOMAIN logs \ News : logs'[g] = logs[g]
  BY DEF With
<1>4. View' = View /\ View = DOMAIN logs \ News
  BY <1>2, <1>3 DEF View
<1>5. TypesB'
  BY <1>1 DEF MemOK, TypesB, bounds
<1>6. /\ active \in DOMAIN logs /\ active \in Segs /\ trim = ret /\ Len(logs[active]) = size
      /\ (\A h \in DOMAIN logs : h <= active \/ h \in News)
      /\ (\A h \in Gone : h < active)
      /\ (\A h \in News : active < h)
  BY DEF MemOK, ActiveOK, Loading, PreSwitch, Writing
<1>7. active \notin News
  <2>1. active \in Nat
    BY <1>6, SegType DEF FilesOK
  <2> QED  BY <1>6, <2>1
<1>8. ActiveOK'
  BY <1>1, <1>2, <1>3, <1>6, <1>7 DEF ActiveOK, PreSwitch, Writing
<1>9. pc \notin Loading \cup Writing /\ pc' \notin Loading \cup Writing /\ pc # "delete"
  BY DEF PreSwitch, Loading, Writing
<1>10. IndexOK'
  BY <1>1, <1>3, <1>4, <1>9, IndexFrame DEF MemOK
<1> QED  BY <1>5, <1>8, <1>10 DEF MemOK

\* No step of the copying touches the Store in memory.
LEMMA MemCopySteps ==
    ASSUME FilesOK, MemOK,
           CompactCopy \/ CompactCopyIndex \/ CompactRenameLog \/ CompactRenameIndex
    PROVE  MemOK'
<1>1. /\ pc \in PreSwitch \ {"delete"} /\ pc' \in PreSwitch \ {"delete"}
      /\ UNCHANGED <<ret, manifest, mem, pend, acked, bounds>>
  BY DEF CompactCopy, CompactCopyIndex, CompactRenameLog, CompactRenameIndex, PreSwitch
<1>2. CASE CompactRenameLog
  <2>1. pc = "renameLog" /\ logs' = With(logs, Turn.new, tmpLog[Turn.new])
    BY <1>2 DEF CompactRenameLog
  <2>2. Turn \in manifest.copies
    BY <2>1, TurnIn DEF FilesOK, TypesA, CopyState, PreSwitch
  <2>3. Turn.new \in News
    BY <2>2 DEF News
  <2> QED  BY <1>1, <2>1, <2>3, MemCopying
<1>3. CASE CompactCopy \/ CompactCopyIndex \/ CompactRenameIndex
  <2>1. logs' = logs
    BY <1>3 DEF CompactCopy, CompactCopyIndex, CompactRenameIndex
  <2> QED  BY <1>1, <2>1, MemCopying
<1> QED  BY <1>2, <1>3

\* The entries of the old segments become entries of the copies.
LEMMA MemCompactSwitch ==
    ASSUME FilesOK, MemOK, CompactSwitch, FilesOK'
    PROVE  MemOK'
<1> DEFINE copied == EntriesOf(Restrict(logs, News))
<1>1. /\ pc = "switch" /\ pc' = "remove"
      /\ entries' = {e \in entries : e.seg \notin Olds} \cup copied
      /\ idem' = IdemOf(entries', logs)
      /\ UNCHANGED <<logs, ret, manifest, active, size, next, trim, pend, acked, bounds>>
  BY DEF CompactSwitch, disk
<1>2. Gone' = Gone /\ News' = News /\ Olds' = Olds
  BY <1>1 DEF Gone, News, Olds
<1>3. View = DOMAIN logs \ News /\ View' = DOMAIN logs \ Olds
  BY <1>1, <1>2 DEF View, PreSwitch
<1>4. News \subseteq DOMAIN logs
  BY <1>1 DEF FilesOK, TypesA, CopyState, PreSwitch, News
<1>5. News \cap Olds = {}
  <2>1. \A g \in Olds : \A h \in News : g < h
    BY DEF FilesOK, ManifestOK, Gone, News
  <2>2. \A h \in News : h \in Nat
    BY <1>4, SegType DEF FilesOK
  <2> QED  BY <2>1, <2>2
<1>6. /\ (\A e \in copied : e.seg \in News /\ e.pos \in DOMAIN logs[e.seg] /\ e = EntryIn(logs, e.seg, e.pos))
      /\ (\A g \in News : \A i \in DOMAIN logs[g] : EntryIn(logs, g, i) \in copied)
  <2> DEFINE lg == Restrict(logs, News)
  <2>1. DOMAIN lg = News /\ \A g \in News : lg[g] = logs[g]
    BY DEF Restrict
  <2>2. Covers(EntriesOf(lg), lg, DOMAIN lg)
    BY EntriesCover
  <2>3. \A g \in News : \A i : EntryIn(lg, g, i) = EntryIn(logs, g, i)
    BY <2>1 DEF EntryIn
  <2> HIDE DEF lg
  <2>4. /\ (\A e \in EntriesOf(lg) : e.seg \in News /\ e.pos \in DOMAIN logs[e.seg] /\ e = EntryIn(logs, e.seg, e.pos))
        /\ (\A g \in News : \A i \in DOMAIN logs[g] : EntryIn(logs, g, i) \in EntriesOf(lg))
    BY <2>1, <2>2, <2>3 DEF Covers
  <2> QED  BY <2>4 DEF lg
<1>7. IsFiniteSet(copied)
  <2> DEFINE lg == Restrict(logs, News)
  <2>1. DOMAIN lg = News /\ \A g \in News : lg[g] = logs[g]
    BY DEF Restrict
  <2>2. DOMAIN lg \subseteq Segs /\ \A g \in DOMAIN lg : lg[g] \in Seq(Records \cup {Torn})
    BY <1>4, <2>1, SegType DEF FilesOK
  <2> HIDE DEF lg
  <2>3. IsFiniteSet(EntriesOf(lg))
    BY <2>2, EntriesFinite
  <2> QED  BY <2>3 DEF lg
<1> HIDE DEF copied
<1>8. /\ IsFiniteSet(entries)
      /\ (\A e \in entries : e.seg \in View /\ e.pos \in DOMAIN logs[e.seg] /\ e = EntryAt(e.seg, e.pos))
      /\ (\A h \in View : \A i \in DOMAIN logs[h] : EntryAt(h, i) \in entries)
  <2>1. \A h, i : ~Unindexed(h, i)
    BY <1>1 DEF Unindexed, Writing
  <2> QED  BY <1>1, <2>1 DEF MemOK, IndexOK, Loading
<1>9. Covers(entries', logs', View')
  <2>1. \A h, i : EntryAt(h, i) = EntryIn(logs, h, i)
    BY DEF EntryAt, EntryIn
  <2>2. \A e \in entries' : e.seg \in View' /\ e.pos \in DOMAIN logs[e.seg] /\ e = EntryIn(logs, e.seg, e.pos)
    BY <1>1, <1>3, <1>4, <1>5, <1>6, <1>8, <2>1
  <2>3. \A h \in View' : \A i \in DOMAIN logs[h] : EntryIn(logs, h, i) \in entries'
    <3> SUFFICES ASSUME NEW h \in View', NEW i \in DOMAIN logs[h] PROVE EntryIn(logs, h, i) \in entries'
      OBVIOUS
    <3>1. CASE h \in News
      BY <1>1, <1>6, <3>1
    <3>2. CASE h \notin News
      <4>1. EntryIn(logs, h, i) \in entries /\ EntryIn(logs, h, i).seg = h /\ h \notin Olds
        BY <1>3, <1>8, <2>1, <3>2 DEF EntryIn
      <4> QED  BY <1>1, <4>1
    <3> QED  BY <3>1, <3>2
  <2> QED  BY <1>1, <2>2, <2>3 DEF Covers
<1>10. IsFiniteSet(entries')
  <2>1. IsFiniteSet({e \in entries : e.seg \notin Olds})
    BY <1>8, FS_Subset
  <2> QED  BY <1>1, <1>7, <2>1, FS_Union
<1>11. pc' \notin Loading \cup Writing
  BY <1>1 DEF Loading, Writing
<1>12. IndexOK' /\ entries' \subseteq Entries /\ idem' \subseteq Records
  BY <1>1, <1>9, <1>10, <1>11, IndexRebuilt
<1>13. TypesB'
  BY <1>1, <1>12 DEF MemOK, TypesB, bounds
<1>14. ActiveOK'
  BY <1>1, <1>2 DEF MemOK, ActiveOK, PreSwitch, Writing, Loading
<1> QED  BY <1>12, <1>13, <1>14 DEF MemOK

\* A removed segment has no entry any more.
LEMMA MemCompactRemove ==
    ASSUME FilesOK, MemOK, CompactRemove
    PROVE  MemOK'
<1>1. /\ pc = "remove" /\ pc' = pc
      /\ UNCHANGED <<ret, manifest, active, size, entries, next, trim, idem, pend, acked, bounds>>
  BY DEF CompactRemove, mem
<1>2. PICK g \in Olds \cap DOMAIN logs : logs' = Without(logs, {g})
  BY DEF CompactRemove, RemoveSegments
<1>3. /\ DOMAIN logs' = DOMAIN logs \ {g}
      /\ \A h \in DOMAIN logs' : logs'[h] = logs[h]
  BY <1>2 DEF Without, Restrict
<1>4. Gone' = Gone /\ News' = News /\ Olds' = Olds
  BY <1>1 DEF Gone, News, Olds
<1>5. /\ active \in DOMAIN logs /\ active \in Segs /\ trim = ret /\ Len(logs[active]) = size
      /\ (\A h \in DOMAIN logs : h <= active \/ h \in News)
      /\ (\A h \in Gone : h < active)
      /\ (\A h \in News : active < h)
  BY <1>1 DEF MemOK, ActiveOK, Loading, PreSwitch, Writing
<1>6. active # g
  <2>1. active \in Nat
    BY <1>5, SegType DEF FilesOK
  <2> QED  BY <1>2, <1>5, <2>1 DEF Gone
<1>7. TypesB'
  BY <1>1 DEF MemOK, TypesB, bounds
<1>8. ActiveOK'
  BY <1>1, <1>3, <1>4, <1>5, <1>6 DEF ActiveOK, PreSwitch, Writing
<1>9. View' = View /\ \A h \in View : logs'[h] = logs[h]
  BY <1>1, <1>2, <1>3, <1>4 DEF View, PreSwitch
<1>10. IndexOK'
  BY <1>1, <1>9, IndexFrame DEF MemOK, Loading, Writing
<1> QED  BY <1>7, <1>8, <1>10 DEF MemOK

\* The new active segment is the last one.
LEMMA MemCompactFinish ==
    ASSUME FilesOK, MemOK, CompactFinish
    PROVE  MemOK'
<1> DEFINE n == Max(News) + 1
<1>1. /\ pc = "remove" /\ Olds \cap DOMAIN logs = {} /\ pc' = "idle"
      /\ logs' = With(logs, n, <<>>) /\ active' = n /\ size' = 0
      /\ UNCHANGED <<ret, manifest, entries, next, trim, idem, pend, acked, bounds>>
  BY DEF CompactFinish
<1>2. n \in Segs /\ n \in Nat /\ (\A h \in DOMAIN logs : h < n)
  BY <1>1, FinishIs, LogAssumption DEF MemOK, Segs
<1> HIDE DEF n
<1>3. n \notin DOMAIN logs /\ \A h \in DOMAIN logs : h \in Nat
  BY <1>2, SegType DEF FilesOK
<1>4. DOMAIN logs' = DOMAIN logs \cup {n} /\ logs'[n] = <<>> /\ \A g \in DOMAIN logs : logs'[g] = logs[g]
  BY <1>1, <1>3 DEF With
<1>5. TypesB'
  BY <1>1, <1>2 DEF MemOK, TypesB, bounds
<1>6. trim = ret
  BY <1>1 DEF MemOK, ActiveOK, Loading
<1>7. ActiveOK'
  <2>1. IsTop(DOMAIN logs', n)
    BY <1>2, <1>3, <1>4 DEF IsTop
  <2>2. Len(<<>>) = 0
    OBVIOUS
  <2> QED  BY <1>1, <1>2, <1>4, <1>6, <2>1, <2>2 DEF ActiveOK, PreSwitch, Writing
<1>8. View \subseteq DOMAIN logs /\ View \subseteq View' /\ View' \subseteq View \cup {n}
  BY <1>1, <1>4 DEF View, Olds, PreSwitch
<1>9. \A g \in View : logs'[g] = logs[g]
  BY <1>4, <1>8
<1>10. \A g \in View' \ View : DOMAIN logs'[g] = {}
  BY <1>4, <1>8
<1>11. IndexOK'
  BY <1>1, <1>8, <1>9, <1>10, IndexFrame DEF MemOK, Loading, Writing
<1> QED  BY <1>5, <1>7, <1>11 DEF MemOK

\* The numbers that recovery goes on with.
LEMMA LoadedNext ==
    ASSUME FilesOK, Numbers, NEW lg, NEW s \in Streams,
           \A r : r \in Stored <=> \E g \in DOMAIN lg : \E i \in DOMAIN lg[g] : lg[g][i] = r
    PROVE  RecoveredNext(s, lg) \in Nat /\ IsTop(Given(s), RecoveredNext(s, lg))
<1> DEFINE A == {e.seq + 1 : e \in {e \in EntriesOf(lg) : e.stream = s}}
           B == {r.seq + 1 : r \in {r \in Stored : r.stream = s}}
<1>1. Covers(EntriesOf(lg), lg, DOMAIN lg)
  BY EntriesCover
<1>2. A \subseteq B
  <2> SUFFICES ASSUME NEW e \in EntriesOf(lg), e.stream = s PROVE e.seq + 1 \in B
    OBVIOUS
  <2>1. e.seg \in DOMAIN lg /\ e.pos \in DOMAIN lg[e.seg] /\ e = EntryIn(lg, e.seg, e.pos)
    BY <1>1 DEF Covers
  <2> DEFINE r == lg[e.seg][e.pos]
  <2>2. r \in Stored /\ r.stream = s /\ r.seq = e.seq
    <3>1. e.stream = r.stream /\ e.seq = r.seq
      BY <2>1 DEF EntryIn
    <3> QED  BY <2>1, <3>1
  <2> HIDE DEF r
  <2> QED  BY <2>2
<1>3. B \subseteq A
  <2> SUFFICES ASSUME NEW r \in Stored, r.stream = s PROVE r.seq + 1 \in A
    OBVIOUS
  <2>1. PICK g \in DOMAIN lg : \E i \in DOMAIN lg[g] : lg[g][i] = r
    OBVIOUS
  <2>2. PICK i \in DOMAIN lg[g] : lg[g][i] = r
    BY <2>1
  <2> DEFINE e == EntryIn(lg, g, i)
  <2>3. e \in EntriesOf(lg)
    BY <1>1 DEF Covers
  <2>4. e.stream = s /\ e.seq = r.seq
    BY <2>2 DEF EntryIn
  <2> HIDE DEF e
  <2> QED  BY <2>3, <2>4
<1>4. A = B
  BY <1>2, <1>3
<1>5. RecoveredNext(s, lg) = Max({1, ret[s]} \cup A)
  BY DEF RecoveredNext
<1>6. Given(s) = {1, ret[s]} \cup B
  BY DEF Given, GivenBy
<1> HIDE DEF A, B
<1>7. PICK n \in Given(s) : IsTop(Given(s), n)
  BY DEF Numbers
<1>8. Given(s) \in SUBSET Nat
  BY StoredType, GivenType DEF Given, FilesOK, TypesA
<1>9. Max(Given(s)) = n
  BY <1>7, <1>8, MaxIs
<1> QED  BY <1>4, <1>5, <1>6, <1>7, <1>8, <1>9

\* Open: the Store that is built from the files.
LEMMA MemLoaded ==
    ASSUME FilesOK, MemOK, Numbers, FilesOK', Loaded(logs'), pc' \in {"idle", "reindex"},
           DOMAIN logs' = {} => pc' = "reindex",
           \A r : r \in Stored <=> \E g \in DOMAIN logs' : \E i \in DOMAIN logs'[g] : logs'[g][i] = r,
           UNCHANGED <<ret, pend, acked, bounds>>
    PROVE  MemOK' /\ \A s \in Streams : IsTop(Given(s), next'[s])
<1> DEFINE lg == logs'
<1>1. /\ entries' = EntriesOf(lg) /\ idem' = IdemOf(entries', lg) /\ active' = Max({1} \cup DOMAIN lg)
      /\ size' = (IF lg = NoFiles THEN 0 ELSE Len(lg[active'])) /\ trim' = ret
      /\ next' = [s \in Streams |-> RecoveredNext(s, lg)]
  BY DEF Loaded
<1>2. /\ DOMAIN lg \subseteq Segs /\ lg \in [DOMAIN lg -> Seq(Records \cup {Torn})]
      /\ Olds' \cap DOMAIN lg = {}
  <2>1. pc' \notin PreSwitch \cup {"remove", "down", "reconcile", "stuck"}
    BY DEF PreSwitch
  <2> QED  BY <2>1 DEF FilesOK, TypesA, Leftover
<1>3. View' = DOMAIN lg
  BY <1>2 DEF View, PreSwitch
<1>4. DOMAIN lg # {} => \E t \in DOMAIN lg : IsTop(DOMAIN lg, t)
  BY DEF FilesOK, TopSafe
<1>5. \A r : r \in Stored <=> \E g \in DOMAIN lg : \E i \in DOMAIN lg[g] : lg[g][i] = r
  OBVIOUS
<1> HIDE DEF lg
<1>6. Covers(entries', lg, DOMAIN lg)
  BY <1>1, EntriesCover
<1>7. IsFiniteSet(entries')
  BY <1>1, <1>2, EntriesFinite
<1>8. IndexOK' /\ entries' \subseteq Entries /\ idem' \subseteq Records
  <2>1. pc' \notin Loading \cup Writing
    BY DEF Loading, Writing
  <2>2. Covers(entries', logs', View') /\ idem' = IdemOf(entries', logs')
    BY <1>1, <1>3, <1>6 DEF lg
  <2> QED  BY <1>7, <2>1, <2>2, IndexRebuilt
<1>9. \A s \in Streams : next'[s] \in Nat /\ IsTop(Given(s), next'[s])
  <2> SUFFICES ASSUME NEW s \in Streams PROVE next'[s] \in Nat /\ IsTop(Given(s), next'[s])
    OBVIOUS
  <2>1. next'[s] = RecoveredNext(s, lg)
    BY <1>1
  <2> QED  BY <1>5, <2>1, LoadedNext
<1>10. \A g \in DOMAIN lg : g \in Nat /\ g >= 1 /\ g \in Segs /\ Len(lg[g]) \in Nat
  BY <1>2, LogAssumption DEF Segs
<1>11. CASE DOMAIN lg = {}
  <2>1. lg = NoFiles
    BY <1>2, <1>11 DEF NoFiles
  <2>2. active' = 1
    <3>1. IsTop({1}, 1) /\ {1} \in SUBSET Nat
      BY DEF IsTop
    <3>2. Max({1}) = 1
      BY <3>1, MaxIs
    <3> QED  BY <1>1, <1>11, <3>2
  <2>3. pc' = "reindex" /\ size' = 0 /\ 1 \in Segs /\ active' \notin DOMAIN logs' /\ DOMAIN logs' = {}
    BY <1>1, <1>11, <2>1, LogAssumption DEF lg, Segs
  <2>4. ActiveOK'
    BY <1>1, <2>2, <2>3 DEF ActiveOK
  <2>5. TypesB'
    BY <1>1, <1>8, <1>9, <2>2, <2>3 DEF MemOK, TypesB, bounds, FilesOK, TypesA
  <2> QED  BY <1>8, <1>9, <2>4, <2>5 DEF MemOK
<1>12. CASE DOMAIN lg # {}
  <2>1. PICK t \in DOMAIN lg : IsTop(DOMAIN lg, t)
    BY <1>4, <1>12
  <2>2. active' = t
    <3>1. IsTop({1} \cup DOMAIN lg, t) /\ {1} \cup DOMAIN lg \in SUBSET Nat
      BY <1>10, <2>1 DEF IsTop
    <3>2. Max({1} \cup DOMAIN lg) = t
      BY <3>1, MaxIs
    <3> QED  BY <1>1, <3>2
  <2>3. lg # NoFiles
    BY <1>12 DEF NoFiles
  <2>4. size' = Len(lg[t]) /\ size' \in Nat
    BY <1>1, <1>10, <2>2, <2>3
  <2>5. ActiveOK'
    BY <1>1, <1>10, <2>1, <2>2, <2>4 DEF ActiveOK, PreSwitch, Writing, lg
  <2>6. TypesB'
    BY <1>1, <1>8, <1>9, <1>10, <2>2, <2>4 DEF MemOK, TypesB, bounds, FilesOK, TypesA
  <2> QED  BY <1>8, <1>9, <2>5, <2>6 DEF MemOK
<1> QED  BY <1>11, <1>12

\* Open from the index files builds the Store.
LEMMA MemOpenFromIndex ==
    ASSUME FilesOK, MemOK, Numbers, OpenFromIndex, FilesOK'
    PROVE  MemOK' /\ \A s \in Streams : IsTop(Given(s), next'[s])
<1>1. /\ pc' = "idle" /\ logs' = logs /\ logs # NoFiles /\ Loaded(logs)
      /\ UNCHANGED <<ret, pend, acked, bounds>>
  BY DEF OpenFromIndex, IndexesCover, disk
<1>2. Loaded(logs')
  BY <1>1
<1>3. DOMAIN logs' # {}
  BY <1>1 DEF FilesOK, TypesA, NoFiles
<1>4. \A g \in DOMAIN logs : \A i \in DOMAIN logs[g] : logs[g][i] # Torn
  BY <1>1 DEF FilesOK, TornLast, Loading
<1>5. \A r : r \in Stored <=> \E g \in DOMAIN logs' : \E i \in DOMAIN logs'[g] : logs'[g][i] = r
  BY <1>1, <1>4, StoredIs DEF FilesOK
<1> QED  BY <1>1, <1>2, <1>3, <1>5, MemLoaded

\* Open from a scan builds the Store.
LEMMA MemOpenScan ==
    ASSUME FilesOK, MemOK, Numbers, OpenScan, FilesOK'
    PROVE  MemOK' /\ \A s \in Streams : IsTop(Given(s), next'[s])
<1>1. /\ pc' = "reindex" /\ Loaded(logs')
      /\ UNCHANGED <<ret, pend, acked, bounds>>
  BY DEF OpenScan
<1>2. \A r : r \in Stored <=> \E g \in DOMAIN logs' : \E i \in DOMAIN logs'[g] : logs'[g][i] = r
  BY ScanIs, StoredIs DEF FilesOK
<1> QED  BY <1>1, <1>2, MemLoaded

\* Writing the index files again changes nothing in memory.
LEMMA MemOpenReindex ==
    ASSUME FilesOK, MemOK, OpenReindex
    PROVE  MemOK'
<1>1. /\ pc = "reindex" /\ pc' = "idle"
      /\ logs' = IF active \in DOMAIN logs THEN logs ELSE With(logs, active, <<>>)
      /\ UNCHANGED <<ret, manifest, active, size, entries, next, trim, idem, pend, acked, bounds>>
  BY DEF OpenReindex, mem
<1>2. /\ active \in Segs /\ trim = ret
      /\ IF active \in DOMAIN logs THEN size = Len(logs[active]) /\ IsTop(DOMAIN logs, active)
         ELSE size = 0 /\ DOMAIN logs = {}
  BY <1>1 DEF MemOK, ActiveOK, Loading
<1>3. TypesB'
  BY <1>1 DEF MemOK, TypesB, bounds
<1>4. CASE active \in DOMAIN logs
  <2>1. logs' = logs
    BY <1>1, <1>4
  <2>2. ActiveOK'
    BY <1>1, <1>2, <1>4, <2>1 DEF ActiveOK, PreSwitch, Writing
  <2>3. View' = View
    BY <1>1, <2>1 DEF View, Olds, PreSwitch
  <2>4. IndexOK'
    BY <1>1, <2>1, <2>3, IndexFrame DEF MemOK, Loading, Writing
  <2> QED  BY <1>3, <2>2, <2>4 DEF MemOK
<1>5. CASE active \notin DOMAIN logs
  <2>1. DOMAIN logs = {} /\ DOMAIN logs' = {active} /\ logs'[active] = <<>> /\ size = 0
    BY <1>1, <1>2, <1>5 DEF With
  <2>2. View = {} /\ View' \subseteq {active}
    BY <2>1 DEF View
  <2>3. active \in Nat
    BY <1>2, LogAssumption DEF Segs
  <2>4. ActiveOK'
    <3>1. Len(<<>>) = 0 /\ IsTop({active}, active)
      BY <2>3 DEF IsTop
    <3> QED  BY <1>1, <1>2, <2>1, <3>1 DEF ActiveOK, PreSwitch, Writing
  <2>5. IndexOK'
    BY <1>1, <2>1, <2>2, IndexFrame DEF MemOK, Loading, Writing
  <2> QED  BY <1>3, <2>4, <2>5 DEF MemOK
<1> QED  BY <1>4, <1>5

\* A Store that is closed, and the steps of Open before it is built.
LEMMA MemStop ==
    ASSUME MemOK, Crash \/ Close
    PROVE  MemOK'
<1>1. /\ pc' = "down" /\ active' = 0 /\ size' = 0 /\ entries' = {} /\ idem' = {}
      /\ next' = [s \in Streams |-> 1] /\ trim' = [s \in Streams |-> 0] /\ pend' = NoRecord
      /\ stops' = stops + 1 /\ UNCHANGED <<acked, sent, faults>>
  BY DEF Crash, Close, Stop, Closed
<1>2. TypesB'
  BY <1>1 DEF MemOK, TypesB
<1> QED  BY <1>1, <1>2, MemLoading DEF Loading

\* Before Open reads the segments there is no Store in memory.
LEMMA MemReconcile ==
    ASSUME MemOK, Open \/ ReconcileCopy \/ ReconcileDelete
    PROVE  MemOK'
<1>1. pc' \in Loading /\ UNCHANGED <<mem, pend, acked, bounds>>
  <2>1. CASE Open
    BY <2>1 DEF Open, Loading
  <2>2. CASE ReconcileCopy
    BY <2>2 DEF ReconcileCopy, Loading
  <2>3. CASE ReconcileDelete
    BY <2>3 DEF ReconcileDelete, Loading
  <2> QED  BY <2>1, <2>2, <2>3
<1>2. TypesB'
  BY <1>1 DEF MemOK, TypesB, mem, bounds
<1> QED  BY <1>1, <1>2, MemLoading

-----------------------------------------------------------------------------
\* What is stored, step by step.

\* A record is stored after a step when some segment then holds it.
LEMMA StoredAfter ==
    ASSUME FilesOK', NEW r
    PROVE  r \in Stored' <=> r # Torn /\ \E g \in DOMAIN logs' : \E i \in DOMAIN logs'[g] : logs'[g][i] = r
<1> DEFINE lg == logs'
<1>1. Tidy(lg)
  BY DEF FilesOK, TypesA, TornLast, Tidy
<1>2. Stored' = UNION {ToSet(Readable(lg[g])) : g \in DOMAIN lg}
  BY DEF Stored
<1> HIDE DEF lg
<1>3. r \in Stored' <=> r # Torn /\ \E g \in DOMAIN lg : \E i \in DOMAIN lg[g] : lg[g][i] = r
  BY <1>1, <1>2, HeldIs
<1> QED  BY <1>3 DEF lg

\* Steps that add nothing but an empty segment.
LEMMA StoredEmpty ==
    ASSUME FilesOK, FilesOK', NEW n, n \notin DOMAIN logs, logs' = With(logs, n, <<>>)
    PROVE  Stored' = Stored
<1>1. DOMAIN logs' = DOMAIN logs \cup {n} /\ logs'[n] = <<>> /\ \A g \in DOMAIN logs : logs'[g] = logs[g]
  BY DEF With
<1>2. DOMAIN logs'[n] = {}
  BY <1>1
<1>3. \A r : (\E g \in DOMAIN logs' : \E i \in DOMAIN logs'[g] : logs'[g][i] = r)
              <=> (\E g \in DOMAIN logs : \E i \in DOMAIN logs[g] : logs[g][i] = r)
  BY <1>1, <1>2
<1>4. ASSUME NEW r PROVE r \in Stored' <=> r \in Stored
  BY <1>3, StoredAfter, StoredIs DEF FilesOK
<1> QED  BY <1>4

\* A rename brings no record that its old segment does not hold.
LEMMA StoredCopied ==
    ASSUME FilesOK, FilesOK', CompactRenameLog
    PROVE  Stored' = Stored
<1>1. pc = "renameLog" /\ logs' = With(logs, Turn.new, tmpLog[Turn.new])
  BY DEF CompactRenameLog
<1>2. Turn \in todo /\ Turn \in manifest.copies
  BY <1>1, TurnIn DEF FilesOK, TypesA, CopyState, PreSwitch
<1>3. Turn.new \notin DOMAIN logs /\ Turn.old \in DOMAIN logs /\ CopyOf(tmpLog[Turn.new], Turn.old)
  BY <1>1, <1>2 DEF FilesOK, CopyState, PreSwitch, Olds
<1> DEFINE n == Turn.new
<1>4. DOMAIN logs' = DOMAIN logs \cup {n} /\ logs'[n] = tmpLog[n] /\ \A g \in DOMAIN logs : logs'[g] = logs[g]
  BY <1>1, <1>3 DEF With
<1>5. \A i \in DOMAIN tmpLog[n] : \E j \in DOMAIN logs[Turn.old] : logs[Turn.old][j] = tmpLog[n][i]
  BY <1>3 DEF CopyOf
<1> HIDE DEF n
<1>6. \A r : (\E g \in DOMAIN logs' : \E i \in DOMAIN logs'[g] : logs'[g][i] = r)
              <=> (\E g \in DOMAIN logs : \E i \in DOMAIN logs[g] : logs[g][i] = r)
  BY <1>3, <1>4, <1>5
<1>7. ASSUME NEW r PROVE r \in Stored' <=> r \in Stored
  BY <1>6, StoredAfter, StoredIs DEF FilesOK
<1> QED  BY <1>7

\* What a removed segment held is trimmed, or held by its copy.
LEMMA StoredRemoved ==
    ASSUME FilesOK, FilesOK', NEW S \in SUBSET Gone, logs' = Without(logs, S),
           pc \notin PreSwitch \/ S \subseteq manifest.del
    PROVE  Stored' \subseteq Stored /\ \A r \in Stored \ Stored' : r.seq < ret[r.stream]
<1>1. DOMAIN logs' = DOMAIN logs \ S /\ \A h \in DOMAIN logs' : logs'[h] = logs[h]
  BY DEF Without, Restrict
<1>2. ASSUME NEW r \in Stored' PROVE r \in Stored
  BY <1>1, <1>2, StoredAfter, StoredIs DEF FilesOK
<1>3. ASSUME NEW r \in Stored, r \notin Stored', ~(r.seq < ret[r.stream]) PROVE FALSE
  <2>1. r # Torn /\ r \in Records
    BY StoredIs, StoredType DEF FilesOK
  <2>2. PICK g \in DOMAIN logs : \E i \in DOMAIN logs[g] : logs[g][i] = r
    BY StoredIs DEF FilesOK
  <2>3. PICK i \in DOMAIN logs[g] : logs[g][i] = r
    BY <2>2
  <2>4. \A h \in DOMAIN logs : (\E j \in DOMAIN logs[h] : logs[h][j] = r) => h \in S
    BY <1>1, <1>3, <2>1, StoredAfter
  <2>5. g \in S
    BY <2>3, <2>4
  <2>6. g \notin manifest.del
    BY <1>3, <2>1, <2>3 DEF FilesOK, DelTrimmed
  <2>7. PICK c \in manifest.copies : c.old = g
    BY <2>5, <2>6 DEF Gone, Olds
  <2>8. c.new \in DOMAIN logs /\ LiveCopied(logs[c.new], g)
    <3>1. pc \notin PreSwitch
      BY <2>5, <2>6
    <3>2. c.new \in DOMAIN idx /\ LiveCopied(logs[c.new], c.old)
      BY <2>7, <3>1 DEF FilesOK, Leftover
    <3> QED  BY <2>7, <3>2 DEF FilesOK, TypesA
  <2>9. r.seq >= ret[r.stream]
    BY <1>3, <2>1 DEF Records, FilesOK, TypesA
  <2>10. \E j \in DOMAIN logs[c.new] : logs[c.new][j] = r
    BY <2>1, <2>3, <2>8, <2>9 DEF LiveCopied
  <2>11. c.new \in Gone
    BY <2>4, <2>8, <2>10
  <2>12. c.new < c.new /\ c.new \in Nat
    BY <2>8, <2>11, SegType DEF FilesOK, ManifestOK
  <2> QED  BY <2>12
<1> QED  BY <1>2, <1>3

\* The steps that remove segments.
LEMMA StoredDropped ==
    ASSUME FilesOK, FilesOK', CompactDelete \/ CompactRemove \/ ReconcileCopy \/ ReconcileDelete
    PROVE  /\ Stored' \subseteq Stored
           /\ \A r \in Stored \ Stored' : r.seq < ret[r.stream]
           /\ ret' = ret /\ UNCHANGED <<mem, acked>>
           /\ pc \in {"delete", "remove", "reconcile"}
           /\ pc' = pc \/ pc' \in Loading
<1>1. CASE CompactDelete
  <2>1. PICK g \in manifest.del \cap DOMAIN logs : logs' = Without(logs, {g})
    BY <1>1 DEF CompactDelete, RemoveSegments
  <2>2. {g} \in SUBSET Gone /\ {g} \subseteq manifest.del
    BY <2>1 DEF Gone
  <2>3. Stored' \subseteq Stored /\ \A r \in Stored \ Stored' : r.seq < ret[r.stream]
    BY <2>1, <2>2, StoredRemoved
  <2> QED  BY <1>1, <2>3 DEF CompactDelete
<1>2. CASE CompactRemove
  <2>1. PICK g \in Olds \cap DOMAIN logs : logs' = Without(logs, {g})
    BY <1>2 DEF CompactRemove, RemoveSegments
  <2>2. {g} \in SUBSET Gone /\ pc \notin PreSwitch
    BY <1>2, <2>1 DEF Gone, CompactRemove, PreSwitch
  <2>3. Stored' \subseteq Stored /\ \A r \in Stored \ Stored' : r.seq < ret[r.stream]
    BY <2>1, <2>2, StoredRemoved
  <2> QED  BY <1>2, <2>3 DEF CompactRemove
<1>3. CASE ReconcileDelete
  <2>1. logs' = Without(logs, manifest.del) /\ manifest.del \in SUBSET Gone
    BY <1>3 DEF ReconcileDelete, RemoveSegments, Gone
  <2>2. Stored' \subseteq Stored /\ \A r \in Stored \ Stored' : r.seq < ret[r.stream]
    BY <2>1, StoredRemoved
  <2> QED  BY <1>3, <2>2 DEF ReconcileDelete, Loading
<1>4. CASE ReconcileCopy
  <2>1. pc = "reconcile" /\ todo # {} /\ UNCHANGED <<mem, acked>>
    BY <1>4 DEF ReconcileCopy
  <2>2. Turn \in todo /\ Turn \in manifest.copies
    BY <2>1, TurnIn DEF FilesOK, TypesA, Leftover
  <2>3. /\ pc' \in {"reconcile", "stuck"} /\ ret' = ret
        /\ \/ logs' = Without(logs, {Turn.old})
           \/ logs' = logs
    BY <1>4, <2>2, ReconcileCopyIs DEF RemoveSegments
  <2>4. Stored' \subseteq Stored /\ \A r \in Stored \ Stored' : r.seq < ret[r.stream]
    <3>1. CASE logs' = Without(logs, {Turn.old})
      <4>1. {Turn.old} \in SUBSET Gone /\ pc \notin PreSwitch
        BY <2>1, <2>2 DEF Gone, Olds, PreSwitch
      <4> QED  BY <3>1, <4>1, StoredRemoved
    <3>2. CASE logs' = logs
      BY <3>2 DEF Stored
    <3> QED  BY <2>3, <3>1, <3>2
  <2> QED  BY <2>1, <2>3, <2>4 DEF Loading
<1> QED  BY <1>1, <1>2, <1>3, <1>4

\* The invariant of the stored records.
AbsOK == Numbers /\ NoGap /\ AckedStored
\* A step that leaves the stored records and the watermarks alone.
Same == Stored' = Stored /\ ret' = ret

\* Steps that leave the stored records alone.
LEMMA AbsSame ==
    ASSUME AbsOK, Same, acked' \subseteq acked \cup Stored
    PROVE  /\ NoGap' /\ AckedStored'
           /\ \A s \in Streams : Given(s)' = Given(s)
           /\ \A s \in Streams : \E n \in Given(s)' : IsTop(Given(s)', n)
<1>1. NoGap'
  BY DEF AbsOK, Same, NoGap, NoGapIn
<1>2. AckedStored'
  BY DEF AbsOK, Same, AckedStored
<1>3. \A s \in Streams : Given(s)' = Given(s)
  BY DEF Same, Given, GivenBy
<1>4. \A s \in Streams : \E n \in Given(s)' : IsTop(Given(s)', n)
  BY <1>3 DEF AbsOK, Numbers
<1> QED  BY <1>1, <1>2, <1>3, <1>4

\* Steps that leave the stored records and the next numbers alone, and acknowledge none.
LEMMA AbsFrame ==
    ASSUME AbsOK, Same, acked' \subseteq acked \cup Stored, pc' \notin Appending,
           pc' \in Loading \/ (pc \notin Loading \cup {"written"} /\ next' = next)
    PROVE  AbsOK'
<1>1. /\ NoGap' /\ AckedStored'
      /\ (\A s \in Streams : Given(s)' = Given(s))
      /\ \A s \in Streams : \E n \in Given(s)' : IsTop(Given(s)', n)
  BY AbsSame
<1>2. pc' # "written" /\ pc' # "torn"
  BY DEF Appending, Writing
<1>3. pc' \notin Loading => \A s \in Streams : IsTop(Given(s)', next'[s])
  BY <1>1 DEF AbsOK, Numbers
<1>4. Numbers'
  BY <1>1, <1>2, <1>3 DEF Numbers
<1> QED  BY <1>1, <1>4 DEF AbsOK

\* An Append of a known key acknowledges a record that is stored.
LEMMA AbsAppendDuplicate ==
    ASSUME FilesOK, MemOK, AbsOK, NEW s \in Streams, NEW k \in Keys, AppendDuplicate(s, k)
    PROVE  AbsOK' /\ Same
<1>1. /\ pc = "idle" /\ pc' = "idle" /\ logs' = logs /\ ret' = ret /\ next' = next
      /\ acked' = acked \cup Known(s, k)
  BY DEF AppendDuplicate, disk, mem
<1>2. Same
  BY <1>1 DEF Same, Stored
<1>3. Known(s, k) \subseteq Stored
  <2> SUFFICES ASSUME NEW r \in idem PROVE r \in Stored
    BY DEF Known
  <2>1. \E g \in View : \E i \in DOMAIN logs[g] : logs[g][i] = r
    BY <1>1 DEF MemOK, IndexOK, Loading
  <2>2. r # Torn
    BY <1>1, <2>1, NoTorn DEF View, Loading
  <2> QED  BY <2>1, <2>2, StoredIs DEF View, FilesOK
<1> QED  BY <1>1, <1>2, <1>3, AbsFrame DEF Appending, Writing, Loading

\* A new Append takes the next number of its stream, and a key that is not stored.
LEMMA AbsAppendStart ==
    ASSUME FilesOK, MemOK, AbsOK, NEW s \in Streams, NEW k \in Keys \cup {NoKey}, AppendStart(s, k)
    PROVE  AbsOK' /\ Same
<1>1. /\ pc = "idle" /\ pc' \in {"roll", "write"} /\ logs' = logs /\ ret' = ret /\ next' = next
      /\ (k = NoKey \/ Known(s, k) = {}) /\ acked' = acked
      /\ pend' = [stream |-> s, seq |-> next[s], key |-> k, id |-> sent + 1]
  BY DEF AppendStart, disk, mem
<1>2. Same
  BY <1>1 DEF Same, Stored
<1>3. /\ NoGap' /\ AckedStored'
      /\ (\A u \in Streams : Given(u)' = Given(u))
      /\ \A u \in Streams : \E n \in Given(u)' : IsTop(Given(u)', n)
  BY <1>1, <1>2, AbsSame
<1>4. pend' \in Records /\ pend'.stream = s /\ pend'.key = k /\ pend'.seq = next'[s]
  BY <1>1 DEF MemOK, TypesB, Records
<1>5. ASSUME NEW r \in Stored, SameKey(r, pend') PROVE FALSE
  <2>1. r.stream = s /\ r.key = k /\ k # NoKey
    BY <1>4, <1>5 DEF SameKey
  <2>2. PICK g \in DOMAIN logs : \E i \in DOMAIN logs[g] : logs[g][i] = r
    BY StoredIs DEF FilesOK
  <2>3. View = DOMAIN logs /\ \A h, i : ~Unindexed(h, i)
    BY <1>1, SettledAt DEF Settled, Quiet, Unindexed, Writing
  <2>4. r \in idem
    BY <1>1, <2>1, <2>2, <2>3 DEF MemOK, IndexOK, Loading
  <2> QED  BY <1>1, <2>1, <2>4 DEF Known
<1>6. \A u \in Streams : IsTop(Given(u)', next'[u])
  BY <1>1, <1>3 DEF AbsOK, Numbers, Loading
<1>7. \A r \in Stored' : ~SameKey(r, pend')
  BY <1>2, <1>5 DEF Same
<1>8. Numbers'
  BY <1>1, <1>3, <1>4, <1>6, <1>7 DEF Numbers, SameKey
<1> QED  BY <1>2, <1>3, <1>8 DEF AbsOK

\* Steps between the start of an Append and its write.
LEMMA AbsAppending ==
    ASSUME AbsOK, Same, UNCHANGED <<next, pend, acked>>,
           pc \in {"roll", "rollIndex", "write"}, pc' \in {"roll", "rollIndex", "write"}
    PROVE  AbsOK'
<1>1. /\ NoGap' /\ AckedStored'
      /\ (\A u \in Streams : Given(u)' = Given(u))
      /\ \A u \in Streams : \E n \in Given(u)' : IsTop(Given(u)', n)
  BY AbsSame
<1>2. /\ pend \in Records /\ pend.seq = next[pend.stream] /\ (\A r \in Stored : ~SameKey(r, pend))
      /\ \A u \in Streams : IsTop(Given(u), next[u])
  BY DEF AbsOK, Numbers, Appending, Loading
<1>3. Numbers'
  BY <1>1, <1>2 DEF Numbers, Same, SameKey
<1> QED  BY <1>1, <1>3 DEF AbsOK

\* A roll adds an empty segment.
LEMMA AbsAppendRoll ==
    ASSUME FilesOK, MemOK, AbsOK, AppendRoll \/ AppendRollIndex, FilesOK'
    PROVE  AbsOK' /\ Same
<1>1. CASE AppendRoll
  <2>1. /\ pc = "roll" /\ pc' = "rollIndex" /\ UNCHANGED <<ret, next, pend, acked>>
        /\ logs' = IF active + 1 \in DOMAIN logs THEN logs ELSE With(logs, active + 1, <<>>)
    BY <1>1 DEF AppendRoll
  <2>2. Stored' = Stored
    <3>1. CASE active + 1 \in DOMAIN logs
      BY <2>1, <3>1 DEF Stored
    <3>2. CASE active + 1 \notin DOMAIN logs
      BY <2>1, <3>2, StoredEmpty
    <3> QED  BY <3>1, <3>2
  <2> QED  BY <2>1, <2>2, AbsAppending DEF Same
<1>2. CASE AppendRollIndex
  <2>1. pc = "rollIndex" /\ pc' = "write" /\ UNCHANGED <<logs, ret, next, pend, acked>>
    BY <1>2 DEF AppendRollIndex, mem
  <2>2. Stored' = Stored
    BY <2>1 DEF Stored
  <2> QED  BY <2>1, <2>2, AbsAppending DEF Same
<1> QED  BY <1>1, <1>2

\* A written record is the next of its stream.
LEMMA AbsAppendWrite ==
    ASSUME FilesOK, MemOK, AbsOK, AppendWrite, FilesOK'
    PROVE  /\ AbsOK' /\ ret' = ret
           /\ Same \/ (Stored' = Stored \cup {pend} /\ IsTop(Given(pend.stream), pend.seq))
<1>1. /\ pc = "write" /\ UNCHANGED <<ret, active, size, next, pend, acked>>
      /\ \/ logs' = [logs EXCEPT ![active] = Append(@, pend)] /\ pc' = "written"
         \/ logs' = [logs EXCEPT ![active] = Append(@, Torn)] /\ pc' = "torn"
  BY DEF AppendWrite, mem
<1>2. /\ pend \in Records /\ pend.seq = next[pend.stream] /\ (\A r \in Stored : ~SameKey(r, pend))
      /\ (\A u \in Streams : IsTop(Given(u), next[u]))
      /\ \A u \in Streams : \E n \in Given(u) : IsTop(Given(u), n)
  BY <1>1 DEF AbsOK, Numbers, Appending, Loading
<1>3. PICK x \in {pend, Torn} : /\ logs' = [logs EXCEPT ![active] = Append(@, x)]
                                /\ pc' = IF x = pend THEN "written" ELSE "torn"
  BY <1>1, <1>2, TornAssumption
<1>4. active \in DOMAIN logs /\ Len(logs[active]) = size
  BY <1>1 DEF MemOK, ActiveOK, Loading, PreSwitch, Writing
<1>5. DOMAIN logs[active] = 1 .. size /\ size \in Nat /\ logs[active] \in Seq(Records \cup {Torn})
  BY <1>4, SegType DEF FilesOK
<1>6. /\ DOMAIN logs' = DOMAIN logs
      /\ (\A g \in DOMAIN logs : g # active => logs'[g] = logs[g])
      /\ logs'[active] = Append(logs[active], x)
  BY <1>3, <1>4 DEF FilesOK, TypesA
<1>7. /\ DOMAIN logs'[active] = 1 .. size + 1 /\ logs'[active][size + 1] = x
      /\ \A i \in 1 .. size : logs'[active][i] = logs[active][i]
  BY <1>2, <1>3, <1>5, <1>6
<1>8. \A r : (\E g \in DOMAIN logs' : \E i \in DOMAIN logs'[g] : logs'[g][i] = r)
              <=> r = x \/ \E g \in DOMAIN logs : \E i \in DOMAIN logs[g] : logs[g][i] = r
  <2> SUFFICES ASSUME NEW r
               PROVE  (\E g \in DOMAIN logs' : \E i \in DOMAIN logs'[g] : logs'[g][i] = r)
                        <=> r = x \/ \E g \in DOMAIN logs : \E i \in DOMAIN logs[g] : logs[g][i] = r
    OBVIOUS
  <2>1. size + 1 \in DOMAIN logs'[active]
    BY <1>5, <1>7
  <2>2. \A i \in DOMAIN logs'[active] : i \in DOMAIN logs[active] \/ i = size + 1
    BY <1>5, <1>7
  <2>3. \A i \in DOMAIN logs[active] : i \in DOMAIN logs'[active] /\ logs'[active][i] = logs[active][i]
    BY <1>5, <1>7
  <2>4. ASSUME NEW g \in DOMAIN logs', NEW i \in DOMAIN logs'[g], logs'[g][i] = r
        PROVE  r = x \/ \E h \in DOMAIN logs : \E j \in DOMAIN logs[h] : logs[h][j] = r
    <3>1. CASE g = active
      BY <1>4, <1>7, <2>2, <2>3, <2>4, <3>1
    <3>2. CASE g # active
      BY <1>6, <2>4, <3>2
    <3> QED  BY <3>1, <3>2
  <2>5. ASSUME NEW g \in DOMAIN logs, NEW i \in DOMAIN logs[g], logs[g][i] = r
        PROVE  \E h \in DOMAIN logs' : \E j \in DOMAIN logs'[h] : logs'[h][j] = r
    <3>1. CASE g = active
      BY <1>6, <2>3, <2>5, <3>1
    <3>2. CASE g # active
      BY <1>6, <2>5, <3>2
    <3> QED  BY <3>1, <3>2
  <2>6. r = x => \E h \in DOMAIN logs' : \E j \in DOMAIN logs'[h] : logs'[h][j] = r
    BY <1>4, <1>6, <1>7, <2>1
  <2> QED  BY <2>4, <2>5, <2>6
<1>9. \A r : r \in Stored' <=> r # Torn /\ (r = x \/ r \in Stored)
  BY <1>8, StoredAfter, StoredIs DEF FilesOK
<1>10. Torn \notin Stored /\ Stored \in SUBSET Records
  BY StoredType, TornAssumption DEF FilesOK
<1>11. CASE x = Torn
  <2>1. pc' = "torn"
    BY <1>2, <1>3, <1>11, TornAssumption
  <2>2. Same
    BY <1>1, <1>9, <1>10, <1>11 DEF Same
  <2>3. /\ NoGap' /\ AckedStored'
        /\ (\A u \in Streams : Given(u)' = Given(u))
        /\ \A u \in Streams : \E n \in Given(u)' : IsTop(Given(u)', n)
    BY <1>1, <2>2, AbsSame
  <2>4. Numbers'
    BY <1>1, <1>2, <1>7, <1>11, <2>1, <2>2, <2>3 DEF Numbers, Same, SameKey
  <2> QED  BY <1>1, <2>2, <2>3, <2>4 DEF AbsOK
<1>12. CASE x = pend
  <2>1. pc' = "written" /\ pend # Torn
    BY <1>2, <1>3, <1>12, TornAssumption
  <2>2. Stored' = Stored \cup {pend}
    BY <1>9, <1>10, <1>12, <2>1
  <2>3. pend.stream \in Streams /\ pend.seq \in Nat
    BY <1>2 DEF Records
  <2>4. IsTop(GivenBy(Stored, ret, pend.stream), pend.seq) /\ ret \in [Streams -> Nat]
    BY <1>2, <2>3 DEF Given, FilesOK, TypesA
  <2>5. /\ IsTop(GivenBy(Stored \cup {pend}, ret, pend.stream), pend.seq + 1)
        /\ \A s \in Streams : s # pend.stream => GivenBy(Stored \cup {pend}, ret, s) = GivenBy(Stored, ret, s)
    BY <1>2, <1>10, <2>4, AppendTop
  <2>6. NoGap'
    BY <1>1, <1>2, <1>10, <2>2, <2>4, AppendGap DEF AbsOK, NoGap
  <2>7. AckedStored'
    BY <1>1, <2>2 DEF AbsOK, AckedStored
  <2>8. \A s \in Streams : Given(s)' = GivenBy(Stored \cup {pend}, ret, s)
    BY <1>1, <2>2 DEF Given
  <2>9. \A s \in Streams : IsTop(Given(s)', IF s = pend.stream THEN next[s] + 1 ELSE next[s])
    BY <1>2, <2>5, <2>8 DEF Given
  <2>10. Numbers'
    <3>1. \A s \in Streams : \E n \in Given(s)' : IsTop(Given(s)', n)
      BY <2>9 DEF IsTop
    <3> QED  BY <1>1, <1>2, <1>7, <1>12, <2>1, <2>9, <3>1 DEF Numbers
  <2> QED  BY <1>1, <2>2, <2>4, <2>6, <2>7, <2>10 DEF AbsOK, Given
<1> QED  BY <1>3, <1>11, <1>12

\* A record is acknowledged once it is stored.
LEMMA AbsAppendCommit ==
    ASSUME FilesOK, MemOK, AbsOK, AppendCommit
    PROVE  AbsOK' /\ Same
<1>1. /\ pc = "written" /\ pc' = "idle" /\ UNCHANGED <<logs, ret>>
      /\ next' = [next EXCEPT ![pend.stream] = pend.seq + 1] /\ acked' = acked \cup {pend}
  BY DEF AppendCommit, disk
<1>2. Same
  BY <1>1 DEF Same, Stored
<1>3. /\ pend \in Records /\ pend.seq = next[pend.stream] /\ logs[active][size + 1] = pend
      /\ \A s \in Streams : IsTop(Given(s), IF s = pend.stream THEN next[s] + 1 ELSE next[s])
  BY <1>1 DEF AbsOK, Numbers, Appending, Writing, Loading
<1>4. pend \in Stored
  <2>1. active \in DOMAIN logs /\ Len(logs[active]) = size + 1 /\ size \in Nat
    BY <1>1 DEF MemOK, TypesB, ActiveOK, Loading, PreSwitch, Writing
  <2>2. size + 1 \in DOMAIN logs[active]
    BY <2>1, SegType DEF FilesOK
  <2>3. pend # Torn
    BY <1>3, TornAssumption
  <2> QED  BY <1>3, <2>1, <2>2, <2>3, StoredIs DEF FilesOK
<1>5. /\ NoGap' /\ AckedStored'
      /\ (\A u \in Streams : Given(u)' = Given(u))
      /\ \A u \in Streams : \E n \in Given(u)' : IsTop(Given(u)', n)
  BY <1>1, <1>2, <1>4, AbsSame
<1>6. \A s \in Streams : IsTop(Given(s)', next'[s])
  BY <1>1, <1>3, <1>5 DEF MemOK, TypesB
<1>7. Numbers'
  BY <1>1, <1>5, <1>6 DEF Numbers, Appending, Writing
<1> QED  BY <1>2, <1>5, <1>7 DEF AbsOK

\* A step that drops trimmed records.
Dropped ==
    /\ Stored' \subseteq Stored /\ ret' = ret
    /\ \A r \in Stored \ Stored' : r.seq < ret[r.stream]

\* The steps that remove segments drop trimmed records only.
LEMMA AbsDropped ==
    ASSUME FilesOK, AbsOK, FilesOK',
           CompactDelete \/ CompactRemove \/ ReconcileCopy \/ ReconcileDelete
    PROVE  AbsOK' /\ Dropped
<1>1. /\ Stored' \subseteq Stored
      /\ (\A r \in Stored \ Stored' : r.seq < ret[r.stream])
      /\ ret' = ret /\ UNCHANGED <<mem, acked>>
      /\ pc \in {"delete", "remove", "reconcile"}
      /\ pc' = pc \/ pc' \in Loading
  BY StoredDropped
<1>2. Dropped /\ next' = next /\ acked' = acked
  BY <1>1 DEF Dropped, mem
<1>3. Stored \in SUBSET Records /\ ret \in [Streams -> Nat]
  BY StoredType DEF FilesOK, TypesA
<1>4. \A s \in Streams : \A n : IsTop(Given(s), n) => IsTop(Given(s)', n)
  <2> SUFFICES ASSUME NEW s \in Streams, NEW n, IsTop(Given(s), n) PROVE IsTop(Given(s)', n)
    OBVIOUS
  <2>1. Given(s)' = GivenBy(Stored', ret, s) /\ Given(s) = GivenBy(Stored, ret, s)
    BY <1>1 DEF Given
  <2> DEFINE st2 == Stored'
  <2>2. st2 \in SUBSET Stored /\ \A r \in Stored \ st2 : r.seq < ret[r.stream]
    BY <1>1
  <2> HIDE DEF st2
  <2>3. IsTop(GivenBy(st2, ret, s), n)
    BY <1>3, <2>1, <2>2, DropTop
  <2> QED  BY <2>1, <2>3 DEF st2
<1>5. NoGap'
  <2> DEFINE st2 == Stored'
  <2>1. st2 \in SUBSET Stored /\ \A r \in Stored \ st2 : r.seq < ret[r.stream]
    BY <1>1
  <2> HIDE DEF st2
  <2>2. NoGapIn(st2, ret)
    BY <1>3, <2>1, DropGap DEF AbsOK, NoGap
  <2> QED  BY <1>1, <2>2 DEF NoGap, st2
<1>6. AckedStored'
  BY <1>1, <1>2 DEF AbsOK, AckedStored
<1>7. Numbers'
  <2>1. pc' \notin Appending /\ pc # "written" /\ pc' # "written" /\ pc' # "torn"
    BY <1>1 DEF Appending, Writing, Loading
  <2>2. \A s \in Streams : \E n \in Given(s)' : IsTop(Given(s)', n)
    BY <1>4 DEF AbsOK, Numbers, IsTop
  <2>3. pc' \notin Loading => \A s \in Streams : IsTop(Given(s)', next'[s])
    <3>1. pc' \notin Loading => pc \notin Loading
      BY <1>1
    <3> QED  BY <1>2, <1>4, <2>1, <3>1 DEF AbsOK, Numbers
  <2> QED  BY <2>1, <2>2, <2>3 DEF Numbers
<1> QED  BY <1>2, <1>5, <1>6, <1>7 DEF AbsOK

\* A step that raises the watermark of stream s, to its next number at most.
Trimmed(s) ==
    \E n, b \in Nat : /\ Stored' = Stored /\ IsTop(Given(s), n)
                      /\ b > ret[s] /\ b <= n /\ b >= 1 /\ ret' = [ret EXCEPT ![s] = b]

\* A trim raises a watermark, to the next number at most.
LEMMA AbsTrim ==
    ASSUME FilesOK, MemOK, AbsOK, NEW s \in Streams, Trim(s)
    PROVE  AbsOK' /\ Trimmed(s)
<1>1. pc = "idle" /\ pc' = pc /\ UNCHANGED <<logs, next, acked>>
  BY DEF Trim
<1>2. PICK b \in 1 .. next[s] : b > trim[s] /\ ret' = [trim EXCEPT ![s] = b]
  BY DEF Trim
<1>3. trim = ret /\ next[s] \in Nat
  BY <1>1 DEF MemOK, ActiveOK, TypesB, Loading
<1>4. IsTop(Given(s), next[s]) /\ \A u \in Streams : IsTop(Given(u), next[u])
  BY <1>1 DEF AbsOK, Numbers, Loading
<1>5. Stored' = Stored
  BY <1>1 DEF Stored
<1>6. b \in Nat /\ b > ret[s] /\ b <= next[s] /\ b >= 1 /\ ret' = [ret EXCEPT ![s] = b]
  BY <1>2, <1>3
<1>7. Stored \in SUBSET Records /\ ret \in [Streams -> Nat]
  BY StoredType DEF FilesOK, TypesA
<1>8. /\ IsTop(GivenBy(Stored, ret', s), next[s])
      /\ \A u \in Streams : u # s => GivenBy(Stored, ret', u) = GivenBy(Stored, ret, u)
  BY <1>4, <1>6, <1>7, TrimTop DEF Given
<1>9. \A u \in Streams : IsTop(Given(u)', next[u])
  BY <1>4, <1>5, <1>8 DEF Given
<1>10. NoGap'
  BY <1>5, <1>6, <1>7, TrimGap DEF AbsOK, NoGap
<1>11. AckedStored'
  <2>1. \A u \in Streams : ret'[u] \in Nat /\ ret[u] \in Nat /\ ret[u] <= ret'[u]
    BY <1>6, <1>7
  <2>2. \A a \in acked : a.stream \in Streams /\ a.seq \in Nat
    BY DEF MemOK, TypesB, Records
  <2> SUFFICES ASSUME NEW a \in acked PROVE a \in Stored \/ a.seq < ret'[a.stream]
    BY <1>1, <1>5 DEF AckedStored
  <2>3. a \in Stored \/ a.seq < ret[a.stream]
    BY DEF AbsOK, AckedStored
  <2> QED  BY <2>1, <2>2, <2>3
<1>12. Numbers'
  <2>1. \A u \in Streams : \E n \in Given(u)' : IsTop(Given(u)', n)
    BY <1>9 DEF IsTop
  <2> QED  BY <1>1, <1>9, <2>1 DEF Numbers, Appending, Writing
<1> QED  BY <1>3, <1>4, <1>5, <1>6, <1>10, <1>11, <1>12 DEF AbsOK, Trimmed

\* Close, a crash, and the steps of a compaction or of Open that keep every record.
LEMMA AbsKept ==
    ASSUME FilesOK, MemOK, AbsOK, FilesOK',
           \/ CompactPlan \/ CompactDeleted \/ CompactCopy \/ CompactCopyIndex
           \/ CompactRenameLog \/ CompactRenameIndex \/ CompactSwitch \/ CompactFinish
           \/ Close \/ Crash \/ Open \/ OpenReindex
    PROVE  AbsOK' /\ Same
<1>1. ASSUME \/ CompactPlan \/ CompactDeleted \/ CompactCopy \/ CompactCopyIndex
             \/ CompactRenameIndex \/ CompactSwitch
      PROVE  /\ UNCHANGED <<logs, ret, next, acked>> /\ pc \notin Loading \cup {"written"}
             /\ pc' \notin Appending
  <2>1. CASE CompactPlan \/ CompactDeleted
    BY <2>1 DEF CompactPlan, CompactDeleted, mem, disk, Loading, Appending, Writing
  <2>2. CASE CompactCopy \/ CompactCopyIndex
    BY <2>2 DEF CompactCopy, CompactCopyIndex, mem, disk, Loading, Appending, Writing
  <2>3. CASE CompactRenameIndex \/ CompactSwitch
    BY <2>3 DEF CompactRenameIndex, CompactSwitch, mem, disk, Loading, Appending, Writing
  <2> QED  BY <1>1, <2>1, <2>2, <2>3
<1>2. CASE \/ CompactPlan \/ CompactDeleted \/ CompactCopy \/ CompactCopyIndex
           \/ CompactRenameIndex \/ CompactSwitch
  <2>1. UNCHANGED <<logs, ret, next, acked>> /\ pc \notin Loading \cup {"written"} /\ pc' \notin Appending
    BY <1>1, <1>2
  <2>2. Same
    BY <2>1 DEF Same, Stored
  <2> QED  BY <2>1, <2>2, AbsFrame
<1>3. CASE CompactRenameLog
  <2>1. UNCHANGED <<ret, next, acked>> /\ pc \notin Loading \cup {"written"} /\ pc' \notin Appending
    BY <1>3 DEF CompactRenameLog, mem, Loading, Appending, Writing
  <2>2. Same
    BY <1>3, <2>1, StoredCopied DEF Same
  <2> QED  BY <2>1, <2>2, AbsFrame
<1>4. CASE CompactFinish
  <2> DEFINE n == Max(News) + 1
  <2>1. /\ UNCHANGED <<ret, next, acked>> /\ pc \notin Loading \cup {"written"} /\ pc' \notin Appending
        /\ logs' = With(logs, n, <<>>) /\ pc = "remove" /\ Olds \cap DOMAIN logs = {}
    BY <1>4 DEF CompactFinish, Loading, Appending, Writing
  <2>2. \A h \in DOMAIN logs : h < n /\ h \in Nat
    BY <2>1, FinishIs, SegType DEF MemOK, FilesOK
  <2> HIDE DEF n
  <2>3. n \notin DOMAIN logs
    BY <2>2
  <2>4. Same
    BY <2>1, <2>3, StoredEmpty DEF Same
  <2> QED  BY <2>1, <2>4, AbsFrame
<1>5. CASE Close \/ Crash \/ Open
  <2>1. UNCHANGED <<logs, ret, acked>> /\ pc' \in Loading
    BY <1>5 DEF Close, Crash, Open, Stop, disk, Loading
  <2>2. Same
    BY <2>1 DEF Same, Stored
  <2>3. pc' \notin Appending
    BY <2>1 DEF Loading, Appending, Writing
  <2> QED  BY <2>1, <2>2, <2>3, AbsFrame
<1>6. CASE OpenReindex
  <2>1. /\ UNCHANGED <<ret, next, acked>> /\ pc \notin Loading \cup {"written"} /\ pc' \notin Appending
        /\ logs' = IF active \in DOMAIN logs THEN logs ELSE With(logs, active, <<>>)
    BY <1>6 DEF OpenReindex, mem, Loading, Appending, Writing
  <2>2. Stored' = Stored
    <3>1. CASE active \in DOMAIN logs
      BY <2>1, <3>1 DEF Stored
    <3>2. CASE active \notin DOMAIN logs
      BY <2>1, <3>2, StoredEmpty
    <3> QED  BY <3>1, <3>2
  <2> QED  BY <2>1, <2>2, AbsFrame DEF Same
<1> QED  BY <1>2, <1>3, <1>4, <1>5, <1>6

\* Open finds what was stored, and goes on with the numbers after it.
LEMMA AbsLoaded ==
    ASSUME FilesOK, AbsOK, FilesOK', OpenFromIndex \/ OpenScan,
           \A s \in Streams : IsTop(Given(s), next'[s])
    PROVE  AbsOK' /\ Same
<1>1. UNCHANGED <<ret, acked>> /\ pc' \in {"idle", "reindex"}
  BY DEF OpenFromIndex, OpenScan, disk
<1>2. Same
  <2>1. CASE OpenFromIndex
    BY <1>1, <2>1 DEF OpenFromIndex, disk, Same, Stored
  <2>2. CASE OpenScan
    <3>1. \A r : r # Torn =>
                ((\E g \in DOMAIN logs' : \E i \in DOMAIN logs'[g] : logs'[g][i] = r)
                    <=> (\E g \in DOMAIN logs : \E i \in DOMAIN logs[g] : logs[g][i] = r))
      BY <2>2, ScanIs
    <3>2. ASSUME NEW r PROVE r \in Stored' <=> r \in Stored
      BY <3>1, StoredAfter, StoredIs DEF FilesOK
    <3> QED  BY <1>1, <3>2 DEF Same
  <2> QED  BY <2>1, <2>2
<1>3. /\ NoGap' /\ AckedStored'
      /\ (\A u \in Streams : Given(u)' = Given(u))
      /\ \A u \in Streams : \E n \in Given(u)' : IsTop(Given(u)', n)
  BY <1>1, <1>2, AbsSame
<1>4. Numbers'
  BY <1>1, <1>3 DEF Numbers, Appending, Writing
<1> QED  BY <1>2, <1>3, <1>4 DEF AbsOK

-----------------------------------------------------------------------------
\* Every step keeps the invariant of the Store, and is a step of the abstract log.

\* A step that appends the next record of a stream, with a key that no record has.
Appended ==
    /\ Stored' = Stored \cup {pend} /\ ret' = ret
    /\ pend \in Records /\ IsTop(Given(pend.stream), pend.seq)
    /\ \A r \in Stored : ~SameKey(r, pend)
\* What a step does to the stored records.
LogStep == Same \/ Appended \/ Dropped \/ \E s \in Streams : Trimmed(s)

\* An empty directory satisfies the invariants.
LEMMA InitInv ==
    ASSUME Init
    PROVE  StoreInv /\ ReadInv
<1>1. /\ DOMAIN logs = {} /\ DOMAIN idx = {} /\ DOMAIN tmpLog = {} /\ tmpIdx = {} /\ logs = NoFiles
      /\ idx = NoFiles /\ tmpLog = NoFiles
      /\ ret = [s \in Streams |-> 0] /\ manifest = [del |-> {}, copies |-> {}]
      /\ pc = "down" /\ todo = {}
  BY DEF Init, NoFiles
<1>2. Olds = {} /\ News = {} /\ Gone = {} /\ View = {}
  BY <1>1 DEF Olds, News, Gone, View
<1>3. TypesA
  <2>1. logs \in [{} -> Seq(Records \cup {Torn})] /\ tmpLog \in [{} -> Seq(Records)] /\ idx \in [{} -> Nat]
    BY <1>1 DEF NoFiles
  <2> QED  BY <1>1, <2>1 DEF TypesA, PCs
<1>4. TornLast /\ IdxBound /\ TopSafe /\ ManifestOK /\ DelTrimmed
  BY <1>1, <1>2 DEF TornLast, IdxBound, TopSafe, ManifestOK, DelTrimmed, Loading
<1>5. CopyState /\ Leftover /\ Unique
  BY <1>1, <1>2 DEF CopyState, Leftover, Unique, UniqueIn, PreSwitch
<1>6. TypesB
  BY DEF Init, TypesB
<1>7. ActiveOK /\ IndexOK
  BY <1>1 DEF ActiveOK, IndexOK, Loading
<1>8. Stored = {}
  BY <1>1 DEF Stored
<1>9. NoGap /\ AckedStored
  BY <1>8 DEF Init, NoGap, NoGapIn, AckedStored
<1>10. Numbers
  <2>1. \A s \in Streams : Given(s) = {0, 1}
    BY <1>1, <1>8 DEF Given, GivenBy
  <2>2. IsTop({0, 1}, 1)
    BY DEF IsTop
  <2> QED  BY <1>1, <2>1, <2>2 DEF Numbers, Loading, Appending, Writing
<1>11. ReadInv
  <2>1. <<>> \in Seq(Records \cup {Torn}) /\ <<>> \in Seq(Records)
    OBVIOUS
  <2>2. /\ IdleReader \in ReaderStates
        /\ IdleReader.pc = "start" /\ IdleReader.todo = {} /\ IdleReader.out = <<>>
    BY <2>1 DEF IdleReader, ReaderStates, ReaderPCs, NoRecord
  <2>3. rd = [r \in Readers |-> IdleReader]
    BY DEF Init
  <2> QED  BY <2>2, <2>3 DEF ReadInv, ReaderOK
<1> QED  BY <1>3, <1>4, <1>5, <1>6, <1>7, <1>9, <1>10, <1>11 DEF StoreInv, FilesOK

\* A step keeps the invariant of the Store, and does one of the four things to its records.
LEMMA StoreStep ==
    ASSUME StoreInv, CalmNext
    PROVE  StoreInv' /\ LogStep
<1>1. FilesOK /\ MemOK /\ AbsOK /\ TypesB /\ ActiveOK /\ IndexOK /\ Numbers
  BY DEF StoreInv, MemOK, AbsOK
<1> SUFFICES FilesOK' /\ MemOK' /\ AbsOK' /\ LogStep
  BY DEF StoreInv, MemOK, AbsOK
<1>2. ASSUME NEW s \in Streams, Trim(s) PROVE FilesOK' /\ MemOK' /\ AbsOK' /\ LogStep
  BY <1>1, <1>2, FilesTrim, MemTrim, AbsTrim DEF LogStep
<1>3. ASSUME NEW s \in Streams, NEW k \in Keys, AppendDuplicate(s, k)
      PROVE  FilesOK' /\ MemOK' /\ AbsOK' /\ LogStep
  <2>1. FilesOK'
    BY <1>1, <1>3, FilesFrame DEF AppendDuplicate
  <2> QED  BY <1>1, <1>3, <2>1, MemAppendDuplicate, AbsAppendDuplicate DEF LogStep
<1>4. ASSUME NEW s \in Streams, NEW k \in Keys \cup {NoKey}, AppendStart(s, k)
      PROVE  FilesOK' /\ MemOK' /\ AbsOK' /\ LogStep
  <2>1. FilesOK'
    BY <1>1, <1>4, FilesQuiet DEF AppendStart, Quiet
  <2> QED  BY <1>1, <1>4, <2>1, MemAppendStart, AbsAppendStart DEF LogStep
<1>5. CASE AppendRoll
  <2>1. FilesOK'
    BY <1>1, <1>5, FilesAppendRoll
  <2> QED  BY <1>1, <1>5, <2>1, MemAppendRoll, AbsAppendRoll DEF LogStep
<1>6. CASE AppendRollIndex
  <2>1. FilesOK'
    BY <1>1, <1>6, FilesAppendRollIndex
  <2> QED  BY <1>1, <1>6, <2>1, MemAppendRollIndex, AbsAppendRoll DEF LogStep
<1>7. CASE AppendWrite
  <2>1. FilesOK'
    BY <1>1, <1>7, FilesAppendWrite
  <2>2. MemOK'
    BY <1>1, <1>7, MemAppendWrite
  <2>3. /\ AbsOK' /\ ret' = ret
        /\ Same \/ (Stored' = Stored \cup {pend} /\ IsTop(Given(pend.stream), pend.seq))
    BY <1>1, <1>7, <2>1, AbsAppendWrite
  <2>4. pend \in Records /\ \A r \in Stored : ~SameKey(r, pend)
    BY <1>1, <1>7, FreshPend DEF AppendWrite, Numbers, Appending
  <2> QED  BY <2>1, <2>2, <2>3, <2>4 DEF LogStep, Appended
<1>8. CASE AppendCommit
  <2>1. FilesOK'
    BY <1>1, <1>8, FilesQuiet DEF AppendCommit, Quiet
  <2> QED  BY <1>1, <1>8, <2>1, MemAppendCommit, AbsAppendCommit DEF LogStep
<1>9. CASE CompactPlan
  <2>1. FilesOK'
    BY <1>1, <1>9, FilesCompactPlan
  <2> QED  BY <1>1, <1>9, <2>1, MemCompactPlan, AbsKept DEF LogStep
<1>10. CASE CompactDelete
  <2>1. FilesOK'
    BY <1>1, <1>10, FilesCompactDelete
  <2> QED  BY <1>1, <1>10, <2>1, MemCompactDelete, AbsDropped DEF LogStep
<1>11. CASE CompactDeleted
  <2>1. FilesOK'
    BY <1>1, <1>11, FilesCompactDeleted
  <2> QED  BY <1>1, <1>11, <2>1, MemCompactDeleted, AbsKept DEF LogStep
<1>12. CASE CompactCopy \/ CompactCopyIndex \/ CompactRenameLog \/ CompactRenameIndex
  <2>1. FilesOK'
    BY <1>1, <1>12, FilesCompactCopy, FilesCompactCopyIndex, FilesCompactRenameLog, FilesCompactRenameIndex
  <2> QED  BY <1>1, <1>12, <2>1, MemCopySteps, AbsKept DEF LogStep
<1>13. CASE CompactSwitch
  <2>1. FilesOK'
    BY <1>1, <1>13, FilesCompactSwitch
  <2> QED  BY <1>1, <1>13, <2>1, MemCompactSwitch, AbsKept DEF LogStep
<1>14. CASE CompactRemove
  <2>1. FilesOK'
    BY <1>1, <1>14, FilesCompactRemove
  <2> QED  BY <1>1, <1>14, <2>1, MemCompactRemove, AbsDropped DEF LogStep
<1>15. CASE CompactFinish
  <2>1. FilesOK'
    BY <1>1, <1>15, FilesCompactFinish
  <2> QED  BY <1>1, <1>15, <2>1, MemCompactFinish, AbsKept DEF LogStep
<1>16. CASE Open \/ ReconcileCopy \/ ReconcileDelete
  <2>1. FilesOK'
    BY <1>1, <1>16, FilesOpen, FilesReconcileCopy, FilesReconcileDelete
  <2>2. MemOK'
    BY <1>1, <1>16, MemReconcile
  <2>3. AbsOK' /\ LogStep
    BY <1>1, <1>16, <2>1, AbsKept, AbsDropped DEF LogStep
  <2> QED  BY <2>1, <2>2, <2>3
<1>17. CASE OpenFromIndex
  <2>1. FilesOK'
    BY <1>1, <1>17, FilesOpenFromIndex
  <2> QED  BY <1>1, <1>17, <2>1, MemOpenFromIndex, AbsLoaded DEF LogStep
<1>18. CASE OpenScan
  <2>1. FilesOK'
    BY <1>1, <1>18, FilesOpenScan
  <2> QED  BY <1>1, <1>18, <2>1, MemOpenScan, AbsLoaded DEF LogStep
<1>19. CASE OpenReindex
  <2>1. FilesOK'
    BY <1>1, <1>19, FilesOpenReindex
  <2> QED  BY <1>1, <1>19, <2>1, MemOpenReindex, AbsKept DEF LogStep
<1>20. CASE Close
  <2>1. FilesOK'
    BY <1>1, <1>20, FilesClose
  <2> QED  BY <1>1, <1>20, <2>1, MemStop, AbsKept DEF LogStep
<1>21. CASE Crash
  <2>1. ~MidCopy
    BY <1>21 DEF CalmNext, Crash, Stop
  <2>2. FilesOK'
    BY <1>1, <1>21, <2>1, FilesCrash
  <2> QED  BY <1>1, <1>21, <2>2, MemStop, AbsKept DEF LogStep
<1>22. ASSUME NEW r \in Readers, ReadStep(r) PROVE FilesOK' /\ MemOK' /\ AbsOK' /\ LogStep
  <2>1. UNCHANGED <<disk, mem, pc, pend, todo, acked, bounds>>
    <3>1. ASSUME NEW s \in Streams, ReadStart(r, s) PROVE UNCHANGED <<disk, mem, pc, pend, todo, acked, bounds>>
      BY <3>1 DEF ReadStart
    <3>2. CASE ReadBatch(r)
      BY <3>2 DEF ReadBatch
    <3>3. CASE ReadOpen(r)
      BY <3>3 DEF ReadOpen
    <3>4. CASE ReadRegister(r)
      BY <3>4 DEF ReadRegister
    <3>5. CASE ReadRecord(r)
      BY <3>5 DEF ReadRecord
    <3> QED  BY <1>22, <3>1, <3>2, <3>3, <3>4, <3>5 DEF ReadStep
  <2>2. FilesOK'
    BY <1>1, <2>1, FilesFrame
  <2>3. TypesB'
    BY <1>1, <2>1 DEF TypesB, mem, bounds
  <2>4. MemOK'
    BY <1>1, <2>1, <2>3, MemFrame
  <2>5. logs' = logs /\ ret' = ret /\ active' = active /\ size' = size /\ next' = next /\ pc' = pc /\ pend' = pend /\ acked' = acked
    BY <2>1 DEF disk, mem
  <2>6. Same
    BY <2>5 DEF Same, Stored
  <2>7. /\ NoGap' /\ AckedStored'
        /\ (\A u \in Streams : Given(u)' = Given(u))
    BY <1>1, <2>5, <2>6, AbsSame
  <2>8. Numbers'
    BY <1>1, <2>5, <2>6, <2>7 DEF Numbers, Same, SameKey
  <2> QED  BY <2>2, <2>4, <2>6, <2>7, <2>8 DEF AbsOK, LogStep
<1> QED  BY <1>2, <1>3, <1>4, <1>5, <1>6, <1>7, <1>8, <1>9, <1>10, <1>11, <1>12, <1>13, <1>14,
            <1>15, <1>16, <1>17, <1>18, <1>19, <1>20, <1>21, <1>22
         DEF CalmNext, Next, AppendStep, CompactStep, OpenStep

-----------------------------------------------------------------------------
\* The refinement.

\* The next number of the refinement mapping is the greatest of the given ones.
LEMMA NextTop ==
    ASSUME NEW st \in SUBSET Records, NEW rt \in [Streams -> Nat], NEW s \in Streams, NEW n,
           IsTop(GivenBy(st, rt, s), n)
    PROVE  Max(GivenBy(st, rt, s)) = n
BY GivenType, MaxIs

\* The refinement mapping of the next numbers, before and after a step.
LEMMA StoredNextIs ==
    /\ StoredNext = [s \in Streams |-> Max(GivenBy(Stored, ret, s))]
    /\ StoredNext' = [s \in Streams |-> Max(GivenBy(Stored', ret', s))]
<1>1. StoredNext = [s \in Streams |-> Max(GivenBy(Stored, ret, s))]
  BY DEF StoredNext, NextIn, GivenBy
<1>2. StoredNext' = [s \in Streams |-> Max(GivenBy(Stored', ret', s))]
  BY DEF StoredNext, NextIn, GivenBy
<1> QED  BY <1>1, <1>2

\* The empty Store is the empty log.
LEMMA RefineInit ==
    ASSUME Init
    PROVE  Log!Init
<1>1. ret = [s \in Streams |-> 0] /\ Stored = {}
  <2>1. DOMAIN logs = {} /\ ret = [s \in Streams |-> 0]
    BY DEF Init, NoFiles
  <2> QED  BY <2>1 DEF Stored
<1>2. StoredNext = [s \in Streams |-> 1]
  <2>1. ASSUME NEW s \in Streams PROVE Max(GivenBy(Stored, ret, s)) = 1
    <3>1. GivenBy(Stored, ret, s) = {0, 1}
      BY <1>1 DEF GivenBy
    <3>2. IsTop({0, 1}, 1) /\ {0, 1} \in SUBSET Nat
      BY DEF IsTop
    <3> QED  BY <3>1, <3>2, MaxIs
  <2> QED  BY <2>1, StoredNextIs
<1> QED  BY <1>1, <1>2 DEF Log!Init

\* Each of the four things is a step of SharedLog, or a stutter.
LEMMA RefineStep ==
    ASSUME StoreInv, StoreInv', LogStep
    PROVE  [Log!Next]_(Log!vars)
<1>1. Stored \in SUBSET Records /\ ret \in [Streams -> Nat]
  BY StoredType DEF StoreInv, FilesOK, TypesA
<1> DEFINE N == [s \in Streams |-> Max(GivenBy(Stored, ret, s))]
           N2 == [s \in Streams |-> Max(GivenBy(Stored', ret', s))]
<1>2. StoredNext = N /\ StoredNext' = N2
  BY StoredNextIs
<1>3. \A s \in Streams : \E n : IsTop(Given(s), n) /\ IsTop(GivenBy(Stored, ret, s), n) /\ N[s] = n
  <2> SUFFICES ASSUME NEW s \in Streams
               PROVE  \E n : IsTop(Given(s), n) /\ IsTop(GivenBy(Stored, ret, s), n) /\ N[s] = n
    OBVIOUS
  <2>1. PICK n : IsTop(Given(s), n)
    BY DEF StoreInv, Numbers
  <2>2. IsTop(GivenBy(Stored, ret, s), n)
    BY <2>1 DEF Given
  <2> QED  BY <1>1, <2>1, <2>2, NextTop
<1>4. \A s \in Streams : \A n : IsTop(Given(s), n) => N[s] = n
  BY <1>1, NextTop DEF Given
<1>5. CASE Same
  <2>1. N2 = N
    BY <1>5 DEF Same
  <2> HIDE DEF N, N2
  <2> QED  BY <1>2, <1>5, <2>1 DEF Same, Log!vars
<1>6. CASE Dropped
  <2>1. ASSUME NEW s \in Streams PROVE Max(GivenBy(Stored', ret', s)) = N[s]
    <3>1. PICK n : IsTop(GivenBy(Stored, ret, s), n) /\ N[s] = n
      BY <1>3
    <3> DEFINE st2 == Stored'
    <3>2. st2 \in SUBSET Stored /\ (\A r \in Stored \ st2 : r.seq < ret[r.stream]) /\ ret' = ret
      BY <1>6 DEF Dropped
    <3> HIDE DEF st2, N
    <3>3. IsTop(GivenBy(st2, ret, s), n) /\ st2 \in SUBSET Records
      BY <1>1, <3>1, <3>2, DropTop
    <3>4. Max(GivenBy(st2, ret, s)) = n
      BY <1>1, <3>3, NextTop
    <3> QED  BY <3>1, <3>2, <3>4 DEF st2
  <2>2. N2 = N
    BY <2>1
  <2> HIDE DEF N, N2
  <2>3. Log!Drop
    BY <1>2, <1>6, <2>2 DEF Dropped, Log!Drop
  <2> QED  BY <2>3 DEF Log!Next
<1>7. ASSUME NEW s \in Streams, Trimmed(s) PROVE Log!Next
  <2>1. PICK n, b \in Nat : /\ Stored' = Stored /\ IsTop(Given(s), n)
                            /\ b > ret[s] /\ b <= n /\ b >= 1 /\ ret' = [ret EXCEPT ![s] = b]
    BY <1>7 DEF Trimmed
  <2>2. N[s] = n
    BY <1>4, <2>1
  <2>3. /\ IsTop(GivenBy(Stored, ret', s), n) /\ ret' \in [Streams -> Nat]
        /\ \A u \in Streams : u # s => GivenBy(Stored, ret', u) = GivenBy(Stored, ret, u)
    BY <1>1, <2>1, TrimTop DEF Given
  <2>4. Max(GivenBy(Stored, ret', s)) = n
    <3> DEFINE rt == ret'
    <3>1. IsTop(GivenBy(Stored, rt, s), n) /\ rt \in [Streams -> Nat]
      BY <2>3
    <3> HIDE DEF rt
    <3>2. Max(GivenBy(Stored, rt, s)) = n
      BY <1>1, <3>1, NextTop
    <3> QED  BY <3>2 DEF rt
  <2>5. N2 = N
    BY <2>1, <2>2, <2>3, <2>4
  <2> HIDE DEF N, N2
  <2>6. b \in 1 .. StoredNext[s]
    BY <1>2, <2>1, <2>2
  <2>7. Log!Trim(s)
    BY <1>2, <2>1, <2>5, <2>6 DEF Log!Trim
  <2> QED  BY <2>7 DEF Log!Next
<1>8. CASE Appended
  <2> DEFINE s == pend.stream
  <2>1. /\ Stored' = Stored \cup {pend} /\ ret' = ret
        /\ pend \in Records /\ IsTop(Given(s), pend.seq)
        /\ \A r \in Stored : ~SameKey(r, pend)
    BY <1>8 DEF Appended
  <2>2. s \in Streams /\ pend.seq \in Nat /\ pend.key \in Keys \cup {NoKey}
    BY <2>1 DEF Records
  <2>3. N[s] = pend.seq
    BY <1>4, <2>1, <2>2
  <2>4. /\ IsTop(GivenBy(Stored \cup {pend}, ret, s), pend.seq + 1)
        /\ \A u \in Streams : u # s => GivenBy(Stored \cup {pend}, ret, u) = GivenBy(Stored, ret, u)
    BY <1>1, <2>1, AppendTop DEF Given
  <2>5. Max(GivenBy(Stored \cup {pend}, ret, s)) = pend.seq + 1
    BY <1>1, <2>1, <2>2, <2>4, NextTop
  <2>6. N2 = [N EXCEPT ![s] = pend.seq + 1]
    BY <2>1, <2>2, <2>4, <2>5
  <2> HIDE DEF N, N2, s
  <2>7. N2 = [N EXCEPT ![s] = @ + 1]
    BY <2>3, <2>6
  <2>8. ~Log!KeyStored(s, pend.key)
    BY <2>1 DEF Log!KeyStored, SameKey, s
  <2>9. pend \in Log!Records
    BY <2>1 DEF Log!Records, Records
  <2>10. Log!Append(s, pend.key)
    <3>1. pend \in Stored' /\ pend.stream = s /\ pend.seq = StoredNext[s]
      BY <1>2, <2>1, <2>3 DEF s
    <3>2. StoredNext' = [StoredNext EXCEPT ![s] = @ + 1]
      BY <1>2, <2>7
    <3> QED  BY <2>1, <2>8, <2>9, <3>1, <3>2 DEF Log!Append
  <2> QED  BY <2>2, <2>10 DEF Log!Next
<1> QED  BY <1>5, <1>6, <1>7, <1>8 DEF LogStep

-----------------------------------------------------------------------------
\* When mu is free the index is exact.
LEMMA IndexIsExact ==
    ASSUME StoreInv
    PROVE  IndexExact
<1> SUFFICES ASSUME pc = "idle"
             PROVE  /\ entries = EntriesOf(logs)
                    /\ Cardinality({<<e.stream, e.seq>> : e \in entries}) = Cardinality(entries)
                    /\ idem = {r \in Stored : r.key # NoKey}
                    /\ next = StoredNext
                    /\ active = Max(DOMAIN logs) /\ size = Len(logs[active])
  BY DEF IndexExact
<1>1. View = DOMAIN logs /\ UniqueIn(DOMAIN logs)
  BY SettledAt DEF Settled, Quiet, StoreInv
<1>2. \A g \in DOMAIN logs : \A i \in DOMAIN logs[g] : logs[g][i] # Torn
  BY NoTorn DEF StoreInv, Loading
<1>3. \A g, i : ~Unindexed(g, i) /\ EntryAt(g, i) = EntryIn(logs, g, i)
  BY DEF Unindexed, Writing, EntryAt, EntryIn
<1>4. /\ IsFiniteSet(entries)
      /\ (\A e \in entries : e.seg \in DOMAIN logs /\ e.pos \in DOMAIN logs[e.seg] /\ e = EntryIn(logs, e.seg, e.pos))
      /\ (\A g \in DOMAIN logs : \A i \in DOMAIN logs[g] : EntryIn(logs, g, i) \in entries)
      /\ (\A r \in idem : r.key # NoKey /\ \E g \in DOMAIN logs : \E i \in DOMAIN logs[g] : logs[g][i] = r)
      /\ \A g \in DOMAIN logs : \A i \in DOMAIN logs[g] : logs[g][i].key # NoKey => logs[g][i] \in idem
  BY <1>1, <1>3 DEF StoreInv, IndexOK, Loading
<1>5. entries = EntriesOf(logs)
  <2>1. Covers(EntriesOf(logs), logs, DOMAIN logs)
    BY EntriesCover
  <2>2. ASSUME NEW e \in entries PROVE e \in EntriesOf(logs)
    <3>1. e.seg \in DOMAIN logs /\ e.pos \in DOMAIN logs[e.seg] /\ e = EntryIn(logs, e.seg, e.pos)
      BY <1>4
    <3>2. EntryIn(logs, e.seg, e.pos) \in EntriesOf(logs)
      BY <2>1, <3>1 DEF Covers
    <3> QED  BY <3>1, <3>2
  <2>3. ASSUME NEW e \in EntriesOf(logs) PROVE e \in entries
    <3>1. e.seg \in DOMAIN logs /\ e.pos \in DOMAIN logs[e.seg] /\ e = EntryIn(logs, e.seg, e.pos)
      BY <2>1 DEF Covers
    <3>2. EntryIn(logs, e.seg, e.pos) \in entries
      BY <1>4, <3>1
    <3> QED  BY <3>1, <3>2
  <2> QED  BY <2>2, <2>3
<1>6. Cardinality({<<e.stream, e.seq>> : e \in entries}) = Cardinality(entries)
  <2> DEFINE P == {<<e.stream, e.seq>> : e \in entries}
             f == [e \in entries |-> <<e.stream, e.seq>>]
  <2>1. ASSUME NEW d \in entries, NEW e \in entries, <<d.stream, d.seq>> = <<e.stream, e.seq>> PROVE d = e
    <3>1. /\ d.seg \in DOMAIN logs /\ d.pos \in DOMAIN logs[d.seg] /\ d = EntryIn(logs, d.seg, d.pos)
          /\ e.seg \in DOMAIN logs /\ e.pos \in DOMAIN logs[e.seg] /\ e = EntryIn(logs, e.seg, e.pos)
      BY <1>4
    <3>2. /\ d.stream = logs[d.seg][d.pos].stream /\ d.seq = logs[d.seg][d.pos].seq
          /\ e.stream = logs[e.seg][e.pos].stream /\ e.seq = logs[e.seg][e.pos].seq
      BY <3>1 DEF EntryIn
    <3>3. SameSeq(logs[d.seg][d.pos], logs[e.seg][e.pos])
      BY <2>1, <3>2 DEF SameSeq
    <3>4. d.seg = e.seg /\ d.pos = e.pos
      BY <1>1, <1>2, <3>1, <3>3 DEF UniqueIn
    <3> QED  BY <3>1, <3>4
  <2>2. f \in Bijection(entries, P)
    BY <2>1 DEF Bijection, Injection, Surjection, IsInjective
  <2>3. ExistsBijection(entries, P)
    BY <2>2 DEF ExistsBijection
  <2> HIDE DEF P
  <2>4. Cardinality(P) = Cardinality(entries)
    BY <1>4, <2>3, FS_Bijection
  <2> QED  BY <2>4 DEF P
<1>7. idem = {r \in Stored : r.key # NoKey}
  <2>1. \A r : r \in Stored <=> \E g \in DOMAIN logs : \E i \in DOMAIN logs[g] : logs[g][i] = r
    BY <1>2, StoredIs DEF StoreInv, FilesOK
  <2> QED  BY <1>4, <2>1
<1>8. next = StoredNext
  <2>1. Stored \in SUBSET Records /\ ret \in [Streams -> Nat] /\ next \in [Streams -> Nat]
    BY StoredType DEF StoreInv, FilesOK, TypesA, TypesB
  <2>2. ASSUME NEW s \in Streams PROVE Max(GivenBy(Stored, ret, s)) = next[s]
    <3>1. IsTop(GivenBy(Stored, ret, s), next[s])
      BY DEF StoreInv, Numbers, Loading, Given
    <3> QED  BY <2>1, <3>1, NextTop
  <2>3. StoredNext = [s \in Streams |-> next[s]]
    BY <2>2, StoredNextIs
  <2> QED  BY <2>1, <2>3
<1>9. active = Max(DOMAIN logs) /\ size = Len(logs[active])
  <2>1. IsTop(DOMAIN logs, active) /\ size = Len(logs[active])
    BY DEF StoreInv, ActiveOK, Loading, PreSwitch, Writing
  <2>2. DOMAIN logs \in SUBSET Nat
    BY SegType DEF StoreInv, FilesOK
  <2> QED  BY <2>1, <2>2, MaxIs
<1> QED  BY <1>5, <1>6, <1>7, <1>8, <1>9

-----------------------------------------------------------------------------
\* The readers.

\* A reader is right about a Store whose numbers and watermarks grew.
LEMMA ReadFrame ==
    ASSUME ReadInv, TypesB, TypesB', rd' = rd,
           pc \notin Loading => /\ pc' \notin Loading
                                /\ \A s \in Streams : next[s] <= next'[s] /\ trim[s] <= trim'[s]
    PROVE  ReadInv'
<1> SUFFICES ASSUME NEW r \in Readers PROVE ReaderOK(rd[r])'
  BY DEF ReadInv
<1> DEFINE v == rd[r]
<1>1. v \in ReaderStates /\ ReaderOK(v) /\ rd'[r] = v
  BY DEF ReadInv
<1> HIDE DEF v
<1>2. v.pc = "start" => v.todo = {} /\ v.out = <<>>
  BY <1>1 DEF ReaderOK
<1>3. ASSUME v.pc \notin {"start", "failed"}
      PROVE  /\ v.stream \in Streams /\ v.lo # 0 /\ v.lo <= v.from
             /\ v.to <= next'[v.stream]
             /\ pc' \notin Loading
             /\ \A i \in DOMAIN v.out : v.out[i].seq < v.from
             /\ \A i, j \in DOMAIN v.out : i < j => v.out[i].seq < v.out[j].seq
             /\ \A q \in v.lo .. v.from - 1 : q < trim'[v.stream] \/ \E i \in DOMAIN v.out : v.out[i].seq = q
             /\ \A e, f \in v.todo : e.seq = f.seq => e = f
             /\ \A e \in v.todo : /\ e.seq >= v.from /\ e.seq < v.to
                                  /\ \A q \in v.from .. e.seq : q < trim'[v.stream] \/ \E f \in v.todo : f.seq = q
             /\ v.pc \in {"open", "register", "read"} <=> v.todo # {}
             /\ v.pc = "done" => \A q \in v.from .. v.to - 1 : q < trim'[v.stream]
  <2>1. v.stream \in Streams /\ v.to <= next[v.stream] /\ pc \notin Loading
    BY <1>1, <1>3 DEF ReaderOK
  <2>2. /\ next[v.stream] \in Nat /\ next'[v.stream] \in Nat /\ trim[v.stream] \in Nat /\ trim'[v.stream] \in Nat
        /\ next[v.stream] <= next'[v.stream] /\ trim[v.stream] <= trim'[v.stream]
    BY <2>1 DEF TypesB
  <2>3. v.to \in Nat
    BY <1>1 DEF ReaderStates
  <2>4. v.to <= next'[v.stream] /\ pc' \notin Loading
    BY <2>1, <2>2, <2>3
  <2>5. \A q \in Nat : q < trim[v.stream] => q < trim'[v.stream]
    BY <2>2
  <2>6. v.lo \in Nat /\ v.from \in Nat /\ \A e \in v.todo : e.seq \in Nat
    BY <1>1 DEF ReaderStates, Entries
  <2>7. \A q \in v.lo .. v.from - 1 : q < trim'[v.stream] \/ \E i \in DOMAIN v.out : v.out[i].seq = q
    <3> SUFFICES ASSUME NEW q \in v.lo .. v.from - 1
                 PROVE  q < trim'[v.stream] \/ \E i \in DOMAIN v.out : v.out[i].seq = q
      OBVIOUS
    <3>1. q < trim[v.stream] \/ \E i \in DOMAIN v.out : v.out[i].seq = q
      BY <1>1, <1>3 DEF ReaderOK
    <3>2. q \in Nat
      BY <2>6
    <3> QED  BY <2>5, <3>1, <3>2
  <2>8. \A e \in v.todo : \A q \in v.from .. e.seq : q < trim'[v.stream] \/ \E f \in v.todo : f.seq = q
    <3> SUFFICES ASSUME NEW e \in v.todo, NEW q \in v.from .. e.seq
                 PROVE  q < trim'[v.stream] \/ \E f \in v.todo : f.seq = q
      OBVIOUS
    <3>1. q < trim[v.stream] \/ \E f \in v.todo : f.seq = q
      BY <1>1, <1>3 DEF ReaderOK
    <3>2. q \in Nat
      BY <2>6
    <3> QED  BY <2>5, <3>1, <3>2
  <2>9. v.pc = "done" => \A q \in v.from .. v.to - 1 : q < trim'[v.stream]
    <3> SUFFICES ASSUME v.pc = "done", NEW q \in v.from .. v.to - 1 PROVE q < trim'[v.stream]
      OBVIOUS
    <3>1. q < trim[v.stream]
      BY <1>1 DEF ReaderOK
    <3>2. q \in Nat
      BY <2>3, <2>6
    <3> QED  BY <2>5, <3>1, <3>2
  <2> QED  BY <1>1, <1>3, <2>4, <2>7, <2>8, <2>9 DEF ReaderOK
<1> QED  BY <1>1, <1>2, <1>3 DEF ReaderOK

\* A step of reader r.
LEMMA ReadOne ==
    ASSUME ReadInv, NEW r \in Readers, NEW v \in ReaderStates, ReaderOK(v),
           rd' = [rd EXCEPT ![r] = v], UNCHANGED <<disk, mem, pc>>
    PROVE  ReadInv'
<1>1. next' = next /\ trim' = trim /\ pc' = pc
  BY DEF mem
<1>2. rd' \in [Readers -> ReaderStates] /\ rd'[r] = v /\ \A u \in Readers : u # r => rd'[u] = rd[u]
  BY DEF ReadInv
<1>3. \A u \in Readers : ReaderOK(rd'[u])
  BY <1>2 DEF ReadInv
<1>4. \A u \in Readers : ReaderOK(rd[u])'
  BY <1>1, <1>3 DEF ReaderOK
<1> QED  BY <1>2, <1>4 DEF ReadInv

\* A batch of a set of entries begins with the first of them.
LEMMA BatchedIs ==
    ASSUME NEW all \in SUBSET Entries, IsFiniteSet(all)
    PROVE  /\ Batched(all) \subseteq all
           /\ Batched(all) = {} => all = {}
           /\ \A e \in Batched(all), f \in all : f.seq <= e.seq => f \in Batched(all)
<1> DEFINE below(e) == {f \in all : f.seq < e.seq}
<1>1. \A e \in all : e.seq \in Nat
  BY DEF Entries
<1>2. Batched(all) = {e \in all : Cardinality(below(e)) < Batch}
  BY DEF Batched
<1>3. ASSUME NEW e \in all PROVE IsFiniteSet(below(e)) /\ Cardinality(below(e)) \in Nat
  <2>1. below(e) \subseteq all
    OBVIOUS
  <2> HIDE DEF below
  <2> QED  BY <2>1, FS_Subset, FS_CardinalityType
<1>4. ASSUME all # {} PROVE Batched(all) # {}
  <2> DEFINE S == {e.seq : e \in all}
  <2>1. S \in SUBSET Nat /\ S # {}
    BY <1>1, <1>4
  <2>2. PICK x \in S : \A y \in S : x <= y
    BY <2>1, LeastNat
  <2>3. PICK e \in all : x = e.seq
    BY <2>2
  <2>4. below(e) = {}
    <3> SUFFICES ASSUME NEW f \in all, f.seq < e.seq PROVE FALSE
      OBVIOUS
    <3>1. e.seq <= f.seq
      BY <2>2, <2>3
    <3> QED  BY <1>1, <3>1
  <2>5. Cardinality(below(e)) = 0
    BY <2>4, FS_EmptySet
  <2> HIDE DEF below
  <2> QED  BY <1>2, <2>5, LogAssumption
<1>5. ASSUME NEW e \in Batched(all), NEW f \in all, f.seq <= e.seq PROVE f \in Batched(all)
  <2>1. e \in all /\ Cardinality(below(e)) < Batch
    BY <1>2
  <2>2. below(f) \subseteq below(e)
    BY <1>1, <1>5, <2>1
  <2>3. IsFiniteSet(below(e)) /\ Cardinality(below(e)) \in Nat /\ Cardinality(below(f)) \in Nat
    BY <1>3, <2>1
  <2> HIDE DEF below
  <2>4. Cardinality(below(f)) <= Cardinality(below(e))
    BY <2>2, <2>3, FS_Subset
  <2>5. Cardinality(below(f)) < Batch
    BY <2>1, <2>3, <2>4, LogAssumption
  <2> QED  BY <1>2, <2>5
<1> QED  BY <1>2, <1>4, <1>5

\* The entry that is read next is the first of those left.
LEMMA FirstIs ==
    ASSUME NEW left \in SUBSET Entries, left # {}
    PROVE  FirstOf(left) \in left /\ \A f \in left : FirstOf(left).seq <= f.seq
<1> DEFINE S == {e.seq : e \in left}
<1>1. S \in SUBSET Nat /\ S # {}
  BY DEF Entries
<1>2. PICK x \in S : \A y \in S : x <= y
  BY <1>1, LeastNat
<1>3. \E e \in left : \A f \in left : e.seq <= f.seq
  BY <1>2
<1> QED  BY <1>3 DEF FirstOf

\* Every live number below the next one has an entry.
LEMMA LiveIndexed ==
    ASSUME StoreInv, pc = "idle", NEW s \in Streams, NEW q \in Nat, q # 0, q < next[s], q >= trim[s]
    PROVE  \E e \in entries : e.stream = s /\ e.seq = q
<1>1. trim = ret /\ IsTop(Given(s), next[s]) /\ next[s] \in Nat /\ ret[s] \in Nat
  BY DEF StoreInv, ActiveOK, Numbers, Loading, TypesB, FilesOK, TypesA
<1>2. next[s] \in Given(s) /\ next[s] # 1 /\ next[s] # ret[s]
  BY <1>1 DEF IsTop
<1>3. PICK r \in Stored : r.stream = s /\ next[s] = r.seq + 1
  BY <1>2 DEF Given, GivenBy
<1>4. r.seq \in Nat
  BY StoredType DEF StoreInv, FilesOK, Records
<1>5. q \in 1 .. r.seq /\ q >= ret[r.stream]
  BY <1>1, <1>3, <1>4
<1>6. PICK u \in Stored : u.stream = s /\ u.seq = q
  BY <1>3, <1>5 DEF StoreInv, NoGap, NoGapIn
<1>7. PICK g \in DOMAIN logs : \E i \in DOMAIN logs[g] : logs[g][i] = u
  BY StoredIs DEF StoreInv, FilesOK
<1>8. PICK i \in DOMAIN logs[g] : logs[g][i] = u
  BY <1>7
<1>9. entries = EntriesOf(logs)
  BY IndexIsExact DEF IndexExact
<1>10. EntryIn(logs, g, i) \in entries
  BY <1>9, EntriesCover DEF Covers
<1>11. EntryIn(logs, g, i).stream = s /\ EntryIn(logs, g, i).seq = q
  BY <1>6, <1>8 DEF EntryIn
<1> QED  BY <1>10, <1>11

\* The entries of a batch.
LEMMA SelectedIs ==
    ASSUME StoreInv, pc = "idle", NEW s \in Streams, NEW from \in Nat, NEW to \in Nat, from # 0, to <= next[s]
    PROVE  LET left == Selected(s, from, to)
           IN  /\ left \in SUBSET {e \in Entries : e.pos # 0}
               /\ \A e, f \in left : e.seq = f.seq => e = f
               /\ \A e \in left : /\ e.seq >= from /\ e.seq < to
                                  /\ \A q \in from .. e.seq : q < trim[s] \/ \E f \in left : f.seq = q
               /\ left = {} => \A q \in from .. to - 1 : q < trim[s]
<1> DEFINE all == {e \in entries : e.stream = s /\ e.seq >= from /\ e.seq < to}
           left == Batched(all)
<1>1. Selected(s, from, to) = left
  BY DEF Selected
<1>2. /\ IsFiniteSet(entries) /\ entries \subseteq Entries /\ next[s] \in Nat /\ trim[s] \in Nat
      /\ \A e \in entries : e.pos # 0
  <2>1. entries = EntriesOf(logs)
    BY IndexIsExact DEF IndexExact
  <2>2. \A e \in entries : e.seg \in DOMAIN logs /\ e.pos \in DOMAIN logs[e.seg]
    BY <2>1, EntriesCover DEF Covers
  <2>3. \A e \in entries : e.pos # 0
    BY <2>2, SegType DEF StoreInv, FilesOK
  <2> QED  BY <2>3 DEF StoreInv, IndexOK, Loading, TypesB
<1>3. ASSUME NEW d \in entries, NEW e \in entries, d.stream = e.stream, d.seq = e.seq PROVE d = e
  <2>1. UniqueIn(DOMAIN logs)
    BY SettledAt DEF Settled, Quiet, StoreInv
  <2>2. entries = EntriesOf(logs)
    BY IndexIsExact DEF IndexExact
  <2>3. /\ d.seg \in DOMAIN logs /\ d.pos \in DOMAIN logs[d.seg] /\ d = EntryIn(logs, d.seg, d.pos)
        /\ e.seg \in DOMAIN logs /\ e.pos \in DOMAIN logs[e.seg] /\ e = EntryIn(logs, e.seg, e.pos)
    BY <2>2, EntriesCover DEF Covers
  <2>4. /\ d.stream = logs[d.seg][d.pos].stream /\ d.seq = logs[d.seg][d.pos].seq
        /\ e.stream = logs[e.seg][e.pos].stream /\ e.seq = logs[e.seg][e.pos].seq
    BY <2>3 DEF EntryIn
  <2>5. SameSeq(logs[d.seg][d.pos], logs[e.seg][e.pos])
    BY <1>3, <2>4 DEF SameSeq
  <2>6. logs[d.seg][d.pos] # Torn /\ logs[e.seg][e.pos] # Torn
    BY <2>3, NoTorn DEF StoreInv, Loading
  <2>7. d.seg = e.seg /\ d.pos = e.pos
    BY <2>1, <2>3, <2>5, <2>6 DEF UniqueIn
  <2> QED  BY <2>3, <2>7
<1>4. all \in SUBSET Entries /\ IsFiniteSet(all)
  <2>1. all \subseteq entries
    OBVIOUS
  <2> HIDE DEF all
  <2> QED  BY <1>2, <2>1, FS_Subset
<1>5. \A e \in all : e \in entries /\ e.stream = s /\ e.seq >= from /\ e.seq < to /\ e.seq \in Nat /\ e.pos # 0
  BY <1>2 DEF Entries
<1>6. ASSUME NEW q \in Nat, q >= from, q < to, ~(q < trim[s]) PROVE \E f \in all : f.seq = q
  <2>1. q # 0 /\ q < next[s] /\ q >= trim[s]
    BY <1>2, <1>6
  <2>2. PICK e \in entries : e.stream = s /\ e.seq = q
    BY <2>1, LiveIndexed
  <2> QED  BY <1>6, <2>2
<1> HIDE DEF all
<1>7. /\ left \subseteq all
      /\ left = {} => all = {}
      /\ \A e \in left, f \in all : f.seq <= e.seq => f \in left
  BY <1>4, BatchedIs
<1> HIDE DEF left
<1>8. left \in SUBSET {e \in Entries : e.pos # 0}
  BY <1>2, <1>5, <1>7
<1>9. \A e, f \in left : e.seq = f.seq => e = f
  BY <1>3, <1>5, <1>7
<1>10. ASSUME NEW e \in left
       PROVE  /\ e.seq >= from /\ e.seq < to
              /\ \A q \in from .. e.seq : q < trim[s] \/ \E f \in left : f.seq = q
  <2>1. e \in all /\ e.seq \in Nat /\ e.seq >= from /\ e.seq < to
    BY <1>5, <1>7
  <2>2. ASSUME NEW q \in from .. e.seq, ~(q < trim[s]) PROVE \E f \in left : f.seq = q
    <3>1. q \in Nat /\ q >= from /\ q < to /\ q <= e.seq
      BY <2>1
    <3>2. PICK f \in all : f.seq = q
      BY <1>6, <2>2, <3>1
    <3> QED  BY <1>7, <3>1, <3>2
  <2> QED  BY <2>1, <2>2
<1>11. left = {} => \A q \in from .. to - 1 : q < trim[s]
  <2> SUFFICES ASSUME left = {}, NEW q \in from .. to - 1, ~(q < trim[s]) PROVE FALSE
    OBVIOUS
  <2>1. q \in Nat /\ q >= from /\ q < to
    OBVIOUS
  <2> QED  BY <1>6, <1>7, <2>1
<1> QED  BY <1>1, <1>8, <1>9, <1>10, <1>11

\* A reader that takes a batch, or ends.
LEMMA ReadNextBatch ==
    ASSUME StoreInv, ReadInv, pc = "idle", NEW r \in Readers, NEW v \in ReaderStates, NextBatch(r, v),
           v.pc \in {"start", "batch"}, v.todo = {},
           v.stream \in Streams, v.lo # 0, v.lo <= v.from, v.to <= next[v.stream],
           \A i \in DOMAIN v.out : v.out[i].seq < v.from,
           \A i, j \in DOMAIN v.out : i < j => v.out[i].seq < v.out[j].seq,
           \A q \in v.lo .. v.from - 1 : q < trim[v.stream] \/ \E i \in DOMAIN v.out : v.out[i].seq = q,
           UNCHANGED <<disk, mem, pc>>
    PROVE  ReadInv'
<1> DEFINE left == Selected(v.stream, v.from, v.to)
           done == [v EXCEPT !.pc = "done", !.seg = 0, !.fd = <<>>]
           on == [v EXCEPT !.pc = ReadPC(left, v.seg), !.todo = left]
<1>1. rd' = [rd EXCEPT ![r] = IF left = {} THEN done ELSE on]
  BY DEF NextBatch
<1>2. v.from \in Nat /\ v.to \in Nat /\ v.lo \in Nat /\ v.from # 0
  BY DEF ReaderStates
<1>3. /\ left \in SUBSET {e \in Entries : e.pos # 0}
      /\ \A e, f \in left : e.seq = f.seq => e = f
      /\ \A e \in left : /\ e.seq >= v.from /\ e.seq < v.to
                         /\ \A q \in v.from .. e.seq : q < trim[v.stream] \/ \E f \in left : f.seq = q
      /\ left = {} => \A q \in v.from .. v.to - 1 : q < trim[v.stream]
  BY <1>2, SelectedIs
<1>4. pc \notin Loading
  BY DEF Loading
<1> HIDE DEF left
<1>5. CASE left = {}
  <2>1. <<>> \in Seq(Records \cup {Torn})
    OBVIOUS
  <2>2. done \in ReaderStates
    BY <2>1 DEF ReaderStates, ReaderPCs
  <2>3. /\ done.pc = "done" /\ done.todo = {} /\ done.stream = v.stream /\ done.lo = v.lo /\ done.from = v.from
        /\ done.to = v.to /\ done.out = v.out
    BY DEF ReaderStates
  <2> HIDE DEF done
  <2>4. ReaderOK(done)
    BY <1>3, <1>4, <1>5, <2>3 DEF ReaderOK
  <2>5. rd' = [rd EXCEPT ![r] = done]
    BY <1>1, <1>5
  <2> QED  BY <2>2, <2>4, <2>5, ReadOne
<1>6. CASE left # {}
  <2>1. ReadPC(left, v.seg) \in {"open", "read"}
    BY <1>6 DEF ReadPC
  <2>2. on \in ReaderStates
    BY <1>3, <2>1 DEF ReaderStates, ReaderPCs
  <2>3. /\ on.pc \in {"open", "read"} /\ on.todo = left /\ on.stream = v.stream /\ on.lo = v.lo /\ on.from = v.from
        /\ on.to = v.to /\ on.out = v.out
    BY <2>1 DEF ReaderStates
  <2> HIDE DEF on
  <2>4. ReaderOK(on)
    BY <1>3, <1>4, <1>6, <2>3 DEF ReaderOK
  <2>5. rd' = [rd EXCEPT ![r] = on]
    BY <1>1, <1>6
  <2> QED  BY <2>2, <2>4, <2>5, ReadOne
<1> QED  BY <1>5, <1>6

\* ReadRawEach takes its first batch, at the watermark.
LEMMA ReadStartInv ==
    ASSUME StoreInv, ReadInv, NEW r \in Readers, NEW s \in Streams, ReadStart(r, s)
    PROVE  ReadInv'
<1> DEFINE lo == Max({1, trim[s]})
           v == [rd[r] EXCEPT !.stream = s, !.lo = lo, !.from = lo, !.to = next[s]]
<1>1. pc = "idle" /\ rd[r].pc = "start" /\ NextBatch(r, v) /\ UNCHANGED <<disk, mem, pc>>
  BY DEF ReadStart
<1>2. rd[r] \in ReaderStates /\ rd[r].todo = {} /\ rd[r].out = <<>>
  BY <1>1 DEF ReadInv, ReaderOK
<1>3. trim[s] \in Nat /\ next[s] \in Nat
  BY DEF StoreInv, TypesB
<1>4. lo \in Nat /\ lo # 0
  <2>1. CASE trim[s] <= 1
    <3>1. IsTop({1, trim[s]}, 1) /\ {1, trim[s]} \in SUBSET Nat
      BY <1>3, <2>1 DEF IsTop
    <3>2. Max({1, trim[s]}) = 1
      BY <3>1, MaxIs
    <3> QED  BY <3>2
  <2>2. CASE ~(trim[s] <= 1)
    <3>1. IsTop({1, trim[s]}, trim[s]) /\ {1, trim[s]} \in SUBSET Nat
      BY <1>3, <2>2 DEF IsTop
    <3>2. Max({1, trim[s]}) = trim[s]
      BY <3>1, MaxIs
    <3> QED  BY <1>3, <2>2, <3>2
  <2> QED  BY <2>1, <2>2
<1> HIDE DEF lo
<1>5. v \in ReaderStates
  BY <1>2, <1>3, <1>4 DEF ReaderStates
<1>6. /\ v.pc = "start" /\ v.todo = {} /\ v.stream = s /\ v.lo = lo /\ v.from = lo /\ v.to = next[s] /\ v.out = <<>>
  BY <1>1, <1>2 DEF ReaderStates
<1> HIDE DEF v
<1>7. DOMAIN v.out = {} /\ lo <= lo /\ lo .. lo - 1 = {} /\ next[s] <= next[s]
  BY <1>3, <1>4, <1>6
<1> QED  BY <1>1, <1>4, <1>5, <1>6, <1>7, ReadNextBatch

\* ReadRawEach takes its next batch, above what it delivered.
LEMMA ReadBatchInv ==
    ASSUME StoreInv, ReadInv, NEW r \in Readers, ReadBatch(r)
    PROVE  ReadInv'
<1> DEFINE v == rd[r]
<1>1. pc = "idle" /\ v.pc = "batch" /\ NextBatch(r, v) /\ UNCHANGED <<disk, mem, pc>>
  BY DEF ReadBatch
<1>2. v \in ReaderStates /\ ReaderOK(v)
  BY DEF ReadInv
<1> HIDE DEF v
<1>3. /\ v.todo = {} /\ v.stream \in Streams /\ v.lo # 0 /\ v.lo <= v.from /\ v.to <= next[v.stream]
      /\ (\A i \in DOMAIN v.out : v.out[i].seq < v.from)
      /\ (\A i, j \in DOMAIN v.out : i < j => v.out[i].seq < v.out[j].seq)
      /\ \A q \in v.lo .. v.from - 1 : q < trim[v.stream] \/ \E i \in DOMAIN v.out : v.out[i].seq = q
  BY <1>1, <1>2 DEF ReaderOK
<1> QED  BY <1>1, <1>2, <1>3, ReadNextBatch

\* A segment is opened without mu.
LEMMA ReadOpenInv ==
    ASSUME StoreInv, ReadInv, NEW r \in Readers, ReadOpen(r)
    PROVE  ReadInv'
<1> DEFINE v == rd[r]
           g == FirstOf(v.todo).seg
           a == [v EXCEPT !.pc = "register", !.seg = 0, !.fd = logs[g]]
           b == [v EXCEPT !.pc = "failed", !.seg = 0, !.fd = <<>>]
<1>1. /\ v.pc = "open" /\ UNCHANGED <<disk, mem, pc>>
      /\ rd' = [rd EXCEPT ![r] = IF g \in DOMAIN logs THEN a ELSE b]
  BY DEF ReadOpen
<1>2. v \in ReaderStates /\ ReaderOK(v)
  BY DEF ReadInv
<1> HIDE DEF v, g
<1>3. CASE g \in DOMAIN logs
  <2>1. logs[g] \in Seq(Records \cup {Torn})
    BY <1>3, SegType DEF StoreInv, FilesOK
  <2>2. a \in ReaderStates
    BY <1>2, <2>1 DEF ReaderStates, ReaderPCs
  <2>3. /\ a.pc = "register" /\ a.todo = v.todo /\ a.stream = v.stream /\ a.lo = v.lo /\ a.from = v.from
        /\ a.to = v.to /\ a.out = v.out
    BY <1>2 DEF ReaderStates
  <2>4. rd' = [rd EXCEPT ![r] = a]
    BY <1>1, <1>3
  <2> HIDE DEF a
  <2>5. ReaderOK(a)
    BY <1>1, <1>2, <2>3 DEF ReaderOK
  <2> QED  BY <1>1, <2>2, <2>4, <2>5, ReadOne
<1>4. CASE g \notin DOMAIN logs
  <2>1. <<>> \in Seq(Records \cup {Torn})
    OBVIOUS
  <2>2. b \in ReaderStates /\ b.pc = "failed"
    BY <1>2, <2>1 DEF ReaderStates, ReaderPCs
  <2>3. rd' = [rd EXCEPT ![r] = b]
    BY <1>1, <1>4
  <2> HIDE DEF b
  <2>4. ReaderOK(b)
    BY <2>2 DEF ReaderOK
  <2> QED  BY <1>1, <2>2, <2>3, <2>4, ReadOne
<1> QED  BY <1>3, <1>4

\* The opened segment goes to the cache.
LEMMA ReadRegisterInv ==
    ASSUME StoreInv, ReadInv, NEW r \in Readers, ReadRegister(r)
    PROVE  ReadInv'
<1> DEFINE v == rd[r]
           g == FirstOf(v.todo).seg
           a == [v EXCEPT !.pc = "read", !.seg = g]
<1>1. v \in ReaderStates /\ ReaderOK(v)
  BY DEF ReadInv
<1>2. v.pc = "register" /\ UNCHANGED <<disk, mem, pc>> /\ rd' = [rd EXCEPT ![r].pc = "read", ![r].seg = g]
  BY DEF ReadRegister
<1>3. rd' = [rd EXCEPT ![r] = a]
  BY <1>1, <1>2 DEF ReadInv
<1>4. g \in Nat
  <2>1. v.todo # {} /\ v.todo \in SUBSET Entries
    BY <1>1, <1>2 DEF ReaderOK, ReaderStates
  <2>2. FirstOf(v.todo) \in Entries
    BY <2>1, FirstIs
  <2> QED  BY <2>2, LogAssumption DEF Entries, Segs
<1> HIDE DEF v, g
<1>5. a \in ReaderStates
  BY <1>1, <1>4 DEF ReaderStates, ReaderPCs
<1>6. /\ a.pc = "read" /\ a.todo = v.todo /\ a.stream = v.stream /\ a.lo = v.lo /\ a.from = v.from
      /\ a.to = v.to /\ a.out = v.out
  BY <1>1 DEF ReaderStates
<1> HIDE DEF a
<1>7. ReaderOK(a)
  BY <1>1, <1>2, <1>6 DEF ReaderOK
<1> QED  BY <1>2, <1>3, <1>5, <1>7, ReadOne

\* The record that is delivered is the next live one.
LEMMA ReadRecordInv ==
    ASSUME StoreInv, ReadInv, NEW r \in Readers, ReadRecord(r)
    PROVE  ReadInv'
<1> DEFINE v == rd[r]
           e == FirstOf(v.todo)
           x == v.fd[e.pos]
           left == v.todo \ {e}
           ok == /\ e.pos <= Len(v.fd) /\ x # Torn /\ x.stream = e.stream /\ x.seq = e.seq
           a == [v EXCEPT !.pc = ReadPC(left, v.seg), !.todo = left,
                          !.from = e.seq + 1, !.out = Append(v.out, x)]
           b == [v EXCEPT !.pc = "failed", !.seg = 0, !.fd = <<>>]
<1>1. v \in ReaderStates /\ ReaderOK(v)
  BY DEF ReadInv
<1>2. v.pc = "read" /\ UNCHANGED <<disk, mem, pc>> /\ rd' = [rd EXCEPT ![r] = IF ok THEN a ELSE b]
  BY DEF ReadRecord
<1>3. CASE ~ok
  <2>1. <<>> \in Seq(Records \cup {Torn})
    OBVIOUS
  <2>2. rd' = [rd EXCEPT ![r] = b]
    BY <1>2, <1>3
  <2> HIDE DEF v
  <2>3. b \in ReaderStates /\ b.pc = "failed"
    BY <1>1, <2>1 DEF ReaderStates, ReaderPCs
  <2> HIDE DEF b
  <2>4. ReaderOK(b)
    BY <2>3 DEF ReaderOK
  <2> QED  BY <1>2, <2>2, <2>3, <2>4, ReadOne
<1>4. CASE ok
  <2>1. rd' = [rd EXCEPT ![r] = a]
    BY <1>2, <1>4
  <2>2. v.todo \in SUBSET {f \in Entries : f.pos # 0} /\ v.todo # {}
    BY <1>1, <1>2 DEF ReaderStates, ReaderOK
  <2>3. e \in v.todo /\ \A f \in v.todo : e.seq <= f.seq
    BY <2>2, FirstIs
  <2>4. e.seq \in Nat /\ e.pos \in Nat /\ e.pos # 0 /\ \A f \in v.todo : f.seq \in Nat
    BY <2>2, <2>3 DEF Entries
  <2>5. v.fd \in Seq(Records \cup {Torn}) /\ v.out \in Seq(Records) /\ v.lo \in Nat /\ v.from \in Nat /\ v.to \in Nat
    BY <1>1 DEF ReaderStates
  <2>6. x \in Records /\ x.seq = e.seq
    <3>1. x \in Records \cup {Torn}
      BY <1>4, <2>4, <2>5
    <3> QED  BY <1>4, <3>1
  <2> HIDE DEF v, e, x, left, ok
  <2>7. left \in SUBSET {f \in Entries : f.pos # 0}
    BY <2>2 DEF left
  <2>8. ReadPC(left, v.seg) \in {"batch", "open", "read"} /\ (ReadPC(left, v.seg) = "batch" <=> left = {})
    BY DEF ReadPC
  <2>9. Append(v.out, x) \in Seq(Records)
    BY <2>5, <2>6
  <2>10. a \in ReaderStates
    <3>1. e.seq + 1 \in Nat /\ ReadPC(left, v.seg) \in ReaderPCs
      BY <2>4, <2>8 DEF ReaderPCs
    <3> DEFINE p == ReadPC(left, v.seg)
               m == e.seq + 1
               o == Append(v.out, x)
    <3> HIDE DEF p, m, o
    <3>2. [v EXCEPT !.pc = p, !.todo = left, !.from = m, !.out = o] \in ReaderStates
      BY <1>1, <2>7, <2>9, <3>1 DEF ReaderStates, p, m, o
    <3> QED  BY <3>2 DEF p, m, o
  <2>11. /\ a.pc = ReadPC(left, v.seg) /\ a.todo = left /\ a.stream = v.stream /\ a.lo = v.lo
         /\ a.from = e.seq + 1 /\ a.to = v.to /\ a.out = Append(v.out, x)
    BY <1>1 DEF ReaderStates
  <2> HIDE DEF a
  <2>12. /\ v.stream \in Streams /\ v.lo # 0 /\ v.lo <= v.from /\ v.to <= next[v.stream] /\ pc \notin Loading
         /\ (\A i \in DOMAIN v.out : v.out[i].seq < v.from)
         /\ (\A i, j \in DOMAIN v.out : i < j => v.out[i].seq < v.out[j].seq)
         /\ (\A q \in v.lo .. v.from - 1 : q < trim[v.stream] \/ \E i \in DOMAIN v.out : v.out[i].seq = q)
         /\ (\A d, f \in v.todo : d.seq = f.seq => d = f)
         /\ \A d \in v.todo : /\ d.seq >= v.from /\ d.seq < v.to
                              /\ \A q \in v.from .. d.seq : q < trim[v.stream] \/ \E f \in v.todo : f.seq = q
    BY <1>1, <1>2 DEF ReaderOK
  <2>13. e.seq >= v.from /\ e.seq < v.to
    BY <2>3, <2>12
  <2> DEFINE n == Len(v.out)
             out == Append(v.out, x)
  <2>14. /\ n \in Nat /\ DOMAIN v.out = 1 .. n /\ DOMAIN out = 1 .. n + 1 /\ out[n + 1] = x
         /\ \A i \in 1 .. n : out[i] = v.out[i] /\ v.out[i].seq \in Nat
    <3>1. n \in Nat /\ DOMAIN v.out = 1 .. n /\ \A i \in 1 .. n : v.out[i] \in Records
      BY <2>5
    <3>2. DOMAIN out = 1 .. n + 1 /\ out[n + 1] = x /\ \A i \in 1 .. n : out[i] = v.out[i]
      BY <2>5, <2>6
    <3>3. \A i \in 1 .. n : v.out[i].seq \in Nat
      BY <3>1 DEF Records
    <3> QED  BY <3>1, <3>2, <3>3
  <2> HIDE DEF n, out
  <2>15. \A i \in DOMAIN out : i \in DOMAIN v.out \/ i = n + 1
    BY <2>14
  <2>16. \A i \in DOMAIN v.out : out[i].seq < e.seq /\ out[i].seq \in Nat /\ i \in DOMAIN out
    <3> SUFFICES ASSUME NEW i \in DOMAIN v.out PROVE out[i].seq < e.seq /\ out[i].seq \in Nat /\ i \in DOMAIN out
      OBVIOUS
    <3>1. v.out[i].seq < v.from /\ out[i] = v.out[i] /\ v.out[i].seq \in Nat /\ i \in DOMAIN out
      BY <2>12, <2>14
    <3>2. \A k, l, m \in Nat : k < l /\ m >= l => k < m
      OBVIOUS
    <3>3. v.from \in Nat /\ e.seq \in Nat
      BY <2>4, <2>5
    <3>4. v.out[i].seq < e.seq
      BY <2>13, <3>1, <3>2, <3>3
    <3> QED  BY <3>1, <3>4
  <2>17. \A i \in DOMAIN out : out[i].seq < e.seq + 1
    BY <2>4, <2>6, <2>14, <2>15, <2>16
  <2>18. \A i, j \in DOMAIN out : i < j => out[i].seq < out[j].seq
    <3> SUFFICES ASSUME NEW i \in DOMAIN out, NEW j \in DOMAIN out, i < j PROVE out[i].seq < out[j].seq
      OBVIOUS
    <3>1. i \in DOMAIN v.out
      BY <2>14
    <3>2. CASE j \in DOMAIN v.out
      BY <2>12, <2>14, <3>1, <3>2
    <3>3. CASE j = n + 1
      BY <2>6, <2>14, <2>16, <3>1, <3>3
    <3> QED  BY <2>15, <3>2, <3>3
  <2>19. \A q \in v.lo .. e.seq : q < trim[v.stream] \/ \E i \in DOMAIN out : out[i].seq = q
    <3> SUFFICES ASSUME NEW q \in v.lo .. e.seq PROVE q < trim[v.stream] \/ \E i \in DOMAIN out : out[i].seq = q
      OBVIOUS
    <3>1. q \in Nat /\ v.lo <= q /\ q <= e.seq
      BY <2>4, <2>5
    <3>2. CASE q < v.from
      <4>1. q \in v.lo .. v.from - 1
        BY <2>5, <3>1, <3>2
      <4>2. q < trim[v.stream] \/ \E i \in DOMAIN v.out : v.out[i].seq = q
        BY <2>12, <4>1
      <4> QED  BY <2>14, <2>16, <4>2
    <3>3. CASE ~(q < v.from)
      <4>1. q \in v.from .. e.seq
        BY <2>4, <2>5, <3>1, <3>3
      <4>2. q < trim[v.stream] \/ \E f \in v.todo : f.seq = q
        BY <2>3, <2>12, <4>1
      <4>3. ASSUME NEW f \in v.todo, f.seq = q PROVE \E i \in DOMAIN out : out[i].seq = q
        <5>1. q = e.seq
          BY <2>3, <2>4, <3>1, <4>3
        <5>2. n + 1 \in DOMAIN out
          BY <2>14
        <5> QED  BY <2>6, <2>14, <5>1, <5>2
      <4> QED  BY <4>2, <4>3
    <3> QED  BY <3>2, <3>3
  <2>20. ASSUME NEW d \in left
         PROVE  /\ d.seq >= e.seq + 1 /\ d.seq < v.to
                /\ \A q \in e.seq + 1 .. d.seq : q < trim[v.stream] \/ \E f \in left : f.seq = q
    <3>1. d \in v.todo /\ d # e /\ d.seq \in Nat /\ d.seq < v.to /\ d.seq # e.seq
      BY <2>3, <2>4, <2>12 DEF left
    <3>2. d.seq >= e.seq + 1
      BY <2>3, <2>4, <3>1
    <3>3. ASSUME NEW q \in e.seq + 1 .. d.seq PROVE q < trim[v.stream] \/ \E f \in left : f.seq = q
      <4>1. q \in v.from .. d.seq /\ q # e.seq
        BY <2>4, <2>5, <2>13, <3>1
      <4>2. q < trim[v.stream] \/ \E f \in v.todo : f.seq = q
        BY <2>12, <3>1, <4>1
      <4> QED  BY <4>1, <4>2 DEF left
    <3> QED  BY <3>1, <3>2, <3>3
  <2>21. \A d, f \in left : d.seq = f.seq => d = f
    BY <2>12 DEF left
  <2>22. v.lo <= e.seq + 1 /\ (e.seq + 1) - 1 = e.seq
    BY <2>4, <2>5, <2>12, <2>13
  <2>23. ReaderOK(a)
    <3>1. a.out = out /\ a.from - 1 = e.seq
      BY <2>11, <2>22 DEF out
    <3> QED  BY <2>8, <2>11, <2>12, <2>17, <2>18, <2>19, <2>20, <2>21, <2>22, <3>1 DEF ReaderOK
  <2> QED  BY <1>2, <2>1, <2>10, <2>23, ReadOne
<1> QED  BY <1>3, <1>4

\* While the Store is open, next numbers and watermarks only grow.
LEMMA OnlyGrow ==
    ASSUME StoreInv,
           \/ \E s \in Streams : Trim(s)
           \/ \E s \in Streams, k \in Keys : AppendDuplicate(s, k)
           \/ \E s \in Streams, k \in Keys \cup {NoKey} : AppendStart(s, k)
           \/ AppendStep \/ CompactPlan \/ CompactStep \/ OpenStep
    PROVE  /\ rd' = rd
           /\ pc \notin Loading => /\ pc' \notin Loading
                                   /\ \A s \in Streams : next[s] <= next'[s] /\ trim[s] <= trim'[s]
<1> DEFINE Grow == /\ rd' = rd
                   /\ pc \notin Loading =>
                         /\ pc' \notin Loading
                         /\ \A s \in Streams : next[s] <= next'[s] /\ trim[s] <= trim'[s]
<1>1. \A s \in Streams : next[s] \in Nat /\ trim[s] \in Nat /\ next[s] <= next[s] /\ trim[s] <= trim[s]
  BY DEF StoreInv, TypesB
<1>2. ASSUME rd' = rd, pc \notin Loading => pc' \notin Loading /\ next' = next /\ trim' = trim PROVE Grow
  BY <1>1, <1>2
<1> SUFFICES Grow
  OBVIOUS
<1> HIDE DEF Grow
<1>3. ASSUME NEW s \in Streams, Trim(s) PROVE Grow
  <2>1. pc' = pc /\ rd' = rd /\ next' = next
    BY <1>3 DEF Trim
  <2>2. PICK b \in 1 .. next[s] : b > trim[s] /\ trim' = [trim EXCEPT ![s] = b]
    BY <1>3 DEF Trim
  <2>3. trim \in [Streams -> Nat]
    BY DEF StoreInv, TypesB
  <2>4. \A u \in Streams : trim[u] <= trim'[u]
    BY <1>1, <2>2, <2>3
  <2> QED  BY <1>1, <2>1, <2>4 DEF Grow
<1>4. ASSUME NEW s \in Streams, NEW k \in Keys, AppendDuplicate(s, k) PROVE Grow
  BY <1>2, <1>4 DEF AppendDuplicate, mem
<1>5. ASSUME NEW s \in Streams, NEW k \in Keys \cup {NoKey}, AppendStart(s, k) PROVE Grow
  BY <1>2, <1>5 DEF AppendStart, mem, Loading
<1>6. CASE AppendRoll \/ AppendRollIndex \/ AppendWrite
  BY <1>2, <1>6 DEF AppendRoll, AppendRollIndex, AppendWrite, mem, Loading
<1>7. CASE AppendCommit
  <2>1. pc = "written" /\ pc' = "idle" /\ rd' = rd /\ trim' = trim /\ next' = [next EXCEPT ![pend.stream] = pend.seq + 1]
    BY <1>7 DEF AppendCommit
  <2>2. pend \in Records /\ pend.seq = next[pend.stream] /\ next \in [Streams -> Nat]
    BY <2>1 DEF StoreInv, TypesB, Numbers, Appending, Writing
  <2>3. \A s \in Streams : next[s] <= next'[s]
    BY <1>1, <2>1, <2>2
  <2> QED  BY <1>1, <2>1, <2>3 DEF Grow, Loading
<1>8. CASE CompactPlan \/ CompactDelete \/ CompactDeleted
  BY <1>2, <1>8 DEF CompactPlan, CompactDelete, CompactDeleted, mem, Loading
<1>9. CASE CompactCopy \/ CompactCopyIndex \/ CompactRenameLog \/ CompactRenameIndex
  BY <1>2, <1>9 DEF CompactCopy, CompactCopyIndex, CompactRenameLog, CompactRenameIndex, mem, Loading
<1>10. CASE CompactSwitch \/ CompactRemove \/ CompactFinish
  BY <1>2, <1>10 DEF CompactSwitch, CompactRemove, CompactFinish, mem, Loading
<1>11. CASE Open
  BY <1>2, <1>11 DEF Open, Loading
<1>12. CASE ReconcileCopy
  BY <1>2, <1>12 DEF ReconcileCopy, Loading
<1>13. CASE ReconcileDelete
  BY <1>2, <1>13 DEF ReconcileDelete, Loading
<1>14. CASE OpenFromIndex
  BY <1>2, <1>14 DEF OpenFromIndex, Loading
<1>15. CASE OpenScan
  BY <1>2, <1>15 DEF OpenScan, Loading
<1>16. CASE OpenReindex
  BY <1>2, <1>16 DEF OpenReindex, mem, Loading
<1> QED  BY <1>3, <1>4, <1>5, <1>6, <1>7, <1>8, <1>9, <1>10, <1>11, <1>12, <1>13, <1>14, <1>15, <1>16
         DEF AppendStep, CompactStep, OpenStep

\* A step keeps the invariant of the readers: a crash or Close ends them.
LEMMA ReadersStep ==
    ASSUME StoreInv, StoreInv', ReadInv, CalmNext
    PROVE  ReadInv'
<1>1. CASE Close \/ Crash
  <2>1. rd' = [r \in Readers |-> IdleReader]
    BY <1>1 DEF Close, Crash, Stop, Closed
  <2>2. IdleReader \in ReaderStates /\ IdleReader.pc = "start" /\ IdleReader.todo = {} /\ IdleReader.out = <<>>
    <3>1. <<>> \in Seq(Records \cup {Torn}) /\ <<>> \in Seq(Records)
      OBVIOUS
    <3> QED  BY <3>1 DEF IdleReader, ReaderStates, ReaderPCs, NoRecord
  <2>3. rd' \in [Readers -> ReaderStates]
    BY <2>1, <2>2
  <2>4. \A r \in Readers : ReaderOK(rd[r])'
    BY <2>1, <2>2 DEF ReaderOK
  <2> QED  BY <2>3, <2>4 DEF ReadInv
<1>2. ASSUME NEW r \in Readers, ReadStep(r) PROVE ReadInv'
  BY <1>2, ReadStartInv, ReadBatchInv, ReadOpenInv, ReadRegisterInv, ReadRecordInv DEF ReadStep
<1>3. CASE \/ \E s \in Streams : Trim(s)
           \/ \E s \in Streams, k \in Keys : AppendDuplicate(s, k)
           \/ \E s \in Streams, k \in Keys \cup {NoKey} : AppendStart(s, k)
           \/ AppendStep \/ CompactPlan \/ CompactStep \/ OpenStep
  <2>1. /\ rd' = rd
        /\ pc \notin Loading => /\ pc' \notin Loading
                                /\ \A s \in Streams : next[s] <= next'[s] /\ trim[s] <= trim'[s]
    BY <1>3, OnlyGrow
  <2>2. TypesB /\ TypesB'
    BY DEF StoreInv
  <2> QED  BY <2>1, <2>2, ReadFrame
<1> QED  BY <1>1, <1>2, <1>3 DEF CalmNext, Next

\* A stuttering step changes nothing.
LEMMA Stutter ==
    ASSUME StoreInv, ReadInv, UNCHANGED vars
    PROVE  StoreInv' /\ ReadInv' /\ Same
<1>1. UNCHANGED <<disk, mem, pc, pend, todo, rd, acked, bounds>>
  BY DEF vars
<1>2. FilesOK'
  BY <1>1, FilesFrame DEF StoreInv
<1>3. TypesB'
  BY <1>1 DEF StoreInv, TypesB, mem, bounds
<1>4. MemOK'
  BY <1>1, <1>3, MemFrame DEF StoreInv, MemOK
<1>5. /\ logs' = logs /\ ret' = ret /\ active' = active /\ size' = size /\ next' = next /\ trim' = trim
      /\ pc' = pc /\ pend' = pend /\ acked' = acked /\ rd' = rd
  BY <1>1 DEF disk, mem
<1>6. Same
  BY <1>5 DEF Same, Stored
<1>7. NoGap' /\ AckedStored' /\ \A s \in Streams : Given(s)' = Given(s)
  BY <1>5, <1>6, AbsSame DEF StoreInv, AbsOK
<1>8. Numbers'
  BY <1>5, <1>6, <1>7 DEF StoreInv, Numbers, Same, SameKey
<1>9. ReadInv'
  <2>1. \A s \in Streams : next[s] <= next'[s] /\ trim[s] <= trim'[s]
    BY <1>5 DEF StoreInv, TypesB
  <2> QED  BY <1>3, <1>5, <2>1, ReadFrame DEF StoreInv
<1> QED  BY <1>2, <1>4, <1>6, <1>7, <1>8, <1>9 DEF StoreInv, MemOK

\* A reader that ended delivered every live record of its range.
LEMMA ReadIsComplete ==
    ASSUME ReadInv
    PROVE  ReadComplete
<1> SUFFICES ASSUME NEW r \in Readers, rd[r].pc = "done"
             PROVE  /\ \A i, j \in DOMAIN rd[r].out : i < j => rd[r].out[i].seq < rd[r].out[j].seq
                    /\ \A q \in rd[r].lo .. rd[r].to - 1 :
                          q < trim[rd[r].stream] \/ \E i \in DOMAIN rd[r].out : rd[r].out[i].seq = q
  BY DEF ReadComplete
<1> DEFINE v == rd[r]
<1>1. v \in ReaderStates /\ ReaderOK(v) /\ v.pc = "done"
  BY DEF ReadInv
<1> HIDE DEF v
<1>2. /\ (\A i, j \in DOMAIN v.out : i < j => v.out[i].seq < v.out[j].seq)
      /\ (\A q \in v.lo .. v.from - 1 : q < trim[v.stream] \/ \E i \in DOMAIN v.out : v.out[i].seq = q)
      /\ \A q \in v.from .. v.to - 1 : q < trim[v.stream]
  BY <1>1 DEF ReaderOK
<1>3. v.lo \in Nat /\ v.from \in Nat /\ v.to \in Nat
  BY <1>1 DEF ReaderStates
<1>4. \A q \in v.lo .. v.to - 1 : q \in v.lo .. v.from - 1 \/ q \in v.from .. v.to - 1
  BY <1>3
<1>5. /\ \A i, j \in DOMAIN v.out : i < j => v.out[i].seq < v.out[j].seq
      /\ \A q \in v.lo .. v.to - 1 : q < trim[v.stream] \/ \E i \in DOMAIN v.out : v.out[i].seq = q
  BY <1>2, <1>4
<1> QED  BY <1>5 DEF v

-----------------------------------------------------------------------------
\* The inductive invariant, of every reachable state.
LEMMA CalmInv == CalmSpec => [](StoreInv /\ ReadInv)
<1>1. Init => StoreInv /\ ReadInv
  BY InitInv
<1>2. StoreInv /\ ReadInv /\ [CalmNext]_vars => StoreInv' /\ ReadInv'
  BY StoreStep, ReadersStep, Stutter
<1> QED  BY <1>1, <1>2, PTL DEF CalmSpec

\* The type invariant: every variable of the Store holds a value of its kind, in files, memory
\* and history alike.
THEOREM LogTypes == CalmSpec => []TypeOK
<1>1. StoreInv => TypeOK
  <2> SUFFICES ASSUME StoreInv PROVE TypeOK
    OBVIOUS
  <2>1. TypesA /\ TypesB
    BY DEF StoreInv, FilesOK
  <2>2. \A g \in DOMAIN logs : ToSet(logs[g]) \subseteq Records \cup {Torn}
    BY <2>1, SegType DEF ToSet
  <2>3. \A g \in DOMAIN tmpLog : ToSet(tmpLog[g]) \subseteq Records
    <3> SUFFICES ASSUME NEW g \in DOMAIN tmpLog PROVE ToSet(tmpLog[g]) \subseteq Records
      OBVIOUS
    <3>1. tmpLog[g] \in Seq(Records)
      BY <2>1 DEF TypesA
    <3> QED  BY <3>1 DEF ToSet
  <2>4. DOMAIN idx \subseteq Segs
    BY <2>1 DEF TypesA
  <2> QED  BY <2>1, <2>2, <2>3, <2>4 DEF TypesA, TypesB, TypeOK
<1> QED  BY <1>1, CalmInv, PTL

\* Append returned => the record is on disk until it is trimmed, whatever crashes, compactions
\* and reopenings come between.
THEOREM LogAcked == CalmSpec => []AckedStored
<1>1. StoreInv => AckedStored
  BY DEF StoreInv
<1> QED  BY <1>1, CalmInv, PTL

\* Whenever mu is free, the index and the idempotency map are what the segment files give:
\* no entry is stale after a compaction, none missing after recovery.
THEOREM LogIndexed == CalmSpec => []IndexExact
<1>1. StoreInv => IndexExact
  BY IndexIsExact
<1> QED  BY <1>1, CalmInv, PTL

\* A ReadRawEach that ends has delivered every live record of its range once and in order, although segments are
\* opened without mu and compaction moves the records meanwhile.
THEOREM LogRead == CalmSpec => []ReadComplete
<1>1. ReadInv => ReadComplete
  BY ReadIsComplete
<1> QED  BY <1>1, CalmInv, PTL

\* The Store implements SharedLog: appends, trims and drops of trimmed records are all that its
\* callers can tell, crashes and recoveries included.
THEOREM LogRefines == CalmSpec => ImplementsSharedLog
<1>1. Init => Log!Init
  BY RefineInit
<1>2. StoreInv /\ ReadInv /\ StoreInv' /\ [CalmNext]_vars => [Log!Next]_(Log!vars)
  <2> SUFFICES ASSUME StoreInv, ReadInv, StoreInv', [CalmNext]_vars PROVE [Log!Next]_(Log!vars)
    OBVIOUS
  <2>1. LogStep
    BY StoreStep, Stutter DEF LogStep
  <2> QED  BY <2>1, RefineStep
<1>3. CalmSpec => Log!Init /\ [][Log!Next]_(Log!vars)
  BY <1>1, <1>2, CalmInv, PTL DEF CalmSpec
<1> QED  BY <1>3 DEF ImplementsSharedLog, Log!Spec

\* A Store that does not copy segments has no crash inside the copying.
LEMMA NoCopySpec ==
    ASSUME ~CopyPartial
    PROVE  Spec => CalmSpec
<1> DEFINE NoCopy == manifest.copies = {}
<1>1. Init => NoCopy
  BY DEF Init
<1>2. NoCopy /\ [Next]_vars => NoCopy'
  <2> SUFFICES ASSUME NoCopy, [Next]_vars PROVE NoCopy'
    OBVIOUS
  <2>1. PlannedCopies = {}
    BY DEF PlannedCopies, Sparse
  <2>2. manifest' = manifest \/ manifest' = [del |-> FullyTrimmed, copies |-> PlannedCopies]
    <3>1. CASE UNCHANGED vars
      BY <3>1 DEF vars, disk
    <3>2. ASSUME NEW s \in Streams, Trim(s) PROVE manifest' = manifest
      BY <3>2 DEF Trim
    <3>3. ASSUME NEW s \in Streams, NEW k, AppendDuplicate(s, k) \/ AppendStart(s, k) PROVE manifest' = manifest
      BY <3>3 DEF AppendDuplicate, AppendStart, disk
    <3>4. CASE AppendStep
      BY <3>4 DEF AppendStep, AppendRoll, AppendRollIndex, AppendWrite, AppendCommit, disk
    <3>5. CASE CompactPlan
      BY <3>5 DEF CompactPlan
    <3>6. ASSUME CompactDelete \/ CompactDeleted \/ CompactCopy \/ CompactCopyIndex PROVE manifest' = manifest
      BY <3>6 DEF CompactDelete, CompactDeleted, CompactCopy, CompactCopyIndex, disk
    <3>7. ASSUME CompactRenameLog \/ CompactRenameIndex \/ CompactSwitch \/ CompactRemove \/ CompactFinish
          PROVE  manifest' = manifest
      BY <3>7 DEF CompactRenameLog, CompactRenameIndex, CompactSwitch, CompactRemove, CompactFinish, disk
    <3>8. ASSUME ReconcileCopy PROVE manifest' = manifest
      BY <3>8 DEF ReconcileCopy
    <3>9. ASSUME Open \/ ReconcileDelete \/ OpenFromIndex \/ OpenScan \/ OpenReindex PROVE manifest' = manifest
      BY <3>9 DEF Open, ReconcileDelete, OpenFromIndex, OpenScan, OpenReindex, disk
    <3>10. ASSUME Close \/ Crash PROVE manifest' = manifest
      BY <3>10 DEF Close, Crash, disk
    <3>11. ASSUME NEW r \in Readers, ReadStep(r) PROVE manifest' = manifest
      <4>1. ASSUME NEW s \in Streams, ReadStart(r, s) PROVE manifest' = manifest
        BY <4>1 DEF ReadStart, disk
      <4>2. ASSUME ReadBatch(r) PROVE manifest' = manifest
        BY <4>2 DEF ReadBatch, disk
      <4>3. ASSUME ReadOpen(r) PROVE manifest' = manifest
        BY <4>3 DEF ReadOpen, disk
      <4>4. ASSUME ReadRegister(r) PROVE manifest' = manifest
        BY <4>4 DEF ReadRegister, disk
      <4>5. ASSUME ReadRecord(r) PROVE manifest' = manifest
        BY <4>5 DEF ReadRecord, disk
      <4> QED  BY <3>11, <4>1, <4>2, <4>3, <4>4, <4>5 DEF ReadStep
    <3> QED  BY <3>1, <3>2, <3>3, <3>4, <3>5, <3>6, <3>7, <3>8, <3>9, <3>10, <3>11
             DEF Next, CompactStep, OpenStep
  <2> QED  BY <2>1, <2>2
<1>3. NoCopy /\ [Next]_vars => [CalmNext]_vars
  BY DEF CalmNext, MidCopy
<1> QED  BY <1>1, <1>2, <1>3, PTL DEF Spec, CalmSpec

\* With CopyPartialSegments off, all of it holds of the Store as it is, a crash at any step
\* included.
THEOREM LogWithoutCopies ==
    ASSUME ~CopyPartial
    PROVE  Spec => /\ [](AckedStored /\ IndexExact /\ ReadComplete)
                   /\ ImplementsSharedLog
<1>1. Spec => CalmSpec
  BY NoCopySpec
<1> QED  BY <1>1, LogAcked, LogIndexed, LogRead, LogRefines, PTL

-----------------------------------------------------------------------------
(* The records of a segment.  A record that stands in the file is read as  *)
(* it was written (ReadWritten), whichever decoder reads it and in however *)
(* many chunks (AgreeAnywhere, ChunksWhole), and what a crash leaves of    *)
(* one is not read (ReadDamaged).  CodecInv says where the records stand   *)
(* and how far a scan has come; it has one lemma per action.               *)

\* The records an encoder can be given.
Types == {f.typ : f \in Formats}
Recs == {r \in [version : {1, 2}, typ : Types, lens : BodyLens, seq : Nat] : r.version = 1 => r.typ = "ieee"}

\* The cells of a file.
ByteCells == [c : {"byte"}, seq : Nat, i : Nat]
BaseCells == [c : {"base"}, magic : {TRUE}, version : {1, 2}, lens : BodyLens]
SumCells == [c : {"sum"}, seq : Nat, crc : Seq(ByteCells)]
ExtCells == [c : {"ext"}, typ : Types]
AnyCell == BaseCells \cup SumCells \cup ExtCells \cup ByteCells \cup {Zero}

\* Where the body of a record begins.
HeaderOf(r) == IF r.version = 2 THEN HeaderSize ELSE LegacyHeaderSize

\* The lengths of a body add up to a number.
LEMMA LensAdd ==
    ASSUME NEW l \in BodyLens
    PROVE  l[1] + l[2] + l[3] + l[4] \in Nat
<1>1. l \in [1..4 -> Nat]
  BY CodecAssumption
<1>2. l[1] \in Nat /\ l[2] \in Nat /\ l[3] \in Nat /\ l[4] \in Nat
  BY <1>1
<1> QED  BY <1>2

\* What the cells are.
LEMMA CellKinds ==
    ASSUME NEW x \in AnyCell
    PROVE  /\ x.c = "base" => x \in BaseCells
           /\ x.c = "sum" => x \in SumCells
           /\ x.c = "ext" => x \in ExtCells
<1>1. x \in BaseCells => x.c = "base"
  BY DEF BaseCells
<1>2. x \in SumCells => x.c = "sum"
  BY DEF SumCells
<1>3. x \in ExtCells => x.c = "ext"
  BY DEF ExtCells
<1>4. x \in ByteCells => x.c = "byte"
  BY DEF ByteCells
<1>5. x = Zero => x.c = "zero"
  BY DEF Zero
<1> QED  BY <1>1, <1>2, <1>3, <1>4, <1>5 DEF AnyCell

\* The cells of an encoded record, one by one.
LEMMA EncodeFacts ==
    ASSUME NEW r \in Recs
    PROVE  LET e == encodeRecordWithBuffer(r)
           IN  /\ BodyLen(r) \in Nat /\ BodyOf(r) \in Seq(ByteCells) /\ Len(BodyOf(r)) = BodyLen(r)
               /\ e \in Seq(AnyCell) /\ Len(e) = HeaderOf(r) + BodyLen(r)
               /\ e[1] = [c |-> "base", magic |-> TRUE, version |-> r.version, lens |-> r.lens]
               /\ e[2] = [c |-> "sum", seq |-> r.seq, crc |-> Checksum(BodyOf(r), r.typ)]
               /\ r.version = 2 => e[3] = [c |-> "ext", typ |-> r.typ]
               /\ \A i \in 1 .. BodyLen(r) : e[HeaderOf(r) + i] = BodyOf(r)[i]
<1> DEFINE b == BodyOf(r)
           n == BodyLen(r)
           base == [c |-> "base", magic |-> TRUE, version |-> r.version, lens |-> r.lens]
           sum == [c |-> "sum", seq |-> r.seq, crc |-> Checksum(BodyOf(r), r.typ)]
           ext == [c |-> "ext", typ |-> r.typ]
           h == <<base, sum>>
           x == IF r.version = 2 THEN <<ext>> ELSE <<>>
<1>1. r.lens \in BodyLens /\ r.seq \in Nat /\ r.version \in {1, 2} /\ r.typ \in Types
  BY DEF Recs
<1>2. n \in Nat
  BY <1>1, LensAdd DEF BodyLen
<1>3. b \in Seq(ByteCells) /\ Len(b) = n
  <2>1. \A i \in 1 .. n : [c |-> "byte", seq |-> r.seq, i |-> i] \in ByteCells
    BY <1>1, <1>2 DEF ByteCells
  <2>2. b = [i \in 1 .. n |-> [c |-> "byte", seq |-> r.seq, i |-> i]]
    BY DEF BodyOf
  <2> HIDE DEF b, n
  <2> QED  BY <1>2, <2>1, <2>2
<1>4. b \in Seq(AnyCell)
  <2>1. ByteCells \subseteq AnyCell
    BY DEF AnyCell
  <2> HIDE DEF b
  <2> QED  BY <1>3, <2>1, SeqMonotonic
<1>5. base \in AnyCell /\ ext \in AnyCell
  BY <1>1 DEF AnyCell, BaseCells, ExtCells
<1>6. sum \in AnyCell
  <2>1. Checksum(BodyOf(r), r.typ) \in Seq(ByteCells)
    BY <1>3, EmptySeq DEF Checksum
  <2> HIDE DEF b
  <2> QED  BY <1>1, <2>1 DEF AnyCell, SumCells
<1>7. encodeRecordWithBuffer(r) = (h \o x) \o b
  BY DEF encodeRecordWithBuffer
<1> HIDE DEF b, n, base, sum, ext
<1>8. /\ h \in Seq(AnyCell) /\ Len(h) = 2 /\ h[1] = base /\ h[2] = sum
      /\ x \in Seq(AnyCell) /\ Len(x) = (IF r.version = 2 THEN 1 ELSE 0) /\ (r.version = 2 => x[1] = ext)
  BY <1>1, <1>5, <1>6
<1> HIDE DEF h, x
<1>9. /\ h \o x \in Seq(AnyCell) /\ Len(h \o x) = HeaderOf(r)
      /\ (h \o x)[1] = base /\ (h \o x)[2] = sum /\ (r.version = 2 => (h \o x)[3] = ext)
  <2>1. /\ h \o x \in Seq(AnyCell) /\ Len(h \o x) = Len(h) + Len(x)
        /\ \A i \in 1 .. Len(h) + Len(x) : (h \o x)[i] = IF i <= Len(h) THEN h[i] ELSE x[i - Len(h)]
    BY <1>8, ConcatProperties
  <2>2. Len(h \o x) = HeaderOf(r)
    BY <1>1, <1>8, <2>1 DEF HeaderOf, HeaderSize, LegacyHeaderSize
  <2>3. (h \o x)[1] = base /\ (h \o x)[2] = sum
    BY <1>8, <2>1
  <2>4. ASSUME r.version = 2 PROVE (h \o x)[3] = ext
    BY <1>8, <2>1, <2>4
  <2> QED  BY <2>1, <2>2, <2>3, <2>4
<1>10. HeaderOf(r) \in {2, 3} /\ (r.version = 2 => HeaderOf(r) = 3)
  BY DEF HeaderOf, HeaderSize, LegacyHeaderSize
<1> DEFINE g == h \o x
<1> HIDE DEF g
<1>11. /\ g \o b \in Seq(AnyCell) /\ Len(g \o b) = HeaderOf(r) + n
       /\ \A i \in 1 .. HeaderOf(r) + n : (g \o b)[i] = IF i <= HeaderOf(r) THEN g[i] ELSE b[i - HeaderOf(r)]
  <2>1. g \in Seq(AnyCell) /\ Len(g) = HeaderOf(r)
    BY <1>9 DEF g
  <2>2. b \in Seq(AnyCell) /\ Len(b) = n
    BY <1>3, <1>4
  <2>3. /\ g \o b \in Seq(AnyCell) /\ Len(g \o b) = Len(g) + Len(b)
        /\ \A i \in 1 .. Len(g) + Len(b) : (g \o b)[i] = IF i <= Len(g) THEN g[i] ELSE b[i - Len(g)]
    BY <2>1, <2>2, ConcatProperties
  <2> QED  BY <2>1, <2>2, <2>3
<1>12. /\ (g \o b)[1] = base /\ (g \o b)[2] = sum /\ (r.version = 2 => (g \o b)[3] = ext)
  <2>1. g[1] = base /\ g[2] = sum /\ (r.version = 2 => g[3] = ext)
    BY <1>9 DEF g
  <2> QED  BY <1>2, <1>10, <1>11, <2>1
<1>13. ASSUME NEW i \in 1 .. n PROVE (g \o b)[HeaderOf(r) + i] = b[i]
  <2>1. HeaderOf(r) + i \in 1 .. HeaderOf(r) + n /\ ~(HeaderOf(r) + i <= HeaderOf(r)) /\ (HeaderOf(r) + i) - HeaderOf(r) = i
    BY <1>2, <1>10
  <2> QED  BY <1>11, <2>1
<1>14. encodeRecordWithBuffer(r) = g \o b
  BY <1>7 DEF g
<1> QED  BY <1>2, <1>3, <1>11, <1>12, <1>13, <1>14 DEF b, n, base, sum, ext
\* Cells within the file, and one that is cut off by its end.
LEMMA CellsFacts ==
    ASSUME NEW S, NEW s \in Seq(S), NEW off \in Nat, NEW n \in Nat, off + n <= Len(s)
    PROVE  LET q == SubSeq(s, off + 1, off + n)
           IN  q \in Seq(S) /\ Len(q) = n /\ \A i \in 1 .. n : q[i] = s[off + i]
<1>1. \A i \in off + 1 .. off + n : s[i] \in S
  OBVIOUS
<1>2. off + 1 \in Int /\ off + n \in Int
  OBVIOUS
<1>3. /\ SubSeq(s, off + 1, off + n) \in Seq(S)
      /\ Len(SubSeq(s, off + 1, off + n)) = (IF off + 1 <= off + n THEN (off + n) - (off + 1) + 1 ELSE 0)
      /\ \A i \in 1 .. (off + n) - (off + 1) + 1 : SubSeq(s, off + 1, off + n)[i] = s[(off + 1) + i - 1]
  BY <1>1, <1>2, SubSeqProperties
<1>4. (off + n) - (off + 1) + 1 = n /\ \A i \in 1 .. n : (off + 1) + i - 1 = off + i
  OBVIOUS
<1>5. (IF off + 1 <= off + n THEN (off + n) - (off + 1) + 1 ELSE 0) = n
  OBVIOUS
<1> QED  BY <1>3, <1>4, <1>5

\* A read past the end gives less than was asked for.
LEMMA ReadShort ==
    ASSUME NEW S, NEW s \in Seq(S), NEW off \in Nat, NEW n \in Nat, off + n > Len(s), n > 0
    PROVE  LET q == SubSeq(s, off + 1, off + (Len(s) - off))
           IN  Len(q) < n /\ (off <= Len(s) => Len(q) = Len(s) - off) /\ (off >= Len(s) => q = <<>>)
<1> DEFINE m == Len(s)
<1>1. m \in Nat /\ off + (Len(s) - off) = m /\ off + n > m
  OBVIOUS
<1>2. \A i \in off + 1 .. m : s[i] \in S
  OBVIOUS
<1>3. Len(SubSeq(s, off + 1, m)) = IF off + 1 <= m THEN m - (off + 1) + 1 ELSE 0
  BY <1>1, <1>2, SubSeqProperties
<1>4. off >= m => SubSeq(s, off + 1, m) = <<>>
  BY <1>1, SubSeqEmpty
<1> HIDE DEF m
<1>5. (IF off + 1 <= m THEN m - (off + 1) + 1 ELSE 0) < n
  <2>1. CASE off + 1 <= m
    <3>1. m - (off + 1) + 1 = m - off /\ m - off < n
      BY <1>1
    <3> QED  BY <2>1, <3>1
  <2>2. CASE ~(off + 1 <= m)
    BY <2>2
  <2> QED  BY <2>1, <2>2
<1>6. off <= m => (IF off + 1 <= m THEN m - (off + 1) + 1 ELSE 0) = m - off
  BY <1>1
<1> USE DEF m
<1> QED  BY <1>1, <1>3, <1>4, <1>5, <1>6

\* The two sources of the same file.
Sources == {ByFile, ByMap}

\* A read within the file gives its cells, any other fewer than asked for.
LEMMA ReadFacts ==
    ASSUME segment \in Seq(AnyCell), NEW src \in Sources, NEW off \in Nat, NEW n \in Nat
    PROVE  /\ off + n <= Len(segment) =>
                /\ ReadAt(src, off, n) = Cells(src, off, n) /\ Cells(src, off, n) \in Seq(AnyCell)
                /\ Len(Cells(src, off, n)) = n /\ \A i \in 1 .. n : Cells(src, off, n)[i] = segment[off + i]
           /\ off + n > Len(segment) /\ n > 0 => Len(ReadAt(src, off, n)) < n
           /\ off = Len(segment) /\ n > 0 => ReadAt(src, off, n) = <<>>
           /\ src = ByMap /\ segment # <<>> /\ off + n > Len(segment) => ReadAt(src, off, n) = <<>>
<1>1. src.data = segment /\ (src.mapped <=> src = ByMap)
  BY DEF Sources, ByFile, ByMap
<1>2. Cells(src, off, n) = SubSeq(segment, off + 1, off + n)
  BY <1>1 DEF Cells
<1>3. Cells(src, off, Len(src.data) - off) = SubSeq(segment, off + 1, off + (Len(segment) - off))
  BY <1>1 DEF Cells
<1>4. ASSUME off + n <= Len(segment)
      PROVE  /\ ReadAt(src, off, n) = Cells(src, off, n) /\ Cells(src, off, n) \in Seq(AnyCell)
             /\ Len(Cells(src, off, n)) = n /\ \A i \in 1 .. n : Cells(src, off, n)[i] = segment[off + i]
  <2>1. ReadAt(src, off, n) = Cells(src, off, n)
    BY <1>1, <1>4 DEF ReadAt
  <2> DEFINE q == SubSeq(segment, off + 1, off + n)
  <2>2. q \in Seq(AnyCell) /\ Len(q) = n /\ \A i \in 1 .. n : q[i] = segment[off + i]
    <3>1. \A S, s : s \in Seq(S) /\ off + n <= Len(s) =>
            /\ SubSeq(s, off + 1, off + n) \in Seq(S) /\ Len(SubSeq(s, off + 1, off + n)) = n
            /\ \A i \in 1 .. n : SubSeq(s, off + 1, off + n)[i] = s[off + i]
      BY CellsFacts
    <3> QED  BY <1>4, <3>1
  <2>3. Cells(src, off, n) = q
    BY <1>2
  <2> HIDE DEF q
  <2> QED  BY <2>1, <2>2, <2>3
<1>5. ASSUME off + n > Len(segment)
      PROVE  ReadAt(src, off, n) = IF src = ByMap /\ segment # <<>> THEN <<>>
                                   ELSE SubSeq(segment, off + 1, off + (Len(segment) - off))
  <2>1. ~(off + n <= Len(segment))
    BY <1>5
  <2> QED  BY <1>1, <1>3, <2>1 DEF ReadAt
<1>6. ASSUME off + n > Len(segment), n > 0 PROVE Len(ReadAt(src, off, n)) < n
  <2>1. Len(SubSeq(segment, off + 1, off + (Len(segment) - off))) < n
    BY <1>6, ReadShort
  <2>2. Len(<<>>) < n
    BY <1>6
  <2> QED  BY <1>5, <1>6, <2>1, <2>2
<1>7. ASSUME off = Len(segment), n > 0 PROVE ReadAt(src, off, n) = <<>>
  <2>1. off + n > Len(segment) /\ off >= Len(segment)
    BY <1>7
  <2>2. SubSeq(segment, off + 1, off + (Len(segment) - off)) = <<>>
    BY <1>7, <2>1, ReadShort
  <2> QED  BY <1>5, <2>1, <2>2
<1> QED  BY <1>4, <1>5, <1>6, <1>7

\* The number of cells in chunk k of a body of n cells.
ChunkLen(n, k) == IF (k + 1) * ChunkSize > n THEN n - k * ChunkSize ELSE ChunkSize

\* Products of numbers up to K.
LEMMA Monotone ==
    ASSUME NEW c \in Nat, NEW j \in Nat, NEW k \in Nat, j <= k
    PROVE  j * c <= k * c /\ j * c \in Nat /\ k * c \in Nat /\ (k + 1) * c = k * c + c
<1>1. j * c \in Nat /\ k * c \in Nat /\ (k - j) * c \in Nat
  OBVIOUS
<1>2. k * c = j * c + (k - j) * c
  OBVIOUS
<1>3. (k + 1) * c = k * c + c
  OBVIOUS
<1> QED  BY <1>1, <1>2, <1>3

\* Chunks follow one another, and the last one ends with the body.
LEMMA ChunkEnds ==
    ASSUME NEW n \in Nat, n > 0
    PROVE  LET last == (n - 1) \div ChunkSize
           IN  /\ last \in Nat
               /\ \A k \in 0 .. last :
                    /\ k * ChunkSize \in Nat /\ k * ChunkSize < n
                    /\ ChunkLen(n, k) \in Nat \ {0} /\ k * ChunkSize + ChunkLen(n, k) <= n
                    /\ k < last => k * ChunkSize + ChunkLen(n, k) = (k + 1) * ChunkSize
                    /\ k = last => k * ChunkSize + ChunkLen(n, k) = n
<1> DEFINE c == ChunkSize
           last == (n - 1) \div c
<1>1. c \in Nat \ {0}
  BY CodecAssumption
<1>2. last \in Nat /\ last * c <= n - 1 /\ n - 1 < (last + 1) * c
  <2> DEFINE m == n - 1
  <2>1. m \in Nat
    OBVIOUS
  <2> HIDE DEF m, c
  <2>2. /\ m \div c \in Int /\ m % c \in 0 .. c - 1 /\ m = c * (m \div c) + (m % c)
    BY <1>1, <2>1
  <2>3. m \div c \in Nat
    BY <1>1, <2>1, <2>2
  <2>4. c * (m \div c) = (m \div c) * c
    BY <1>1, <2>3
  <2> DEFINE d == m \div c
  <2>5. d \in Nat /\ m = d * c + (m % c) /\ m % c \in 0 .. c - 1
    BY <2>2, <2>3, <2>4
  <2> HIDE DEF d
  <2>6. d * c \in Nat /\ (d + 1) * c = d * c + c
    BY <1>1, <2>5, Monotone
  <2>7. d * c <= m /\ m < (d + 1) * c
    BY <1>1, <2>1, <2>5, <2>6
  <2> QED  BY <2>5, <2>7 DEF d, m
<1> HIDE DEF last, c
<1>3. ASSUME NEW k \in 0 .. last
      PROVE  /\ k * c \in Nat /\ k * c < n
             /\ ChunkLen(n, k) \in Nat \ {0} /\ k * c + ChunkLen(n, k) <= n
             /\ k < last => k * c + ChunkLen(n, k) = (k + 1) * c
             /\ k = last => k * c + ChunkLen(n, k) = n
  <2> DEFINE kc == k * c
             up == (k + 1) * c
             lc == last * c
  <2>1. kc \in Nat /\ lc \in Nat /\ kc <= lc /\ up = kc + c /\ lc <= n - 1
    BY <1>1, <1>2, Monotone
  <2>2. k < last => up <= lc
    BY <1>1, <1>2, Monotone
  <2>3. k = last => n - 1 < up
    BY <1>2
  <2>4. ChunkLen(n, k) = IF up > n THEN n - kc ELSE c
    BY DEF ChunkLen, c
  <2> HIDE DEF kc, up, lc
  <2>5. kc < n /\ ChunkLen(n, k) \in Nat \ {0} /\ kc + ChunkLen(n, k) <= n
    BY <1>1, <2>1, <2>4
  <2>6. k < last => kc + ChunkLen(n, k) = up
    BY <1>1, <2>1, <2>2, <2>4
  <2>7. k = last => kc + ChunkLen(n, k) = n
    BY <1>1, <2>1, <2>3, <2>4
  <2> QED  BY <2>1, <2>5, <2>6, <2>7 DEF kc, up
<1> QED  BY <1>2, <1>3 DEF c, last

\* The m chunks one behind the other.
Joined(chunk, m) == FoldLeft(LAMBDA acc, k : acc \o chunk[k], <<>>, [i \in 1 .. m |-> i - 1])

\* The fold takes them one by one.
LEMMA ConcatSteps ==
    ASSUME NEW m \in Nat, NEW chunk \in [0 .. m - 1 -> Seq(AnyCell)]
    PROVE  \E h : /\ h[0] = <<>> /\ \A i \in 1 .. m : h[i] = h[i - 1] \o chunk[i - 1]
                  /\ Joined(chunk, m) = h[m]
<1> DEFINE D == 1 .. m
           q == [i \in D |-> i - 1]
           V == Seq(AnyCell)
           Run(g) == g = [s \in SUBSET D |-> IF s = {} THEN <<>> ELSE g[s \ {Max(s)}] \o chunk[q[Max(s)]]]
           step == [p \in D \X V |-> p[2] \o chunk[q[p[1]]]]
<1>1. DOMAIN q = D /\ \A i \in D : q[i] = i - 1 /\ q[i] \in 0 .. m - 1 /\ chunk[q[i]] \in V
  OBVIOUS
<1>2. Joined(chunk, m) = (CHOOSE g : Run(g))[D]
  BY <1>1 DEF Joined, FoldLeft, MapThenFoldSet
<1> HIDE DEF q
<1>3. step \in [D \X V -> V]
  <2> SUFFICES ASSUME NEW p \in D \X V PROVE p[2] \o chunk[q[p[1]]] \in V
    OBVIOUS
  <2>1. p[2] \in Seq(AnyCell) /\ chunk[q[p[1]]] \in Seq(AnyCell)
    BY <1>1
  <2> QED  BY <2>1, ConcatProperties
<1>4. \E f \in [SUBSET D -> V] : FoldsLeft(f, m, <<>>, step)
  <2> HIDE DEF step, V
  <2>1. <<>> \in V
    BY EmptySeq DEF V
  <2> QED  BY <1>3, <2>1, FoldLeftExists
<1>5. PICK f \in [SUBSET D -> V] : \A s \in SUBSET D :
          f[s] = IF s = {} THEN <<>> ELSE step[<<Max(s), f[s \ {Max(s)}]>>]
  BY <1>4 DEF FoldsLeft
<1>6. \A s \in SUBSET D : f[s] = IF s = {} THEN <<>> ELSE f[s \ {Max(s)}] \o chunk[q[Max(s)]]
  <2> SUFFICES ASSUME NEW s \in SUBSET D, s # {} PROVE f[s] = f[s \ {Max(s)}] \o chunk[q[Max(s)]]
    BY <1>5
  <2>1. Max(s) \in D /\ s \ {Max(s)} \in SUBSET D
    BY MaxOfFinite
  <2> HIDE DEF V
  <2>2. <<Max(s), f[s \ {Max(s)}]>> \in D \X V
    BY <2>1
  <2>3. step[<<Max(s), f[s \ {Max(s)}]>>] = f[s \ {Max(s)}] \o chunk[q[Max(s)]]
    BY <2>2
  <2> QED  BY <1>5, <2>3
<1>7. Run(f)
  BY <1>6
<1> HIDE DEF step, V
<1>8. PICK g : g = (CHOOSE x : Run(x)) /\ Run(g)
  <2> HIDE DEF Run
  <2> QED  BY <1>7
<1>9. g[{}] = <<>> /\ \A i \in D : g[1 .. i] = g[1 .. i - 1] \o chunk[q[i]]
  <2>1. {} \in SUBSET D
    OBVIOUS
  <2>2. ASSUME NEW i \in D PROVE g[1 .. i] = g[1 .. i - 1] \o chunk[q[i]]
    <3>1. 1 .. i \in SUBSET D /\ 1 .. i # {} /\ Max(1 .. i) = i /\ (1 .. i) \ {i} = 1 .. i - 1
      <4>1. i \in Nat \ {0} /\ i <= m
        OBVIOUS
      <4>2. Max(1 .. i) = i /\ (1 .. i) \ {i} = 1 .. i - 1
        BY <4>1, MaxOfRange
      <4>3. 1 .. i \in SUBSET D /\ i \in 1 .. i
        BY <4>1
      <4> QED  BY <4>2, <4>3
    <3>2. g[1 .. i] = g[(1 .. i) \ {Max(1 .. i)}] \o chunk[q[Max(1 .. i)]]
      BY <1>8, <3>1
    <3> QED  BY <3>1, <3>2
  <2> QED  BY <1>8, <2>1, <2>2
<1> DEFINE h == [i \in 0 .. m |-> g[1 .. i]]
<1>10. h[0] = <<>>
  <2>1. 1 .. 0 = {} /\ 0 \in 0 .. m
    OBVIOUS
  <2> QED  BY <1>9, <2>1
<1>11. ASSUME NEW i \in D PROVE h[i] = h[i - 1] \o chunk[i - 1]
  <2>1. i \in 0 .. m /\ i - 1 \in 0 .. m
    OBVIOUS
  <2> QED  BY <1>1, <1>9, <2>1
<1>12. Joined(chunk, m) = h[m]
  <2>1. h[m] = g[D]
    OBVIOUS
  <2> HIDE DEF h, Run
  <2> QED  BY <1>2, <1>8, <2>1
<1> QED  BY <1>10, <1>11, <1>12 DEF q

\* Neighbouring cells of the file.
LEMMA CellsJoin ==
    ASSUME NEW s \in Seq(AnyCell), NEW off \in Nat, NEW a \in Nat, NEW b \in Nat, off + a + b <= Len(s)
    PROVE  SubSeq(s, off + 1, off + a) \o SubSeq(s, (off + a) + 1, (off + a) + b) = SubSeq(s, off + 1, off + (a + b))
<1> DEFINE m == off + 1
           k == off + a
           n == (off + a) + b
<1>1. Len(s) \in Nat
  OBVIOUS
<1>2. m \in 1 .. Len(s) + 1 /\ k \in m - 1 .. Len(s) /\ n \in k .. Len(s)
  BY <1>1
<1>3. off + (a + b) = n
  OBVIOUS
<1> HIDE DEF m, k, n
<1>4. SubSeq(s, m, k) \o SubSeq(s, k + 1, n) = SubSeq(s, m, n)
  BY <1>2, ConcatAdjacentSubSeq
<1> QED  BY <1>3, <1>4 DEF m, k, n

\* The chunks of a body that is in the file are its cells, one behind the other.
LEMMA ChunksWhole ==
    ASSUME segment \in Seq(AnyCell), NEW src \in Sources, NEW off \in Nat, NEW n \in Nat, n > 0,
           off + n <= Len(segment), NEW typ, NEW crc
    PROVE  ChunksVerified(src, off, n, typ, crc) <=> Cells(src, off, n) = crc
<1> DEFINE last == (n - 1) \div ChunkSize
           chunks == 0 .. last
           chunk == [k \in chunks |-> ReadAt(src, off + k * ChunkSize, ChunkLen(n, k))]
           m == last + 1
           sum == Joined(chunk, m)
<1>1. /\ last \in Nat
      /\ \A k \in chunks :
            /\ k * ChunkSize \in Nat /\ k * ChunkSize < n
            /\ ChunkLen(n, k) \in Nat \ {0} /\ k * ChunkSize + ChunkLen(n, k) <= n
            /\ k < last => k * ChunkSize + ChunkLen(n, k) = (k + 1) * ChunkSize
            /\ k = last => k * ChunkSize + ChunkLen(n, k) = n
  BY ChunkEnds
<1> HIDE DEF last
<1>2. Cardinality(chunks) = m /\ m \in Nat /\ chunks = 0 .. m - 1
  <2>1. Cardinality(chunks) = last - 0 + 1
    BY <1>1, FS_Interval
  <2> QED  BY <1>1, <2>1
<1>3. ChunksVerified(src, off, n, typ, crc) <=> (\A k \in chunks : Len(chunk[k]) = ChunkLen(n, k)) /\ sum = crc
  BY <1>2 DEF ChunksVerified, ChunkLen, Joined, last
<1>4. src.data = segment /\ Len(segment) \in Nat
  BY DEF Sources, ByFile, ByMap
<1>5. ASSUME NEW k \in chunks
      PROVE  /\ chunk[k] \in Seq(AnyCell) /\ Len(chunk[k]) = ChunkLen(n, k)
             /\ chunk[k] = SubSeq(segment, (off + k * ChunkSize) + 1, (off + k * ChunkSize) + ChunkLen(n, k))
  <2> DEFINE o == off + k * ChunkSize
             l == ChunkLen(n, k)
  <2>1. o \in Nat /\ l \in Nat /\ o + l <= Len(segment)
    BY <1>1, <1>4
  <2>2. chunk[k] = ReadAt(src, o, l)
    OBVIOUS
  <2> HIDE DEF o, l, chunk
  <2>3. ReadAt(src, o, l) = Cells(src, o, l) /\ Cells(src, o, l) \in Seq(AnyCell) /\ Len(Cells(src, o, l)) = l
    BY <2>1, ReadFacts
  <2>4. Cells(src, o, l) = SubSeq(segment, o + 1, o + l)
    BY <1>4 DEF Cells
  <2> QED  BY <2>2, <2>3, <2>4 DEF o, l
<1> DEFINE e == [i \in 0 .. m |-> IF i = m THEN n ELSE i * ChunkSize]
<1>6. e[0] = 0 /\ e[m] = n
  <2>1. m # 0 /\ 0 \in 0 .. m /\ m \in 0 .. m
    BY <1>1
  <2>2. 0 * ChunkSize = 0
    BY CodecAssumption
  <2> QED  BY <2>1, <2>2
<1>7. ASSUME NEW i \in 0 .. m - 1
      PROVE  e[i] \in Nat /\ e[i] = i * ChunkSize /\ e[i + 1] = e[i] + ChunkLen(n, i) /\ e[i] + ChunkLen(n, i) <= n
  <2>1. i \in chunks /\ i # m /\ i \in 0 .. m /\ i + 1 \in 0 .. m
    BY <1>1
  <2>2. e[i] = i * ChunkSize
    BY <2>1
  <2>3. CASE i = last
    BY <1>1, <2>1, <2>2, <2>3
  <2>4. CASE i < last
    <3>1. i + 1 # m
      BY <1>1, <2>4
    <3>2. e[i + 1] = (i + 1) * ChunkSize
      BY <2>1, <3>1
    <3> HIDE DEF e
    <3> QED  BY <1>1, <2>1, <2>2, <2>4, <3>2
  <2> QED  BY <1>1, <2>1, <2>3, <2>4
<1>8. PICK h : /\ h[0] = <<>> /\ \A i \in 1 .. m : h[i] = h[i - 1] \o chunk[i - 1]
               /\ Joined(chunk, m) = h[m]
  <2>1. chunk \in [0 .. m - 1 -> Seq(AnyCell)]
    BY <1>2, <1>5
  <2> HIDE DEF chunk, m
  <2>2. m \in Nat
    BY <1>2
  <2> QED  BY <2>1, <2>2, ConcatSteps
<1> DEFINE P == {i \in 0 .. m : h[i] = SubSeq(segment, off + 1, off + e[i])}
<1> HIDE DEF e, chunk
<1>9. 0 \in P
  <2>1. SubSeq(segment, off + 1, off + 0) = <<>>
    BY SubSeqEmpty
  <2>2. 0 \in 0 .. m
    BY <1>2
  <2> QED  BY <1>6, <1>8, <2>1, <2>2
<1>10. ASSUME NEW i \in 0 .. m - 1, i \in P PROVE i + 1 \in P
  <2> DEFINE a == e[i]
             b == ChunkLen(n, i)
  <2>1. i + 1 \in 1 .. m /\ i + 1 \in 0 .. m /\ (i + 1) - 1 = i /\ i \in chunks
    BY <1>1
  <2>2. h[i + 1] = h[i] \o chunk[i]
    BY <1>8, <2>1
  <2>3. a \in Nat /\ a = i * ChunkSize /\ e[i + 1] = a + b /\ a + b <= n /\ b \in Nat
    BY <1>1, <1>7, <2>1
  <2>4. chunk[i] = SubSeq(segment, (off + a) + 1, (off + a) + b)
    BY <1>5, <2>1, <2>3
  <2>5. h[i] = SubSeq(segment, off + 1, off + a)
    BY <1>10
  <2> HIDE DEF a, b
  <2>6. off + a + b <= Len(segment)
    BY <1>4, <2>3
  <2>7. SubSeq(segment, off + 1, off + a) \o SubSeq(segment, (off + a) + 1, (off + a) + b) = SubSeq(segment, off + 1, off + (a + b))
    <3>1. a \in Nat /\ b \in Nat
      BY <2>3
    <3> QED  BY <2>6, <3>1, CellsJoin, Zenon
  <2> QED  BY <2>1, <2>2, <2>3, <2>4, <2>5, <2>7
<1>11. m \in P
  <2>1. \A i \in 0 .. m - 1 : i \in P => i + 1 \in P
    BY <1>10
  <2>2. m \in 0 .. m
    BY <1>2
  <2> HIDE DEF P, m
  <2>3. \A i \in 0 .. m : i \in P
    BY <1>2, <1>9, <2>1, StepsTo
  <2> QED  BY <2>2, <2>3
<1>12. sum = Cells(src, off, n)
  BY <1>4, <1>6, <1>8, <1>11 DEF Cells
<1> QED  BY <1>3, <1>5, <1>12

\* A body that the file does not hold to its end fails its chunks.
LEMMA ChunksCut ==
    ASSUME segment \in Seq(AnyCell), NEW src \in Sources, NEW off \in Nat, NEW n \in Nat, n > 0,
           off + n > Len(segment), NEW typ, NEW crc
    PROVE  ~ChunksVerified(src, off, n, typ, crc)
<1> DEFINE last == (n - 1) \div ChunkSize
           o == off + last * ChunkSize
           l == ChunkLen(n, last)
<1>1. last \in Nat /\ last \in 0 .. last
  <2>1. last \in Nat
    BY ChunkEnds
  <2> HIDE DEF last
  <2> QED  BY <2>1
<1>2. last * ChunkSize \in Nat /\ l \in Nat \ {0} /\ last * ChunkSize + l = n
  BY <1>1, ChunkEnds
<1>3. ChunksVerified(src, off, n, typ, crc) => Len(ReadAt(src, o, l)) = l
  BY <1>1 DEF ChunksVerified, ChunkLen
<1> HIDE DEF last, l
<1>4. o \in Nat /\ o + l > Len(segment)
  BY <1>2
<1> HIDE DEF o
<1>5. Len(ReadAt(src, o, l)) < l
  BY <1>2, <1>4, ReadFacts
<1>6. ~(l < l)
  BY <1>2
<1> QED  BY <1>3, <1>5, <1>6

\* A body is read and compared with its checksum the same way from both sources, and only
\* if the file holds all of it.
LEMMA BodyFacts ==
    ASSUME segment \in Seq(AnyCell), NEW src \in Sources, NEW off \in Nat, NEW n \in Nat, off <= Len(segment),
           segment # <<>>, NEW typ, NEW crc
    PROVE  BodyVerified(src, off, n, typ, crc)
             <=> off + n <= Len(segment) /\ Checksum(SubSeq(segment, off + 1, off + n), typ) = crc
<1>1. src.data = segment /\ Len(segment) \in Nat
  BY DEF Sources, ByFile, ByMap
<1>2. Cells(src, off, n) = SubSeq(segment, off + 1, off + n)
  BY <1>1 DEF Cells
<1>3. CASE off + n <= Len(segment)
  <2>1. ReadAt(src, off, n) = Cells(src, off, n) /\ Len(Cells(src, off, n)) = n
    BY <1>3, ReadFacts
  <2>2. CASE Sliceable(src, off, n)
    BY <1>2, <1>3, <2>2 DEF BodyVerified, verifyChecksum
  <2>3. CASE ~Sliceable(src, off, n) /\ n > ChunkSize /\ typ \in CrcTypes
    <3>1. n > 0
      BY <2>3, CodecAssumption
    <3>2. Checksum(Cells(src, off, n), typ) = Cells(src, off, n)
      BY <2>3 DEF Checksum, CrcTypes
    <3>3. ChunksVerified(src, off, n, typ, crc) <=> Cells(src, off, n) = crc
      BY <1>3, <3>1, ChunksWhole
    <3> QED  BY <1>2, <1>3, <2>3, <3>2, <3>3 DEF BodyVerified
  <2>4. CASE ~Sliceable(src, off, n) /\ ~(n > ChunkSize /\ typ \in CrcTypes)
    BY <1>2, <1>3, <2>1, <2>4 DEF BodyVerified, verifyChecksum
  <2> QED  BY <2>2, <2>3, <2>4
<1>4. CASE ~(off + n <= Len(segment))
  <2>1. off + n > Len(segment) /\ n > 0
    BY <1>1, <1>4
  <2>2. ~Sliceable(src, off, n)
    BY <1>1, <1>4 DEF Sliceable
  <2>3. Len(ReadAt(src, off, n)) # n
    <3>1. Len(ReadAt(src, off, n)) < n /\ ~(n < n)
      BY <2>1, ReadFacts
    <3> QED  BY <3>1
  <2>4. ~ChunksVerified(src, off, n, typ, crc)
    BY <2>1, ChunksCut
  <2> QED  BY <1>4, <2>2, <2>3, <2>4 DEF BodyVerified
<1> QED  BY <1>3, <1>4

\* The record that a header of h cells at off announces, if its body is there and matches.
Decoded(off, typ, h) ==
    LET base == segment[off + 1]
        sum == segment[off + 2]
        n == base.lens[1] + base.lens[2] + base.lens[3] + base.lens[4]
    IN  IF /\ sum.c = "sum" /\ (off + h) + n <= Len(segment)
           /\ Checksum(SubSeq(segment, (off + h) + 1, (off + h) + n), typ) = sum.crc
        THEN [ok |-> "record", next |-> (off + h) + n,
              rec |-> [version |-> base.version, typ |-> typ, lens |-> base.lens, seq |-> sum.seq]]
        ELSE Corrupt

\* A header of the first format begins at off.
HeaderAt(off) == off + 2 <= Len(segment) /\ segment[off + 1].c = "base"

\* What is read there.
ReadsAs(off) ==
    IF segment[off + 1].version = 1 THEN Decoded(off, "ieee", 2)
    ELSE IF off + 3 <= Len(segment) /\ segment[off + 3].c = "ext" THEN Decoded(off, segment[off + 3].typ, 3)
    ELSE Corrupt

\* The decoder, given a header.
LEMMA DecodeIs ==
    ASSUME segment \in Seq(AnyCell), NEW src \in Sources, NEW off \in Nat, NEW h \in {2, 3},
           off + h <= Len(segment), HeaderAt(off), NEW typ
    PROVE  Decode(src, off, segment[off + 1], segment[off + 2], typ, h) = Decoded(off, typ, h)
<1> DEFINE base == segment[off + 1]
           sum == segment[off + 2]
           n == base.lens[1] + base.lens[2] + base.lens[3] + base.lens[4]
           o == off + h
<1>1. Len(segment) \in Nat /\ base \in AnyCell
  BY DEF HeaderAt
<1>2. base \in BaseCells
  BY <1>1, CellKinds DEF HeaderAt
<1>3. n \in Nat
  <2>1. base.lens \in BodyLens
    BY <1>2 DEF BaseCells
  <2> HIDE DEF base
  <2> QED  BY <2>1, LensAdd
<1>4. o \in Nat /\ o <= Len(segment) /\ segment # <<>>
  BY <1>1
<1>5. Decode(src, off, base, sum, typ, h) =
        IF sum.c # "sum" \/ ~BodyVerified(src, o, n, typ, sum.crc) THEN Corrupt
        ELSE [ok |-> "record", next |-> o + n,
              rec |-> [version |-> base.version, typ |-> typ, lens |-> base.lens, seq |-> sum.seq]]
  BY DEF Decode
<1>6. Decoded(off, typ, h) =
        IF sum.c = "sum" /\ o + n <= Len(segment) /\ Checksum(SubSeq(segment, o + 1, o + n), typ) = sum.crc
        THEN [ok |-> "record", next |-> o + n,
              rec |-> [version |-> base.version, typ |-> typ, lens |-> base.lens, seq |-> sum.seq]]
        ELSE Corrupt
  BY DEF Decoded
<1> HIDE DEF base, sum, n, o
<1>7. BodyVerified(src, o, n, typ, sum.crc)
        <=> o + n <= Len(segment) /\ Checksum(SubSeq(segment, o + 1, o + n), typ) = sum.crc
  BY <1>3, <1>4, BodyFacts
<1>8. Decode(src, off, base, sum, typ, h) = Decoded(off, typ, h)
  BY <1>5, <1>6, <1>7
<1> QED  BY <1>8 DEF base, sum

\* ReadFacts, of a read within the file.
LEMMA ReadWithin ==
    ASSUME segment \in Seq(AnyCell), NEW src \in Sources, NEW off \in Nat, NEW n \in Nat, off + n <= Len(segment)
    PROVE  /\ ReadAt(src, off, n) = Cells(src, off, n) /\ Len(Cells(src, off, n)) = n
           /\ \A i \in 1 .. n : Cells(src, off, n)[i] = segment[off + i]
BY ReadFacts

\* What is read at an offset does not depend on the source.
LEMMA ReadIs ==
    ASSUME segment \in Seq(AnyCell), NEW src \in Sources, NEW off \in 0 .. Len(segment)
    PROVE  /\ HeaderAt(off) => readRawRecordAtWithScratch(src, off) = ReadsAs(off)
           /\ ~HeaderAt(off) => readRawRecordAtWithScratch(src, off).ok # "record"
<1>1. src.data = segment /\ Len(segment) \in Nat /\ off \in Nat
  <2>1. src.data = segment
    BY DEF Sources, ByFile, ByMap
  <2> QED  BY <2>1
<1> DEFINE base == Cells(src, off, 2)
           ext == Cells(src, off + 2, 1)
<1>2. Corrupt.ok # "record" /\ Eof.ok # "record"
  BY DEF Corrupt, Eof
<1>3. CASE off + 2 <= Len(segment)
  <2>1. ReadAt(src, off, 2) = base /\ Len(base) = 2 /\ base[1] = segment[off + 1] /\ base[2] = segment[off + 2]
    <3>1. /\ ReadAt(src, off, 2) = base /\ Len(base) = 2
          /\ \A i \in 1 .. 2 : base[i] = segment[off + i]
      <4> DEFINE m == 2
      <4>1. off \in Nat /\ m \in Nat /\ off + m <= Len(segment)
        BY <1>1, <1>3
      <4> HIDE DEF m
      <4>2. /\ ReadAt(src, off, m) = Cells(src, off, m) /\ Len(Cells(src, off, m)) = m
            /\ \A i \in 1 .. m : Cells(src, off, m)[i] = segment[off + i]
        BY <4>1, ReadWithin
      <4> QED  BY <4>2 DEF m
    <3>2. 1 \in 1 .. 2 /\ 2 \in 1 .. 2
      OBVIOUS
    <3> HIDE DEF base
    <3> QED  BY <3>1, <3>2
  <2>2. base # <<>>
    BY <2>1, EmptySeq
  <2>3. off + 3 <= Len(segment) =>
          ReadAt(src, off + 2, 1) = ext /\ Len(ext) = 1 /\ ext[1] = segment[off + 3] /\ ext # <<>>
    <3> SUFFICES ASSUME off + 3 <= Len(segment)
                 PROVE  ReadAt(src, off + 2, 1) = ext /\ Len(ext) = 1 /\ ext[1] = segment[off + 3] /\ ext # <<>>
      OBVIOUS
    <3>1. off + 2 \in Nat /\ (off + 2) + 1 <= Len(segment) /\ (off + 2) + 1 = off + 3
      BY <1>1
    <3>2. /\ ReadAt(src, off + 2, 1) = ext /\ Len(ext) = 1
          /\ \A i \in 1 .. 1 : ext[i] = segment[(off + 2) + i]
      <4> DEFINE o == off + 2
      <4>1. o \in Nat /\ o + 1 <= Len(segment) /\ 1 \in Nat
        BY <3>1
      <4> HIDE DEF o
      <4>2. /\ ReadAt(src, o, 1) = Cells(src, o, 1) /\ Len(Cells(src, o, 1)) = 1
            /\ \A i \in 1 .. 1 : Cells(src, o, 1)[i] = segment[o + i]
        BY <4>1, ReadWithin
      <4> QED  BY <4>2 DEF o
    <3> HIDE DEF ext
    <3>3. ext[1] = segment[off + 3]
      BY <3>1, <3>2
    <3>4. Len(<<>>) # 1
      OBVIOUS
    <3> QED  BY <3>2, <3>3, <3>4
  <2>4. ~(off + 3 <= Len(segment)) => ReadAt(src, off + 2, 1) = <<>>
    <3> SUFFICES ASSUME ~(off + 3 <= Len(segment)) PROVE ReadAt(src, off + 2, 1) = <<>>
      OBVIOUS
    <3>1. off + 2 \in Nat /\ off + 2 = Len(segment)
      BY <1>1, <1>3
    <3> QED  BY <3>1, ReadFacts
  <2>5. Sliceable(src, off, 2) <=> src.mapped
    BY <1>1, <1>3 DEF Sliceable
  <2>6. Sliceable(src, off + 2, 1) <=> src.mapped /\ off + 3 <= Len(segment)
    BY <1>1 DEF Sliceable
  <2>7. ASSUME NEW t, HeaderAt(off)
        PROVE  Decode(src, off, base[1], base[2], t, 2) = Decoded(off, t, 2)
    BY <1>1, <1>3, <2>1, <2>7, DecodeIs
  <2>8. ASSUME NEW t, HeaderAt(off), off + 3 <= Len(segment)
        PROVE  Decode(src, off, base[1], base[2], t, 3) = Decoded(off, t, 3)
    BY <1>1, <2>1, <2>8, DecodeIs
  <2>9. IsBase(base[1]) <=> HeaderAt(off)
    BY <1>3, <2>1 DEF IsBase, HeaderAt
  <2>10. CASE src.mapped
    <3>1. readRawRecordAtWithScratch(src, off) = readRawRecordFromMmap(src, off)
      BY <2>5, <2>10 DEF readRawRecordAtWithScratch, LegacyHeaderSize
    <3>2. readRawRecordFromMmap(src, off) =
            IF ~IsBase(base[1]) THEN Corrupt
            ELSE IF base[1].version = 1 THEN Decode(src, off, base[1], base[2], "ieee", 2)
            ELSE IF ~Sliceable(src, off + 2, 1) \/ ext[1].c # "ext" THEN Corrupt
            ELSE Decode(src, off, base[1], base[2], ext[1].typ, 3)
      BY DEF readRawRecordFromMmap, LegacyHeaderSize, HeaderSize
    <3> HIDE DEF base, ext
    <3>3. ASSUME HeaderAt(off) PROVE readRawRecordFromMmap(src, off) = ReadsAs(off)
      <4>1. CASE base[1].version = 1
        <5>1. readRawRecordFromMmap(src, off) = Decode(src, off, base[1], base[2], "ieee", 2)
          BY <2>9, <3>2, <3>3, <4>1
        <5> QED  BY <2>1, <2>7, <3>3, <4>1, <5>1 DEF ReadsAs
      <4>2. CASE base[1].version # 1
        <5>1. readRawRecordFromMmap(src, off) = IF ~Sliceable(src, off + 2, 1) \/ ext[1].c # "ext" THEN Corrupt
                                                ELSE Decode(src, off, base[1], base[2], ext[1].typ, 3)
          BY <2>9, <3>2, <3>3, <4>2
        <5>2. CASE off + 3 <= Len(segment)
          BY <2>1, <2>3, <2>6, <2>8, <2>10, <3>3, <4>2, <5>1, <5>2 DEF ReadsAs
        <5>3. CASE ~(off + 3 <= Len(segment))
          BY <2>1, <2>6, <4>2, <5>1, <5>3 DEF ReadsAs
        <5> QED  BY <5>2, <5>3
      <4> QED  BY <4>1, <4>2
    <3>4. ASSUME ~HeaderAt(off) PROVE readRawRecordFromMmap(src, off) = Corrupt
      BY <2>9, <3>2, <3>4
    <3> QED  BY <1>2, <3>1, <3>3, <3>4
  <2>11. CASE ~src.mapped
    <3> DEFINE x == ReadAt(src, off + 2, 1)
    <3>1. readRawRecordAtWithScratch(src, off) = readRawRecordFromReadAt(src, off)
      BY <2>5, <2>11 DEF readRawRecordAtWithScratch, LegacyHeaderSize
    <3> HIDE DEF base, ext
    <3>2. ASSUME ~HeaderAt(off) PROVE readRawRecordFromReadAt(src, off) = Corrupt
      BY <2>1, <2>2, <2>9, <3>2 DEF readRawRecordFromReadAt, LegacyHeaderSize
    <3>3. ASSUME HeaderAt(off)
          PROVE  readRawRecordFromReadAt(src, off) =
                   IF base[1].version = 1 THEN Decode(src, off, base[1], base[2], "ieee", 2)
                   ELSE IF x = <<>> \/ x[1].c # "ext" THEN Corrupt
                   ELSE Decode(src, off, base[1], base[2], x[1].typ, 3)
      BY <2>1, <2>2, <2>9, <3>3 DEF readRawRecordFromReadAt, LegacyHeaderSize, HeaderSize
    <3> HIDE DEF x
    <3>4. ASSUME HeaderAt(off) PROVE readRawRecordFromReadAt(src, off) = ReadsAs(off)
      <4>1. CASE base[1].version = 1
        BY <2>1, <2>7, <3>3, <3>4, <4>1 DEF ReadsAs
      <4>2. CASE base[1].version # 1 /\ off + 3 <= Len(segment)
        <5>1. x = ext /\ ext[1] = segment[off + 3] /\ ext # <<>>
          BY <2>3, <4>2 DEF x
        <5> QED  BY <2>1, <2>8, <3>3, <3>4, <4>2, <5>1 DEF ReadsAs
      <4>3. CASE base[1].version # 1 /\ ~(off + 3 <= Len(segment))
        <5>1. x = <<>>
          BY <2>4, <4>3 DEF x
        <5> QED  BY <2>1, <3>3, <3>4, <4>3, <5>1 DEF ReadsAs
      <4> QED  BY <4>1, <4>2, <4>3
    <3> QED  BY <1>2, <3>1, <3>2, <3>4
  <2> QED  BY <2>10, <2>11
<1>4. CASE ~(off + 2 <= Len(segment))
  <2>1. ~HeaderAt(off) /\ ~Sliceable(src, off, 2)
    BY <1>1, <1>4 DEF HeaderAt, Sliceable
  <2>2. readRawRecordAtWithScratch(src, off) = readRawRecordFromReadAt(src, off)
    BY <2>1 DEF readRawRecordAtWithScratch, LegacyHeaderSize
  <2>3. Len(ReadAt(src, off, 2)) # 2
    <3>1. off + 2 > Len(segment)
      BY <1>1, <1>4
    <3>2. Len(ReadAt(src, off, 2)) < 2
      BY <1>1, <3>1, ReadFacts
    <3>3. ~(2 < 2)
      OBVIOUS
    <3> QED  BY <3>2, <3>3
  <2>4. readRawRecordFromReadAt(src, off) \in {Corrupt, Eof}
    <3>1. CASE ReadAt(src, off, 2) = <<>>
      BY <3>1 DEF readRawRecordFromReadAt, LegacyHeaderSize
    <3>2. CASE ReadAt(src, off, 2) # <<>>
      BY <2>3, <3>2 DEF readRawRecordFromReadAt, LegacyHeaderSize
    <3> QED  BY <3>1, <3>2
  <2> QED  BY <1>2, <2>1, <2>2, <2>4
<1> QED  BY <1>3, <1>4

\* So the two decoders agree on every file.
LEMMA AgreeAnywhere ==
    ASSUME segment \in Seq(AnyCell)
    PROVE  ReadersAgree
<1> SUFFICES ASSUME NEW off \in 0 .. Len(segment)
             PROVE  LET byMap == readRawRecordAtWithScratch(ByMap, off)
                        byFile == readRawRecordAtWithScratch(ByFile, off)
                    IN  "record" \in {byMap.ok, byFile.ok} => byMap = byFile
  BY DEF ReadersAgree
<1>1. ByMap \in Sources /\ ByFile \in Sources
  BY DEF Sources
<1>2. CASE HeaderAt(off)
  BY <1>1, <1>2, ReadIs
<1>3. CASE ~HeaderAt(off)
  <2>1. readRawRecordAtWithScratch(ByMap, off).ok # "record" /\ readRawRecordAtWithScratch(ByFile, off).ok # "record"
    BY <1>1, <1>3, ReadIs
  <2> QED  BY <2>1
<1> QED  BY <1>2, <1>3

\* The cells of record r begin behind cell off of seg.
StandsAt(seg, off, r) ==
    /\ off + Len(encodeRecordWithBuffer(r)) <= Len(seg)
    /\ \A p \in 1 .. Len(encodeRecordWithBuffer(r)) : seg[off + p] = encodeRecordWithBuffer(r)[p]

\* The first m cells of record r are the last of seg, as they were written or zero.
Leaves(seg, off, r, m) ==
    /\ Len(seg) = off + m
    /\ \A p \in 1 .. m : seg[off + p] \in {Zero, encodeRecordWithBuffer(r)[p]}

\* A record is its fields.
LEMMA RecordIs ==
    ASSUME NEW r \in Recs
    PROVE  /\ r = [version |-> r.version, typ |-> r.typ, lens |-> r.lens, seq |-> r.seq]
           /\ r.version \in {1, 2} /\ (r.version = 1 => r.typ = "ieee")
           /\ HeaderOf(r) = (IF r.version = 2 THEN 3 ELSE 2)
           /\ BodyLen(r) = r.lens[1] + r.lens[2] + r.lens[3] + r.lens[4]
BY DEF Recs, HeaderOf, HeaderSize, LegacyHeaderSize, BodyLen

\* The cells of a body in the file.
LEMMA BodyStands ==
    ASSUME segment \in Seq(AnyCell), NEW r \in Recs, NEW o \in Nat, o + BodyLen(r) <= Len(segment)
    PROVE  LET q == SubSeq(segment, o + 1, o + BodyLen(r))
           IN  /\ q \in Seq(AnyCell) /\ Len(q) = BodyLen(r) /\ \A i \in 1 .. BodyLen(r) : q[i] = segment[o + i]
               /\ (\A i \in 1 .. BodyLen(r) : segment[o + i] = BodyOf(r)[i]) => q = BodyOf(r)
<1> DEFINE n == BodyLen(r)
           b == BodyOf(r)
           q == SubSeq(segment, o + 1, o + n)
<1>1. n \in Nat /\ b \in Seq(ByteCells) /\ Len(b) = n
  BY EncodeFacts
<1>2. b \in Seq(AnyCell)
  <2>1. ByteCells \subseteq AnyCell
    BY DEF AnyCell
  <2> HIDE DEF b
  <2> QED  BY <1>1, <2>1, SeqMonotonic
<1> HIDE DEF n, b
<1>3. q = Cells(ByFile, o, n) /\ ByFile \in Sources
  BY DEF Cells, ByFile, Sources
<1>4. q \in Seq(AnyCell) /\ Len(q) = n /\ \A i \in 1 .. n : q[i] = segment[o + i]
  <2>1. o + n <= Len(segment)
    BY DEF n
  <2>2. /\ Cells(ByFile, o, n) \in Seq(AnyCell)
        /\ Len(Cells(ByFile, o, n)) = n /\ \A i \in 1 .. n : Cells(ByFile, o, n)[i] = segment[o + i]
    BY <1>1, <1>3, <2>1, ReadFacts
  <2> HIDE DEF q
  <2> QED  BY <1>3, <2>2
<1> HIDE DEF q
<1>5. ASSUME \A i \in 1 .. n : segment[o + i] = b[i] PROVE q = b
  <2>1. \A i \in 1 .. Len(q) : q[i] = b[i]
    BY <1>4, <1>5
  <2> QED  BY <1>1, <1>2, <1>4, <2>1, SeqEqual
<1>6. q \in Seq(AnyCell) /\ Len(q) = n /\ (\A i \in 1 .. n : q[i] = segment[o + i])
      /\ ((\A i \in 1 .. n : segment[o + i] = b[i]) => q = b)
  BY <1>4, <1>5
<1> QED  BY <1>6 DEF q, n, b

\* A record that stands in the file is read as it was written.
LEMMA ReadWritten ==
    ASSUME segment \in Seq(AnyCell), NEW r \in Recs, NEW off \in Nat, StandsAt(segment, off, r)
    PROVE  readRawRecordAtWithScratch(ByFile, off) =
             [ok |-> "record", next |-> off + Len(encodeRecordWithBuffer(r)), rec |-> r]
<1> DEFINE e == encodeRecordWithBuffer(r)
           n == BodyLen(r)
           h == HeaderOf(r)
           b == BodyOf(r)
           sum == segment[off + 2]
<1>1. /\ n \in Nat /\ Len(e) = h + n /\ h \in {2, 3} /\ Len(segment) \in Nat
      /\ e[1] = [c |-> "base", magic |-> TRUE, version |-> r.version, lens |-> r.lens]
      /\ e[2] = [c |-> "sum", seq |-> r.seq, crc |-> Checksum(b, r.typ)]
      /\ r.version = 2 => e[3] = [c |-> "ext", typ |-> r.typ]
      /\ \A i \in 1 .. n : e[h + i] = b[i]
  BY EncodeFacts, RecordIs
<1>2. off + Len(e) <= Len(segment) /\ \A p \in 1 .. Len(e) : segment[off + p] = e[p]
  BY DEF StandsAt
<1> HIDE DEF e, b
<1>3. (off + h) + n <= Len(segment) /\ off + 2 <= Len(segment) /\ (r.version = 2 => off + 3 <= Len(segment))
  <2>1. r.version = 2 => h = 3
    BY RecordIs
  <2> HIDE DEF h, n
  <2> QED  BY <1>1, <1>2, <2>1
<1>4. segment[off + 1] = e[1] /\ sum = e[2] /\ (r.version = 2 => segment[off + 3] = e[3])
  <2>1. r.version = 2 => h = 3
    BY RecordIs
  <2> HIDE DEF h, n
  <2>2. 1 \in 1 .. Len(e) /\ 2 \in 1 .. Len(e) /\ (r.version = 2 => 3 \in 1 .. Len(e))
    BY <1>1, <2>1
  <2> QED  BY <1>2, <2>2
<1>5. ASSUME NEW i \in 1 .. n PROVE segment[(off + h) + i] = b[i]
  <2> HIDE DEF h, n
  <2>1. h + i \in 1 .. Len(e) /\ off + (h + i) = (off + h) + i
    BY <1>1
  <2> QED  BY <1>1, <1>2, <2>1
<1>6. SubSeq(segment, (off + h) + 1, (off + h) + n) = b
  <2> DEFINE o == off + h
  <2>1. o \in Nat /\ o + n <= Len(segment)
    <3> HIDE DEF h, n
    <3> QED  BY <1>1, <1>3
  <2> HIDE DEF o, h
  <2>2. \A i \in 1 .. n : segment[o + i] = b[i]
    BY <1>5 DEF o
  <2>3. SubSeq(segment, o + 1, o + n) = b
    BY <2>1, <2>2, BodyStands DEF b
  <2> QED  BY <2>3 DEF o
<1>7. HeaderAt(off) /\ off \in 0 .. Len(segment)
  BY <1>1, <1>3, <1>4 DEF HeaderAt
<1>8. readRawRecordAtWithScratch(ByFile, off) = ReadsAs(off)
  BY <1>7, ReadIs DEF Sources
<1>9. ReadsAs(off) = Decoded(off, r.typ, h)
  <2>1. CASE r.version = 1
    <3>1. r.typ = "ieee" /\ h = 2
      BY <2>1, RecordIs
    <3> HIDE DEF h
    <3> QED  BY <1>1, <1>4, <2>1, <3>1 DEF ReadsAs
  <2>2. CASE r.version = 2
    <3>1. h = 3
      BY <2>2, RecordIs
    <3> HIDE DEF h
    <3> QED  BY <1>1, <1>3, <1>4, <2>2, <3>1 DEF ReadsAs
  <2> QED  BY <2>1, <2>2, RecordIs
<1>10. Decoded(off, r.typ, h) = [ok |-> "record", next |-> off + Len(e), rec |-> r]
  <2> DEFINE base == segment[off + 1]
             m == base.lens[1] + base.lens[2] + base.lens[3] + base.lens[4]
  <2>1. m = n /\ base.version = r.version /\ base.lens = r.lens
    BY <1>1, <1>4, RecordIs
  <2>2. sum.c = "sum" /\ sum.seq = r.seq /\ sum.crc = Checksum(b, r.typ)
    BY <1>1, <1>4
  <2>3. Decoded(off, r.typ, h) =
          IF sum.c = "sum" /\ (off + h) + m <= Len(segment)
             /\ Checksum(SubSeq(segment, (off + h) + 1, (off + h) + m), r.typ) = sum.crc
          THEN [ok |-> "record", next |-> (off + h) + m,
                rec |-> [version |-> base.version, typ |-> r.typ, lens |-> base.lens, seq |-> sum.seq]]
          ELSE Corrupt
    BY DEF Decoded
  <2> HIDE DEF base, m, h, n, sum
  <2>4. Decoded(off, r.typ, h) = [ok |-> "record", next |-> (off + h) + n,
                rec |-> [version |-> r.version, typ |-> r.typ, lens |-> r.lens, seq |-> r.seq]]
    BY <1>3, <1>6, <2>1, <2>2, <2>3
  <2>5. (off + h) + n = off + Len(e)
    BY <1>1
  <2> QED  BY <2>4, <2>5, RecordIs
<1> QED  BY <1>8, <1>9, <1>10 DEF e

\* What a crash leaves of a record is not read as one: its end is missing, or a cell is zero.
LEMMA ReadDamaged ==
    ASSUME segment \in Seq(AnyCell), NEW r \in Recs, NEW off \in Nat, NEW m \in Nat, Leaves(segment, off, r, m),
           m <= Len(encodeRecordWithBuffer(r)),
           \/ m < Len(encodeRecordWithBuffer(r))
           \/ r.typ # "none" /\ \E p \in 1 .. m : segment[off + p] = Zero
    PROVE  readRawRecordAtWithScratch(ByFile, off).ok # "record"
<1> DEFINE e == encodeRecordWithBuffer(r)
           n == BodyLen(r)
           h == HeaderOf(r)
           b == BodyOf(r)
           sum == segment[off + 2]
<1>1. /\ n \in Nat /\ Len(e) = h + n /\ h \in {2, 3} /\ Len(segment) \in Nat
      /\ e[1] = [c |-> "base", magic |-> TRUE, version |-> r.version, lens |-> r.lens]
      /\ e[2] = [c |-> "sum", seq |-> r.seq, crc |-> Checksum(b, r.typ)]
      /\ r.version = 2 => e[3] = [c |-> "ext", typ |-> r.typ]
      /\ \A i \in 1 .. n : e[h + i] = b[i]
      /\ r.version = 2 => h = 3
      /\ r.version = 1 => h = 2
      /\ b \in Seq(ByteCells) /\ Len(b) = n
  BY EncodeFacts, RecordIs
<1>2. Len(segment) = off + m /\ \A p \in 1 .. m : segment[off + p] \in {Zero, e[p]}
  BY DEF Leaves
<1>3. off \in 0 .. Len(segment)
  BY <1>1, <1>2
<1>4. Corrupt.ok # "record" /\ Zero.c = "zero"
  BY DEF Corrupt, Zero
<1>5. CASE ~HeaderAt(off)
  BY <1>3, <1>5, ReadIs DEF Sources
<1>6. CASE HeaderAt(off)
  <2>1. readRawRecordAtWithScratch(ByFile, off) = ReadsAs(off)
    BY <1>3, <1>6, ReadIs DEF Sources
  <2> SUFFICES ReadsAs(off) = Corrupt
    BY <1>4, <2>1
  <2> HIDE DEF e, b
  <2>2. m >= 2 /\ segment[off + 1] = e[1]
    <3>1. off + 2 <= Len(segment) /\ segment[off + 1].c = "base"
      BY <1>6 DEF HeaderAt
    <3>2. m >= 2
      BY <1>1, <1>2, <3>1
    <3>3. segment[off + 1] \in {Zero, e[1]}
      BY <1>2, <3>2
    <3> QED  BY <1>4, <3>1, <3>2, <3>3
  <2>3. segment[off + 1].version = r.version /\ segment[off + 1].lens = r.lens
    BY <1>1, <2>2
  <2>4. n = r.lens[1] + r.lens[2] + r.lens[3] + r.lens[4]
    BY RecordIs
  <2>5. ASSUME NEW t, NEW d, ~(sum.c = "sum" /\ (off + d) + n <= Len(segment)
                               /\ Checksum(SubSeq(segment, (off + d) + 1, (off + d) + n), t) = sum.crc)
        PROVE  Decoded(off, t, d) = Corrupt
    BY <2>3, <2>4, <2>5 DEF Decoded
  <2> HIDE DEF n, h
  <2>6. CASE m < Len(e)
    <3>1. ~((off + h) + n <= Len(segment))
      BY <1>1, <1>2, <2>6
    <3>2. CASE r.version = 1
      BY <1>1, <2>3, <2>5, <3>1, <3>2 DEF ReadsAs
    <3>3. CASE r.version = 2
      BY <1>1, <2>3, <2>5, <3>1, <3>3 DEF ReadsAs
    <3> QED  BY <3>2, <3>3, RecordIs
  <2>7. CASE r.typ # "none" /\ (\E p \in 1 .. m : segment[off + p] = Zero) /\ m = Len(e)
    <3> DEFINE body == SubSeq(segment, (off + h) + 1, (off + h) + n)
    <3>1. PICK p \in 1 .. m : segment[off + p] = Zero
      BY <2>7
    <3>2. p # 1
      BY <1>1, <1>4, <2>2, <3>1
    <3>3. p = 2 => sum.c # "sum"
      BY <1>4, <3>1
    <3>4. r.version = 2 /\ p = 3 => segment[off + 3].c # "ext"
      BY <1>4, <3>1
    <3>5. ASSUME p > h, sum.c = "sum" PROVE Checksum(body, r.typ) # sum.crc
      <4> DEFINE o == off + h
                 i == p - h
      <4>1. o \in Nat /\ o + n <= Len(segment) /\ i \in 1 .. n /\ o + i = off + p
        BY <1>1, <1>2, <2>7, <3>5
      <4>2. sum.crc = Checksum(b, r.typ)
        <5>1. sum \in {Zero, e[2]}
          BY <1>2, <2>2
        <5> QED  BY <1>1, <1>4, <3>5, <5>1
      <4>3. Checksum(body, r.typ) = body /\ Checksum(b, r.typ) = b
        BY <2>7 DEF Checksum
      <4> HIDE DEF o, i
      <4>4. SubSeq(segment, o + 1, o + n)[i] = Zero
        <5>1. SubSeq(segment, o + 1, o + n)[i] = segment[o + i]
          BY <4>1, BodyStands DEF n
        <5> QED  BY <3>1, <4>1, <5>1
      <4>5. body[i] = Zero
        BY <4>4 DEF o
      <4>6. b[i] # Zero
        <5>1. b[i] \in ByteCells
          BY <1>1, <4>1
        <5>2. b[i].c = "byte"
          BY <5>1 DEF ByteCells
        <5> QED  BY <1>4, <5>2
      <4> HIDE DEF body
      <4> QED  BY <4>2, <4>3, <4>5, <4>6
    <3>6. p > h \/ p = 2 \/ (r.version = 2 /\ p = 3)
      BY <1>1, <3>2, RecordIs
    <3>7. CASE r.version = 1
      <4>1. h = 2 /\ r.typ = "ieee"
        BY <1>1, <3>7, RecordIs
      <4>2. ReadsAs(off) = Decoded(off, r.typ, h)
        BY <2>3, <3>7, <4>1 DEF ReadsAs
      <4>3. ~(sum.c = "sum" /\ Checksum(body, r.typ) = sum.crc)
        BY <3>3, <3>5, <3>6, <3>7
      <4> QED  BY <2>5, <4>2, <4>3
    <3>8. CASE r.version = 2
      <4>1. CASE segment[off + 3].c = "ext"
        <5>1. h = 3 /\ m >= 3
          BY <1>1, <2>7, <3>8
        <5>2. segment[off + 3] \in {Zero, e[3]}
          BY <1>2, <5>1
        <5>3. segment[off + 3].typ = r.typ
          BY <1>1, <1>4, <3>8, <4>1, <5>2
        <5>4. ReadsAs(off) = Decoded(off, r.typ, h)
          BY <1>1, <1>2, <2>3, <3>8, <4>1, <5>1, <5>3 DEF ReadsAs
        <5>5. ~(sum.c = "sum" /\ Checksum(body, r.typ) = sum.crc)
          BY <3>3, <3>4, <3>5, <3>6, <4>1
        <5> QED  BY <2>5, <5>4, <5>5
      <4>2. CASE segment[off + 3].c # "ext"
        BY <2>3, <3>8, <4>2 DEF ReadsAs
      <4> QED  BY <4>1, <4>2
    <3> QED  BY <3>7, <3>8, RecordIs
  <2>8. m < Len(e) \/ m = Len(e)
    BY <1>1 DEF e
  <2> QED  BY <2>6, <2>7, <2>8 DEF e
<1> QED  BY <1>5, <1>6
\* The same for every damage, of the file as it is.
Unreadable ==
    \A r \in Recs, off \in Nat, m \in Nat :
        /\ segment \in Seq(AnyCell) /\ Leaves(segment, off, r, m) /\ m <= Len(encodeRecordWithBuffer(r))
        /\ \/ m < Len(encodeRecordWithBuffer(r))
           \/ r.typ # "none" /\ \E p \in 1 .. m : segment[off + p] = Zero
        => readRawRecordAtWithScratch(ByFile, off).ok # "record"

\* And of every file.
LEMMA DamageUnreadable == Unreadable
BY ReadDamaged DEF Unreadable

\* A record that was written whole, and its place.
Items == [rec : Recs, from : Nat, to : Nat]

\* The records of q stand in seg, one behind the other from its start.
Placed(seg, q) ==
    \A i \in 1 .. Len(q) :
        /\ q[i].from = IF i = 1 THEN 0 ELSE q[i - 1].to
        /\ q[i].to = q[i].from + Len(encodeRecordWithBuffer(q[i].rec))
        /\ StandsAt(seg, q[i].from, q[i].rec)

\* The end of the n-th of them.
EndOf(q, n) == IF n = 0 THEN 0 ELSE q[n].to

\* A scan has found the first records, and stands behind them.
ScanAt(q, s) ==
    /\ Len(s.found) <= Len(q) /\ s.off = EndOf(q, Len(s.found))
    /\ \A i \in 1 .. Len(s.found) : s.found[i] = q[i].rec

\* The inductive invariant.
CodecInv ==
    /\ segment \in Seq(AnyCell) /\ whole \in Seq(Items) /\ Placed(segment, whole)
    /\ scan \in [pc : {"rest", "scan", "recovered"}, off : Nat, found : Seq(Recs)]
    /\ scan.pc # "scan" => Len(segment) = EndOf(whole, Len(whole))
    /\ scan.pc = "scan" => readRawRecordAtWithScratch(ByFile, EndOf(whole, Len(whole))).ok # "record"
    /\ scan.pc # "rest" => ScanAt(whole, scan)
    /\ scan.pc = "recovered" => Len(scan.found) = Len(whole)

\* Records that stand in a file stand in every file that begins with its cells.
LEMMA StandsLonger ==
    ASSUME NEW seg \in Seq(AnyCell), NEW new \in Seq(AnyCell), NEW off \in Nat, NEW r \in Recs, NEW k \in Nat,
           StandsAt(seg, off, r), off + Len(encodeRecordWithBuffer(r)) <= k, k <= Len(new),
           \A i \in 1 .. k : i <= Len(seg) => new[i] = seg[i]
    PROVE  StandsAt(new, off, r)
<1> DEFINE e == encodeRecordWithBuffer(r)
<1>1. Len(e) \in Nat /\ off + Len(e) <= Len(seg) /\ \A p \in 1 .. Len(e) : seg[off + p] = e[p]
  BY EncodeFacts DEF StandsAt
<1> HIDE DEF e
<1>2. off + Len(e) <= k
  BY DEF e
<1>3. off + Len(e) <= Len(new)
  BY <1>1, <1>2
<1>4. ASSUME NEW p \in 1 .. Len(e) PROVE new[off + p] = e[p]
  <2>1. off + p \in 1 .. k /\ off + p <= Len(seg)
    BY <1>1, <1>2
  <2> QED  BY <1>1, <2>1
<1>5. off + Len(e) <= Len(new) /\ \A p \in 1 .. Len(e) : new[off + p] = e[p]
  BY <1>3, <1>4
<1> QED  BY <1>5 DEF StandsAt, e

\* Places are in their order.
LEMMA PlacesOrdered ==
    ASSUME NEW seg \in Seq(AnyCell), NEW q \in Seq(Items), Placed(seg, q)
    PROVE  /\ \A i \in 1 .. Len(q) : /\ q[i].from \in Nat /\ q[i].to \in Nat /\ q[i].rec \in Recs
                                     /\ q[i].from <= q[i].to /\ q[i].to <= Len(seg)
                                     /\ q[i].from = EndOf(q, i - 1)
           /\ \A n \in 0 .. Len(q) : EndOf(q, n) \in Nat /\ EndOf(q, n) <= Len(seg)
           /\ \A n \in 0 .. Len(q) : \A i \in 1 .. n : q[i].to <= EndOf(q, n)
<1>1. Len(q) \in Nat /\ Len(seg) \in Nat
  OBVIOUS
<1>2. ASSUME NEW i \in 1 .. Len(q)
      PROVE  /\ q[i].from \in Nat /\ q[i].to \in Nat /\ q[i].rec \in Recs
             /\ q[i].from <= q[i].to /\ q[i].to <= Len(seg)
             /\ q[i].from = EndOf(q, i - 1)
  <2> DEFINE l == Len(encodeRecordWithBuffer(q[i].rec))
  <2>1. q[i] \in Items
    OBVIOUS
  <2>2. q[i].from \in Nat /\ q[i].to \in Nat /\ q[i].rec \in Recs
    BY <2>1 DEF Items
  <2>3. l \in Nat
    BY <2>2, EncodeFacts
  <2>4. q[i].to = q[i].from + l /\ q[i].from + l <= Len(seg) /\ q[i].from = IF i = 1 THEN 0 ELSE q[i - 1].to
    BY DEF Placed, StandsAt
  <2>5. i = 1 <=> i - 1 = 0
    BY <1>1
  <2> HIDE DEF l
  <2> QED  BY <2>2, <2>3, <2>4, <2>5 DEF EndOf
<1>3. ASSUME NEW n \in 0 .. Len(q) PROVE EndOf(q, n) \in Nat /\ EndOf(q, n) <= Len(seg)
  <2>1. CASE n = 0
    BY <1>1, <2>1 DEF EndOf
  <2>2. CASE n # 0
    <3>1. n \in 1 .. Len(q)
      BY <1>1, <2>2
    <3> QED  BY <1>2, <2>2, <3>1 DEF EndOf
  <2> QED  BY <2>1, <2>2
<1>4. \A n \in 0 .. Len(q) : \A i \in 1 .. n : q[i].to <= EndOf(q, n)
  <2> DEFINE N == Len(q)
             P == {n \in 0 .. N : \A i \in 1 .. n : q[i].to <= EndOf(q, n)}
  <2>1. 0 \in P
    BY <1>1
  <2>2. ASSUME NEW n \in 0 .. N - 1, n \in P PROVE n + 1 \in P
    <3>1. n \in 0 .. N /\ n + 1 \in 1 .. N /\ (n + 1) - 1 = n /\ n + 1 # 0 /\ n + 1 \in 0 .. N
      BY <1>1
    <3>2. EndOf(q, n + 1) = q[n + 1].to
      BY <3>1 DEF EndOf
    <3>3. q[n + 1].from = EndOf(q, n) /\ q[n + 1].from <= q[n + 1].to /\ q[n + 1].to \in Nat /\ EndOf(q, n) \in Nat
      BY <1>2, <1>3, <3>1
    <3>4. ASSUME NEW i \in 1 .. n + 1 PROVE q[i].to <= EndOf(q, n + 1)
      <4>1. CASE i = n + 1
        BY <3>2, <3>3, <4>1
      <4>2. CASE i # n + 1
        <5>1. i \in 1 .. n /\ i \in 1 .. N
          BY <3>1, <4>2
        <5>2. q[i].to <= EndOf(q, n) /\ q[i].to \in Nat
          BY <1>2, <2>2, <5>1
        <5> QED  BY <3>2, <3>3, <5>2
      <4> QED  BY <4>1, <4>2
    <3> QED  BY <3>1, <3>4
  <2> HIDE DEF P, N
  <2>3. N \in Nat
    BY <1>1 DEF N
  <2>4. \A n \in 0 .. N : n \in P
    BY <2>1, <2>2, <2>3, StepsTo
  <2> QED  BY <2>4 DEF P, N
<1> QED  BY <1>2, <1>3, <1>4

\* A file that holds exactly its records is their encodings one behind the other.
LEMMA FileIsRecords ==
    ASSUME NEW seg \in Seq(AnyCell), NEW q \in Seq(Items), Placed(seg, q), Len(seg) = EndOf(q, Len(q))
    PROVE  seg = FlattenSeq([i \in 1 .. Len(q) |-> encodeRecordWithBuffer(q[i].rec)])
<1> DEFINE N == Len(q)
           s == [i \in 1 .. N |-> encodeRecordWithBuffer(q[i].rec)]
<1>1. N \in Nat /\ Len(s) = N /\ s \in Seq(Seq(AnyCell))
  <2>1. \A i \in 1 .. N : encodeRecordWithBuffer(q[i].rec) \in Seq(AnyCell)
    BY PlacesOrdered, EncodeFacts
  <2> HIDE DEF N
  <2>2. N \in Nat
    BY DEF N
  <2> QED  BY <2>1, <2>2
<1>2. \A i \in 1 .. N : s[i] = encodeRecordWithBuffer(q[i].rec) /\ s[i] \in Seq(AnyCell)
  BY PlacesOrdered, EncodeFacts
<1> HIDE DEF s
<1>3. CASE N = 0
  <2>1. seg = <<>>
    BY <1>3, EmptySeq DEF EndOf
  <2>2. s = <<>>
    BY <1>1, <1>3, EmptySeq
  <2>3. FlattenSeq(s) = s
    BY <1>1, <1>3 DEF FlattenSeq
  <2> QED  BY <2>1, <2>2, <2>3 DEF s
<1>4. CASE N # 0
  <2> DEFINE f == [i \in 1 .. N |-> SubSeq(seg, 1, q[i].to)]
             Is(g) == g = [i \in 1 .. N |-> IF i = 1 THEN s[i] ELSE g[i - 1] \o s[i]]
  <2>1. ASSUME NEW i \in 1 .. N PROVE s[i] = SubSeq(seg, q[i].from + 1, q[i].to)
    <3> DEFINE a == q[i].from
               l == Len(s[i])
    <3>1. a \in Nat /\ l \in Nat /\ q[i].to = a + l /\ a + l <= Len(seg) /\ \A p \in 1 .. l : seg[a + p] = s[i][p]
      <4>1. a \in Nat
        BY PlacesOrdered
      <4>2. l \in Nat
        BY <1>2
      <4>3. q[i].to = a + Len(encodeRecordWithBuffer(q[i].rec)) /\ StandsAt(seg, a, q[i].rec)
        BY DEF Placed
      <4> HIDE DEF a
      <4> QED  BY <1>2, <4>1, <4>2, <4>3 DEF StandsAt
    <3>2. LET c == SubSeq(seg, a + 1, a + l) IN c \in Seq(AnyCell) /\ Len(c) = l /\ \A p \in 1 .. l : c[p] = seg[a + p]
      <4> HIDE DEF a, l
      <4> QED  BY <3>1, CellsFacts
    <3> DEFINE c == SubSeq(seg, a + 1, a + l)
    <3>3. c \in Seq(AnyCell) /\ Len(c) = Len(s[i]) /\ \A p \in 1 .. Len(c) : c[p] = s[i][p]
      BY <3>1, <3>2
    <3> HIDE DEF c
    <3>4. c = s[i]
      BY <1>2, <3>3, SeqEqual
    <3> QED  BY <3>1, <3>4 DEF c
  <2>2. ASSUME NEW i \in 1 .. N PROVE f[i] = IF i = 1 THEN s[i] ELSE f[i - 1] \o s[i]
    <3>1. CASE i = 1
      <4>1. q[i].from = 0
        BY <3>1 DEF Placed
      <4>2. q[i].from + 1 = 1
        BY <4>1
      <4> QED  BY <2>1, <3>1, <4>2
    <3>2. CASE i # 1
      <4>1. i - 1 \in 1 .. N /\ i - 1 # 0
        BY <1>1, <3>2
      <4> DEFINE a == q[i - 1].to
                 b == q[i].to
      <4>2. a = q[i].from /\ a \in Nat /\ b \in Nat /\ a <= b /\ b <= Len(seg)
        BY <3>2, <4>1, PlacesOrdered DEF Placed
      <4>3. f[i] = SubSeq(seg, 1, b) /\ f[i - 1] = SubSeq(seg, 1, a) /\ s[i] = SubSeq(seg, a + 1, b)
        BY <2>1, <4>1, <4>2
      <4> HIDE DEF a, b, f
      <4>4. SubSeq(seg, 1, a) \o SubSeq(seg, a + 1, b) = SubSeq(seg, 1, b)
        <5> DEFINE m == 1
        <5>1. m \in 1 .. Len(seg) + 1 /\ a \in m - 1 .. Len(seg) /\ b \in a .. Len(seg)
          BY <4>2
        <5> HIDE DEF m
        <5>2. SubSeq(seg, m, a) \o SubSeq(seg, a + 1, b) = SubSeq(seg, m, b)
          BY <5>1, ConcatAdjacentSubSeq
        <5> QED  BY <5>2 DEF m
      <4> QED  BY <3>2, <4>3, <4>4
    <3> QED  BY <3>1, <3>2
  <2>3. Is(f)
    <3>1. DOMAIN f = 1 .. N /\ f = [i \in 1 .. N |-> f[i]]
      OBVIOUS
    <3> HIDE DEF f
    <3> QED  BY <2>2, <3>1
  <2>4. f[N] = seg
    <3>1. N \in 1 .. N /\ q[N].to = Len(seg)
      BY <1>1, <1>4 DEF EndOf
    <3>2. f[N] = SubSeq(seg, 1, Len(seg))
      BY <3>1
    <3> QED  BY <3>2, SubSeqFull
  <2>5. FlattenSeq(s) = (CHOOSE g : Is(g))[N]
    BY <1>1, <1>4 DEF FlattenSeq
  <2>6. PICK g : g = (CHOOSE x : Is(x)) /\ Is(g)
    <3> HIDE DEF Is, f
    <3> QED  BY <2>3
  <2>7. g[N] = f[N]
    <3> DEFINE P == {i \in 0 .. N : i = 0 \/ g[i] = f[i]}
    <3> HIDE DEF f
    <3>1. 0 \in P
      BY <1>1
    <3>2. ASSUME NEW i \in 0 .. N - 1, i \in P PROVE i + 1 \in P
      <4>1. i + 1 \in 1 .. N /\ i + 1 \in 0 .. N /\ (i + 1) - 1 = i
        BY <1>1
      <4>2. g[i + 1] = IF i + 1 = 1 THEN s[i + 1] ELSE g[(i + 1) - 1] \o s[i + 1]
        BY <2>6, <4>1
      <4>3. f[i + 1] = IF i + 1 = 1 THEN s[i + 1] ELSE f[(i + 1) - 1] \o s[i + 1]
        BY <2>2, <4>1
      <4>4. CASE i = 0
        BY <4>1, <4>2, <4>3, <4>4
      <4>5. CASE i # 0
        <5>1. g[i] = f[i]
          BY <3>2, <4>5
        <5> QED  BY <4>1, <4>2, <4>3, <4>5, <5>1
      <4> QED  BY <4>4, <4>5
    <3>3. N \in P
      <4> HIDE DEF P, N
      <4>1. \A i \in 0 .. N : i \in P
        BY <1>1, <3>1, <3>2, StepsTo
      <4> QED  BY <1>1, <4>1
    <3> QED  BY <1>4, <3>3
  <2> HIDE DEF f, Is
  <2> QED  BY <2>4, <2>5, <2>6, <2>7 DEF s
<1> QED  BY <1>3, <1>4

\* A file keeps the records that stand below cell k.
LEMMA PlacedKept ==
    ASSUME NEW seg \in Seq(AnyCell), NEW new \in Seq(AnyCell), NEW q \in Seq(Items), NEW k \in Nat,
           Placed(seg, q), EndOf(q, Len(q)) <= k, k <= Len(new), \A i \in 1 .. k : i <= Len(seg) => new[i] = seg[i]
    PROVE  Placed(new, q)
<1> SUFFICES ASSUME NEW i \in 1 .. Len(q) PROVE StandsAt(new, q[i].from, q[i].rec)
  BY DEF Placed
<1>1. /\ q[i].from \in Nat /\ q[i].rec \in Recs /\ q[i].to \in Nat /\ Len(q) \in 0 .. Len(q)
      /\ q[i].to <= EndOf(q, Len(q)) /\ EndOf(q, Len(q)) \in Nat
  BY PlacesOrdered
<1>2. StandsAt(seg, q[i].from, q[i].rec) /\ q[i].to = q[i].from + Len(encodeRecordWithBuffer(q[i].rec))
  BY DEF Placed
<1>3. q[i].to <= k
  BY <1>1
<1> DEFINE f == q[i].from
           r == q[i].rec
<1>4. f \in Nat /\ r \in Recs /\ StandsAt(seg, f, r) /\ f + Len(encodeRecordWithBuffer(r)) <= k
  BY <1>1, <1>2, <1>3
<1> HIDE DEF f, r
<1>5. StandsAt(new, f, r)
  BY <1>4, StandsLonger
<1> QED  BY <1>5 DEF f, r

\* It holds at the start.
LEMMA CodecInitInv ==
    CodecInit => CodecInv
<1> SUFFICES ASSUME CodecInit PROVE CodecInv
  OBVIOUS
<1>1. segment \in Seq(AnyCell) /\ whole \in Seq(Items) /\ Len(segment) = 0 /\ Len(whole) = 0
  BY EmptySeq DEF CodecInit
<1>2. Placed(segment, whole)
  BY <1>1 DEF Placed
<1>3. scan \in [pc : {"rest", "scan", "recovered"}, off : Nat, found : Seq(Recs)] /\ scan.pc = "rest"
  BY EmptySeq DEF CodecInit
<1> QED  BY <1>1, <1>2, <1>3 DEF CodecInv, EndOf

\* appendRecord keeps it.
LEMMA WriteInv ==
    ASSUME CodecInv, WriteRecord
    PROVE  CodecInv'
<1>1. PICK lens \in BodyLens, f \in Formats :
         LET r == [version |-> f.version, typ |-> f.typ, lens |-> lens, seq |-> Len(whole) + 1]
         IN  /\ segment' = segment \o encodeRecordWithBuffer(r)
             /\ whole' = Append(whole, [rec |-> r, from |-> Len(segment),
                                            to |-> Len(segment) + Len(encodeRecordWithBuffer(r))])
  BY DEF WriteRecord
<1> DEFINE r == [version |-> f.version, typ |-> f.typ, lens |-> lens, seq |-> Len(whole) + 1]
           e == encodeRecordWithBuffer(r)
           item == [rec |-> r, from |-> Len(segment), to |-> Len(segment) + Len(e)]
           N == Len(whole)
           L == Len(segment)
<1>2. segment \in Seq(AnyCell) /\ whole \in Seq(Items) /\ Placed(segment, whole) /\ N \in Nat /\ L \in Nat
  BY DEF CodecInv
<1>3. scan' = scan /\ scan.pc = "rest" /\ L = EndOf(whole, N)
  BY DEF WriteRecord, CodecInv
<1>4. r \in Recs
  <2>1. f.version \in {1, 2} /\ (f.version = 1 => f.typ = "ieee") /\ f.typ \in Types
    BY CodecAssumption DEF Types
  <2>2. N + 1 \in Nat
    BY <1>2
  <2> QED  BY <2>1, <2>2 DEF Recs
<1>5. segment' = segment \o e /\ whole' = Append(whole, item)
  BY <1>1
<1> HIDE DEF r
<1>6. e \in Seq(AnyCell) /\ Len(e) \in Nat
  <2>1. e \in Seq(AnyCell)
    BY <1>4, EncodeFacts
  <2> HIDE DEF e
  <2> QED  BY <2>1
<1>7. item \in Items
  BY <1>2, <1>4, <1>6 DEF Items
<1> HIDE DEF e
<1>8. /\ segment' \in Seq(AnyCell) /\ Len(segment') = L + Len(e)
      /\ \A i \in 1 .. L + Len(e) : segment'[i] = IF i <= L THEN segment[i] ELSE e[i - L]
  BY <1>2, <1>5, <1>6, ConcatProperties
<1>9. item.rec = r /\ item.from = L /\ item.to = L + Len(e)
  OBVIOUS
<1> HIDE DEF item
<1>10. /\ whole' \in Seq(Items) /\ Len(whole') = N + 1 /\ whole'[N + 1] = item
       /\ \A i \in 1 .. N : whole'[i] = whole[i]
  BY <1>2, <1>5, <1>7
<1> HIDE DEF N, L
<1>11. Placed(segment', whole)
  <2>1. L <= Len(segment') /\ \A i \in 1 .. L : segment'[i] = segment[i]
    BY <1>2, <1>6, <1>8
  <2>2. EndOf(whole, Len(whole)) <= L
    BY <1>2, <1>3 DEF N
  <2> QED  BY <1>2, <1>8, <2>1, <2>2, PlacedKept
<1>12. StandsAt(segment', L, r)
  <2>1. ASSUME NEW p \in 1 .. Len(e) PROVE segment'[L + p] = e[p]
    <3>1. L + p \in 1 .. L + Len(e) /\ ~(L + p <= L) /\ (L + p) - L = p
      BY <1>2, <1>6
    <3> QED  BY <1>8, <3>1
  <2>2. L + Len(e) <= Len(segment')
    BY <1>2, <1>6, <1>8
  <2> QED  BY <2>1, <2>2 DEF StandsAt, e
<1>13. Placed(segment', whole')
  <2> SUFFICES ASSUME NEW i \in 1 .. N + 1
               PROVE  /\ whole'[i].from = IF i = 1 THEN 0 ELSE whole'[i - 1].to
                      /\ whole'[i].to = whole'[i].from + Len(encodeRecordWithBuffer(whole'[i].rec))
                      /\ StandsAt(segment', whole'[i].from, whole'[i].rec)
    BY <1>10 DEF Placed
  <2>1. CASE i = N + 1
    <3>1. whole'[i] = item
      BY <1>10, <2>1
    <3>2. item.from = IF i = 1 THEN 0 ELSE whole'[i - 1].to
      <4>1. CASE N = 0
        BY <1>3, <1>9, <2>1, <4>1 DEF EndOf
      <4>2. CASE N # 0
        <5>1. i # 1 /\ i - 1 = N /\ N \in 1 .. N
          BY <1>2, <2>1, <4>2
        <5>2. L = whole[N].to
          BY <1>3, <4>2 DEF EndOf
        <5> QED  BY <1>9, <1>10, <5>1, <5>2
      <4> QED  BY <4>1, <4>2
    <3> QED  BY <1>9, <1>12, <3>1, <3>2 DEF e
  <2>2. CASE i # N + 1
    <3>1. i \in 1 .. N /\ (i # 1 => i - 1 \in 1 .. N)
      BY <1>2, <2>2
    <3>2. whole'[i] = whole[i] /\ (i # 1 => whole'[i - 1] = whole[i - 1])
      BY <1>10, <3>1
    <3>3. /\ whole[i].from = IF i = 1 THEN 0 ELSE whole[i - 1].to
          /\ whole[i].to = whole[i].from + Len(encodeRecordWithBuffer(whole[i].rec))
          /\ StandsAt(segment', whole[i].from, whole[i].rec)
      BY <1>11, <3>1 DEF Placed, N
    <3> QED  BY <3>2, <3>3
  <2> QED  BY <2>1, <2>2
<1>14. Len(segment') = EndOf(whole', Len(whole'))
  <2>1. N + 1 # 0
    BY <1>2
  <2> QED  BY <1>8, <1>9, <1>10, <2>1 DEF EndOf
<1>15. scan' \in [pc : {"rest", "scan", "recovered"}, off : Nat, found : Seq(Recs)]
  BY <1>3 DEF CodecInv
<1> QED  BY <1>3, <1>8, <1>10, <1>13, <1>14, <1>15 DEF CodecInv

\* The cells a crash can leave.
LEMMA DamageLeaves ==
    ASSUME CodecInv, CrashDamage
    PROVE  LET l == Last(whole)
           IN  /\ whole # <<>> /\ l.rec \in Recs /\ l.from \in Nat /\ segment' \in Seq(AnyCell)
               /\ \A i \in 1 .. l.from : segment'[i] = segment[i]
               /\ l.from <= Len(segment')
               /\ \E m \in Nat : /\ Leaves(segment', l.from, l.rec, m) /\ m <= Len(encodeRecordWithBuffer(l.rec))
                                 /\ \/ m < Len(encodeRecordWithBuffer(l.rec))
                                    \/ l.rec.typ # "none" /\ \E p \in 1 .. m : segment'[l.from + p] = Zero
<1> DEFINE N == Len(whole)
           l == Last(whole)
           o == l.from
           r == l.rec
           e == encodeRecordWithBuffer(r)
           E == Len(e)
           L == Len(segment)
<1>1. segment \in Seq(AnyCell) /\ whole \in Seq(Items) /\ Placed(segment, whole) /\ N \in Nat /\ L \in Nat
  BY DEF CodecInv
<1>2. scan.pc = "rest" /\ L = EndOf(whole, N) /\ whole # <<>>
  BY DEF CrashDamage, CodecInv
<1>3. N \in 1 .. N /\ N # 0
  BY <1>1, <1>2, EmptySeq
<1>4. l = whole[N]
  BY DEF Last
<1>5. o \in Nat /\ r \in Recs /\ l.to = o + E /\ StandsAt(segment, o, r)
  BY <1>1, <1>3, <1>4, PlacesOrdered DEF Placed
<1>6. l.to = L
  BY <1>2, <1>3, <1>4 DEF EndOf
<1>7. e \in Seq(AnyCell) /\ E \in Nat
  <2>1. e \in Seq(AnyCell)
    BY <1>5, EncodeFacts
  <2> HIDE DEF e
  <2> QED  BY <2>1
<1>8. L = o + E /\ \A p \in 1 .. E : segment[o + p] = e[p]
  BY <1>5, <1>6 DEF StandsAt
<1>9. \/ \E n \in l.from..(l.to - 1) : segment' = SubSeq(segment, 1, n)
      \/ \E zs \in SUBSET ((l.from + 1)..l.to) :
            /\ zs # {} /\ l.rec.typ # "none"
            /\ segment' = [i \in 1..Len(segment) |-> IF i \in zs THEN Zero ELSE segment[i]]
  BY DEF CrashDamage
<1> HIDE DEF N, l, E, e, o, r, L
<1>10. CASE \E n \in o .. (o + E) - 1 : segment' = SubSeq(segment, 1, n)
  <2>1. PICK n \in o .. (o + E) - 1 : segment' = SubSeq(segment, 1, n)
    BY <1>10
  <2>2. n \in Nat /\ n <= L /\ n - o \in Nat /\ n = o + (n - o) /\ n - o < E
    BY <1>5, <1>7, <1>8
  <2>3. segment' \in Seq(AnyCell) /\ Len(segment') = n /\ \A i \in 1 .. n : segment'[i] = segment[i]
    <3> DEFINE z == 0
    <3>1. z \in Nat /\ z + n <= Len(segment) /\ z + 1 = 1 /\ z + n = n
      BY <2>2 DEF L
    <3>2. \A i \in 1 .. n : z + i = i
      BY <2>2
    <3> HIDE DEF z
    <3>3. LET q == SubSeq(segment, z + 1, z + n)
          IN  q \in Seq(AnyCell) /\ Len(q) = n /\ \A i \in 1 .. n : q[i] = segment[z + i]
      BY <1>1, <2>2, <3>1, CellsFacts
    <3> QED  BY <2>1, <3>1, <3>2, <3>3
  <2>4. \A i \in 1 .. o : segment'[i] = segment[i]
    BY <1>5, <2>2, <2>3
  <2>5. Leaves(segment', o, r, n - o)
    <3>1. ASSUME NEW p \in 1 .. n - o PROVE segment'[o + p] = e[p]
      <4>1. o + p \in 1 .. n /\ p \in 1 .. E
        BY <1>5, <1>7, <2>2
      <4> QED  BY <1>8, <2>3, <4>1
    <3> QED  BY <2>2, <2>3, <3>1 DEF Leaves, e
  <2> QED  BY <1>2, <1>5, <2>2, <2>3, <2>4, <2>5 DEF E, e, o, r, l
<1>11. CASE \E zs \in SUBSET (o + 1 .. o + E) :
              /\ zs # {} /\ r.typ # "none"
              /\ segment' = [i \in 1 .. L |-> IF i \in zs THEN Zero ELSE segment[i]]
  <2>1. PICK zs \in SUBSET (o + 1 .. o + E) :
              /\ zs # {} /\ r.typ # "none"
              /\ segment' = [i \in 1 .. L |-> IF i \in zs THEN Zero ELSE segment[i]]
    BY <1>11
  <2>2. segment' \in Seq(AnyCell) /\ Len(segment') = L
    <3>1. \A i \in 1 .. L : (IF i \in zs THEN Zero ELSE segment[i]) \in AnyCell
      BY <1>1 DEF AnyCell, L
    <3> QED  BY <1>1, <2>1, <3>1
  <2>3. \A i \in 1 .. L : segment'[i] = IF i \in zs THEN Zero ELSE segment[i]
    BY <2>1
  <2>4. \A i \in 1 .. o : segment'[i] = segment[i]
    BY <1>5, <1>7, <1>8, <2>1, <2>3
  <2>5. Leaves(segment', o, r, E)
    <3>1. ASSUME NEW p \in 1 .. E PROVE segment'[o + p] \in {Zero, e[p]}
      <4>1. o + p \in 1 .. L
        BY <1>5, <1>7, <1>8
      <4> QED  BY <1>8, <2>3, <4>1
    <3> QED  BY <1>8, <2>2, <3>1 DEF Leaves, e
  <2>6. \E p \in 1 .. E : segment'[o + p] = Zero
    <3>1. PICK i \in zs : TRUE
      BY <2>1
    <3>2. i \in 1 .. L /\ i - o \in 1 .. E /\ o + (i - o) = i
      BY <1>5, <1>7, <1>8, <2>1
    <3>3. segment'[o + (i - o)] = Zero
      BY <2>3, <3>1, <3>2
    <3> QED  BY <3>2, <3>3
  <2>7. o <= Len(segment') /\ E <= E
    BY <1>5, <1>7, <1>8, <2>2
  <2> QED  BY <1>2, <1>5, <1>7, <2>1, <2>2, <2>4, <2>5, <2>6, <2>7 DEF E, e, o, r, l
<1>12. (\E n \in o .. (o + E) - 1 : segment' = SubSeq(segment, 1, n))
       \/ \E zs \in SUBSET (o + 1 .. o + E) :
              /\ zs # {} /\ r.typ # "none"
              /\ segment' = [i \in 1 .. L |-> IF i \in zs THEN Zero ELSE segment[i]]
  BY <1>5, <1>9 DEF o, r, L
<1> QED  BY <1>10, <1>11, <1>12

\* A crash keeps it.
LEMMA CrashInv ==
    ASSUME CodecInv, CrashDamage
    PROVE  CodecInv'
<1> DEFINE N == Len(whole)
           l == Last(whole)
<1>1. segment \in Seq(AnyCell) /\ whole \in Seq(Items) /\ Placed(segment, whole) /\ N \in Nat
  BY DEF CodecInv
<1>2. /\ whole # <<>> /\ l.rec \in Recs /\ l.from \in Nat /\ segment' \in Seq(AnyCell)
      /\ \A i \in 1 .. l.from : segment'[i] = segment[i]
      /\ l.from <= Len(segment')
      /\ \E m \in Nat : /\ Leaves(segment', l.from, l.rec, m) /\ m <= Len(encodeRecordWithBuffer(l.rec))
                        /\ \/ m < Len(encodeRecordWithBuffer(l.rec))
                           \/ l.rec.typ # "none" /\ \E p \in 1 .. m : segment'[l.from + p] = Zero
  BY DamageLeaves
<1>3. N \in 1 .. N /\ N # 0 /\ l = whole[N] /\ N - 1 \in Nat
  BY <1>1, <1>2, EmptySeq DEF Last
<1>4. whole' = SubSeq(whole, 1, N - 1)
  BY DEF CrashDamage, Front
<1>5. whole' \in Seq(Items) /\ Len(whole') = N - 1 /\ \A i \in 1 .. N - 1 : whole'[i] = whole[i]
  <2> DEFINE n == N - 1
  <2>1. n \in Nat /\ n <= Len(whole) /\ n \in Int /\ 1 \in Int /\ \A i \in 1 .. n : whole[i] \in Items
    BY <1>1, <1>3
  <2> HIDE DEF n, N
  <2>2. /\ SubSeq(whole, 1, n) \in Seq(Items) /\ Len(SubSeq(whole, 1, n)) = (IF 1 <= n THEN n - 1 + 1 ELSE 0)
        /\ \A i \in 1 .. n - 1 + 1 : SubSeq(whole, 1, n)[i] = whole[1 + i - 1]
    BY <2>1, SubSeqProperties
  <2>3. (IF 1 <= n THEN n - 1 + 1 ELSE 0) = n /\ n - 1 + 1 = n /\ \A i \in 1 .. n : 1 + i - 1 = i
    BY <2>1
  <2> QED  BY <1>4, <2>2, <2>3 DEF n
<1>6. l.from = EndOf(whole, N - 1)
  BY <1>1, <1>3, PlacesOrdered
<1>7. EndOf(whole', N - 1) = EndOf(whole, N - 1)
  <2> HIDE DEF N
  <2>1. N - 1 # 0 => N - 1 \in 1 .. N - 1
    BY <1>3
  <2> QED  BY <1>5, <2>1 DEF EndOf
<1> HIDE DEF N, l
<1>8. Placed(segment, whole')
  <2> SUFFICES ASSUME NEW i \in 1 .. N - 1
               PROVE  /\ whole'[i].from = IF i = 1 THEN 0 ELSE whole'[i - 1].to
                      /\ whole'[i].to = whole'[i].from + Len(encodeRecordWithBuffer(whole'[i].rec))
                      /\ StandsAt(segment, whole'[i].from, whole'[i].rec)
    BY <1>5 DEF Placed
  <2>1. i \in 1 .. N /\ (i # 1 => i - 1 \in 1 .. N - 1)
    BY <1>3
  <2>2. whole'[i] = whole[i] /\ (i # 1 => whole'[i - 1] = whole[i - 1])
    BY <1>5, <2>1
  <2>3. /\ whole[i].from = IF i = 1 THEN 0 ELSE whole[i - 1].to
        /\ whole[i].to = whole[i].from + Len(encodeRecordWithBuffer(whole[i].rec))
        /\ StandsAt(segment, whole[i].from, whole[i].rec)
    BY <1>1, <2>1 DEF Placed, N
  <2> QED  BY <2>2, <2>3
<1>9. Placed(segment', whole')
  <2>1. EndOf(whole', Len(whole')) <= l.from
    BY <1>2, <1>5, <1>6, <1>7
  <2> QED  BY <1>1, <1>2, <1>5, <1>8, <2>1, PlacedKept
<1>10. (readRawRecordAtWithScratch(ByFile, EndOf(whole, Len(whole))).ok # "record")'
  <2> DEFINE o == l.from
             r == l.rec
  <2>1. PICK m \in Nat : /\ Leaves(segment', o, r, m) /\ m <= Len(encodeRecordWithBuffer(r))
                         /\ \/ m < Len(encodeRecordWithBuffer(r))
                            \/ r.typ # "none" /\ \E p \in 1 .. m : segment'[o + p] = Zero
    BY <1>2
  <2>2. o \in Nat /\ r \in Recs /\ segment' \in Seq(AnyCell)
    BY <1>2
  <2>3. Unreadable'
    BY DamageUnreadable, PTL
  <2>4. o = EndOf(whole', Len(whole'))
    BY <1>5, <1>6, <1>7
  <2> HIDE DEF o, r
  <2> QED  BY <2>1, <2>2, <2>3, <2>4 DEF Unreadable
<1>11. scan' = [pc |-> "scan", off |-> 0, found |-> <<>>]
  BY DEF CrashDamage
<1>12. scan' \in [pc : {"rest", "scan", "recovered"}, off : Nat, found : Seq(Recs)]
  BY <1>11, EmptySeq
<1>13. ScanAt(whole', scan')
  BY <1>3, <1>5, <1>11 DEF ScanAt, EndOf
<1> QED  BY <1>2, <1>5, <1>9, <1>10, <1>11, <1>12, <1>13 DEF CodecInv

\* Where a scan stands: at the next record, or behind the last one.
LEMMA ScanStands ==
    ASSUME CodecInv, recoverSegment
    PROVE  LET n == Len(scan.found)
               r == readRawRecordAtWithScratch(ByFile, scan.off)
           IN  /\ n \in 0 .. Len(whole) /\ scan.off = EndOf(whole, n)
               /\ r.ok = "record" <=> n # Len(whole)
               /\ n # Len(whole) => r.next = whole[n + 1].to /\ r.rec = whole[n + 1].rec
<1> DEFINE n == Len(scan.found)
           N == Len(whole)
           r == readRawRecordAtWithScratch(ByFile, scan.off)
<1>1. /\ segment \in Seq(AnyCell) /\ whole \in Seq(Items) /\ Placed(segment, whole) /\ N \in Nat
      /\ scan.found \in Seq(Recs) /\ scan.pc = "scan" /\ ScanAt(whole, scan)
      /\ readRawRecordAtWithScratch(ByFile, EndOf(whole, N)).ok # "record"
  BY DEF CodecInv, recoverSegment
<1>2. n \in Nat /\ n <= N /\ scan.off = EndOf(whole, n)
  BY <1>1 DEF ScanAt
<1>3. CASE n = N
  BY <1>1, <1>2, <1>3
<1>4. CASE n # N
  <2> DEFINE i == n + 1
             w == whole[i].rec
  <2>1. i \in 1 .. N /\ i - 1 = n
    BY <1>1, <1>2, <1>4
  <2>2. /\ w \in Recs /\ whole[i].from \in Nat /\ whole[i].from = EndOf(whole, i - 1)
        /\ whole[i].to = whole[i].from + Len(encodeRecordWithBuffer(w)) /\ StandsAt(segment, whole[i].from, w)
    BY <1>1, <2>1, PlacesOrdered DEF Placed
  <2>3. whole[i].from = scan.off
    BY <1>2, <2>1, <2>2
  <2> HIDE DEF w
  <2>4. readRawRecordAtWithScratch(ByFile, scan.off) =
           [ok |-> "record", next |-> scan.off + Len(encodeRecordWithBuffer(w)), rec |-> w]
    BY <1>1, <2>2, <2>3, ReadWritten
  <2>5. r.ok = "record" /\ r.next = whole[i].to /\ r.rec = w
    BY <2>2, <2>3, <2>4
  <2> HIDE DEF r, n, N
  <2> QED  BY <1>1, <1>2, <1>4, <2>5 DEF r, n, N, w
<1> QED  BY <1>3, <1>4

\* A step of the scan keeps it.
LEMMA ScanInv ==
    ASSUME CodecInv, recoverSegment
    PROVE  CodecInv'
<1> DEFINE n == Len(scan.found)
           N == Len(whole)
           r == readRawRecordAtWithScratch(ByFile, scan.off)
           W == EndOf(whole, N)
           ScanType == [pc : {"rest", "scan", "recovered"}, off : Nat, found : Seq(Recs)]
<1>1. /\ segment \in Seq(AnyCell) /\ whole \in Seq(Items) /\ Placed(segment, whole) /\ N \in Nat
      /\ scan \in ScanType /\ scan.found \in Seq(Recs) /\ scan.pc = "scan" /\ ScanAt(whole, scan)
      /\ readRawRecordAtWithScratch(ByFile, W).ok # "record"
  BY DEF CodecInv, recoverSegment
<1>2. /\ n \in 0 .. N /\ n \in Nat /\ scan.off = EndOf(whole, n) /\ (r.ok = "record" <=> n # N)
      /\ (n # N => r.next = whole[n + 1].to /\ r.rec = whole[n + 1].rec)
  BY <1>1, ScanStands
<1>3. whole' = whole
  BY DEF recoverSegment
<1>4. \/ n # N /\ scan' = [scan EXCEPT !.off = r.next, !.found = Append(@, r.rec)] /\ segment' = segment
      \/ n = N /\ segment' = SubSeq(segment, 1, scan.off) /\ scan' = [scan EXCEPT !.pc = "recovered"]
  BY <1>2 DEF recoverSegment
<1>5. \A k \in 0 .. N : EndOf(whole, k) \in Nat /\ EndOf(whole, k) <= Len(segment)
  BY <1>1, PlacesOrdered
<1> HIDE DEF r
<1>6. CASE n # N
  <2> DEFINE i == n + 1
             w == whole[i].rec
  <2>1. i \in 1 .. N /\ i \in 0 .. N /\ i # 0
    BY <1>1, <1>2, <1>6
  <2>2. w \in Recs /\ whole[i].to = EndOf(whole, i) /\ EndOf(whole, i) \in Nat
    <3>1. w \in Recs
      BY <1>1, <2>1, PlacesOrdered
    <3>2. whole[i].to = EndOf(whole, i)
      BY <2>1 DEF EndOf
    <3> QED  BY <1>5, <2>1, <3>1, <3>2
  <2>3. r.next = EndOf(whole, i) /\ r.rec = w
    BY <1>2, <1>6, <2>2
  <2> HIDE DEF w
  <2> DEFINE found == Append(scan.found, w)
  <2>4. found \in Seq(Recs) /\ Len(found) = i /\ found[i] = w /\ \A k \in 1 .. n : found[k] = scan.found[k]
    BY <1>1, <2>2
  <2> HIDE DEF found
  <2>5. scan' \in ScanType /\ scan'.pc = "scan" /\ scan'.off = EndOf(whole, i) /\ scan'.found = found
    <3>1. scan' = [scan EXCEPT !.off = EndOf(whole, i), !.found = found]
      BY <1>4, <1>6, <2>3 DEF found
    <3> DEFINE e == EndOf(whole, i)
    <3>2. e \in Nat /\ scan' = [scan EXCEPT !.off = e, !.found = found]
      BY <2>2, <3>1
    <3> HIDE DEF e
    <3> QED  BY <1>1, <2>4, <3>2 DEF e
  <2>6. ScanAt(whole', scan')
    <3>1. ASSUME NEW k \in 1 .. i PROVE found[k] = whole[k].rec
      <4>1. CASE k = i
        BY <2>4, <4>1 DEF w
      <4>2. CASE k # i
        <5>1. k \in 1 .. n
          BY <1>2, <4>2
        <5> QED  BY <1>1, <2>4, <5>1 DEF ScanAt
      <4> QED  BY <4>1, <4>2
    <3>2. i <= N
      BY <2>1, <1>1
    <3> QED  BY <1>3, <2>4, <2>5, <3>1, <3>2 DEF ScanAt
  <2>7. segment' = segment
    BY <1>4, <1>6
  <2>8. (readRawRecordAtWithScratch(ByFile, EndOf(whole, Len(whole))).ok # "record")'
    <3>1. ByFile' = ByFile
      BY <2>7 DEF ByFile
    <3> QED  BY <1>1, <1>3, <3>1
  <2>9. Placed(segment', whole')
    BY <1>1, <1>3, <2>7
  <2> HIDE DEF N, n, W
  <2> QED  BY <1>1, <1>3, <2>5, <2>6, <2>7, <2>8, <2>9 DEF CodecInv
<1>7. CASE n = N
  <2> DEFINE o == scan.off
  <2>1. o = W /\ o \in Nat /\ o <= Len(segment)
    BY <1>2, <1>5, <1>7
  <2>2. segment' = SubSeq(segment, 1, o) /\ scan' = [scan EXCEPT !.pc = "recovered"]
    BY <1>4, <1>7
  <2>3. segment' \in Seq(AnyCell) /\ Len(segment') = o /\ \A i \in 1 .. o : segment'[i] = segment[i]
    <3> DEFINE z == 0
    <3>1. z \in Nat /\ z + o <= Len(segment) /\ z + 1 = 1 /\ z + o = o
      BY <2>1
    <3>2. \A i \in 1 .. o : z + i = i
      BY <2>1
    <3> HIDE DEF z, o
    <3>3. LET q == SubSeq(segment, z + 1, z + o)
          IN  q \in Seq(AnyCell) /\ Len(q) = o /\ \A i \in 1 .. o : q[i] = segment[z + i]
      BY <1>1, <2>1, <3>1, CellsFacts
    <3> QED  BY <2>2, <3>1, <3>2, <3>3
  <2>4. Placed(segment', whole')
    <3>1. EndOf(whole, Len(whole)) <= o /\ o <= Len(segment')
      BY <2>1, <2>3
    <3> HIDE DEF o
    <3>2. Placed(segment', whole)
      BY <1>1, <2>1, <2>3, <3>1, PlacedKept
    <3> QED  BY <1>3, <3>2
  <2>5. scan' \in ScanType /\ scan'.pc = "recovered" /\ scan'.off = scan.off /\ scan'.found = scan.found
    BY <1>1, <2>2
  <2>6. ScanAt(whole', scan') /\ Len(scan'.found) = Len(whole')
    BY <1>1, <1>3, <1>7, <2>5 DEF ScanAt
  <2>7. Len(segment') = EndOf(whole', Len(whole'))
    BY <1>3, <2>1, <2>3
  <2> HIDE DEF N, n, W, o
  <2> QED  BY <1>1, <1>3, <2>3, <2>4, <2>5, <2>6, <2>7 DEF CodecInv
<1> QED  BY <1>6, <1>7

\* Every step keeps it.
LEMMA CodecNextInv ==
    CodecInv /\ [CodecNext]_codecVars => CodecInv'
<1> SUFFICES ASSUME CodecInv, [CodecNext]_codecVars PROVE CodecInv'
  OBVIOUS
<1>1. CASE WriteRecord
  BY <1>1, WriteInv
<1>2. CASE CrashDamage
  BY <1>2, CrashInv
<1>3. CASE recoverSegment
  BY <1>3, ScanInv
<1>4. CASE Reopen
  <2>1. scan' = [pc |-> "rest", off |-> 0, found |-> <<>>] /\ segment' = segment /\ whole' = whole /\ scan.pc = "recovered"
    BY <1>4 DEF Reopen
  <2>2. scan' \in [pc : {"rest", "scan", "recovered"}, off : Nat, found : Seq(Recs)] /\ scan'.pc = "rest"
    BY <2>1, EmptySeq
  <2> QED  BY <2>1, <2>2 DEF CodecInv
<1>5. CASE UNCHANGED codecVars
  <2>1. segment' = segment /\ whole' = whole /\ scan' = scan
    BY <1>5 DEF codecVars
  <2>2. ByFile' = ByFile
    BY <2>1 DEF ByFile
  <2> QED  BY <2>1, <2>2 DEF CodecInv
<1> QED  BY <1>1, <1>2, <1>3, <1>4, <1>5 DEF CodecNext

\* What the invariant says of a recovered segment and of the two decoders.
LEMMA CodecInvReads ==
    CodecInv => RecordsReadBack
<1> SUFFICES ASSUME CodecInv PROVE RecordsReadBack
  OBVIOUS
<1>1. segment \in Seq(AnyCell) /\ whole \in Seq(Items) /\ Placed(segment, whole) /\ scan.found \in Seq(Recs)
  BY DEF CodecInv
<1>2. ReadersAgree
  BY <1>1, AgreeAnywhere
<1>3. ASSUME scan.pc = "recovered"
      PROVE  /\ scan.found = [i \in 1 .. Len(whole) |-> whole[i].rec]
             /\ segment = FlattenSeq([i \in 1 .. Len(whole) |-> encodeRecordWithBuffer(whole[i].rec)])
  <2>1. Len(segment) = EndOf(whole, Len(whole)) /\ ScanAt(whole, scan) /\ Len(scan.found) = Len(whole)
    BY <1>3 DEF CodecInv
  <2>2. segment = FlattenSeq([i \in 1 .. Len(whole) |-> encodeRecordWithBuffer(whole[i].rec)])
    BY <1>1, <2>1, FileIsRecords
  <2>3. \A i \in 1 .. Len(whole) : scan.found[i] = whole[i].rec
    BY <2>1 DEF ScanAt
  <2> DEFINE f == scan.found
             n == Len(whole)
             g == [i \in 1 .. n |-> whole[i].rec]
  <2>4. f \in Seq(Recs) /\ Len(f) = n /\ n \in Nat
    BY <1>1, <2>1
  <2>5. g \in Seq(Recs) /\ Len(g) = n /\ \A i \in 1 .. n : f[i] = g[i]
    <3>1. \A i \in 1 .. n : whole[i].rec \in Recs
      BY <1>1, PlacesOrdered
    <3> HIDE DEF n
    <3> QED  BY <2>3, <2>4, <3>1 DEF n
  <2> HIDE DEF f, g, n
  <2>6. f = g
    BY <2>4, <2>5, SeqEqual
  <2> QED  BY <2>2, <2>6 DEF f, g, n
<1>4. RecoveredExact
  BY <1>3 DEF RecoveredExact
<1> QED  BY <1>2, <1>4 DEF RecordsReadBack

\* RecordsReadBack: in every state a recovered segment holds exactly the records that were
\* written whole and the scan has found them all (recoverSegment), and the decoder over a
\* mapping and the one over a file read the same records, for all lengths, record formats
\* and chunk sizes and any number of records and crashes.
THEOREM ReadBackHolds ==
    CodecSpec => []RecordsReadBack
<1>1. CodecInit => CodecInv
  BY CodecInitInv
<1>2. CodecInv /\ [CodecNext]_codecVars => CodecInv'
  BY CodecNextInv
<1>3. CodecInv => RecordsReadBack
  BY CodecInvReads
<1> QED  BY <1>1, <1>2, <1>3, PTL DEF CodecSpec
=============================================================================
