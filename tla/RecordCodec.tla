----------------------------- MODULE RecordCodec -----------------------------
(***************************************************************************)
(* The binary records of a log segment (internal/logstore/store.go,        *)
(* checksum.go, segment_reader.go): the encoder, the two decoders (from a  *)
(* mapped segment and by ReadAt), and the scan that recovers a segment     *)
(* whose tail a crash left damaged.                                        *)
(*                                                                         *)
(* A segment is a sequence of cells.  The first two cells of a record are  *)
(* its legacy header (36 bytes: magic, version and lengths; sequence       *)
(* number and checksum), the third, of version 2 only, the extension with  *)
(* the checksum type; one cell per byte of the body follows.  The checksum *)
(* is taken to be free of collisions: it is the body it was computed of.   *)
(***************************************************************************)
EXTENDS Integers, Sequences, SequencesExt, FiniteSetsExt

CONSTANTS BodyLens,      \* lengths of stream, event, key and payload
          Formats,       \* version and checksum type of new records
          ChunkSize,     \* checksumChunkSize, in cells
          MaxWritten, MaxDamages  \* bounds

\* A record of version 1 has no checksum type: it is always IEEE.
ASSUME CodecAssumption ==
    /\ \A l \in BodyLens : l \in [1..4 -> Nat]
    /\ \A f \in Formats : f.version \in {1, 2} /\ (f.version = 1 => f.typ = "ieee")
    /\ ChunkSize \in Nat \ {0}

LegacyHeaderSize == 2
HeaderSize == 3
Zero == [c |-> "zero"]
CrcTypes == {"ieee", "crc32c"}

VARIABLES
    segment,   \* the cells of the file
    whole,   \* records written and not damaged, with their place: [rec, from, to]
    damages,
    scan       \* recoverSegment: step, offset, records found

codecVars == <<segment, whole, damages, scan>>

-----------------------------------------------------------------------------
(* Encoding. *)
Checksum(body, typ) == IF typ = "none" THEN <<>> ELSE body

BodyLen(r) == r.lens[1] + r.lens[2] + r.lens[3] + r.lens[4]

\* The body's bytes are told apart by record and position.
BodyOf(r) == [i \in 1..BodyLen(r) |-> [c |-> "byte", seq |-> r.seq, i |-> i]]

encodeRecordWithBuffer(r) ==
    <<[c |-> "base", magic |-> TRUE, version |-> r.version, lens |-> r.lens],
      [c |-> "sum", seq |-> r.seq, crc |-> Checksum(BodyOf(r), r.typ)]>>
    \o (IF r.version = 2 THEN <<[c |-> "ext", typ |-> r.typ]>> ELSE <<>>)
    \o BodyOf(r)

-----------------------------------------------------------------------------
(* Reading.  A source is a sequence of cells and whether it is mapped. *)
Cells(src, off, n) == SubSeq(src.data, off + 1, off + n)

\* segmentIO.slice: only of a mapping, and only if the whole range is in it.
Sliceable(src, off, n) == src.mapped /\ src.data # <<>> /\ off + n <= Len(src.data)

\* ReadAt gives the cells there are; that of a mapping gives all or nothing.
ReadAt(src, off, n) ==
    IF off + n <= Len(src.data) THEN Cells(src, off, n)
    ELSE IF src.mapped /\ src.data # <<>> THEN <<>>
    ELSE Cells(src, off, Len(src.data) - off)

Corrupt == [ok |-> "corrupt"]
Eof == [ok |-> "eof"]

verifyChecksum(body, typ, crc) == Checksum(body, typ) = crc

\* Mutant: the chunks of a large body are read and their checksum is not compared.
ChunksUnchecked(src, off, n, typ, crc) ==
    /\ \A k \in 0..((n - 1) \div ChunkSize) :
          LET len == IF (k + 1) * ChunkSize > n THEN n - k * ChunkSize ELSE ChunkSize
          IN  Len(ReadAt(src, off + k * ChunkSize, len)) = len

\* The chunks are read one by one and folded into one checksum.
ChunksVerified(src, off, n, typ, crc) ==
    LET chunks == 0..((n - 1) \div ChunkSize)
        len(k) == IF (k + 1) * ChunkSize > n THEN n - k * ChunkSize ELSE ChunkSize
        chunk == [k \in chunks |-> ReadAt(src, off + k * ChunkSize, len(k))]
        sum == FoldLeft(LAMBDA acc, k : acc \o chunk[k], <<>>, [i \in 1..Cardinality(chunks) |-> i - 1])
    IN  (\A k \in chunks : Len(chunk[k]) = len(k)) /\ sum = crc

\* readBodyVerifiedIO: a slice, one read, or chunks if the checksum is incremental.
BodyVerified(src, off, n, typ, crc) ==
    IF Sliceable(src, off, n) THEN verifyChecksum(Cells(src, off, n), typ, crc)
    ELSE IF n > ChunkSize /\ typ \in CrcTypes THEN ChunksVerified(src, off, n, typ, crc)
    ELSE Len(ReadAt(src, off, n)) = n /\ verifyChecksum(ReadAt(src, off, n), typ, crc)

\* The fields of a header that is whole, and the body behind it.
Decode(src, off, base, sum, typ, headerLen) ==
    LET n == base.lens[1] + base.lens[2] + base.lens[3] + base.lens[4]
    IN  IF sum.c # "sum" \/ ~BodyVerified(src, off + headerLen, n, typ, sum.crc) THEN Corrupt
        ELSE [ok |-> "record", next |-> off + headerLen + n,
              rec |-> [version |-> base.version, typ |-> typ, lens |-> base.lens, seq |-> sum.seq]]

IsBase(cell) == cell.c = "base"

readRawRecordFromMmap(src, off) ==
    LET base == Cells(src, off, LegacyHeaderSize)
        ext == Cells(src, off + LegacyHeaderSize, 1)
    IN  IF ~IsBase(base[1]) THEN Corrupt
        ELSE IF base[1].version = 1 THEN Decode(src, off, base[1], base[2], "ieee", LegacyHeaderSize)
        ELSE IF ~Sliceable(src, off + LegacyHeaderSize, 1) \/ ext[1].c # "ext" THEN Corrupt
        ELSE Decode(src, off, base[1], base[2], ext[1].typ, HeaderSize)

readRawRecordFromReadAt(src, off) ==
    LET base == ReadAt(src, off, LegacyHeaderSize)
        ext == ReadAt(src, off + LegacyHeaderSize, 1)
    IN  IF base = <<>> THEN Eof
        ELSE IF Len(base) # LegacyHeaderSize \/ ~IsBase(base[1]) THEN Corrupt
        ELSE IF base[1].version = 1 THEN Decode(src, off, base[1], base[2], "ieee", LegacyHeaderSize)
        ELSE IF ext = <<>> \/ ext[1].c # "ext" THEN Corrupt
        ELSE Decode(src, off, base[1], base[2], ext[1].typ, HeaderSize)

readRawRecordAtWithScratch(src, off) ==
    IF Sliceable(src, off, LegacyHeaderSize) THEN readRawRecordFromMmap(src, off)
    ELSE readRawRecordFromReadAt(src, off)

ByFile == [data |-> segment, mapped |-> FALSE]
ByMap == [data |-> segment, mapped |-> TRUE]

-----------------------------------------------------------------------------
(* The file. *)
WriteRecord ==
    /\ scan.pc = "rest" /\ Len(whole) < MaxWritten
    /\ \E lens \in BodyLens, f \in Formats :
         LET r == [version |-> f.version, typ |-> f.typ, lens |-> lens, seq |-> Len(whole) + 1]
         IN  /\ segment' = segment \o encodeRecordWithBuffer(r)
             /\ whole' = Append(whole, [rec |-> r, from |-> Len(segment),
                                            to |-> Len(segment) + Len(encodeRecordWithBuffer(r))])
    /\ UNCHANGED <<damages, scan>>

\* What a crash may leave of the last record: a shorter file, or cells that were never
\* written and read as zero.  A record without a checksum loses only its end.
CrashDamage ==
    /\ scan.pc = "rest" /\ damages < MaxDamages /\ whole # <<>>
    /\ LET l == Last(whole)
       IN  \/ \E n \in l.from..(l.to - 1) : segment' = SubSeq(segment, 1, n)
           \/ \E zs \in SUBSET ((l.from + 1)..l.to) :
                /\ zs # {} /\ l.rec.typ # "none"
                /\ segment' = [i \in 1..Len(segment) |-> IF i \in zs THEN Zero ELSE segment[i]]
    /\ whole' = Front(whole)
    /\ damages' = damages + 1
    /\ scan' = [pc |-> "scan", off |-> 0, found |-> <<>>]

\* recoverSegment, one record: at the first one that does not read the file ends.
recoverSegment ==
    /\ scan.pc = "scan"
    /\ LET r == readRawRecordAtWithScratch(ByFile, scan.off)
       IN  IF r.ok = "record"
           THEN /\ scan' = [scan EXCEPT !.off = r.next, !.found = Append(@, r.rec)]
                /\ UNCHANGED segment
           ELSE /\ segment' = SubSeq(segment, 1, scan.off)
                /\ scan' = [scan EXCEPT !.pc = "recovered"]
    /\ UNCHANGED <<whole, damages>>

Reopen ==
    /\ scan.pc = "recovered"
    /\ scan' = [pc |-> "rest", off |-> 0, found |-> <<>>]
    /\ UNCHANGED <<segment, whole, damages>>

CodecInit ==
    /\ segment = <<>> /\ whole = <<>> /\ damages = 0
    /\ scan = [pc |-> "rest", off |-> 0, found |-> <<>>]

CodecNext == WriteRecord \/ CrashDamage \/ recoverSegment \/ Reopen

CodecSpec == CodecInit /\ [][CodecNext]_codecVars

-----------------------------------------------------------------------------
\* Recovery finds the records that were written whole, all of them and nothing else, and
\* leaves a file that ends with the last of them, whatever part of the tail is missing or
\* reads as zero (recoverSegment: "bytes after the last valid record are discarded").
RecoveredExact ==
    scan.pc = "recovered" =>
        /\ scan.found = [i \in 1..Len(whole) |-> whole[i].rec]
        /\ segment = FlattenSeq([i \in 1..Len(whole) |-> encodeRecordWithBuffer(whole[i].rec)])

\* The decoder over a mapping and the one over a file read the same record at every offset
\* where either reads one, damaged tails and every record size included
\* (readRawRecordFromMmap, readRawRecordFromReadAt).
ReadersAgree ==
    \A off \in 0..Len(segment) :
        LET byMap == readRawRecordAtWithScratch(ByMap, off)
            byFile == readRawRecordAtWithScratch(ByFile, off)
        IN  "record" \in {byMap.ok, byFile.ok} => byMap = byFile

\* Records are read back as they were written: by the scan of a damaged segment and by
\* both decoders.
RecordsReadBack == RecoveredExact /\ ReadersAgree
=============================================================================
