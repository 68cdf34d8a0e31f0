------------------------------ MODULE BlockCodec ------------------------------
(***************************************************************************)
(* How a payload becomes checksummed blocks and comes back: the streaming  *)
(* writer, the streaming reader, its std::io::Read adapter and ranged      *)
(* reads (rawobjstr/src/extent.rs, and get_opts and do_get_range of        *)
(* store.rs).  One extent is written and then read in every way; a block   *)
(* is the sequence of its cells, or BadBlock when its checksum does not    *)
(* match.  The codecs are external: a packed payload is a cell shorter.    *)
(***************************************************************************)
EXTENDS Integers, Sequences, FiniteSets

CONSTANTS
    BlockData,      \* cells of a block (BLOCK_DATA_SIZE)
    BatchBlocks,    \* blocks per device call (BATCH_BLOCKS)
    Sizes,          \* payload sizes; an empty payload is refused (EmptyPayload)
    MetaSizes,      \* sizes of the metadata at the end of a payload
    ChunkSizes,     \* sizes of the chunks that a payload is written in
    BufferSizes,    \* sizes of the buffers that a decoder reads into
    GetRanges,      \* the ranges asked for
    MaxInflated,    \* COMPRESSED_RANGE_READ_MAX
    Word,           \* 2^64: the subtraction of block numbers wraps
    BadBlock

\* Sizes are positive and fit in a word (u64), ranges have the forms of GetRange
\* in object_store, and a bad block is told from a good one by its checksum.
ASSUME CodecAssumption ==
    /\ BlockData \in Nat \ {0} /\ BatchBlocks \in Nat \ {0}
    /\ Sizes \subseteq Nat \ {0} /\ MetaSizes \subseteq Nat
    /\ ChunkSizes \subseteq Nat \ {0} /\ BufferSizes \subseteq Nat \ {0}
    /\ Word \in Nat /\ \A n \in Sizes : n < Word
    /\ GetRanges \subseteq [kind : {"bounded"}, start : Nat, end : Nat]
                           \cup [kind : {"offset"}, start : Nat]
                           \cup [kind : {"suffix"}, length : Nat]
    /\ BadBlock \notin [1..BlockData -> Nat]

VARIABLES
    object,     \* the payload, its meta_len, whether it is packed
    writer,     \* StreamingBlockWriter: the chunk being fed and the buffers
    disk,       \* the blocks at the extent's offset, a neighbour's at the end
    reader,     \* StreamingBlockReader and the buffer of BlockReaderIo
    answer      \* of the last read: what was asked, what was got

codecVars == <<object, writer, disk, reader, answer>>

Least(a, b) == IF a < b THEN a ELSE b
Less(a, b) == IF a < b THEN 0 ELSE a - b       \* saturating_sub

Cells(n) == [i \in 1..n |-> i]
Packed(p) == <<p>> \o [i \in 1..Len(p) - 2 |-> "packed"]
Content(o) == IF o.packed THEN Packed(o.payload) ELSE o.payload
BodySize(o) == Less(Len(o.payload), o.meta)
Body(o) == SubSeq(o.payload, 1, BodySize(o))

\* The cell at an offset into the extent's content.
CellAt(x) == disk[(x \div BlockData) + 1][(x % BlockData) + 1]

\* num_blocks
NumBlocks(n) == (n + BlockData - 1) \div BlockData

NoReader == [on |-> FALSE, size |-> 0, block |-> 0, consumed |-> 0, buf |-> <<>>, out |-> <<>>, err |-> FALSE]
NoAnswer == [kind |-> "none"]

CodecInit ==
    /\ \E n \in Sizes, m \in MetaSizes, z \in BOOLEAN :
          /\ m <= n /\ (z => n > 1)
          /\ object = [payload |-> Cells(n), meta |-> m, packed |-> z]
    /\ writer = [left |-> Content(object), data |-> <<>>, partial |-> <<>>, batch |-> <<>>, finished |-> FALSE]
    /\ disk = <<>>
    /\ reader = NoReader
    /\ answer = NoAnswer

----------------------------------------------------------------------------
(* Writing.                                                                *)

\* put_with_meta_from_file and do_put_with_meta feed the writer piece by piece:
\* write_chunk is called with the next n cells.
WriteChunk(n) ==
    /\ ~writer.finished /\ writer.data = <<>> /\ n <= Len(writer.left)
    /\ writer' = [writer EXCEPT !.data = SubSeq(writer.left, 1, n),
                                !.left = SubSeq(@, n + 1, Len(@))]
    /\ UNCHANGED <<object, disk, reader, answer>>

\* seal_block, with the flush_batch of a batch that is full.
Seal(w, block) ==
    LET batch == Append(w.batch, block)
    IN  IF Len(batch) = BatchBlocks
        THEN /\ disk' = disk \o batch
             /\ writer' = [w EXCEPT !.batch = <<>>, !.partial = <<>>]
        ELSE /\ writer' = [w EXCEPT !.batch = batch, !.partial = <<>>]
             /\ UNCHANGED disk

\* One turn of write_chunk's loop.
FillBlock ==
    /\ writer.data # <<>>
    /\ LET take == Least(Len(writer.data), BlockData - Len(writer.partial))
           part == writer.partial \o SubSeq(writer.data, 1, take)
           w    == [writer EXCEPT !.data = SubSeq(@, take + 1, Len(@)), !.partial = part]
       IN  IF Len(part) = BlockData THEN Seal(w, part) ELSE writer' = w /\ UNCHANGED disk
    /\ UNCHANGED <<object, reader, answer>>

Padded(part) == [i \in 1..BlockData |-> IF i <= Len(part) THEN part[i] ELSE 0]

\* finish: the last block is padded, the rest of the batch written.  What
\* follows on the device belongs to a neighbour or was never written.
Finish ==
    /\ ~writer.finished /\ writer.data = <<>> /\ writer.left = <<>>
    /\ LET last == IF writer.partial = <<>> THEN <<>> ELSE <<Padded(writer.partial)>>
       IN  \E neighbour \in {Padded(<<99>>), BadBlock} :
              disk' = disk \o writer.batch \o last \o <<neighbour, neighbour>>
    /\ writer' = [writer EXCEPT !.partial = <<>>, !.batch = <<>>, !.finished = TRUE]
    /\ UNCHANGED <<object, reader, answer>>

----------------------------------------------------------------------------
(* Reading the whole object.                                               *)

\* get_opts without a range: an empty body needs no device, an uncompressed
\* one is read up to its end, a compressed one with its metadata.
BeginStream ==
    /\ writer.finished /\ ~reader.on
    /\ IF ~object.packed /\ BodySize(object) = 0
       THEN /\ answer' = [kind |-> "stream", got |-> <<>>, failed |-> FALSE]
            /\ UNCHANGED reader
       ELSE /\ reader' = [NoReader EXCEPT !.on = TRUE,
                             !.size = IF object.packed THEN Len(Content(object)) ELSE BodySize(object)]
            /\ answer' = NoAnswer
    /\ UNCHANGED <<object, writer, disk>>

\* The blocks of the next batch, taken up to the payload's end.  A block that
\* fails its checksum spoils the batch after those before it were counted.
Batch(r) == r.block + 1 .. Least(r.block + BatchBlocks, NumBlocks(r.size))

ChunkOf(r) ==
    LET from == r.block * BlockData
        upto == Least(r.size - r.consumed, (Least(r.block + BatchBlocks, NumBlocks(r.size)) - r.block) * BlockData)
    IN  [i \in 1..upto |-> CellAt(from + i - 1)]

\* next_chunk
Advanced(r, n) == [r EXCEPT !.block = Least(r.block + BatchBlocks, NumBlocks(r.size)), !.consumed = @ + n]

\* A pread or a checksum that fails at block i of the batch.
Spoiled(r, i) == [r EXCEPT !.consumed = @ + Least(r.size - @, (i - r.block - 1) * BlockData)]

\* An uncompressed stream: chunk after chunk until there is none.
StreamChunk ==
    /\ reader.on /\ ~object.packed /\ reader.block < NumBlocks(reader.size)
    /\ LET c == ChunkOf(reader)
       IN  reader' = [Advanced(reader, Len(c)) EXCEPT !.out = @ \o c]
    /\ UNCHANGED <<object, writer, disk, answer>>

\* An error ends the stream for its consumer.
StreamError(i) ==
    /\ reader.on /\ ~object.packed /\ i \in Batch(reader)
    /\ reader' = NoReader
    /\ answer' = [kind |-> "stream", got |-> reader.out, failed |-> TRUE]
    /\ UNCHANGED <<object, writer, disk>>

StreamEnd ==
    /\ reader.on /\ ~object.packed /\ reader.block >= NumBlocks(reader.size)
    /\ answer' = [kind |-> "stream", got |-> reader.out, failed |-> FALSE]
    /\ reader' = NoReader
    /\ UNCHANGED <<object, writer, disk>>

----------------------------------------------------------------------------
(* BlockReaderIo, from which a decoder reads.                              *)

\* Mutant of Readable: an error is reported once.
ReadableAgain == TRUE

\* The sticky error.
Readable == ~reader.err

\* read into a buffer of n cells: what is buffered first.
ReadBuffered(n) ==
    /\ reader.on /\ object.packed /\ Readable /\ reader.buf # <<>>
    /\ reader' = [reader EXCEPT !.out = @ \o SubSeq(reader.buf, 1, Least(n, Len(reader.buf))),
                                !.buf = SubSeq(@, n + 1, Len(@))]
    /\ UNCHANGED <<object, writer, disk, answer>>

Refill ==
    /\ reader.on /\ object.packed /\ Readable /\ reader.buf = <<>> /\ reader.block < NumBlocks(reader.size)
    /\ LET c == ChunkOf(reader) IN reader' = [Advanced(reader, Len(c)) EXCEPT !.buf = c]
    /\ UNCHANGED <<object, writer, disk, answer>>

RefillError(i) ==
    /\ reader.on /\ object.packed /\ Readable /\ reader.buf = <<>> /\ i \in Batch(reader)
    /\ reader' = [Spoiled(reader, i) EXCEPT !.err = TRUE]
    /\ UNCHANGED <<object, writer, disk, answer>>

\* Ok(0), and the decoder's output is cut at the body's size; or the decoder
\* gives up with the error.
Decoded ==
    /\ reader.on /\ object.packed
    /\ \/ Readable /\ reader.buf = <<>> /\ reader.block >= NumBlocks(reader.size)
       \/ ~Readable
    /\ answer' = [kind |-> "stream",
                  got |-> IF Readable /\ reader.out = Content(object) THEN Body(object) ELSE <<"other">>,
                  failed |-> ~Readable]
    /\ reader' = NoReader
    /\ UNCHANGED <<object, writer, disk>>

----------------------------------------------------------------------------
(* Ranged reads, under the lock.                                           *)

\* get_opts: the range clamped to the body.
Clamped(r) ==
    LET total == BodySize(object)
    IN  CASE r.kind = "bounded" -> <<Least(Least(r.start, total), Least(r.end, total)), Least(r.end, total)>>
          [] r.kind = "offset"  -> <<Least(r.start, total), total>>
          [] r.kind = "suffix"  -> <<Less(total, r.length), total>>

LastBlock(end) == Less(end, 1) \div BlockData

\* decode_block_range: the part of each block that overlaps the range.
Overlap(first, n, start, end) ==
    LET s == IF start > first * BlockData THEN start ELSE first * BlockData
        e == Least(end, (first + n) * BlockData)
    IN  [i \in 1..Less(e, s) |-> CellAt(s + i - 1)]

\* do_get_range of cells start .. end - 1 of the payload.  The number of
\* blocks is computed in 64-bit words: an empty range at the start of a block
\* wraps around to none.
Ranged(start, end) ==
    LET first == start \div BlockData
        n     == (LastBlock(end) - first + 1 + Word) % Word
        Got(x, failed) == [got |-> x, failed |-> failed]
    IN  IF object.packed
        THEN IF Len(object.payload) > MaxInflated THEN Got(<<>>, TRUE)
             ELSE Got(SubSeq(object.payload, start + 1, end), FALSE)
        ELSE IF first + n > Len(disk) \/ \E i \in first + 1 .. first + n : disk[i] = BadBlock
             THEN Got(<<>>, TRUE)
             ELSE Got(Overlap(first, n, start, end), FALSE)

GetRange(r) ==
    /\ writer.finished /\ ~reader.on
    /\ LET got == Ranged(Clamped(r)[1], Clamped(r)[2])
       IN  answer' = [kind |-> "range", range |-> r, got |-> got.got, failed |-> got.failed]
    /\ UNCHANGED <<object, writer, disk, reader>>

\* get_metadata: the last meta_len cells of the payload.
GetMetadata ==
    /\ writer.finished /\ ~reader.on /\ object.meta > 0
    /\ LET got == Ranged(BodySize(object), Len(object.payload))
       IN  answer' = [kind |-> "meta", got |-> got.got, failed |-> got.failed]
    /\ UNCHANGED <<object, writer, disk, reader>>

CodecNext ==
    \/ \E n \in ChunkSizes : WriteChunk(n)
    \/ FillBlock \/ Finish
    \/ BeginStream \/ StreamChunk \/ StreamEnd \/ Refill \/ Decoded
    \/ \E i \in 1..Len(disk) : StreamError(i) \/ RefillError(i)
    \/ \E n \in BufferSizes : ReadBuffered(n)
    \/ \E r \in GetRanges : GetRange(r)
    \/ GetMetadata

CodecSpec == CodecInit /\ [][CodecNext]_codecVars

----------------------------------------------------------------------------
\* The cells of the body at the positions a range asks for.
Asked(r) ==
    LET in == {i \in 0..BodySize(object) - 1 :
                  CASE r.kind = "bounded" -> r.start <= i /\ i < r.end
                    [] r.kind = "offset"  -> r.start <= i
                    [] r.kind = "suffix"  -> i >= BodySize(object) - r.length}
    IN  IF in = {} THEN <<>>
        ELSE LET lo == CHOOSE i \in in : \A j \in in : i <= j
             IN  SubSeq(Body(object), lo + 1, lo + Cardinality(in))

\* Whatever the sizes of the chunks a payload was written in, a read returns
\* the body, the part of it that was asked for, the metadata, or it fails; and
\* a ranged read of good blocks fails only when a packed object is too large
\* for it: it never touches a block that is not the object's own
\* (store.rs:326).
ReadsExact ==
    CASE answer.kind = "none"   -> TRUE
      [] answer.kind = "stream" -> answer.failed \/ answer.got = Body(object)
      [] OTHER ->
            IF answer.failed
            THEN object.packed /\ Len(object.payload) > MaxInflated
            ELSE answer.got = IF answer.kind = "range" THEN Asked(answer.range)
                              ELSE SubSeq(object.payload, BodySize(object) + 1, Len(object.payload))
=============================================================================
