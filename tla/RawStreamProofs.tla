-------------------------- MODULE RawStreamProofs --------------------------
(***************************************************************************)
(* What runs beside the operations of a store, for every device and key    *)
(* set.  A streaming GET holds no lock while it reads, and is still exact  *)
(* as long as nobody changes its object, for every number of readers and   *)
(* chunk size.  Multipart uploads, for every number of uploads and parts,  *)
(* account for their space, leave no part behind, and complete joins the   *)
(* parts in the order of the calls.                                        *)
(***************************************************************************)
EXTENDS RawReads, RawMultipart, RawStoreProofs, InductionLemmas

----------------------------------------------------------------------------
(* Streaming reads (RawReads).                                             *)

\* The state of a stream that has looked its object up.
Stream == [key : Keys, info : Entry, out : Seq(Cell), failed : BOOLEAN, changed : BOOLEAN]

\* A stream belongs to an open handle and to an extent of the data area.
StreamsTyped ==
    \A r \in Readers : reading[r] # Idle =>
        /\ reading[r] \in Stream
        /\ InBounds(reading[r].info)
        /\ mode # "down"

\* While the entry of its object has not been replaced, the index still
\* lists the extent the stream reads, and what it has delivered is the
\* beginning of that object's body.
StreamsCurrent ==
    \A r \in Readers : reading[r] # Idle /\ ~ reading[r].changed =>
        /\ files[reading[r].key] = reading[r].info
        /\ Len(reading[r].out) <= BodyLen(reading[r].info)
        /\ DeliversBody(reading[r])
        /\ ~ reading[r].failed

\* The inductive invariant: a read is exact because the extent is still
\* listed, what is listed is intact, and writes only reach free blocks.
ReadInv ==
    /\ IndInv
    /\ LiveDataIntact
    /\ reading \in [Readers -> Stream \cup {Idle}]
    /\ StreamsTyped
    /\ StreamsCurrent

\* The body of an entry is at most its payload.
LEMMA BodyLenBounds ==
    ASSUME NEW e \in Entry
    PROVE  BodyLen(e) \in Nat /\ BodyLen(e) <= Len(e.crc) /\ Len(e.crc) \in Nat
BY ExtentOfEntry DEF BodyLen, Entry

\* The blocks that next_chunk reads: as many as are left, up to a batch, and
\* each of them at its place in the extent.
LEMMA ChunkBounds ==
    ASSUME TypeOK, NEW g \in Stream, InBounds(g.info), Len(g.out) < BodyLen(g.info)
    PROVE  /\ ChunkOf(g) \in Seq(Cell)
           /\ Len(g.out) + Len(ChunkOf(g)) <= BodyLen(g.info)
           /\ \A i \in 1..Len(ChunkOf(g)) :
                ChunkOf(g)[i] = disk[g.info.offset + (Len(g.out) + i) - 1]
<1> DEFINE from == Len(g.out)
           upto == MinOf(from + ChunkBlocks, BodyLen(g.info))
           n == upto - from
<1>1. g.info \in Entry /\ g.out \in Seq(Cell) /\ from \in Nat
  BY DEF Stream
<1>2. /\ n \in Nat
      /\ from + n <= BodyLen(g.info)
      /\ BodyLen(g.info) <= Len(g.info.crc)
  BY <1>1, BodyLenBounds, RawReadsAssumption DEF MinOf
<1>3. ASSUME NEW i \in 1..n
      PROVE  /\ g.info.offset + from + i - 1 = g.info.offset + (from + i) - 1
             /\ disk[g.info.offset + from + i - 1] \in Cell
  <2>1. g.info.offset \in Nat /\ Len(g.info.crc) \in Nat /\ BodyLen(g.info) \in Nat
    BY <1>1, ExtentOfEntry, BodyLenBounds
  <2>2. g.info.offset + from + i - 1 \in Blocks
    <3>1. g.info.offset + Len(g.info.crc) <= NBlocks /\ NBlocks \in Nat
      BY RawStoreAssumption DEF InBounds
    <3> HIDE DEF n, from
    <3>2. from + i <= Len(g.info.crc) /\ i >= 1 /\ i \in Nat
      BY <1>1, <1>2, <2>1
    <3>3. \A x, y, z, l, m \in Nat :
            z >= 1 /\ y + z <= l /\ x + l <= m => x + y + z - 1 \in 0..(m - 1)
      OBVIOUS
    <3> QED
      BY <1>1, <2>1, <3>1, <3>2, <3>3 DEF Blocks
  <2> QED
    BY <1>1, <2>1, <2>2 DEF TypeOK
<1>4. ChunkOf(g) = [i \in 1..n |-> disk[g.info.offset + from + i - 1]]
  BY DEF ChunkOf
<1> HIDE DEF n
<1>5. ChunkOf(g) \in Seq(Cell) /\ Len(ChunkOf(g)) = n
  BY <1>2, <1>3, <1>4
<1> QED
  BY <1>2, <1>3, <1>4, <1>5

\* No task streams anything at first.
LEMMA InitReadInv == RInit => ReadInv
<1> SUFFICES ASSUME RInit PROVE ReadInv
  OBVIOUS
<1>1. IndInv /\ LiveDataIntact
  BY InitIndInv DEF RInit, Init, LiveDataIntact
<1> QED
  BY <1>1 DEF RInit, ReadInv, StreamsTyped, StreamsCurrent

\* The store's variables alone decide the store's part of the invariant.
LEMMA StoreUnchanged ==
    ASSUME IndInv, LiveDataIntact, UNCHANGED vars
    PROVE  IndInv' /\ LiveDataIntact'
<1>1. IndInv'
  BY NextIndInv
<1> QED
  BY <1>1 DEF vars, LiveDataIntact, Intact

\* get_opts remembers the entry that the index lists.
LEMMA BeginGetStep ==
    ASSUME ReadInv, NEW r \in Readers, NEW k \in Keys, BeginGet(r, k)
    PROVE  ReadInv'
<1> DEFINE g == [key |-> k, info |-> files[k], out |-> <<>>, failed |-> FALSE,
                 changed |-> FALSE]
<1>1. IndInv' /\ LiveDataIntact' /\ mode' = mode /\ files' = files
  BY StoreUnchanged DEF BeginGet, ReadInv, vars
<1>2. files[k] \in Entry /\ InBounds(files[k])
  BY DEF BeginGet, ReadInv, IndInv, TypeOK, SpaceAccounted, Disjoint, AllKeys
<1>3. g \in Stream /\ <<>> \in Seq(Cell) /\ Len(<<>>) = 0
  BY <1>2 DEF Stream
<1>4. reading' = [reading EXCEPT ![r] = g] /\ mode # "down"
  BY DEF BeginGet
<1>5. \A s \in Readers : reading'[s] = IF s = r THEN g ELSE reading[s]
  BY <1>4 DEF ReadInv
<1>6. reading' \in [Readers -> Stream \cup {Idle}]
  BY <1>3, <1>4 DEF ReadInv
<1>7. StreamsTyped'
  BY <1>1, <1>2, <1>3, <1>4, <1>5 DEF StreamsTyped, ReadInv
<1>8. DeliversBody(g) /\ Len(g.out) <= BodyLen(g.info) /\ ~ g.failed /\ files[g.key] = g.info
  BY <1>2, BodyLenBounds DEF DeliversBody
<1> HIDE DEF g
<1>9. StreamsCurrent'
  BY <1>1, <1>5, <1>8 DEF StreamsCurrent, ReadInv
<1> QED
  BY <1>1, <1>6, <1>7, <1>9 DEF ReadInv

\* next_chunk reads the next blocks of the extent; they pass their CRC and
\* continue the body unless the object has changed.
LEMMA NextChunkStep ==
    ASSUME ReadInv, NEW r \in Readers, NextChunk(r)
    PROVE  ReadInv'
<1> DEFINE g == reading[r]
           c == ChunkOf(g)
           h == IF \E i \in DOMAIN c : c[i] = Bad
                THEN [g EXCEPT !.failed = TRUE] ELSE [g EXCEPT !.out = @ \o c]
<1>1. IndInv' /\ LiveDataIntact' /\ mode' = mode /\ files' = files
  BY StoreUnchanged DEF NextChunk, ReadInv, vars
<1>2. /\ g # Idle /\ g \in Stream /\ InBounds(g.info) /\ mode # "down"
      /\ Len(g.out) < BodyLen(g.info)
      /\ reading' = [reading EXCEPT ![r] = h]
  BY DEF NextChunk, ReadInv, StreamsTyped
<1>3. /\ g.info \in Entry /\ g.out \in Seq(Cell) /\ Len(g.out) \in Nat
      /\ g.key \in AllKeys
  BY <1>2 DEF Stream, AllKeys
<1>4. /\ c \in Seq(Cell) /\ Len(c) \in Nat /\ DOMAIN c = 1..Len(c)
      /\ Len(g.out) + Len(c) <= BodyLen(g.info)
      /\ \A i \in 1..Len(c) : c[i] = disk[g.info.offset + (Len(g.out) + i) - 1]
  BY <1>2, ChunkBounds DEF ReadInv, IndInv
<1> HIDE DEF c
<1>5. /\ h \in Stream /\ h.info = g.info /\ h.changed = g.changed /\ h.key = g.key
  <2>1. g.out \o c \in Seq(Cell)
    BY <1>3, <1>4
  <2> HIDE DEF g
  <2> QED
    BY <1>2, <2>1 DEF Stream
<1>6. \A s \in Readers : reading'[s] = IF s = r THEN h ELSE reading[s]
  BY <1>2 DEF ReadInv
<1>7. ASSUME ~ g.changed
      PROVE  /\ files[h.key] = h.info
             /\ Len(h.out) <= BodyLen(h.info)
             /\ DeliversBody(h)
             /\ ~ h.failed
  <2>1. /\ files[g.key] = g.info /\ DeliversBody(g) /\ ~ g.failed
    BY <1>2, <1>7 DEF ReadInv, StreamsCurrent
  <2>2. Intact(disk, g.info)
    BY <1>2, <1>3, <2>1, ExtentOfEntry DEF ReadInv, LiveDataIntact
  <2>3. ASSUME NEW i \in 1..Len(c)
        PROVE  /\ Len(g.out) + i \in 1..Len(g.info.crc)
               /\ c[i] = g.info.crc[Len(g.out) + i] /\ c[i] # Bad
    <3>1. Len(g.out) + i \in 1..Len(g.info.crc)
      <4>1. BodyLen(g.info) \in Nat /\ BodyLen(g.info) <= Len(g.info.crc)
        BY <1>3, BodyLenBounds
      <4>2. Len(g.info.crc) \in Nat
        BY <1>3, BodyLenBounds
      <4>3. Len(g.out) \in Nat /\ Len(c) \in Nat /\ Len(g.out) + Len(c) <= BodyLen(g.info)
        BY <1>3, <1>4
      <4> HIDE DEF g
      <4> QED
        BY <4>1, <4>2, <4>3
    <3>2. c[i] = g.info.crc[Len(g.out) + i]
      BY <1>4, <2>2, <3>1 DEF Intact
    <3>3. g.info.crc[Len(g.out) + i] \in Data
      BY <1>3, <3>1 DEF Entry
    <3> QED
      BY <3>1, <3>2, <3>3, RawStoreAssumption
  <2>4. h = [g EXCEPT !.out = @ \o c]
    BY <1>4, <2>3
  <2>5. h.out = g.out \o c /\ h.failed = g.failed
    BY <1>2, <2>4 DEF Stream
  <2>6. Len(h.out) = Len(g.out) + Len(c)
    BY <1>3, <1>4, <2>5
  <2>7. ASSUME NEW i \in 1..Len(h.out)
        PROVE  i <= Len(h.info.crc) /\ h.out[i] = h.info.crc[i]
    <3>1. CASE i <= Len(g.out)
      <4>1. h.out[i] = g.out[i] /\ i \in 1..Len(g.out)
        BY <1>3, <1>4, <2>5, <2>6, <3>1
      <4> QED
        BY <1>5, <2>1, <4>1 DEF DeliversBody
    <3>2. CASE i > Len(g.out)
      <4>1. i - Len(g.out) \in 1..Len(c) /\ Len(g.out) + (i - Len(g.out)) = i
        BY <1>3, <1>4, <2>6, <3>2
      <4>2. h.out[i] = c[i - Len(g.out)]
        BY <1>3, <1>4, <2>5, <2>6, <3>2
      <4>3. i \in 1..Len(g.info.crc) /\ c[i - Len(g.out)] = g.info.crc[i]
        BY <2>3, <4>1
      <4> QED
        BY <1>5, <4>2, <4>3
    <3> QED
      BY <1>3, <3>1, <3>2
  <2> QED
    BY <1>4, <1>5, <2>1, <2>5, <2>6, <2>7 DEF DeliversBody
<1> HIDE DEF h, g
<1>8. reading' \in [Readers -> Stream \cup {Idle}]
  BY <1>2, <1>5 DEF ReadInv
<1>9. StreamsTyped'
  BY <1>1, <1>2, <1>5, <1>6 DEF StreamsTyped, ReadInv
<1>10. StreamsCurrent'
  BY <1>1, <1>5, <1>6, <1>7 DEF StreamsCurrent, ReadInv, g
<1> QED
  BY <1>1, <1>8, <1>9, <1>10 DEF ReadInv

\* A dropped stream leaves the others as they were.
LEMMA EndGetStep ==
    ASSUME ReadInv, NEW r \in Readers, EndGet(r)
    PROVE  ReadInv'
<1>1. IndInv' /\ LiveDataIntact' /\ mode' = mode /\ files' = files
  BY StoreUnchanged DEF EndGet, ReadInv, vars
<1>2. \A s \in Readers : reading'[s] = IF s = r THEN Idle ELSE reading[s]
  BY DEF EndGet, ReadInv
<1>3. reading' \in [Readers -> Stream \cup {Idle}]
  BY DEF EndGet, ReadInv
<1>4. StreamsTyped' /\ StreamsCurrent'
  BY <1>1, <1>2 DEF StreamsTyped, StreamsCurrent, ReadInv
<1> QED
  BY <1>1, <1>3, <1>4 DEF ReadInv

\* A step of the store ends every stream with the process, and otherwise
\* records for each whether its object's entry is still the one it read.
LEMMA StoreReadStep ==
    ASSUME OpenModes \subseteq {"FullVerify"}, ReadInv, StoreRuns
    PROVE  ReadInv'
<1>1. IndInv' /\ LiveDataIntact'
  BY NextIndInv, NextIntact DEF StoreRuns, ReadInv
<1> DEFINE moved(g) == [g EXCEPT !.changed = @ \/ files'[g.key] # g.info]
<1>2. \A r \in Readers : reading'[r] =
        IF reading[r] = Idle \/ mode' = "down" THEN Idle ELSE moved(reading[r])
  BY DEF StoreRuns
<1>3. ASSUME NEW r \in Readers, reading'[r] # Idle
      PROVE  /\ reading[r] # Idle /\ mode' # "down" /\ reading'[r] = moved(reading[r])
             /\ reading[r] \in Stream /\ InBounds(reading[r].info)
  BY <1>2, <1>3 DEF ReadInv, StreamsTyped
<1>4. ASSUME NEW g \in Stream
      PROVE  /\ moved(g) \in Stream /\ moved(g).key = g.key /\ moved(g).info = g.info
             /\ moved(g).out = g.out /\ moved(g).failed = g.failed
             /\ ~ moved(g).changed => ~ g.changed /\ files'[g.key] = g.info
  BY DEF Stream
<1>5. reading' \in [Readers -> Stream \cup {Idle}]
  <2>1. \A r \in Readers : reading'[r] \in Stream \cup {Idle}
    BY <1>3, <1>4
  <2> QED
    BY <2>1 DEF StoreRuns
<1> HIDE DEF moved
<1>6. StreamsTyped'
  BY <1>3, <1>4 DEF StreamsTyped
<1>7. StreamsCurrent'
  <2> SUFFICES ASSUME NEW r \in Readers, reading'[r] # Idle, ~ reading'[r].changed
               PROVE  /\ files'[reading'[r].key] = reading'[r].info
                      /\ Len(reading'[r].out) <= BodyLen(reading'[r].info)
                      /\ DeliversBody(reading'[r])
                      /\ ~ reading'[r].failed
    BY DEF StreamsCurrent, DeliversBody, BodyLen
  <2>1. ~ reading[r].changed /\ reading[r] # Idle
    BY <1>3, <1>4
  <2> QED
    BY <1>3, <1>4, <2>1 DEF ReadInv, StreamsCurrent, DeliversBody
<1> QED
  BY <1>1, <1>5, <1>6, <1>7 DEF ReadInv

\* Every step of the store and of its readers preserves the invariant.
LEMMA NextReadInv ==
    ASSUME OpenModes \subseteq {"FullVerify"}, ReadInv, [RNext]_rvars
    PROVE  ReadInv'
<1>1. CASE RNext
  BY <1>1, StoreReadStep, BeginGetStep, NextChunkStep, EndGetStep DEF RNext
<1>2. CASE UNCHANGED rvars
  <2>1. UNCHANGED vars /\ reading' = reading /\ mode' = mode /\ files' = files
    BY <1>2 DEF rvars, vars
  <2> QED
    BY <2>1, StoreUnchanged DEF ReadInv, StreamsTyped, StreamsCurrent
<1> QED
  BY <1>1, <1>2

----------------------------------------------------------------------------
\* A GET of an object that nobody changes while it is streamed delivers that
\* object's body without an error, although it reads the blocks after it has
\* released the lock: whatever the other tasks write, delete, rename or
\* scrub in between, and for every chunk size.
THEOREM StreamedReadsExact ==
    ASSUME OpenModes \subseteq {"FullVerify"}
    PROVE  RSpec => []UndisturbedReadExact
<1>1. RInit => ReadInv
  BY InitReadInv
<1>2. ReadInv /\ [RNext]_rvars => ReadInv'
  BY NextReadInv
<1>3. ReadInv => UndisturbedReadExact
  BY DEF ReadInv, StreamsCurrent, UndisturbedReadExact
<1> QED
  BY <1>1, <1>2, <1>3, PTL DEF RSpec

----------------------------------------------------------------------------
(* Multipart uploads (RawMultipart).                                       *)

\* Futures that have not run belong to parts that have been numbered.
UploadsTyped ==
    \A u \in Uploads : up[u] # Unused =>
        /\ up[u] \in Upload
        /\ Len(up[u].parts) <= MaxParts
        /\ up[u].pending \subseteq 1..Len(up[u].parts)
        /\ up[u].late => ~ up[u].open

\* The temporary extent of part i holds the payload of the i-th put_part
\* call, readable on the device.  On a writer only: a read-only handle lists
\* the leftovers of an earlier process.
PartsHold ==
    mode = "rw" => \A u \in Uploads : up[u] # Unused /\ up[u].open =>
        \A i \in 1..Len(up[u].parts) :
            LET e == files[PartKey(u, i)]
            IN  e # None => e.crc = up[u].parts[i] /\ Intact(disk, e)

\* The inductive invariant.
MultiInv ==
    /\ IndInv
    /\ up \in [Uploads -> Upload \cup {Unused}]
    /\ UploadsTyped
    /\ NoOrphanParts
    /\ PartsHold

\* Part keys are temporary paths, and those of different parts differ.
LEMMA PartKeysApart ==
    /\ \A u \in Uploads, i \in 1..MaxParts : PartKey(u, i) \in TmpKeys
    /\ \A u, v \in Uploads, i, j \in 1..MaxParts :
         PartKey(u, i) = PartKey(v, j) => u = v /\ i = j
    /\ TmpKeys \subseteq AllKeys
    /\ Keys \subseteq AllKeys
    /\ Keys \cap TmpKeys = {}
BY RawMultipartAssumption, RawStoreAssumption DEF PartKey, AllKeys

\* The part keys of an upload.
LEMMA PartKeysOf ==
    ASSUME UploadsTyped, NEW u \in Uploads, up[u] # Unused
    PROVE  /\ Len(up[u].parts) \in Nat
           /\ \A i \in 1..Len(up[u].parts) : i \in 1..MaxParts /\ PartKey(u, i) \in TmpKeys
           /\ PartKeys(u) \subseteq TmpKeys
           /\ \A k : k \in PartKeys(u) <=> \E i \in 1..Len(up[u].parts) : k = PartKey(u, i)
<1>1. up[u] \in Upload /\ Len(up[u].parts) <= MaxParts
  BY DEF UploadsTyped
<1>2. up[u].parts \in Seq(Bodies)
  BY <1>1 DEF Upload
<1>3. Len(up[u].parts) \in Nat
  BY <1>2
<1>4. \A i \in 1..Len(up[u].parts) : i \in 1..MaxParts
  BY <1>1, <1>3, RawMultipartAssumption
<1>5. \A i \in 1..Len(up[u].parts) : PartKey(u, i) \in TmpKeys
  BY <1>4, PartKeysApart
<1> QED
  BY <1>3, <1>4, <1>5 DEF PartKeys

----------------------------------------------------------------------------
\* While a writer is open no step of the store changes a block that is not
\* free: every write goes where FirstFit found room, and a scrub zeroes
\* free blocks.
LEMMA WritesReachFreeBlocks ==
    ASSUME IndInv, Next, mode = "rw", mode' = "rw"
    PROVE  \A b \in Blocks \ free : disk'[b] = disk[b]
<1>0. /\ \A meta \in Metas : meta \in Seq(Data)
      /\ \A body \in Bodies : body \in Seq(Data)
      /\ Keys \subseteq AllKeys
  BY RawStoreAssumption DEF AllKeys
<1>1. CASE \E k \in Keys, body \in Bodies, meta \in Metas : Put(k, body, meta)
  <2>1. PICK k \in Keys, body \in Bodies, meta \in Metas : Put(k, body, meta)
    BY <1>1
  <2> DEFINE p == body \o meta
  <2>2. Len(p) \in Nat
    BY <1>0
  <2>3. PICK o \in Blocks : FirstFit(o, Len(p)) /\ WriteBlocks(o, p)
    BY <2>1 DEF Put
  <2> HIDE DEF p
  <2> QED
    BY <2>2, <2>3, WriteStaysFree
<1>2. CASE \E from, to \in Keys : Copy(from, to) \/ CopyIfNotExists(from, to)
  <2>1. PICK from \in Keys, to \in Keys : Copy(from, to)
    BY <1>2 DEF CopyIfNotExists
  <2>2. files[from] \in Entry /\ InBounds(files[from])
    BY <1>0, <2>1 DEF Copy, IndInv, TypeOK, SpaceAccounted, Disjoint
  <2>3. Len(Raw(files[from])) = Len(files[from].crc) /\ Len(files[from].crc) \in Nat
    BY <2>2, RawTyped, ExtentOfEntry DEF IndInv
  <2>4. PICK o \in Blocks : /\ FirstFit(o, Len(files[from].crc))
                            /\ WriteBlocks(o, Raw(files[from]))
    BY <2>1 DEF Copy
  <2> QED
    BY <2>3, <2>4, WriteStaysFree
<1>3. CASE \E k \in Keys, meta \in Metas : UpdateMetadata(k, meta)
  <2>1. PICK k \in Keys, meta \in Metas : UpdateMetadata(k, meta)
    BY <1>3
  <2>2. files[k] \in Entry /\ InBounds(files[k])
    BY <1>0, <2>1 DEF UpdateMetadata, IndInv, TypeOK, SpaceAccounted, Disjoint
  <2> DEFINE p == Body(files[k]) \o meta
  <2>3. Body(files[k]) \in Seq(Data)
    BY <2>1, <2>2, BodyTyped DEF UpdateMetadata, IndInv
  <2>4. Len(p) \in Nat
    BY <1>0, <2>3
  <2>5. PICK o \in Blocks : FirstFit(o, Len(p)) /\ WriteBlocks(o, p)
    BY <2>1 DEF UpdateMetadata
  <2> HIDE DEF p
  <2> QED
    BY <2>4, <2>5, WriteStaysFree
<1>4. CASE \E body \in Bodies : WriteFails(body)
  <2>1. PICK p \in Bodies : WriteFails(p)
    BY <1>4
  <2>2. PICK o \in Blocks, n \in 1..Len(p) :
          FirstFit(o, Len(p)) /\ WriteBlocks(o, SubSeq(p, 1, n))
    BY <2>1 DEF WriteFails
  <2>3. p \in Seq(Data)
    BY <1>0
  <2>4. Len(SubSeq(p, 1, n)) = n /\ n \in Nat /\ Len(p) \in Nat /\ n <= Len(p)
    BY <2>3
  <2> QED
    BY <2>2, <2>4, WriteStaysFree
<1>5. CASE \/ \E k \in Keys : Delete(k)
           \/ \E from, to \in Keys : Rename(from, to) \/ RenameIfNotExists(from, to)
           \/ \E k \in Keys, meta \in Metas : SetMetaLen(k, Len(meta))
  BY <1>5 DEF Delete, Rename, RenameIfNotExists, SetMetaLen, device
<1>6. CASE DeviceOp
  BY <1>6 DEF DeviceOp, FlushIndex, FlushFails, Repair, ScrubFreeSpace, DeleteTombstone,
       ClearTombstones, ModifyFlags, device
<1>7. CASE Lifecycle
  BY <1>7 DEF Lifecycle, Stop, PowerLoss, Forget, Open
<1> QED
  BY <1>1, <1>2, <1>3, <1>4, <1>5, <1>6, <1>7 DEF Next, ObjectOp

\* The operations of clients and maintenance name client paths only, so the
\* entries of temporary paths change with the handle alone, and a writer
\* starts without any.
LEMMA NextOnTmp ==
    ASSUME IndInv, Next, mode' = "rw", NEW t \in TmpKeys
    PROVE  \/ mode = "rw" /\ files'[t] = files[t]
           \/ mode = "down" /\ files'[t] = None
<1>1. t \in AllKeys /\ t \notin Keys /\ Keys \subseteq AllKeys
  BY RawStoreAssumption DEF AllKeys
<1>2. files \in [AllKeys -> Entry \cup {None}]
  BY DEF IndInv, TypeOK
<1>3. CASE ObjectOp
  <2>1. mode = "rw"
    BY <1>3 DEF ObjectOp, Put, Delete, Copy, CopyIfNotExists, Rename, RenameIfNotExists,
         UpdateMetadata, SetMetaLen, WriteFails
  <2>2. CASE \E k \in Keys : \E e : Insert(k, e)
    BY <1>1, <1>2, <2>1, <2>2 DEF Insert
  <2>3. CASE \/ \E k \in Keys, body \in Bodies, meta \in Metas : Put(k, body, meta)
             \/ \E k \in Keys : Delete(k)
             \/ \E from, to \in Keys : Copy(from, to) \/ CopyIfNotExists(from, to)
             \/ \E k \in Keys, meta \in Metas : UpdateMetadata(k, meta)
    BY <2>2, <2>3 DEF Put, Delete, Copy, CopyIfNotExists, UpdateMetadata
  <2>4. CASE \E from, to \in Keys : Rename(from, to) \/ RenameIfNotExists(from, to)
    BY <1>1, <1>2, <2>1, <2>4 DEF Rename, RenameIfNotExists
  <2>5. CASE \E k \in Keys, meta \in Metas : SetMetaLen(k, Len(meta))
    BY <1>1, <1>2, <2>1, <2>5 DEF SetMetaLen
  <2>6. CASE \E body \in Bodies : WriteFails(body)
    BY <2>1, <2>6 DEF WriteFails, index
  <2> QED
    BY <1>3, <2>3, <2>4, <2>5, <2>6 DEF ObjectOp
<1>4. CASE DeviceOp
  BY <1>4 DEF DeviceOp, FlushIndex, FlushFails, Repair, ScrubFreeSpace, DeleteTombstone,
       ClearTombstones, ModifyFlags, index
<1>5. CASE Lifecycle
  <2>1. PICK m \in OpenModes, ro \in BOOLEAN : Open(m, ro)
    BY <1>5 DEF Lifecycle, Stop, PowerLoss, Forget
  <2>2. ro = FALSE /\ mode = "down"
    BY <2>1 DEF Open
  <2>3. t \in Leftovers(ro)
    BY <2>2 DEF Leftovers
  <2> QED
    BY <1>1, <2>1, <2>2, <2>3 DEF Open
<1> QED
  BY <1>3, <1>4, <1>5 DEF Next

----------------------------------------------------------------------------
\* complete: what it reads back and joins are the payloads of the put_part
\* calls, in their order.
LEMMA CompletePayload ==
    ASSUME MultiInv, NEW u \in Uploads, Complete(u)
    PROVE  LET p == FlattenSeq([i \in 1..Len(up[u].parts) |-> Raw(files[PartKey(u, i)])])
           IN  /\ p = FlattenSeq(up[u].parts)
               /\ p \in Seq(Data)
               /\ Len(p) > 0
<1> DEFINE parts == up[u].parts
           read == [i \in 1..Len(parts) |-> Raw(files[PartKey(u, i)])]
<1>1. /\ mode = "rw" /\ up[u] # Unused /\ up[u].open /\ parts # <<>>
      /\ \A k \in PartKeys(u) : files[k] # None
  BY DEF Complete
<1>2. parts \in Seq(Bodies) /\ Bodies \subseteq Seq(Data)
  BY <1>1, RawStoreAssumption DEF MultiInv, UploadsTyped, Upload
<1>3. parts \in Seq(Seq(Data)) /\ Len(parts) \in Nat /\ Len(parts) # 0
  BY <1>1, <1>2, EmptySeq
<1>4. ASSUME NEW i \in 1..Len(parts)
      PROVE  Raw(files[PartKey(u, i)]) = parts[i] /\ Len(parts[i]) > 0
  <2> DEFINE e == files[PartKey(u, i)]
  <2>1. PartKey(u, i) \in AllKeys /\ PartKey(u, i) \in PartKeys(u)
    BY <1>1, PartKeysOf, PartKeysApart DEF MultiInv
  <2>2. e # None /\ e \in Entry /\ InBounds(e)
    BY <1>1, <2>1 DEF MultiInv, IndInv, TypeOK, SpaceAccounted, Disjoint
  <2>3. e.crc = parts[i] /\ Intact(disk, e)
    BY <1>1, <2>2 DEF MultiInv, PartsHold
  <2>4. Raw(e) = e.crc
    BY <2>2, <2>3, IntactRaw DEF MultiInv, IndInv
  <2> QED
    BY <2>2, <2>3, <2>4 DEF InBounds
<1> HIDE DEF parts
<1>5. read = parts
  <2>1. parts = [i \in 1..Len(parts) |-> parts[i]]
    BY <1>3
  <2> QED
    BY <1>4, <2>1
<1>6. 1 \in 1..Len(parts) /\ parts[1] \in Seq(Data) /\ parts # <<>>
  BY <1>1, <1>3
<1>7. FlattenSeq(parts) \in Seq(Data) /\ Len(parts[1]) <= Len(FlattenSeq(parts))
  BY <1>3, <1>6, FlattenTyped
<1>8. Len(FlattenSeq(parts)) > 0
  BY <1>4, <1>6, <1>7
<1> QED
  BY <1>5, <1>7, <1>8 DEF parts

\* The index and the free blocks after complete.
LEMMA CompleteEffect ==
    ASSUME MultiInv, NEW u \in Uploads, Complete(u)
    PROVE  \E o \in Blocks : LET p == FlattenSeq(up[u].parts)
                                 e == [offset |-> o, crc |-> p, meta_len |-> 0]
                                 f == [files EXCEPT ![up[u].dest] = e]
           IN  /\ p \in Seq(Data) /\ Len(p) > 0
               /\ FirstFit(o, Len(p))
               /\ WriteBlocks(o, p)
               /\ RemoveParts(f, (free \ Run(o, Len(p))) \cup Extent(files[up[u].dest]),
                              PartKeys(u))
BY CompletePayload DEF Complete

\* complete accounts for its space: the joined object goes into free blocks,
\* then the object it replaces and the parts give theirs back.
LEMMA CompleteIndInv ==
    ASSUME MultiInv, NEW u \in Uploads, Complete(u)
    PROVE  IndInv'
<1> DEFINE dest == up[u].dest
           parts == PartKeys(u)
           p == FlattenSeq(up[u].parts)
<1>1. /\ mode = "rw" /\ up[u] # Unused /\ dirty' = TRUE
      /\ tombs' = tombs \ {dest} /\ kept' = kept \ (parts \cup {dest})
      /\ shardDirty' = [s \in Shards |->
             shardDirty[s] \/ \E k \in parts \cup {dest} : ShardOf[k] = s]
      /\ UNCHANGED <<pfiles, ptombs, lost, wp, flipped, mode>>
  BY DEF Complete
<1>2. parts \in SUBSET AllKeys /\ dest \in AllKeys
  BY <1>1, PartKeysOf, PartKeysApart DEF MultiInv, UploadsTyped, Upload
<1>3. PICK o \in Blocks :
        /\ p \in Seq(Data) /\ Len(p) > 0
        /\ FirstFit(o, Len(p))
        /\ WriteBlocks(o, p)
        /\ RemoveParts([files EXCEPT ![dest] = [offset |-> o, crc |-> p, meta_len |-> 0]],
                       (free \ Run(o, Len(p))) \cup Extent(files[dest]), parts)
  BY CompleteEffect
<1> HIDE DEF p, parts, dest
<1> DEFINE e == [offset |-> o, crc |-> p, meta_len |-> 0]
           f == [files EXCEPT ![dest] = e]
           fr == (free \ Run(o, Len(p))) \cup Extent(files[dest])
<1>4. /\ files \in [AllKeys -> Entry \cup {None}] /\ Disjoint(files)
      /\ free = Blocks \ Used(files)
  BY <1>1 DEF MultiInv, IndInv, TypeOK, SpaceAccounted
<1>5. e \in Entry /\ Len(e.crc) > 0 /\ e.crc = p /\ e.offset = o
  BY <1>3 DEF Entry
<1>6. Extent(e) = Run(o, Len(p))
  BY <1>5, ExtentOfEntry DEF Run
<1>7. /\ f \in [AllKeys -> Entry \cup {None}]
      /\ \A j \in AllKeys : f[j] = IF j = dest THEN e ELSE files[j]
  BY <1>2, <1>4, <1>5
<1>8. files' = [k \in AllKeys |-> IF k \in parts THEN None ELSE f[k]]
      /\ free' = fr \cup UNION {Extent(f[k]) : k \in parts}
  BY <1>1, <1>3 DEF RemoveParts
<1> HIDE DEF e, f
<1>9. Disjoint(f) /\ Blocks \ Used(f) = fr
  <2>1. Extent(e) \subseteq free
    BY <1>3, <1>6 DEF FirstFit
  <2>2. Extent(e) \cap Used(files) = {} /\ Extent(e) \subseteq Blocks
    BY <1>4, <2>1
  <2>3. /\ Disjoint(f)
        /\ Blocks \ Used(f) = ((Blocks \ Used(files)) \ Extent(e)) \cup Extent(files[dest])
    BY <1>2, <1>4, <1>5, <1>7, <2>2, InsertSpace
  <2> QED
    BY <1>4, <1>6, <2>3
<1>10. /\ files' \in [AllKeys -> Entry \cup {None}]
       /\ \A j \in AllKeys : files'[j] = IF j \in parts THEN None ELSE f[j]
  BY <1>7, <1>8
<1>11. Disjoint(files') /\ free' = Blocks \ Used(files')
  <2>1. /\ Disjoint(files')
        /\ Blocks \ Used(files') = (Blocks \ Used(f)) \cup UNION {Extent(f[j]) : j \in parts}
    BY <1>2, <1>7, <1>9, <1>10, RemoveSpace
  <2> QED
    BY <1>8, <1>9, <2>1
<1>12. disk' \in [Blocks -> Cell] /\ media' \in [Blocks -> SUBSET Cell]
  <2>1. p \in Seq(Cell)
    BY <1>3 DEF Cell
  <2> QED
    BY <1>3, <2>1, WriteTyped DEF MultiInv, IndInv
<1>13. TypeOK'
  BY <1>1, <1>10, <1>11, <1>12 DEF MultiInv, IndInv, TypeOK
<1>14. SpaceAccounted'
  BY <1>1, <1>11 DEF MultiInv, IndInv, SpaceAccounted, Disjoint
<1>15. CleanIsPersisted'
  <2>1. ASSUME NEW j \in AllKeys, ~ shardDirty'[ShardOf[j]]
        PROVE  files'[j] = pfiles'[j] /\ (j \in tombs' <=> j \in ptombs')
    <3>1. ShardOf[j] \in Shards
      BY RawStoreAssumption
    <3>2. j \notin parts /\ j # dest /\ ~ shardDirty[ShardOf[j]]
      BY <1>1, <2>1, <3>1
    <3> QED
      BY <1>1, <1>7, <1>10, <3>2 DEF MultiInv, IndInv, CleanIsPersisted
  <2>2. ASSUME NEW s \in lost' \cup flipped'
        PROVE  shardDirty'[s]
    BY <1>1, <2>2 DEF MultiInv, IndInv, TypeOK, CleanIsPersisted
  <2> QED
    BY <1>1, <2>1, <2>2 DEF CleanIsPersisted
<1> QED
  BY <1>1, <1>13, <1>14, <1>15 DEF MultiInv, IndInv

\* abort gives back the extents of the parts that have been written.
LEMMA AbortIndInv ==
    ASSUME MultiInv, NEW u \in Uploads, Abort(u)
    PROVE  IndInv'
<1> DEFINE parts == {k \in PartKeys(u) : files[k] # None}
<1>1. /\ up[u] # Unused /\ RemoveParts(files, free, parts) /\ dirty' = TRUE
      /\ kept' = kept \ parts
      /\ shardDirty' = [s \in Shards |-> shardDirty[s] \/ \E k \in parts : ShardOf[k] = s]
      /\ UNCHANGED <<disk, media, pfiles, ptombs, lost, wp, tombs, flipped, mode>>
  BY DEF Abort, device
<1>2. parts \in SUBSET AllKeys
  BY <1>1, PartKeysOf, PartKeysApart DEF MultiInv
<1> HIDE DEF parts
<1>3. files \in [AllKeys -> Entry \cup {None}] /\ Disjoint(files)
  BY DEF MultiInv, IndInv, TypeOK, SpaceAccounted
<1>4. /\ files' \in [AllKeys -> Entry \cup {None}]
      /\ \A j \in AllKeys : files'[j] = IF j \in parts THEN None ELSE files[j]
  BY <1>1, <1>3 DEF RemoveParts
<1>5. /\ Disjoint(files')
      /\ Blocks \ Used(files') = (Blocks \ Used(files)) \cup UNION {Extent(files[j]) : j \in parts}
  BY <1>2, <1>3, <1>4, RemoveSpace
<1>6. mode = "rw" => free' = Blocks \ Used(files')
  BY <1>1, <1>5 DEF RemoveParts, MultiInv, IndInv, SpaceAccounted
<1>7. mode # "rw" => free' = free
  BY <1>1 DEF RemoveParts
<1>8. TypeOK'
  BY <1>1, <1>4, <1>6, <1>7 DEF MultiInv, IndInv, TypeOK
<1>9. SpaceAccounted'
  BY <1>1, <1>5, <1>6 DEF MultiInv, IndInv, SpaceAccounted, Disjoint
<1>10. CleanIsPersisted'
  <2>1. ASSUME mode # "down", NEW j \in AllKeys, ~ shardDirty'[ShardOf[j]]
        PROVE  files'[j] = pfiles'[j] /\ (j \in tombs' <=> j \in ptombs')
    <3>1. ShardOf[j] \in Shards
      BY RawStoreAssumption
    <3>2. j \notin parts /\ ~ shardDirty[ShardOf[j]]
      BY <1>1, <2>1, <3>1
    <3> QED
      BY <1>1, <1>4, <2>1, <3>2 DEF MultiInv, IndInv, CleanIsPersisted
  <2>2. ASSUME mode # "down", NEW s \in lost' \cup flipped'
        PROVE  shardDirty'[s]
    BY <1>1, <2>2 DEF MultiInv, IndInv, TypeOK, CleanIsPersisted
  <2> QED
    BY <1>1, <2>1, <2>2 DEF CleanIsPersisted
<1> QED
  BY <1>1, <1>8, <1>9, <1>10 DEF MultiInv, IndInv

----------------------------------------------------------------------------
\* A step that leaves the blocks in use alone keeps an intact entry intact.
LEMMA StaysIntact ==
    ASSUME IndInv, mode = "rw", NEW k \in AllKeys, files[k] # None,
           Intact(disk, files[k]),
           \A b \in Blocks \ free : disk'[b] = disk[b]
    PROVE  Intact(disk', files[k])
<1>1. files[k] \in Entry
  BY DEF IndInv, TypeOK
<1>2. Extent(files[k]) \subseteq Blocks \ free
  BY LiveInBlocks, UsedMember DEF IndInv, TypeOK, SpaceAccounted
<1>3. \A i \in 1..Len(files[k].crc) : files[k].offset + i - 1 \in Extent(files[k])
  BY <1>1, ExtentOfEntry
<1> QED
  BY <1>2, <1>3 DEF Intact

\* No upload is in progress at first.
LEMMA InitMultiInv == MInit => MultiInv
<1> SUFFICES ASSUME MInit PROVE MultiInv
  OBVIOUS
<1>1. IndInv /\ \A k \in AllKeys : files[k] = None
  BY InitIndInv DEF MInit, Init
<1> QED
  BY <1>1 DEF MInit, MultiInv, UploadsTyped, NoOrphanParts, PartsHold, AllKeys

\* put_multipart_opts, put_part and a dropped future do not touch the store.
LEMMA NumberingStep ==
    ASSUME MultiInv, NEW u \in Uploads,
           \/ \E k \in Keys : BeginUpload(u, k)
           \/ \E p \in Bodies : PutPart(u, p)
           \/ \E i \in 1..MaxParts : DropPart(u, i)
    PROVE  MultiInv'
<1>1. UNCHANGED vars
  BY DEF BeginUpload, PutPart, DropPart
<1>2. IndInv' /\ UNCHANGED <<files, disk, mode>>
  BY <1>1, NextIndInv DEF MultiInv, vars
<1>3. CASE \E k \in Keys : BeginUpload(u, k)
  <2>1. PICK k \in Keys : BeginUpload(u, k)
    BY <1>3
  <2> DEFINE new == [dest |-> k, parts |-> <<>>, pending |-> {}, open |-> TRUE, late |-> FALSE]
  <2>2. up[u] = Unused /\ up' = [up EXCEPT ![u] = new]
    BY <2>1 DEF BeginUpload
  <2>3. /\ new \in Upload /\ new.parts = <<>> /\ Len(new.parts) = 0
        /\ new.pending = {} /\ new.open /\ ~ new.late
    BY DEF Upload
  <2> HIDE DEF new
  <2>4. /\ up' \in [Uploads -> Upload \cup {Unused}]
        /\ \A v \in Uploads : up'[v] = IF v = u THEN new ELSE up[v]
    BY <2>2, <2>3 DEF MultiInv
  <2>5. UploadsTyped'
    BY <2>3, <2>4, RawMultipartAssumption DEF MultiInv, UploadsTyped
  <2>6. NoOrphanParts'
    BY <1>2, <2>2, <2>4 DEF MultiInv, NoOrphanParts, PartKeys
  <2>7. PartsHold'
    BY <1>2, <2>3, <2>4 DEF MultiInv, PartsHold
  <2> QED
    BY <1>2, <2>4, <2>5, <2>6, <2>7 DEF MultiInv
<1>4. CASE \E p \in Bodies : PutPart(u, p)
  <2>1. PICK p \in Bodies : PutPart(u, p)
    BY <1>4
  <2> DEFINE old == up[u]
             n == Len(old.parts)
             new == [old EXCEPT !.parts = Append(@, p), !.pending = @ \cup {n + 1}]
  <2>2. /\ old # Unused /\ old.open /\ n < MaxParts
        /\ up' = [up EXCEPT ![u] = new]
    BY <2>1 DEF PutPart, MultiInv
  <2>3. /\ old \in Upload /\ old.pending \subseteq 1..n /\ ~ old.late
        /\ old.parts \in Seq(Bodies) /\ n \in Nat
    BY <2>2 DEF MultiInv, UploadsTyped, Upload
  <2>4. /\ new \in Upload /\ new.parts = Append(old.parts, p) /\ new.open /\ ~ new.late
        /\ new.pending = old.pending \cup {n + 1}
    <3>1. Append(old.parts, p) \in Seq(Bodies) /\ old.pending \cup {n + 1} \in SUBSET Nat
      BY <2>3
    <3> HIDE DEF old, n
    <3> QED
      BY <2>2, <2>3, <3>1 DEF Upload
  <2>5. Len(new.parts) = n + 1 /\ \A i \in 1..n : new.parts[i] = old.parts[i]
    BY <2>3, <2>4
  <2>6. /\ up' \in [Uploads -> Upload \cup {Unused}]
        /\ \A v \in Uploads : up'[v] = IF v = u THEN new ELSE up[v]
    BY <2>2, <2>4 DEF MultiInv
  <2>7. mode = "rw" => files[PartKey(u, n + 1)] = None
    <3> SUFFICES ASSUME mode = "rw", files[PartKey(u, n + 1)] # None PROVE FALSE
      OBVIOUS
    <3>1. n + 1 \in 1..MaxParts
      BY <2>2, <2>3, RawMultipartAssumption
    <3>2. PICK v \in Uploads : up[v] # Unused /\ PartKey(u, n + 1) \in PartKeys(v)
      BY <3>1, PartKeysApart DEF MultiInv, NoOrphanParts
    <3>3. PICK i \in 1..Len(up[v].parts) : PartKey(u, n + 1) = PartKey(v, i)
      BY <3>2 DEF PartKeys
    <3>4. i \in 1..MaxParts
      BY <3>2, PartKeysOf DEF MultiInv
    <3>5. v = u /\ i = n + 1
      BY <3>1, <3>3, <3>4, PartKeysApart
    <3> QED
      BY <2>3, <3>5
  <2> HIDE DEF new, old, n
  <2>8. UploadsTyped'
    <3>1. n + 1 <= MaxParts /\ new.pending \subseteq 1..(n + 1)
      BY <2>2, <2>3, <2>4, RawMultipartAssumption
    <3> QED
      BY <2>4, <2>5, <2>6, <3>1 DEF MultiInv, UploadsTyped
  <2>9. NoOrphanParts'
    <3>1. \A v \in Uploads : up[v] # Unused => up'[v] # Unused \/ v = u
      BY <2>6
    <3>2. \A v \in Uploads : v # u => PartKeys(v)' = PartKeys(v)
      BY <2>6 DEF PartKeys
    <3>3. PartKeys(u) \subseteq PartKeys(u)'
      <4>1. \A i \in 1..n : i \in 1..(n + 1)
        BY <2>3
      <4> QED
        BY <2>5, <2>6, <4>1 DEF PartKeys, n, old
    <3>4. up'[u] # Unused
      BY <2>4, <2>6, RawMultipartAssumption
    <3> QED
      BY <1>2, <2>4, <2>6, <3>2, <3>3, <3>4 DEF MultiInv, NoOrphanParts
  <2>10. PartsHold'
    <3> SUFFICES ASSUME mode = "rw", NEW v \in Uploads, up'[v] # Unused, up'[v].open,
                        NEW i \in 1..Len(up'[v].parts), files[PartKey(v, i)] # None
                 PROVE  /\ files[PartKey(v, i)].crc = up'[v].parts[i]
                        /\ Intact(disk, files[PartKey(v, i)])
      BY <1>2 DEF PartsHold, Intact, PartKey
    <3>1. CASE v # u
      BY <2>6, <3>1 DEF MultiInv, PartsHold
    <3>2. CASE v = u
      <4>1. i \in 1..(n + 1) /\ i # n + 1
        BY <2>5, <2>6, <2>7, <3>2
      <4>2. i \in 1..n
        BY <2>3, <4>1
      <4>3. files[PartKey(u, i)].crc = old.parts[i] /\ Intact(disk, files[PartKey(u, i)])
        BY <2>2, <3>2, <4>2 DEF MultiInv, PartsHold, old, n
      <4> QED
        BY <2>5, <2>6, <3>2, <4>2, <4>3
    <3> QED
      BY <3>1, <3>2
  <2> QED
    BY <1>2, <2>6, <2>8, <2>9, <2>10 DEF MultiInv
<1>5. CASE \E i \in 1..MaxParts : DropPart(u, i)
  <2>1. PICK i \in 1..MaxParts : DropPart(u, i)
    BY <1>5
  <2> DEFINE new == [up[u] EXCEPT !.pending = @ \ {i}]
  <2>2. up[u] # Unused /\ up' = [up EXCEPT ![u] = new] /\ up[u] \in Upload
    BY <2>1 DEF DropPart, MultiInv, UploadsTyped
  <2>3. /\ new \in Upload /\ new.parts = up[u].parts /\ new.open = up[u].open
        /\ new.late = up[u].late /\ new.pending = up[u].pending \ {i}
    BY <2>2 DEF Upload
  <2> HIDE DEF new
  <2>4. /\ up' \in [Uploads -> Upload \cup {Unused}]
        /\ \A v \in Uploads : up'[v] = IF v = u THEN new ELSE up[v]
    BY <2>2, <2>3 DEF MultiInv
  <2>5. new # Unused
    BY <2>3, RawMultipartAssumption
  <2>6. UploadsTyped'
    BY <2>2, <2>3, <2>4 DEF MultiInv, UploadsTyped
  <2>7. NoOrphanParts'
    BY <1>2, <2>2, <2>3, <2>4, <2>5 DEF MultiInv, NoOrphanParts, PartKeys
  <2>8. PartsHold'
    BY <1>2, <2>2, <2>3, <2>4 DEF MultiInv, PartsHold
  <2> QED
    BY <1>2, <2>4, <2>6, <2>7, <2>8 DEF MultiInv
<1> QED
  BY <1>3, <1>4, <1>5

\* A part's future writes the payload it was created with under the number
\* it was created with.
LEMMA RunPartStep ==
    ASSUME MultiInv, NEW u \in Uploads, NEW i \in 1..MaxParts, RunPart(u, i)
    PROVE  MultiInv'
<1> DEFINE k == PartKey(u, i)
           p == up[u].parts[i]
           new == [up[u] EXCEPT !.pending = @ \ {i}, !.late = @ \/ ~ up[u].open]
<1>1. /\ up[u] # Unused /\ i \in up[u].pending /\ Put(k, p, <<>>)
      /\ up' = [up EXCEPT ![u] = new]
  BY DEF RunPart, MultiInv
<1>2. /\ up[u] \in Upload /\ i \in 1..Len(up[u].parts) /\ k \in TmpKeys /\ k \in AllKeys
      /\ up[u].pending \subseteq 1..Len(up[u].parts)
  BY <1>1, PartKeysApart DEF MultiInv, UploadsTyped
<1>3. p \in Seq(Data) /\ <<>> \in Seq(Data) /\ Len(<<>>) = 0 /\ Len(p) \in Nat /\ p \o <<>> = p
  <2>1. up[u].parts \in Seq(Bodies) /\ Bodies \subseteq Seq(Data)
    BY <1>2, RawStoreAssumption DEF Upload
  <2>2. p \in Seq(Data)
    BY <1>2, <2>1
  <2> HIDE DEF p
  <2> QED
    BY <2>2
<1>4. IndInv'
  BY <1>1, <1>2, <1>3, PutStep DEF MultiInv
<1>5. /\ new \in Upload /\ new.parts = up[u].parts /\ new.open = up[u].open
      /\ new.late = (up[u].late \/ ~ up[u].open) /\ new.pending = up[u].pending \ {i}
  BY <1>2 DEF Upload
<1>6. PICK o \in Blocks :
        /\ FirstFit(o, Len(p)) /\ WriteBlocks(o, p)
        /\ Insert(k, [offset |-> o, crc |-> p, meta_len |-> 0])
  BY <1>1, <1>3 DEF Put
<1>7. mode = "rw" /\ mode' = "rw"
  BY <1>1 DEF Put
<1> HIDE DEF new, p
<1> DEFINE e == [offset |-> o, crc |-> p, meta_len |-> 0]
<1>8. e \in Entry /\ e.crc = p /\ e.offset = o /\ Len(e.crc) = Len(p)
  BY <1>3 DEF Entry
<1>9. \A j \in AllKeys : files'[j] = IF j = k THEN e ELSE files[j]
  BY <1>2, <1>6 DEF Insert, MultiInv, IndInv, TypeOK
<1> HIDE DEF e
<1>10. Intact(disk', e) /\ e # None
  BY <1>3, <1>6, <1>8, WriteIsIntact, ExtentOfEntry DEF MultiInv, IndInv, TypeOK
<1>11. \A b \in Blocks \ free : disk'[b] = disk[b]
  BY <1>3, <1>6, WriteStaysFree
<1>12. /\ up' \in [Uploads -> Upload \cup {Unused}]
       /\ \A v \in Uploads : up'[v] = IF v = u THEN new ELSE up[v]
       /\ new # Unused
  BY <1>1, <1>5, RawMultipartAssumption DEF MultiInv
<1>13. UploadsTyped'
  BY <1>1, <1>5, <1>12 DEF MultiInv, UploadsTyped
<1>14. NoOrphanParts'
  <2>1. \A v \in Uploads : PartKeys(v)' = PartKeys(v)
    BY <1>5, <1>12 DEF PartKeys
  <2>2. k \in PartKeys(u) /\ up'[u] # Unused /\ (up'[u].open \/ up'[u].late)
    BY <1>2, <1>5, <1>12 DEF PartKeys
  <2>3. \A v \in Uploads : up[v] # Unused /\ (up[v].open \/ up[v].late) =>
          up'[v] # Unused /\ (up'[v].open \/ up'[v].late)
    BY <1>5, <1>12
  <2>4. \A t \in TmpKeys : files'[t] # None => t = k \/ files[t] # None
    BY <1>9, PartKeysApart
  <2> HIDE DEF k
  <2> QED
    BY <1>7, <2>1, <2>2, <2>3, <2>4 DEF MultiInv, NoOrphanParts
<1>15. PartsHold'
  <2> SUFFICES ASSUME NEW v \in Uploads, up'[v] # Unused, up'[v].open,
                      NEW j \in 1..Len(up'[v].parts), files'[PartKey(v, j)] # None
               PROVE  /\ files'[PartKey(v, j)].crc = up'[v].parts[j]
                      /\ Intact(disk', files'[PartKey(v, j)])
    BY DEF PartsHold, Intact, PartKey
  <2>1. up[v] # Unused /\ up[v].open /\ up'[v].parts = up[v].parts
    BY <1>1, <1>5, <1>12
  <2>2. j \in 1..MaxParts /\ PartKey(v, j) \in AllKeys
    BY <2>1, PartKeysOf, PartKeysApart DEF MultiInv
  <2>3. CASE PartKey(v, j) = k
    <3>1. v = u /\ j = i
      BY <2>2, <2>3, PartKeysApart
    <3> QED
      BY <1>8, <1>9, <1>10, <2>1, <2>2, <2>3, <3>1 DEF p
  <2>4. CASE PartKey(v, j) # k
    <3>1. files'[PartKey(v, j)] = files[PartKey(v, j)]
      BY <1>9, <2>2, <2>4
    <3>2. files[PartKey(v, j)].crc = up[v].parts[j] /\ Intact(disk, files[PartKey(v, j)])
      BY <1>7, <2>1, <3>1 DEF MultiInv, PartsHold
    <3> QED
      BY <1>7, <1>11, <2>1, <2>2, <3>1, <3>2, StaysIntact DEF MultiInv
  <2> QED
    BY <2>3, <2>4
<1> QED
  BY <1>4, <1>12, <1>13, <1>14, <1>15 DEF MultiInv

\* An upload that ends takes its parts with it and leaves the others alone.
LEMMA UploadEnds ==
    ASSUME MultiInv, IndInv', NEW u \in Uploads, up[u] # Unused, up[u].open,
           up' = [up EXCEPT ![u].open = FALSE], mode' = mode,
           \A t \in TmpKeys : t \in PartKeys(u) => files'[t] = None,
           \A t \in TmpKeys : t \notin PartKeys(u) => files'[t] = files[t],
           mode = "rw" => \A b \in Blocks \ free : disk'[b] = disk[b]
    PROVE  MultiInv'
<1> DEFINE new == [up[u] EXCEPT !.open = FALSE]
<1>1. up[u] \in Upload /\ up' = [up EXCEPT ![u] = new]
  BY DEF MultiInv, UploadsTyped
<1>2. /\ new \in Upload /\ new.parts = up[u].parts /\ new.open = FALSE
      /\ new.late = up[u].late /\ new.pending = up[u].pending
  BY <1>1 DEF Upload
<1> HIDE DEF new
<1>3. /\ up' \in [Uploads -> Upload \cup {Unused}]
      /\ \A v \in Uploads : up'[v] = IF v = u THEN new ELSE up[v]
      /\ new # Unused
  BY <1>1, <1>2, RawMultipartAssumption DEF MultiInv
<1>4. UploadsTyped'
  BY <1>2, <1>3 DEF MultiInv, UploadsTyped
<1>5. NoOrphanParts'
  <2> SUFFICES ASSUME mode = "rw", NEW t \in TmpKeys, files'[t] # None
               PROVE  \E v \in Uploads : /\ up'[v] # Unused /\ t \in PartKeys(v)'
                                         /\ up'[v].open \/ up'[v].late
    BY DEF NoOrphanParts
  <2>1. t \notin PartKeys(u) /\ files[t] # None
    OBVIOUS
  <2>2. PICK v \in Uploads : up[v] # Unused /\ t \in PartKeys(v) /\ (up[v].open \/ up[v].late)
    BY <2>1 DEF MultiInv, NoOrphanParts
  <2>3. v # u /\ up'[v] = up[v]
    BY <1>3, <2>1, <2>2
  <2> QED
    BY <2>2, <2>3 DEF PartKeys
<1>6. PartsHold'
  <2> SUFFICES ASSUME mode = "rw", NEW v \in Uploads, up'[v] # Unused, up'[v].open,
                      NEW j \in 1..Len(up'[v].parts), files'[PartKey(v, j)] # None
               PROVE  /\ files'[PartKey(v, j)].crc = up'[v].parts[j]
                      /\ Intact(disk', files'[PartKey(v, j)])
    BY DEF PartsHold, Intact, PartKey
  <2>1. v # u /\ up'[v] = up[v]
    BY <1>2, <1>3
  <2>2. PartKey(v, j) \in TmpKeys /\ PartKey(v, j) \in AllKeys
    BY <2>1, PartKeysOf, PartKeysApart DEF MultiInv
  <2>3. files'[PartKey(v, j)] = files[PartKey(v, j)]
    BY <2>2
  <2>4. files[PartKey(v, j)].crc = up[v].parts[j] /\ Intact(disk, files[PartKey(v, j)])
    BY <2>1, <2>3 DEF MultiInv, PartsHold
  <2> QED
    BY <2>1, <2>2, <2>3, <2>4, StaysIntact DEF MultiInv
<1> QED
  BY <1>3, <1>4, <1>5, <1>6 DEF MultiInv

\* complete and abort.
LEMMA EndStep ==
    ASSUME MultiInv, NEW u \in Uploads, Complete(u) \/ Abort(u)
    PROVE  MultiInv'
<1>1. /\ up[u] # Unused /\ up[u].open /\ up' = [up EXCEPT ![u].open = FALSE]
      /\ mode' = mode
  BY DEF Complete, Abort
<1>2. PartKeys(u) \subseteq TmpKeys /\ TmpKeys \subseteq AllKeys
  BY <1>1, PartKeysOf, PartKeysApart DEF MultiInv
<1>3. CASE Complete(u)
  <2> DEFINE p == FlattenSeq(up[u].parts)
             dest == up[u].dest
  <2>1. dest \in Keys
    BY <1>1 DEF MultiInv, UploadsTyped, Upload
  <2>2. PICK o \in Blocks :
          /\ p \in Seq(Data) /\ FirstFit(o, Len(p)) /\ WriteBlocks(o, p)
          /\ RemoveParts([files EXCEPT ![dest] = [offset |-> o, crc |-> p, meta_len |-> 0]],
                         (free \ Run(o, Len(p))) \cup Extent(files[dest]), PartKeys(u))
    BY <1>3, CompleteEffect
  <2> HIDE DEF p
  <2>3. \A b \in Blocks \ free : disk'[b] = disk[b]
    <3>1. Len(p) \in Nat
      BY <2>2
    <3> QED
      BY <2>2, <3>1, WriteStaysFree
  <2>4. \A t \in TmpKeys : files'[t] = IF t \in PartKeys(u) THEN None ELSE files[t]
    BY <1>2, <2>1, <2>2, PartKeysApart DEF RemoveParts, MultiInv, IndInv, TypeOK
  <2>5. IndInv'
    BY <1>3, CompleteIndInv
  <2> QED
    BY <1>1, <2>3, <2>4, <2>5, UploadEnds
<1>4. CASE Abort(u)
  <2>1. disk' = disk
    BY <1>4 DEF Abort, device
  <2>2. \A t \in TmpKeys : files'[t] = IF t \in PartKeys(u) THEN None ELSE files[t]
    BY <1>2, <1>4 DEF Abort, RemoveParts
  <2>3. IndInv'
    BY <1>4, AbortIndInv
  <2> QED
    BY <1>1, <2>1, <2>2, <2>3, UploadEnds
<1> QED
  BY <1>3, <1>4

\* A step of the store does not touch the parts of uploads in progress; the
\* end of the process ends the uploads, and the next writer starts without
\* parts.
LEMMA StoreUploadStep ==
    ASSUME MultiInv, StoreStep
    PROVE  MultiInv'
<1>1. IndInv' /\ Next
  BY NextIndInv DEF MultiInv, StoreStep
<1>2. CASE mode' = "down"
  <2>1. up' = [u \in Uploads |-> Unused]
    BY <1>2 DEF StoreStep
  <2> QED
    BY <1>1, <1>2, <2>1 DEF MultiInv, UploadsTyped, NoOrphanParts, PartsHold
<1>3. CASE mode' # "down"
  <2>1. up' = up
    BY <1>3 DEF StoreStep
  <2>2. up' \in [Uploads -> Upload \cup {Unused}] /\ UploadsTyped'
    BY <2>1 DEF MultiInv, UploadsTyped
  <2>3. NoOrphanParts'
    <3>1. \A u \in Uploads : PartKeys(u)' = PartKeys(u)
      BY <2>1 DEF PartKeys
    <3>2. ASSUME mode' = "rw", NEW t \in TmpKeys, files'[t] # None
          PROVE  mode = "rw" /\ files[t] # None
      BY <1>1, <3>2, NextOnTmp DEF MultiInv
    <3> QED
      BY <2>1, <3>1, <3>2 DEF MultiInv, NoOrphanParts
  <2>4. PartsHold'
    <3> SUFFICES ASSUME mode' = "rw", NEW v \in Uploads, up[v] # Unused, up[v].open,
                        NEW j \in 1..Len(up[v].parts), files'[PartKey(v, j)] # None
                 PROVE  /\ files'[PartKey(v, j)].crc = up[v].parts[j]
                        /\ Intact(disk', files'[PartKey(v, j)])
      BY <2>1 DEF PartsHold, Intact, PartKey
    <3>1. PartKey(v, j) \in TmpKeys /\ PartKey(v, j) \in AllKeys
      BY PartKeysOf, PartKeysApart DEF MultiInv
    <3>2. mode = "rw" /\ files'[PartKey(v, j)] = files[PartKey(v, j)]
      BY <1>1, <3>1, NextOnTmp DEF MultiInv
    <3>3. files[PartKey(v, j)].crc = up[v].parts[j] /\ Intact(disk, files[PartKey(v, j)])
      BY <3>2 DEF MultiInv, PartsHold
    <3>4. \A b \in Blocks \ free : disk'[b] = disk[b]
      BY <1>1, <3>2, WritesReachFreeBlocks DEF MultiInv
    <3> QED
      BY <3>1, <3>2, <3>3, <3>4, StaysIntact DEF MultiInv
  <2> QED
    BY <1>1, <2>2, <2>3, <2>4 DEF MultiInv
<1> QED
  BY <1>2, <1>3

\* Every step of the store and of its uploads preserves the invariant.
LEMMA NextMultiInv == MultiInv /\ [MNext]_mvars => MultiInv'
<1> SUFFICES ASSUME MultiInv, [MNext]_mvars PROVE MultiInv'
  OBVIOUS
<1>1. CASE MNext
  BY <1>1, StoreUploadStep, NumberingStep, RunPartStep, EndStep DEF MNext
<1>2. CASE UNCHANGED mvars
  <2>1. UNCHANGED vars /\ UNCHANGED <<up, files, disk, mode>>
    BY <1>2 DEF mvars, vars
  <2>2. IndInv'
    BY <2>1, NextIndInv DEF MultiInv
  <2>3. UploadsTyped' /\ NoOrphanParts' /\ PartsHold'
    BY <2>1 DEF MultiInv, UploadsTyped, NoOrphanParts, PartsHold, PartKeys, Intact
  <2> QED
    BY <2>1, <2>2, <2>3 DEF MultiInv
<1> QED
  BY <1>1, <1>2

----------------------------------------------------------------------------
\* The inductive invariant holds in every reachable state.
THEOREM UploadInvariance == MSpec => []MultiInv
BY InitMultiInv, NextMultiInv, PTL DEF MSpec

\* With uploads in progress too, no two objects or parts share a block and a
\* writer's free list is the complement of the live extents: put_part,
\* complete and abort neither leak a temporary extent nor free one twice.
THEOREM UploadsAccountForSpace == MSpec => []SpaceAccounted
<1>1. MultiInv => SpaceAccounted
  BY DEF MultiInv, IndInv
<1> QED
  BY UploadInvariance, <1>1, PTL

\* No temporary extent outlives its upload, except one whose future ran after
\* complete or abort: not through failed futures, crashes and reopens.
THEOREM NoPartLeftBehind == MSpec => []NoOrphanParts
<1>1. MultiInv => NoOrphanParts
  BY DEF MultiInv
<1> QED
  BY UploadInvariance, <1>1, PTL

\* complete stores exactly the concatenation of the payloads in the order of
\* the put_part calls, for any number and size of parts, whatever order their
\* futures ran in and in every open mode.
THEOREM CompleteIsOrdered == MSpec => CompleteJoinsInOrder
<1> DEFINE Ordered == \A u \in Uploads : Complete(u) =>
             files'[up[u].dest].crc = FlattenSeq(up[u].parts)
<1>1. MultiInv => [Ordered]_mvars
  <2> SUFFICES ASSUME MultiInv, NEW u \in Uploads, Complete(u)
               PROVE  files'[up[u].dest].crc = FlattenSeq(up[u].parts)
    OBVIOUS
  <2> DEFINE p == FlattenSeq(up[u].parts)
             dest == up[u].dest
  <2>1. dest \in AllKeys /\ dest \notin PartKeys(u)
    BY PartKeysOf, PartKeysApart DEF Complete, MultiInv, UploadsTyped, Upload
  <2>2. PICK o \in Blocks :
          RemoveParts([files EXCEPT ![dest] = [offset |-> o, crc |-> p, meta_len |-> 0]],
                      (free \ Run(o, Len(p))) \cup Extent(files[dest]), PartKeys(u))
    BY CompleteEffect
  <2> HIDE DEF p
  <2>3. files'[dest] = [offset |-> o, crc |-> p, meta_len |-> 0]
    BY <2>1, <2>2 DEF RemoveParts, MultiInv, IndInv, TypeOK
  <2> QED
    BY <2>3 DEF p
<1> QED
  BY UploadInvariance, <1>1, PTL DEF CompleteJoinsInOrder
=============================================================================
