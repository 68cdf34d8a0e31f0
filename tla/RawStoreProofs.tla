--------------------------- MODULE RawStoreProofs ---------------------------
(***************************************************************************)
(* Proofs about RawStore, for every device size, key set, shard map and    *)
(* payload.                                                                *)
(***************************************************************************)
EXTENDS RawStore, SequenceTheorems, TLAPS

----------------------------------------------------------------------------
\* The blocks of an extent, without the case distinction on None.
LEMMA ExtentOfEntry ==
    ASSUME NEW e \in Entry
    PROVE  /\ e # None
           /\ Extent(e) = e.offset..(e.offset + Len(e.crc) - 1)
           /\ Len(e.crc) \in Nat
           /\ e.offset \in Nat
BY RawStoreAssumption DEF Extent, Run, Entry, Blocks

\* Membership in the used blocks of an index.
LEMMA UsedMember ==
    ASSUME NEW f, NEW b
    PROVE  b \in Used(f) <=> \E k \in AllKeys : b \in Extent(f[k])
BY DEF Used

\* An entry whose blocks all lie in the data area is in bounds.
LEMMA FitsInBounds ==
    ASSUME NEW e \in Entry, Len(e.crc) > 0, Extent(e) \subseteq Blocks
    PROVE  InBounds(e)
<1>1. e.offset + Len(e.crc) - 1 \in Extent(e)
  BY ExtentOfEntry
<1>2. e.offset + Len(e.crc) - 1 \in 0..(NBlocks - 1)
  BY <1>1 DEF Blocks
<1> QED
  BY <1>2, ExtentOfEntry, RawStoreAssumption DEF InBounds

\* A write of device cells leaves device cells.
LEMMA WriteTyped ==
    ASSUME TypeOK, NEW o \in Blocks, NEW p \in Seq(Cell), WriteBlocks(o, p)
    PROVE  /\ disk' \in [Blocks -> Cell]
           /\ media' \in [Blocks -> SUBSET Cell]
<1>1. ASSUME NEW b \in Blocks, b \in Run(o, Len(p))
      PROVE  p[b - o + 1] \in Cell
  BY <1>1, RawStoreAssumption DEF Run, Blocks
<1>2. Bad \in Cell
  BY DEF Cell
<1> QED
  BY <1>1, <1>2 DEF WriteBlocks, TypeOK

\* The device blocks of an entry in bounds form a sequence of cells.
LEMMA RawTyped ==
    ASSUME TypeOK, NEW e \in Entry, InBounds(e)
    PROVE  /\ Raw(e) \in Seq(Cell)
           /\ Len(Raw(e)) = Len(e.crc)
           /\ \A i \in 1..Len(e.crc) : Raw(e)[i] = disk[e.offset + i - 1]
<1>1. ASSUME NEW i \in 1..Len(e.crc)
      PROVE  disk[e.offset + i - 1] \in Cell
  <2>1. e.offset + i - 1 \in Blocks
    BY ExtentOfEntry, RawStoreAssumption DEF InBounds, Blocks
  <2> QED
    BY <2>1 DEF TypeOK
<1>2. Len(e.crc) \in Nat
  BY ExtentOfEntry
<1> QED
  BY <1>1, <1>2 DEF Raw

\* Every live entry of a well-formed index is in bounds, so its extent lies
\* in the data area.
LEMMA LiveInBlocks ==
    ASSUME NEW f \in [AllKeys -> Entry \cup {None}], Disjoint(f),
           NEW k \in AllKeys
    PROVE  Extent(f[k]) \subseteq Blocks
<1>1. CASE f[k] = None
  BY <1>1 DEF Extent
<1>2. CASE f[k] # None
  <2>1. f[k] \in Entry /\ InBounds(f[k])
    BY <1>2 DEF Disjoint
  <2> QED
    BY <2>1, ExtentOfEntry, RawStoreAssumption DEF InBounds, Blocks
<1> QED
  BY <1>1, <1>2

\* Putting an entry that occupies free blocks, or none, into an index keeps
\* extents apart and the free blocks exactly the unused ones.
LEMMA InsertSpace ==
    ASSUME NEW f \in [AllKeys -> Entry \cup {None}], Disjoint(f),
           NEW k \in AllKeys, NEW e \in Entry \cup {None},
           e # None => Len(e.crc) > 0,
           Extent(e) \cap Used(f) = {}, Extent(e) \subseteq Blocks,
           NEW g, \A j \in AllKeys : g[j] = IF j = k THEN e ELSE f[j]
    PROVE  /\ Disjoint(g)
           /\ Blocks \ Used(g) = ((Blocks \ Used(f)) \ Extent(e)) \cup Extent(f[k])
<1> DEFINE gr == ((Blocks \ Used(f)) \ Extent(e)) \cup Extent(f[k])
<1>1. \A j \in AllKeys : Extent(e) \cap Extent(f[j]) = {}
  BY UsedMember
<1>2. \A j \in AllKeys : g[j] # None => InBounds(g[j])
  <2> SUFFICES ASSUME NEW j \in AllKeys, g[j] # None
               PROVE  InBounds(g[j])
    OBVIOUS
  <2>1. CASE j = k
    BY <2>1, FitsInBounds
  <2>2. CASE j # k
    BY <2>2 DEF Disjoint
  <2> QED
    BY <2>1, <2>2
<1>3. \A i, j \in AllKeys : i # j => Extent(g[i]) \cap Extent(g[j]) = {}
  BY <1>1 DEF Disjoint
<1>4. gr \subseteq Blocks
  BY LiveInBlocks
<1>5. ASSUME NEW b \in Blocks
      PROVE  b \in gr <=> b \notin Used(g)
  <2>1. b \in Used(g) <=> b \in Extent(e) \/ \E j \in AllKeys \ {k} : b \in Extent(f[j])
    BY UsedMember
  <2>2. b \in Used(f) <=> \E j \in AllKeys : b \in Extent(f[j])
    BY UsedMember
  <2>3. b \in Extent(f[k]) =>
          b \notin Extent(e) /\ \A j \in AllKeys \ {k} : b \notin Extent(f[j])
    BY <1>1 DEF Disjoint
  <2> QED
    BY <2>1, <2>2, <2>3
<1> HIDE DEF gr
<1>6. Blocks \ Used(g) = gr
  BY <1>4, <1>5
<1> QED
  BY <1>2, <1>3, <1>6 DEF Disjoint, gr

\* The same of the step that puts an entry into the index in memory.
LEMMA InsertKeepsSpace ==
    ASSUME TypeOK, SpaceAccounted, mode = "rw",
           NEW k \in AllKeys, NEW e \in Entry \cup {None},
           e # None => Len(e.crc) > 0 /\ Extent(e) \subseteq free,
           Insert(k, e)
    PROVE  /\ files' \in [AllKeys -> Entry \cup {None}]
           /\ Disjoint(files')
           /\ free' = Blocks \ Used(files')
<1>1. /\ files \in [AllKeys -> Entry \cup {None}]
      /\ Disjoint(files)
      /\ free = Blocks \ Used(files)
  BY DEF TypeOK, SpaceAccounted
<1>2. /\ files' \in [AllKeys -> Entry \cup {None}]
      /\ \A j \in AllKeys : files'[j] = IF j = k THEN e ELSE files[j]
      /\ free' = (free \ Extent(e)) \cup Extent(files[k])
  BY <1>1 DEF Insert
<1>3. Extent(e) \subseteq free /\ (e # None => Len(e.crc) > 0)
  BY DEF Extent
<1>4. Extent(e) \cap Used(files) = {} /\ Extent(e) \subseteq Blocks
  BY <1>1, <1>3
<1>5. /\ Disjoint(files')
      /\ Blocks \ Used(files') = ((Blocks \ Used(files)) \ Extent(e)) \cup Extent(files[k])
  BY <1>1, <1>2, <1>3, <1>4, InsertSpace
<1> QED
  BY <1>1, <1>2, <1>5

\* Dropping entries frees their extents and no other block.
LEMMA RemoveSpace ==
    ASSUME NEW f \in [AllKeys -> Entry \cup {None}], Disjoint(f),
           NEW parts \in SUBSET AllKeys,
           NEW g, \A j \in AllKeys : g[j] = IF j \in parts THEN None ELSE f[j]
    PROVE  /\ Disjoint(g)
           /\ Blocks \ Used(g) = (Blocks \ Used(f)) \cup UNION {Extent(f[j]) : j \in parts}
<1> DEFINE gone == UNION {Extent(f[j]) : j \in parts}
<1>1. Extent(None) = {}
  BY DEF Extent
<1>2. Disjoint(g)
  BY <1>1 DEF Disjoint
<1>3. gone \subseteq Blocks
  BY LiveInBlocks
<1>4. ASSUME NEW b \in Blocks
      PROVE  b \in (Blocks \ Used(f)) \cup gone <=> b \notin Used(g)
  <2>1. b \in Used(g) <=> \E j \in AllKeys \ parts : b \in Extent(f[j])
    BY <1>1, UsedMember
  <2>2. b \in Used(f) <=> \E j \in AllKeys : b \in Extent(f[j])
    BY UsedMember
  <2>3. b \in gone <=> \E j \in parts : b \in Extent(f[j])
    OBVIOUS
  <2>4. \A i \in parts, j \in AllKeys \ parts : ~ (b \in Extent(f[i]) /\ b \in Extent(f[j]))
    BY DEF Disjoint
  <2> QED
    BY <2>1, <2>2, <2>3, <2>4
<1> HIDE DEF gone
<1>5. Blocks \ Used(g) = (Blocks \ Used(f)) \cup gone
  BY <1>3, <1>4
<1> QED
  BY <1>2, <1>5 DEF gone

----------------------------------------------------------------------------
\* The inductive invariant.  SpaceAccounted alone is not inductive: a flush
\* copies the dirty shards only, so that the durable index stays well formed
\* rests on CleanIsPersisted; a write-protected device has no writer.
IndInv ==
    /\ TypeOK
    /\ SpaceAccounted
    /\ CleanIsPersisted
    /\ wp => mode # "rw"

\* The store that format_with_options returns satisfies the invariant.
LEMMA InitIndInv == Init => IndInv
<1> SUFFICES ASSUME Init PROVE IndInv
  OBVIOUS
<1>1. TypeOK
  BY RawStoreAssumption DEF Init, TypeOK, Cell
<1>2. Disjoint(files) /\ Disjoint(pfiles) /\ Used(files) = {}
  BY DEF Init, Disjoint, Extent, Used
<1>3. CleanIsPersisted
  BY RawStoreAssumption DEF Init, CleanIsPersisted
<1> QED
  BY <1>1, <1>2, <1>3 DEF IndInv, SpaceAccounted, Init

\* A step that writes free blocks and replaces the entry of k.
LEMMA WriterStep ==
    ASSUME IndInv, mode = "rw",
           NEW k \in AllKeys, NEW e \in Entry \cup {None},
           e # None => Len(e.crc) > 0 /\ Extent(e) \subseteq free,
           Insert(k, e),
           disk' \in [Blocks -> Cell], media' \in [Blocks -> SUBSET Cell],
           tombs' \subseteq AllKeys,
           \A j \in AllKeys \ {k} : j \in tombs' <=> j \in tombs,
           UNCHANGED <<pfiles, ptombs, lost, wp, mode>>
    PROVE  IndInv'
<1> USE DEF IndInv
<1>1. /\ files' \in [AllKeys -> Entry \cup {None}]
      /\ Disjoint(files')
      /\ free' = Blocks \ Used(files')
  BY InsertKeepsSpace
<1>2. TypeOK'
  BY <1>1, RawStoreAssumption DEF TypeOK, Insert
<1>3. SpaceAccounted'
  BY <1>1 DEF SpaceAccounted, Disjoint
<1>4. CleanIsPersisted'
  <2>1. dirty' = TRUE
    BY DEF Insert
  <2>2. ASSUME NEW j \in AllKeys, ~ shardDirty'[ShardOf[j]]
        PROVE  files'[j] = pfiles'[j] /\ (j \in tombs' <=> j \in ptombs')
    <3>1. ShardOf[j] \in Shards /\ ShardOf[k] \in Shards
      BY RawStoreAssumption
    <3>2. j # k /\ ~ shardDirty[ShardOf[j]]
      BY <2>2, <3>1 DEF Insert, TypeOK
    <3>3. files[j] = pfiles[j] /\ (j \in tombs <=> j \in ptombs)
      BY <3>2 DEF CleanIsPersisted
    <3> QED
      BY <3>2, <3>3 DEF Insert, TypeOK
  <2>3. ASSUME NEW s \in lost' \cup flipped'
        PROVE  shardDirty'[s]
    BY <2>3 DEF Insert, TypeOK, CleanIsPersisted
  <2> QED
    BY <2>1, <2>2, <2>3 DEF CleanIsPersisted
<1> QED
  BY <1>2, <1>3, <1>4

\* do_put_with_meta writes into free blocks and replaces one entry.
LEMMA PutStep ==
    ASSUME IndInv, NEW k \in AllKeys, NEW body \in Seq(Data), NEW meta \in Seq(Data),
           Put(k, body, meta)
    PROVE  IndInv'
<1> DEFINE p == body \o meta
<1>1. p \in Seq(Data) /\ p # <<>> /\ Len(p) \in Nat /\ Len(meta) \in Nat
  BY DEF Put
<1>2. Len(p) > 0
  BY <1>1, EmptySeq
<1>3. PICK o \in Blocks :
        /\ FirstFit(o, Len(p))
        /\ WriteBlocks(o, p)
        /\ Insert(k, [offset |-> o, crc |-> p, meta_len |-> Len(meta)])
  BY DEF Put
<1> DEFINE e == [offset |-> o, crc |-> p, meta_len |-> Len(meta)]
<1>4. e \in Entry /\ e.crc = p /\ e.offset = o
  BY <1>1 DEF Entry
<1>5. Extent(e) \subseteq free
  BY <1>3, <1>4, ExtentOfEntry DEF FirstFit, Run
<1>6. p \in Seq(Cell)
  BY <1>1 DEF Cell
<1>7. disk' \in [Blocks -> Cell] /\ media' \in [Blocks -> SUBSET Cell]
  BY <1>3, <1>6, WriteTyped DEF IndInv
<1>8. /\ tombs' \subseteq AllKeys
      /\ \A j \in AllKeys \ {k} : j \in tombs' <=> j \in tombs
      /\ UNCHANGED <<pfiles, ptombs, lost, wp, mode>>
      /\ mode = "rw"
  BY DEF Put, IndInv, TypeOK
<1> HIDE DEF e
<1> QED
  BY <1>2, <1>3, <1>4, <1>5, <1>7, <1>8, WriterStep DEF e

\* delete returns an extent to the free list and leaves the device alone.
LEMMA DeleteStep ==
    ASSUME IndInv, NEW k \in AllKeys, Delete(k)
    PROVE  IndInv'
<1>1. /\ mode = "rw" /\ Insert(k, None)
      /\ UNCHANGED <<disk, media, pfiles, ptombs, lost, wp, tombs, mode>>
  BY DEF Delete, device
<1>2. /\ disk' \in [Blocks -> Cell] /\ media' \in [Blocks -> SUBSET Cell]
      /\ tombs' \subseteq AllKeys
  BY <1>1 DEF IndInv, TypeOK
<1>3. None \in Entry \cup {None}
  OBVIOUS
<1> QED
  BY <1>1, <1>2, <1>3, WriterStep

\* do_copy clones the source's blocks into free blocks and keeps its CRC.
LEMMA CopyStep ==
    ASSUME IndInv, NEW from \in AllKeys, NEW to \in AllKeys, Copy(from, to)
    PROVE  IndInv'
<1> DEFINE src == files[from]
<1>1. src \in Entry /\ InBounds(src)
  BY DEF Copy, IndInv, TypeOK, SpaceAccounted, Disjoint
<1>2. PICK o \in Blocks :
        /\ FirstFit(o, Len(src.crc))
        /\ WriteBlocks(o, Raw(src))
        /\ Insert(to, [src EXCEPT !.offset = o])
  BY DEF Copy
<1> DEFINE e == [src EXCEPT !.offset = o]
<1>3. e \in Entry /\ e.crc = src.crc /\ e.offset = o
  BY <1>1 DEF Entry
<1>4. Len(e.crc) > 0
  BY <1>1, <1>3 DEF InBounds
<1>5. Extent(e) \subseteq free
  BY <1>2, <1>3, ExtentOfEntry DEF FirstFit, Run
<1>6. disk' \in [Blocks -> Cell] /\ media' \in [Blocks -> SUBSET Cell]
  BY <1>1, <1>2, RawTyped, WriteTyped DEF IndInv
<1>7. /\ tombs' \subseteq AllKeys
      /\ \A j \in AllKeys \ {to} : j \in tombs' <=> j \in tombs
      /\ UNCHANGED <<pfiles, ptombs, lost, wp, mode>>
      /\ mode = "rw"
  BY DEF Copy, IndInv, TypeOK
<1> HIDE DEF e
<1> QED
  BY <1>2, <1>3, <1>4, <1>5, <1>6, <1>7, WriterStep DEF e

\* The body that update_metadata reads back is a sequence of valid blocks.
LEMMA BodyTyped ==
    ASSUME TypeOK, NEW e \in Entry, InBounds(e),
           BodyLen(e) > 0 => \A b \in Extent(e) : disk[b] # Bad
    PROVE  Body(e) \in Seq(Data)
<1>1. /\ BodyLen(e) \in Nat
      /\ BodyLen(e) <= Len(e.crc)
      /\ Len(e.crc) \in Nat
  BY ExtentOfEntry DEF BodyLen, Entry
<1>2. ASSUME NEW i \in 1..BodyLen(e)
      PROVE  Raw(e)[i] \in Data
  <2>1. e.offset + i - 1 \in Extent(e) /\ i \in 1..Len(e.crc)
    BY <1>1, ExtentOfEntry
  <2>2. disk[e.offset + i - 1] # Bad
    BY <1>1, <2>1
  <2>3. Raw(e)[i] = disk[e.offset + i - 1]
    BY <2>1, RawTyped
  <2>4. e.offset + i - 1 \in Blocks
    BY <2>1, ExtentOfEntry, RawStoreAssumption DEF InBounds, Blocks
  <2> QED
    BY <2>2, <2>3, <2>4 DEF TypeOK, Cell
<1> HIDE DEF BodyLen
<1> QED
  BY <1>1, <1>2, SubSeqProperties DEF Body

\* update_metadata puts the old body and new metadata into free blocks.
LEMMA UpdateMetadataStep ==
    ASSUME IndInv, NEW k \in AllKeys, NEW meta \in Seq(Data), UpdateMetadata(k, meta)
    PROVE  IndInv'
<1> DEFINE p == Body(files[k]) \o meta
<1>1. files[k] \in Entry /\ InBounds(files[k])
  BY DEF UpdateMetadata, IndInv, TypeOK, SpaceAccounted, Disjoint
<1>2. Body(files[k]) \in Seq(Data)
  BY <1>1, BodyTyped DEF UpdateMetadata, IndInv
<1>3. p \in Seq(Data) /\ p # <<>> /\ Len(meta) \in Nat
  BY <1>2 DEF UpdateMetadata
<1>4. Len(p) > 0
  BY <1>3, EmptySeq
<1>5. PICK o \in Blocks :
        /\ FirstFit(o, Len(p))
        /\ WriteBlocks(o, p)
        /\ Insert(k, [offset |-> o, crc |-> p, meta_len |-> Len(meta)])
  BY DEF UpdateMetadata
<1> HIDE DEF p
<1> DEFINE e == [offset |-> o, crc |-> p, meta_len |-> Len(meta)]
<1>6. e \in Entry /\ e.crc = p /\ e.offset = o
  BY <1>3 DEF Entry
<1>7. Extent(e) \subseteq free
  BY <1>5, <1>6, ExtentOfEntry DEF FirstFit, Run
<1>8. p \in Seq(Cell)
  BY <1>3 DEF Cell
<1>9. disk' \in [Blocks -> Cell] /\ media' \in [Blocks -> SUBSET Cell]
  BY <1>5, <1>8, WriteTyped DEF IndInv
<1>10. /\ tombs' \subseteq AllKeys
       /\ \A j \in AllKeys \ {k} : j \in tombs' <=> j \in tombs
       /\ UNCHANGED <<pfiles, ptombs, lost, wp, mode>>
       /\ mode = "rw"
  BY DEF UpdateMetadata, IndInv, TypeOK
<1> HIDE DEF e
<1> QED
  BY <1>4, <1>5, <1>6, <1>7, <1>9, <1>10, WriterStep DEF e

\* rename moves an entry between keys and frees only what it replaces.
LEMMA RenameStep ==
    ASSUME IndInv, NEW from \in AllKeys, NEW to \in AllKeys, Rename(from, to)
    PROVE  IndInv'
<1> USE DEF IndInv
<1>1. /\ mode = "rw" /\ mode' = "rw" /\ dirty' = TRUE
      /\ UNCHANGED <<disk, media, pfiles, ptombs, lost, wp, tombs, flipped>>
      /\ ShardOf[from] \in Shards /\ ShardOf[to] \in Shards
  BY RawStoreAssumption DEF Rename, device
<1>2. \A j \in AllKeys : files'[j] = IF j = to THEN files[from]
                                     ELSE IF j = from THEN None ELSE files[j]
  BY DEF Rename, TypeOK
<1>3. files' \in [AllKeys -> Entry \cup {None}]
  BY DEF Rename, TypeOK
<1>4. Disjoint(files) /\ Disjoint(pfiles) /\ free = Blocks \ Used(files)
  BY <1>1 DEF SpaceAccounted
<1>5. Disjoint(files')
  <2>1. \A j \in AllKeys : files'[j] # None => InBounds(files'[j])
    BY <1>2, <1>4 DEF Disjoint
  <2>2. \A i, j \in AllKeys : i # j => Extent(files'[i]) \cap Extent(files'[j]) = {}
    <3>1. Extent(None) = {}
      BY DEF Extent
    <3> QED
      BY <1>2, <1>4, <3>1 DEF Disjoint
  <2> QED
    BY <2>1, <2>2 DEF Disjoint
<1>6. free' = Blocks \ Used(files') /\ free' \subseteq Blocks
  <2>1. CASE from = to
    <3>1. free' = free /\ files' = files
      BY <1>2, <1>3, <2>1 DEF Rename, TypeOK
    <3> QED
      BY <3>1, <1>4
  <2>2. CASE from # to
    <3>1. free' = free \cup Extent(files[to])
      BY <2>2 DEF Rename
    <3>2. Extent(files[to]) \subseteq Blocks
      BY <1>4, LiveInBlocks DEF TypeOK
    <3>3. ASSUME NEW b \in Blocks
          PROVE  b \in free' <=> b \notin Used(files')
      <4>1. b \in Used(files') <=> \E j \in AllKeys : b \in Extent(files'[j])
        BY UsedMember
      <4>2. b \in free <=> ~ \E j \in AllKeys : b \in Extent(files[j])
        BY <1>4, UsedMember
      <4>3. Extent(None) = {}
        BY DEF Extent
      <4>4. b \in Used(files') <=> \E j \in AllKeys \ {to} : b \in Extent(files[j])
        BY <1>2, <2>2, <4>1, <4>3
      <4>5. b \in Extent(files[to]) => \A j \in AllKeys \ {to} : b \notin Extent(files[j])
        BY <1>4 DEF Disjoint
      <4> QED
        BY <3>1, <4>2, <4>4, <4>5
    <3> QED
      BY <1>4, <3>1, <3>2, <3>3
  <2> QED
    BY <2>1, <2>2
<1>7. TypeOK'
  BY <1>1, <1>3, <1>6 DEF TypeOK, Rename
<1>8. SpaceAccounted'
  BY <1>1, <1>4, <1>5, <1>6 DEF SpaceAccounted, Disjoint
<1>9. CleanIsPersisted'
  <2>1. ASSUME NEW j \in AllKeys, ~ shardDirty'[ShardOf[j]]
        PROVE  files'[j] = pfiles'[j] /\ (j \in tombs' <=> j \in ptombs')
    <3>1. ShardOf[j] \in Shards
      BY RawStoreAssumption
    <3>2. j # from /\ j # to /\ ~ shardDirty[ShardOf[j]]
      BY <1>1, <2>1, <3>1 DEF Rename, TypeOK
    <3> QED
      BY <1>1, <1>2, <3>2 DEF CleanIsPersisted
  <2>2. ASSUME NEW s \in lost' \cup flipped'
        PROVE  shardDirty'[s]
    BY <1>1, <2>2 DEF Rename, TypeOK, CleanIsPersisted
  <2> QED
    BY <1>1, <2>1, <2>2 DEF CleanIsPersisted
<1> QED
  BY <1>1, <1>7, <1>8, <1>9

\* set_meta_len changes an entry in place, on a read-only handle too.
LEMMA SetMetaLenStep ==
    ASSUME IndInv, NEW k \in AllKeys, NEW n \in Nat, SetMetaLen(k, n)
    PROVE  IndInv'
<1> USE DEF IndInv
<1>1. /\ mode # "down" /\ mode' = mode /\ dirty' = TRUE /\ files[k] \in Entry
      /\ UNCHANGED <<disk, media, pfiles, ptombs, lost, wp, tombs, free, flipped>>
      /\ ShardOf[k] \in Shards
  BY RawStoreAssumption DEF SetMetaLen, device, TypeOK
<1> DEFINE e == [files[k] EXCEPT !.meta_len = n]
<1>2. e \in Entry /\ e.crc = files[k].crc /\ e.offset = files[k].offset
  BY <1>1 DEF Entry
<1>3. files' = [files EXCEPT ![k] = e]
  BY DEF SetMetaLen
<1>4. files' \in [AllKeys -> Entry \cup {None}]
  BY <1>2, <1>3 DEF TypeOK
<1>5. \A j \in AllKeys : /\ Extent(files'[j]) = Extent(files[j])
                         /\ files'[j] # None => files[j] # None
                         /\ InBounds(files'[j]) <=> InBounds(files[j])
  <2> SUFFICES ASSUME NEW j \in AllKeys
               PROVE  /\ Extent(files'[j]) = Extent(files[j])
                      /\ files'[j] # None => files[j] # None
                      /\ InBounds(files'[j]) <=> InBounds(files[j])
    OBVIOUS
  <2>1. CASE j = k
    <3>1. files'[j] = e /\ e # None /\ files[j] # None
      BY <1>1, <1>2, <1>3, <2>1, ExtentOfEntry DEF TypeOK
    <3> QED
      BY <1>1, <1>2, <2>1, <3>1 DEF Extent, InBounds
  <2>2. CASE j # k
    BY <1>3, <2>2 DEF TypeOK
  <2> QED
    BY <2>1, <2>2
<1>6. Used(files') = Used(files)
  BY <1>5 DEF Used
<1>7. TypeOK'
  BY <1>1, <1>4 DEF TypeOK, SetMetaLen
<1>8. SpaceAccounted'
  BY <1>1, <1>5, <1>6 DEF SpaceAccounted, Disjoint
<1>9. CleanIsPersisted'
  <2>1. ASSUME NEW j \in AllKeys, ~ shardDirty'[ShardOf[j]]
        PROVE  files'[j] = pfiles'[j] /\ (j \in tombs' <=> j \in ptombs')
    <3>1. ShardOf[j] \in Shards
      BY RawStoreAssumption
    <3>2. j # k /\ ~ shardDirty[ShardOf[j]]
      BY <1>1, <2>1, <3>1 DEF SetMetaLen, TypeOK
    <3> QED
      BY <1>1, <1>3, <3>2 DEF CleanIsPersisted, TypeOK
  <2>2. ASSUME NEW s \in lost' \cup flipped'
        PROVE  shardDirty'[s]
    BY <1>1, <2>2 DEF SetMetaLen, TypeOK, CleanIsPersisted
  <2> QED
    BY <1>1, <2>1, <2>2 DEF CleanIsPersisted
<1> QED
  BY <1>1, <1>7, <1>8, <1>9

\* A write that fails has changed free blocks and neither index.
LEMMA WriteFailsStep ==
    ASSUME IndInv, NEW p \in Seq(Data), WriteFails(p)
    PROVE  IndInv'
<1>1. PICK o \in Blocks, n \in 1..Len(p) : WriteBlocks(o, SubSeq(p, 1, n))
  BY DEF WriteFails
<1>2. SubSeq(p, 1, n) \in Seq(Cell)
  <2>1. \A i \in 1..n : p[i] \in Cell
    BY DEF Cell
  <2> QED
    BY <2>1, SubSeqProperties
<1>3. disk' \in [Blocks -> Cell] /\ media' \in [Blocks -> SUBSET Cell]
  BY <1>1, <1>2, WriteTyped DEF IndInv
<1>4. UNCHANGED <<pfiles, ptombs, lost, wp, files, tombs, free, shardDirty, dirty,
                  flipped, mode, kept>>
  BY DEF WriteFails, index
<1> QED
  BY <1>3, <1>4 DEF IndInv, TypeOK, SpaceAccounted, Disjoint, Used, CleanIsPersisted

\* What flush_index writes is the index in memory.
LEMMA FlushedIsMemory ==
    ASSUME IndInv, mode = "rw"
    PROVE  FlushedFiles = files /\ FlushedTombs = tombs
<1>1. \A k \in AllKeys : ShardOf[k] \in Shards
  BY RawStoreAssumption
<1>2. FlushedFiles = files
  BY <1>1 DEF FlushedFiles, IndInv, CleanIsPersisted, TypeOK
<1>3. FlushedTombs = tombs
  BY <1>1 DEF FlushedTombs, IndInv, CleanIsPersisted, TypeOK
<1> QED
  BY <1>2, <1>3

\* A commit leaves memory and the durable index equal.
LEMMA CommitStep ==
    ASSUME IndInv, mode = "rw", Commit,
           UNCHANGED <<disk, wp, files, tombs, free, mode>>, flipped' = {},
           shardDirty' \in [Shards -> BOOLEAN], dirty' \in BOOLEAN,
           ~ dirty' => \A s \in Shards : ~ shardDirty'[s]
    PROVE  IndInv'
<1>1. pfiles' = files' /\ ptombs' = tombs'
  BY FlushedIsMemory DEF Commit
<1>2. media' \in [Blocks -> SUBSET Cell]
  BY DEF Commit, Synced, IndInv, TypeOK
<1>3. kept' \subseteq AllKeys
  BY DEF Commit
<1>4. TypeOK'
  BY <1>1, <1>2, <1>3 DEF IndInv, TypeOK, Commit
<1>5. SpaceAccounted'
  BY <1>1 DEF IndInv, SpaceAccounted, Disjoint, Used
<1>6. CleanIsPersisted'
  BY <1>1 DEF CleanIsPersisted, Commit
<1> QED
  BY <1>4, <1>5, <1>6 DEF IndInv

\* flush_index, its failures and repair keep the invariant.
LEMMA FlushStep ==
    ASSUME IndInv, FlushIndex \/ FlushFails \/ Repair
    PROVE  IndInv'
<1>1. CASE FlushIndex
  BY <1>1, CommitStep DEF FlushIndex, ClearDirty
<1>2. CASE FlushFails /\ Commit /\ flipped' = {}
  <2>1. /\ mode = "rw" /\ Commit /\ flipped' = {}
        /\ UNCHANGED <<disk, wp, files, tombs, free, mode, shardDirty, dirty>>
    BY <1>2 DEF FlushFails
  <2> QED
    BY <2>1, CommitStep DEF IndInv, TypeOK, CleanIsPersisted
<1>3. CASE FlushFails /\ ~ (Commit /\ flipped' = {})
  <2>1. PICK done, torn \in SUBSET DirtyShards :
          /\ Flip(done, torn)
          /\ media' \in {media, Synced(disk)}
          /\ UNCHANGED <<disk, pfiles, ptombs, wp, files, tombs, free, shardDirty,
                         dirty, mode, kept>>
    BY <1>3 DEF FlushFails
  <2>2. media' \in [Blocks -> SUBSET Cell]
    BY <2>1 DEF Synced, IndInv, TypeOK
  <2>3. lost' \cup flipped' \subseteq lost \cup flipped \cup DirtyShards
    BY <2>1 DEF Flip
  <2>4. mode = "rw" /\ lost \cup flipped \subseteq DirtyShards
    BY <1>3 DEF FlushFails, DirtyShards, IndInv, CleanIsPersisted, TypeOK
  <2>5. \A s \in lost' \cup flipped' : s \in Shards /\ shardDirty[s]
    BY <2>3, <2>4 DEF DirtyShards
  <2> QED
    BY <2>1, <2>2, <2>5 DEF IndInv, TypeOK, SpaceAccounted, Disjoint, Used, CleanIsPersisted
<1>4. CASE Repair
  <2>1. free' = free
    BY <1>4 DEF Repair, IndInv, SpaceAccounted
  <2> QED
    BY <1>4, <2>1, CommitStep DEF Repair, ClearDirty
<1> QED
  BY <1>1, <1>2, <1>3, <1>4

\* scrub_free_space zeroes free blocks and touches neither index.
LEMMA ScrubStep ==
    ASSUME IndInv, ScrubFreeSpace
    PROVE  IndInv'
<1>1. UNCHANGED <<pfiles, ptombs, lost, wp, files, tombs, free, shardDirty, dirty,
                  flipped, mode, kept>>
  BY DEF ScrubFreeSpace, index
<1>2. disk' \in [Blocks -> Cell]
  BY DEF ScrubFreeSpace, IndInv, TypeOK, Cell
<1>3. media' \in [Blocks -> SUBSET Cell]
  BY <1>2 DEF ScrubFreeSpace, Synced
<1> QED
  BY <1>1, <1>2, <1>3 DEF IndInv, TypeOK, SpaceAccounted, Disjoint, Used, CleanIsPersisted

\* delete_tombstone and clear_tombstones mark every shard they change.
LEMMA TombstoneStep ==
    ASSUME IndInv, ClearTombstones \/ \E k \in Keys : DeleteTombstone(k)
    PROVE  IndInv'
<1>1. /\ UNCHANGED <<disk, media, pfiles, ptombs, lost, wp, files, free, flipped, mode, kept>>
      /\ dirty' = TRUE /\ tombs' \subseteq AllKeys
      /\ shardDirty' \in [Shards -> BOOLEAN]
  BY RawStoreAssumption DEF ClearTombstones, DeleteTombstone, device, IndInv, TypeOK, AllKeys
<1>2. ASSUME NEW j \in AllKeys, ~ shardDirty'[ShardOf[j]]
      PROVE  ~ shardDirty[ShardOf[j]] /\ (j \in tombs' <=> j \in tombs)
  <2>1. ShardOf[j] \in Shards
    BY RawStoreAssumption
  <2>2. CASE ClearTombstones
    BY <1>2, <2>1, <2>2 DEF ClearTombstones
  <2>3. CASE \E k \in Keys : DeleteTombstone(k)
    <3>1. PICK k \in Keys : DeleteTombstone(k)
      BY <2>3
    <3>2. ShardOf[k] \in Shards
      BY RawStoreAssumption DEF AllKeys
    <3> QED
      BY <1>2, <2>1, <3>1, <3>2 DEF DeleteTombstone, IndInv, TypeOK
  <2> QED
    BY <2>2, <2>3
<1>3. \A s \in Shards : shardDirty[s] => shardDirty'[s]
  BY RawStoreAssumption DEF ClearTombstones, DeleteTombstone, IndInv, TypeOK, AllKeys
<1>4. CleanIsPersisted'
  BY <1>1, <1>2, <1>3 DEF CleanIsPersisted, IndInv, TypeOK
<1> QED
  BY <1>1, <1>4 DEF IndInv, TypeOK, SpaceAccounted, Disjoint, Used

\* modify_flags changes the superblock's flags and nothing else.
LEMMA ModifyFlagsStep ==
    ASSUME IndInv, NEW b \in BOOLEAN, ModifyFlags(b)
    PROVE  IndInv'
BY DEF ModifyFlags, index, IndInv, TypeOK, SpaceAccounted, Disjoint, Used, CleanIsPersisted

\* The handle is gone: nothing in memory, the durable index as it was.
LEMMA ForgetStep ==
    ASSUME IndInv, Forget, UNCHANGED <<pfiles, ptombs, lost, wp, kept>>,
           disk' \in [Blocks -> Cell], media' \in [Blocks -> SUBSET Cell]
    PROVE  IndInv'
<1>1. TypeOK'
  BY DEF Forget, IndInv, TypeOK
<1>2. SpaceAccounted'
  BY DEF Forget, IndInv, SpaceAccounted, Disjoint, Extent
<1>3. CleanIsPersisted'
  BY DEF Forget, CleanIsPersisted
<1> QED
  BY <1>1, <1>2, <1>3 DEF Forget, IndInv

\* Process exit and power loss keep the durable index as it was.
LEMMA DownStep ==
    ASSUME IndInv, Stop \/ PowerLoss
    PROVE  IndInv'
<1>1. CASE Stop
  BY <1>1, ForgetStep DEF Stop, device, IndInv, TypeOK
<1>2. CASE PowerLoss
  <2>1. PICK d \in [Blocks -> Cell] : disk' = d /\ media' = Synced(d)
    BY <1>2 DEF PowerLoss
  <2>2. media' \in [Blocks -> SUBSET Cell]
    BY <2>1 DEF Synced
  <2> QED
    BY <1>2, <2>1, <2>2, ForgetStep DEF PowerLoss
<1> QED
  BY <1>1, <1>2

\* open_impl builds disjoint entries and the free list that matches them.
LEMMA OpenStep ==
    ASSUME IndInv, NEW m \in OpenModes, NEW ro \in BOOLEAN, Open(m, ro)
    PROVE  IndInv'
<1> DEFINE placed == WellPlaced(pfiles)
           stale  == {k \in placed : Stale(m, pfiles[k])}
           keep   == (placed \ stale) \ (IF ro THEN {} ELSE TmpKeys)
           gone   == {k \in AllKeys : pfiles[k] # None} \ keep
<1>1. placed \subseteq {k \in AllKeys : pfiles[k] # None}
  BY DEF WellPlaced
<1>2. /\ UNCHANGED <<disk, media, pfiles, ptombs, lost, wp, kept>>
      /\ lost = {} /\ flipped' = {}
      /\ files' = [k \in AllKeys |-> IF k \in keep THEN pfiles[k] ELSE None]
      /\ tombs' = IF ro THEN ptombs ELSE ptombs \cup stale
      /\ free' = IF ro THEN {} ELSE Blocks \ Used(files')
      /\ shardDirty' = [s \in Shards |-> \E k \in gone : ShardOf[k] = s]
      /\ dirty' = (gone # {})
      /\ mode' = IF ro THEN "ro" ELSE "rw"
      /\ ro \/ ~ wp
  BY DEF Open, Leftovers, device
<1> HIDE DEF placed
<1>3. TypeOK'
  BY <1>1, <1>2 DEF IndInv, TypeOK
<1>4. SpaceAccounted'
  <2>1. Extent(None) = {}
    BY DEF Extent
  <2>2. Disjoint(files')
    BY <1>2, <2>1 DEF IndInv, SpaceAccounted, Disjoint
  <2> QED
    BY <1>2, <2>2 DEF IndInv, SpaceAccounted, Disjoint
<1>5. CleanIsPersisted'
  <2>1. ASSUME NEW j \in AllKeys, ~ shardDirty'[ShardOf[j]]
        PROVE  files'[j] = pfiles'[j] /\ (j \in tombs' <=> j \in ptombs')
    <3>1. ShardOf[j] \in Shards
      BY RawStoreAssumption
    <3>2. j \notin gone
      BY <1>2, <2>1, <3>1
    <3>3. j \notin stale
      BY <1>1, <3>2
    <3> QED
      BY <1>2, <3>2, <3>3
  <2>2. ~ dirty' => \A s \in Shards : ~ shardDirty'[s]
    BY <1>2
  <2> QED
    BY <1>2, <2>1, <2>2 DEF CleanIsPersisted
<1> QED
  BY <1>2, <1>3, <1>4, <1>5 DEF IndInv

----------------------------------------------------------------------------
\* Every step of the store, and every stutter, preserves the invariant.
LEMMA NextIndInv == IndInv /\ [Next]_vars => IndInv'
<1> SUFFICES ASSUME IndInv, [Next]_vars PROVE IndInv'
  OBVIOUS
<1> USE RawStoreAssumption
<1>0. /\ Keys \subseteq AllKeys
      /\ \A meta \in Metas : meta \in Seq(Data) /\ Len(meta) \in Nat
      /\ \A body \in Bodies : body \in Seq(Data)
  BY DEF AllKeys
<1>1. CASE ObjectOp
  <2>1. CASE \E k \in Keys, body \in Bodies, meta \in Metas : Put(k, body, meta)
    BY <1>0, <2>1, PutStep
  <2>2. CASE \E k \in Keys : Delete(k)
    BY <1>0, <2>2, DeleteStep
  <2>3. CASE \E from, to \in Keys : Copy(from, to) \/ CopyIfNotExists(from, to)
    BY <1>0, <2>3, CopyStep DEF CopyIfNotExists
  <2>4. CASE \E from, to \in Keys : Rename(from, to) \/ RenameIfNotExists(from, to)
    BY <1>0, <2>4, RenameStep DEF RenameIfNotExists
  <2>5. CASE \E k \in Keys, meta \in Metas : UpdateMetadata(k, meta)
    BY <1>0, <2>5, UpdateMetadataStep
  <2>6. CASE \E k \in Keys, meta \in Metas : SetMetaLen(k, Len(meta))
    BY <1>0, <2>6, SetMetaLenStep
  <2>7. CASE \E body \in Bodies : WriteFails(body)
    BY <1>0, <2>7, WriteFailsStep
  <2> QED
    BY <1>1, <2>1, <2>2, <2>3, <2>4, <2>5, <2>6, <2>7 DEF ObjectOp
<1>2. CASE DeviceOp
  BY <1>2, FlushStep, ScrubStep, TombstoneStep, ModifyFlagsStep DEF DeviceOp
<1>3. CASE Lifecycle
  BY <1>3, DownStep, OpenStep DEF Lifecycle
<1>4. CASE UNCHANGED vars
  BY <1>4 DEF vars, IndInv, TypeOK, SpaceAccounted, Disjoint, Used, CleanIsPersisted
<1> QED
  BY <1>1, <1>2, <1>3, <1>4 DEF Next

\* The inductive invariant holds in every reachable state of the store.
THEOREM Invariance == Spec => []IndInv
BY InitIndInv, NextIndInv, PTL DEF Spec

\* Every reachable state of the store has the shape of Inner, the
\* superblock and the device: in particular no payload with a block that
\* fails its CRC is ever indexed by put, copy or update_metadata.
THEOREM TypeCorrect == Spec => []TypeOK
<1>1. IndInv => TypeOK
  BY DEF IndInv
<1> QED
  BY Invariance, <1>1, PTL

\* No two objects ever share a block, in memory or in the durable index, and
\* a writer's free list is exactly the complement of the live extents,
\* through every operation, error path, crash and reopen.
THEOREM SpaceIsAccounted == Spec => []SpaceAccounted
<1>1. IndInv => SpaceAccounted
  BY DEF IndInv
<1> QED
  BY Invariance, <1>1, PTL

\* A shard that flush_index would skip is on disk as it is in memory.
THEOREM CleanShardsPersisted == Spec => []CleanIsPersisted
<1>1. IndInv => CleanIsPersisted
  BY DEF IndInv
<1> QED
  BY Invariance, <1>1, PTL

\* No step of the store changes the durable index while the write-protect
\* flag is set.
THEOREM WriteProtection == Spec => WriteProtectHolds
<1>1. IndInv /\ [Next]_vars => [wp => UNCHANGED <<pfiles, ptombs>>]_vars
  <2> SUFFICES ASSUME IndInv, Next, wp
               PROVE  UNCHANGED <<pfiles, ptombs>>
    OBVIOUS
  <2>1. mode # "rw"
    BY DEF IndInv
  <2> QED
    BY <2>1 DEF Next, ObjectOp, DeviceOp, Lifecycle, Put, Delete, Copy, CopyIfNotExists,
         Rename, RenameIfNotExists, UpdateMetadata, SetMetaLen, WriteFails, FlushIndex,
         FlushFails, Repair, ScrubFreeSpace, DeleteTombstone, ClearTombstones,
         ModifyFlags, Stop, PowerLoss, Open, device
<1> QED
  BY Invariance, <1>1, PTL DEF Spec, WriteProtectHolds

-----------------------------------------------------------------------------
(***************************************************************************)
(* What RawStore promises of the bytes: an object that has been flushed    *)
(* and left alone survives (FlushedSurvives), opening for writing drops    *)
(* nothing in silence (OpenLosesNothing), and with full verification every *)
(* listed object reads back as written (LiveDataIntact).  All rest on the  *)
(* space accounting above: writes only reach free blocks.                  *)
(***************************************************************************)

\* No entry lives under MULTIPART_TMP_PREFIX: without uploads in progress
\* the purge at open has nothing to remove.
NoTmp == \A t \in TmpKeys : files[t] = None /\ pfiles[t] = None

\* The inductive invariant: FlushedSurvives needs the space accounting, and
\* that what it protects is never purged as a multipart leftover.
DurInv ==
    /\ IndInv
    /\ NoTmp
    /\ FlushedSurvives

\* Writing at most n blocks where FirstFit found n leaves every block that
\* is not free, and its stable content, as it was.
LEMMA WriteStaysFree ==
    ASSUME NEW o \in Blocks, NEW n \in Nat, NEW p, Len(p) \in Nat, Len(p) <= n,
           FirstFit(o, n), WriteBlocks(o, p)
    PROVE  \A b \in Blocks \ free : disk'[b] = disk[b] /\ media'[b] = media[b]
<1>1. Run(o, Len(p)) \subseteq Run(o, n)
  BY DEF Run, Blocks
<1>2. Run(o, n) \subseteq free
  BY DEF FirstFit
<1> QED
  BY <1>1, <1>2 DEF WriteBlocks

\* A writer serves every flushed object from blocks that are not free.
LEMMA KeptNotFree ==
    ASSUME DurInv, mode = "rw", NEW k \in kept
    PROVE  /\ k \in Keys /\ files[k] = pfiles[k]
           /\ Extent(pfiles[k]) \subseteq Blocks \ free
<1>1. k \in AllKeys /\ pfiles[k] # None
  BY DEF DurInv, IndInv, TypeOK, FlushedSurvives
<1>2. k \in Keys /\ files[k] = pfiles[k]
  BY <1>1 DEF DurInv, NoTmp, FlushedSurvives, AllKeys
<1>3. Extent(files[k]) \subseteq Blocks
  BY <1>1, LiveInBlocks DEF DurInv, IndInv, TypeOK, SpaceAccounted
<1>4. Extent(files[k]) \cap free = {}
  BY <1>1, UsedMember DEF DurInv, IndInv, SpaceAccounted
<1> QED
  BY <1>2, <1>3, <1>4

\* A step that keeps the durable index, the blocks of what it still protects
\* and, while a handle is open, their entries in memory.
LEMMA SurvivesFrame ==
    ASSUME DurInv, kept' \subseteq kept, pfiles' = pfiles,
           \A k \in kept' : \A b \in Extent(pfiles[k]) :
               disk'[b] = disk[b] /\ media'[b] = {disk[b]},
           \A k \in kept' : k \in Keys /\ mode' # "down" => files'[k] = pfiles[k]
    PROVE  FlushedSurvives'
<1> SUFFICES ASSUME NEW k \in kept'
             PROVE  /\ pfiles'[k] # None
                    /\ Intact(disk', pfiles'[k])
                    /\ \A b \in Extent(pfiles'[k]) : media'[b] = {disk'[b]}
                    /\ k \in Keys /\ mode' # "down" => files'[k] = pfiles'[k]
  BY DEF FlushedSurvives, Intact
<1>1. k \in kept /\ k \in AllKeys /\ pfiles[k] # None /\ Intact(disk, pfiles[k])
  BY DEF DurInv, IndInv, TypeOK, FlushedSurvives
<1>2. pfiles[k] \in Entry
  BY <1>1 DEF DurInv, IndInv, TypeOK
<1>3. \A i \in 1..Len(pfiles[k].crc) : pfiles[k].offset + i - 1 \in Extent(pfiles[k])
  <2>1. pfiles[k].offset \in Nat /\ Len(pfiles[k].crc) \in Nat
    BY <1>2 DEF Entry, Blocks
  <2> QED
    BY <1>2, <2>1, ExtentOfEntry
<1>4. Intact(disk', pfiles[k])
  BY <1>1, <1>3 DEF Intact
<1> QED
  BY <1>1, <1>4

\* A writer that changes free blocks and entries of other objects only.
LEMMA WriterSurvives ==
    ASSUME DurInv, mode = "rw", kept' \subseteq kept, pfiles' = pfiles,
           \A b \in Blocks \ free : disk'[b] = disk[b] /\ media'[b] = media[b],
           \A j \in kept' : files'[j] = files[j]
    PROVE  FlushedSurvives'
<1>1. ASSUME NEW k \in kept', NEW b \in Extent(pfiles[k])
      PROVE  disk'[b] = disk[b] /\ media'[b] = {disk[b]}
  BY KeptNotFree DEF DurInv, FlushedSurvives
<1>2. ASSUME NEW k \in kept'
      PROVE  files'[k] = pfiles[k]
  BY KeptNotFree
<1> QED
  BY <1>1, <1>2, SurvivesFrame

\* A step that does not touch the device's data.
LEMMA QuietSurvives ==
    ASSUME DurInv, UNCHANGED <<disk, media, pfiles, mode>>, kept' \subseteq kept,
           \A j \in kept' : files'[j] = files[j]
    PROVE  FlushedSurvives'
<1>1. ASSUME NEW k \in kept', NEW b \in Extent(pfiles[k])
      PROVE  disk'[b] = disk[b] /\ media'[b] = {disk[b]}
  BY DEF DurInv, FlushedSurvives
<1>2. ASSUME NEW k \in kept', k \in Keys, mode' # "down"
      PROVE  files'[k] = pfiles[k]
  BY <1>2 DEF DurInv, FlushedSurvives
<1> QED
  BY <1>1, <1>2, SurvivesFrame

\* Entries of client paths change, those of temporary paths do not.
LEMMA InsertNoTmp ==
    ASSUME DurInv, NEW k \in Keys, NEW e, Insert(k, e), pfiles' = pfiles
    PROVE  NoTmp' /\ kept' \subseteq kept /\ \A j \in kept' : files'[j] = files[j]
<1>1. Keys \cap TmpKeys = {} /\ kept \subseteq AllKeys /\ TmpKeys \subseteq AllKeys
  BY RawStoreAssumption DEF DurInv, IndInv, TypeOK, AllKeys
<1>2. \A j \in AllKeys \ {k} : files'[j] = files[j]
  BY DEF Insert, DurInv, IndInv, TypeOK
<1> QED
  BY <1>1, <1>2 DEF Insert, DurInv, NoTmp

\* put, copy, update_metadata and delete: the new extent is free, and only
\* the object they write loses its protection.
LEMMA ObjectSurvives ==
    ASSUME DurInv, NEW k \in Keys,
           \/ \E body \in Seq(Data), meta \in Seq(Data) : Put(k, body, meta)
           \/ \E from \in Keys : Copy(from, k)
           \/ \E meta \in Seq(Data) : UpdateMetadata(k, meta)
           \/ Delete(k)
    PROVE  NoTmp' /\ FlushedSurvives'
<1>1. CASE \E body \in Seq(Data), meta \in Seq(Data) : Put(k, body, meta)
  <2>1. PICK body \in Seq(Data), meta \in Seq(Data) : Put(k, body, meta)
    BY <1>1
  <2> DEFINE p == body \o meta
  <2>2. Len(p) \in Nat
    OBVIOUS
  <2>3. PICK o \in Blocks :
          /\ FirstFit(o, Len(p))
          /\ WriteBlocks(o, p)
          /\ Insert(k, [offset |-> o, crc |-> p, meta_len |-> Len(meta)])
    BY <2>1 DEF Put
  <2>4. mode = "rw" /\ pfiles' = pfiles
    BY <2>1 DEF Put
  <2> HIDE DEF p
  <2>5. \A b \in Blocks \ free : disk'[b] = disk[b] /\ media'[b] = media[b]
    <3>1. Len(p) <= Len(p) /\ FirstFit(o, Len(p)) /\ WriteBlocks(o, p)
      BY <2>2, <2>3
    <3> QED
      BY <2>2, <3>1, WriteStaysFree, SMTT(30)
  <2> QED
    BY <2>3, <2>4, <2>5, InsertNoTmp, WriterSurvives
<1>2. CASE \E from \in Keys : Copy(from, k)
  <2>1. PICK from \in Keys : Copy(from, k)
    BY <1>2
  <2>2. files[from] \in Entry /\ InBounds(files[from])
    BY <2>1 DEF Copy, DurInv, IndInv, TypeOK, SpaceAccounted, Disjoint, AllKeys
  <2>3. Len(Raw(files[from])) = Len(files[from].crc) /\ Len(files[from].crc) \in Nat
    BY <2>2, RawTyped, ExtentOfEntry DEF DurInv, IndInv
  <2>4. PICK o \in Blocks :
          /\ FirstFit(o, Len(files[from].crc))
          /\ WriteBlocks(o, Raw(files[from]))
          /\ Insert(k, [files[from] EXCEPT !.offset = o])
    BY <2>1 DEF Copy
  <2>5. mode = "rw" /\ pfiles' = pfiles
    BY <2>1 DEF Copy
  <2>6. \A b \in Blocks \ free : disk'[b] = disk[b] /\ media'[b] = media[b]
    BY <2>3, <2>4, WriteStaysFree
  <2> QED
    BY <2>4, <2>5, <2>6, InsertNoTmp, WriterSurvives
<1>3. CASE \E meta \in Seq(Data) : UpdateMetadata(k, meta)
  <2>1. PICK meta \in Seq(Data) : UpdateMetadata(k, meta)
    BY <1>3
  <2> DEFINE p == Body(files[k]) \o meta
  <2>2. Body(files[k]) \in Seq(Data)
    BY <2>1, BodyTyped DEF UpdateMetadata, DurInv, IndInv, TypeOK, SpaceAccounted, Disjoint, AllKeys
  <2>3. Len(p) \in Nat
    BY <2>2
  <2>4. PICK o \in Blocks :
          /\ FirstFit(o, Len(p))
          /\ WriteBlocks(o, p)
          /\ Insert(k, [offset |-> o, crc |-> p, meta_len |-> Len(meta)])
    BY <2>1 DEF UpdateMetadata
  <2>5. mode = "rw" /\ pfiles' = pfiles
    BY <2>1 DEF UpdateMetadata
  <2> HIDE DEF p
  <2>6. \A b \in Blocks \ free : disk'[b] = disk[b] /\ media'[b] = media[b]
    BY <2>3, <2>4, WriteStaysFree
  <2> QED
    BY <2>4, <2>5, <2>6, InsertNoTmp, WriterSurvives
<1>4. CASE Delete(k)
  <2>1. Insert(k, None) /\ UNCHANGED <<disk, media, pfiles, mode>>
    BY <1>4 DEF Delete, device
  <2> QED
    BY <2>1, InsertNoTmp, QuietSurvives
<1> QED
  BY <1>1, <1>2, <1>3, <1>4

\* rename and set_meta_len change entries in memory only, and give up the
\* protection of the objects they name.
LEMMA EntrySurvives ==
    ASSUME DurInv, NEW from \in Keys, NEW to \in Keys, NEW n,
           Rename(from, to) \/ SetMetaLen(to, n)
    PROVE  NoTmp' /\ FlushedSurvives'
<1>1. Keys \cap TmpKeys = {} /\ kept \subseteq AllKeys /\ AllKeys = Keys \cup TmpKeys
  BY RawStoreAssumption DEF DurInv, IndInv, TypeOK, AllKeys
<1>2. UNCHANGED <<disk, media, pfiles, mode>> /\ kept' \subseteq kept
  BY DEF Rename, SetMetaLen, device
<1>3. \A j \in AllKeys : j \in kept' \/ j \in TmpKeys => files'[j] = files[j]
  BY <1>1 DEF Rename, SetMetaLen, DurInv, IndInv, TypeOK
<1>4. NoTmp'
  BY <1>1, <1>2, <1>3 DEF DurInv, NoTmp
<1> QED
  BY <1>1, <1>2, <1>3, <1>4, QuietSurvives

\* A device error part way through a write has only reached free blocks.
LEMMA WriteFailsSurvives ==
    ASSUME DurInv, NEW p \in Seq(Data), WriteFails(p)
    PROVE  NoTmp' /\ FlushedSurvives'
<1>1. PICK o \in Blocks, n \in 1..Len(p) :
        FirstFit(o, Len(p)) /\ WriteBlocks(o, SubSeq(p, 1, n))
  BY DEF WriteFails
<1>2. mode = "rw" /\ UNCHANGED <<pfiles, files, kept>>
  BY DEF WriteFails, index
<1>3. Len(SubSeq(p, 1, n)) = n /\ n \in Nat /\ Len(p) \in Nat /\ n <= Len(p)
  OBVIOUS
<1>4. \A b \in Blocks \ free : disk'[b] = disk[b] /\ media'[b] = media[b]
  BY <1>1, <1>3, WriteStaysFree
<1>5. FlushedSurvives'
  BY <1>2, <1>4, WriterSurvives
<1> QED
  BY <1>2, <1>5 DEF DurInv, NoTmp

\* What a commit newly protects is intact, and its sync makes it stable.
LEMMA CommitSurvives ==
    ASSUME DurInv, mode = "rw", Commit, UNCHANGED <<disk, files>>
    PROVE  NoTmp' /\ FlushedSurvives'
<1>1. pfiles' = files /\ FlushedFiles = files
  BY FlushedIsMemory DEF Commit, DurInv
<1>2. NoTmp'
  BY <1>1 DEF DurInv, NoTmp
<1>3. \A k \in kept' : k \in AllKeys /\ files[k] # None /\ Intact(disk, files[k])
  BY <1>1 DEF Commit
<1>4. ASSUME NEW k \in kept'
      PROVE  \A b \in Extent(files[k]) : media'[b] = {disk[b]}
  <2>1. Extent(files[k]) \subseteq Blocks
    BY <1>3, LiveInBlocks DEF DurInv, IndInv, TypeOK, SpaceAccounted
  <2> QED
    BY <2>1 DEF Commit, Synced
<1> QED
  BY <1>1, <1>2, <1>3, <1>4 DEF FlushedSurvives, Intact

\* flush_index, its failures and repair.
LEMMA FlushSurvives ==
    ASSUME DurInv, FlushIndex \/ FlushFails \/ Repair
    PROVE  NoTmp' /\ FlushedSurvives'
<1>1. CASE Commit
  BY <1>1, CommitSurvives DEF FlushIndex, FlushFails, Repair, index
<1>2. CASE ~ Commit
  <2>1. /\ mode = "rw" /\ media' \in {media, Synced(disk)}
        /\ UNCHANGED <<disk, pfiles, files, kept, mode>>
    BY <1>2 DEF FlushIndex, FlushFails, Repair
  <2>2. ASSUME NEW k \in kept', NEW b \in Extent(pfiles[k])
        PROVE  disk'[b] = disk[b] /\ media'[b] = {disk[b]}
    <3>1. media[b] = {disk[b]}
      BY <2>1, <2>2 DEF DurInv, FlushedSurvives
    <3> QED
      BY <2>1, <2>2, <3>1, KeptNotFree DEF Synced
  <2>3. FlushedSurvives'
    BY <2>1, <2>2, KeptNotFree, SurvivesFrame
  <2> QED
    BY <2>1, <2>3 DEF DurInv, NoTmp
<1> QED
  BY <1>1, <1>2

\* scrub_free_space zeroes free blocks; its sync changes nothing else.
LEMMA ScrubSurvives ==
    ASSUME DurInv, ScrubFreeSpace
    PROVE  NoTmp' /\ FlushedSurvives'
<1>1. mode = "rw" /\ UNCHANGED <<pfiles, files, kept, mode>>
  BY DEF ScrubFreeSpace, index
<1>2. ASSUME NEW k \in kept', NEW b \in Extent(pfiles[k])
      PROVE  disk'[b] = disk[b] /\ media'[b] = {disk[b]}
  BY <1>1, KeptNotFree DEF ScrubFreeSpace, Synced
<1>3. FlushedSurvives'
  BY <1>1, <1>2, KeptNotFree, SurvivesFrame
<1> QED
  BY <1>1, <1>3 DEF DurInv, NoTmp

\* Process exit and power loss: a block whose content is settled keeps it.
LEMMA DownSurvives ==
    ASSUME DurInv, Stop \/ PowerLoss
    PROVE  NoTmp' /\ FlushedSurvives'
<1>1. mode' = "down" /\ UNCHANGED <<pfiles, kept>> /\ files' = [k \in AllKeys |-> None]
  BY DEF Stop, PowerLoss, Forget, device
<1>2. NoTmp'
  BY <1>1 DEF DurInv, NoTmp, AllKeys
<1>3. ASSUME NEW k \in kept', NEW b \in Extent(pfiles[k])
      PROVE  disk'[b] = disk[b] /\ media'[b] = {disk[b]}
  <2>1. media[b] = {disk[b]} /\ k \in AllKeys
    BY <1>1 DEF DurInv, IndInv, TypeOK, FlushedSurvives
  <2>2. b \in Blocks
    BY <2>1, LiveInBlocks DEF DurInv, IndInv, TypeOK, SpaceAccounted
  <2>3. CASE Stop
    BY <2>1, <2>3 DEF Stop, device
  <2>4. CASE PowerLoss
    BY <2>1, <2>2, <2>4 DEF PowerLoss, Synced
  <2> QED
    BY <2>3, <2>4
<1> QED
  BY <1>1, <1>2, <1>3, SurvivesFrame

\* An index whose extents are disjoint passes the bounds check and the
\* overlap check of open_impl as a whole.
LEMMA AllWellPlaced ==
    ASSUME NEW f \in [AllKeys -> Entry \cup {None}], Disjoint(f)
    PROVE  WellPlaced(f) = {k \in AllKeys : f[k] # None}
<1> DEFINE ok == {k \in AllKeys : f[k] # None /\ InBounds(f[k])}
<1>1. ok = {k \in AllKeys : f[k] # None}
  BY DEF Disjoint
<1>2. ASSUME NEW j \in ok, NEW k \in ok, j # k, f[j].offset <= f[k].offset
      PROVE  ~ f[j].offset + Len(f[j].crc) > f[k].offset
  <2>1. f[j] \in Entry /\ f[k] \in Entry /\ Len(f[k].crc) > 0
    BY DEF InBounds
  <2>2. Extent(f[j]) \cap Extent(f[k]) = {}
    BY <1>2 DEF Disjoint
  <2>3. f[k].offset \in Extent(f[k])
    BY <2>1, ExtentOfEntry
  <2> QED
    BY <1>2, <2>1, <2>2, <2>3, ExtentOfEntry
<1>3. WellPlaced(f) = ok
  BY <1>2 DEF WellPlaced
<1> QED
  BY <1>1, <1>3

\* open_impl finds every protected object well placed and passes it in every
\* scan mode, because it is intact.
LEMMA OpenSurvives ==
    ASSUME DurInv, NEW m \in OpenModes, NEW ro \in BOOLEAN, Open(m, ro)
    PROVE  NoTmp' /\ FlushedSurvives'
<1> DEFINE keep == (WellPlaced(pfiles) \ {k \in WellPlaced(pfiles) : Stale(m, pfiles[k])})
                     \ Leftovers(ro)
<1>1. /\ UNCHANGED <<disk, media, pfiles, kept>>
      /\ files' = [k \in AllKeys |-> IF k \in keep THEN pfiles[k] ELSE None]
  BY DEF Open, device
<1>2. NoTmp'
  BY <1>1 DEF DurInv, NoTmp, AllKeys
<1>3. ASSUME NEW k \in kept', k \in Keys
      PROVE  files'[k] = pfiles[k]
  <2>1. k \in AllKeys /\ pfiles[k] # None /\ Intact(disk, pfiles[k])
    BY <1>1 DEF DurInv, IndInv, TypeOK, FlushedSurvives
  <2>2. k \in WellPlaced(pfiles)
    BY <2>1, AllWellPlaced DEF DurInv, IndInv, TypeOK, SpaceAccounted
  <2>3. pfiles[k] \in Entry /\ InBounds(pfiles[k])
    BY <2>1 DEF DurInv, IndInv, TypeOK, SpaceAccounted, Disjoint
  <2>4. disk[pfiles[k].offset] # Bad
    <3>1. disk[pfiles[k].offset + 1 - 1] = pfiles[k].crc[1] /\ 1 \in 1..Len(pfiles[k].crc)
      BY <2>1, <2>3, ExtentOfEntry DEF Intact, InBounds
    <3>2. pfiles[k].crc \in Seq(Data) /\ pfiles[k].offset + 1 - 1 = pfiles[k].offset
      BY <2>3, ExtentOfEntry DEF Entry
    <3>3. pfiles[k].crc[1] \in Data
      BY <3>1, <3>2
    <3> QED
      BY <3>1, <3>2, <3>3, RawStoreAssumption
  <2>5. ~ Stale(m, pfiles[k])
    BY <2>1, <2>4 DEF Stale
  <2>6. k \notin Leftovers(ro)
    BY <1>3, RawStoreAssumption DEF Leftovers
  <2> QED
    BY <1>1, <2>1, <2>2, <2>5, <2>6
<1>4. ASSUME NEW k \in kept', NEW b \in Extent(pfiles[k])
      PROVE  disk'[b] = disk[b] /\ media'[b] = {disk[b]}
  BY <1>1 DEF DurInv, FlushedSurvives
<1> QED
  BY <1>1, <1>2, <1>3, <1>4, SurvivesFrame

----------------------------------------------------------------------------
\* Every step of the store, and every stutter, preserves the invariant.
LEMMA NextDurInv == DurInv /\ [Next]_vars => DurInv'
<1> SUFFICES ASSUME DurInv, [Next]_vars PROVE DurInv'
  OBVIOUS
<1>0. IndInv'
  BY NextIndInv DEF DurInv
<1> SUFFICES NoTmp' /\ FlushedSurvives'
  BY <1>0 DEF DurInv
<1>1. /\ \A meta \in Metas : meta \in Seq(Data)
      /\ \A body \in Bodies : body \in Seq(Data)
  BY RawStoreAssumption
<1>2. CASE ObjectOp
  BY <1>1, <1>2, ObjectSurvives, EntrySurvives, WriteFailsSurvives
     DEF ObjectOp, CopyIfNotExists, RenameIfNotExists
<1>3. CASE DeviceOp
  <2>1. CASE FlushIndex \/ FlushFails \/ Repair
    BY <2>1, FlushSurvives
  <2>2. CASE ScrubFreeSpace
    BY <2>2, ScrubSurvives
  <2>3. CASE ClearTombstones \/ (\E k \in Keys : DeleteTombstone(k))
                             \/ (\E b \in BOOLEAN : ModifyFlags(b))
    <3>1. UNCHANGED <<disk, media, pfiles, files, mode, kept>>
      BY <2>3 DEF ClearTombstones, DeleteTombstone, ModifyFlags, device, index
    <3> QED
      BY <3>1, QuietSurvives DEF DurInv, NoTmp
  <2> QED
    BY <1>3, <2>1, <2>2, <2>3 DEF DeviceOp
<1>4. CASE Lifecycle
  BY <1>4, DownSurvives, OpenSurvives DEF Lifecycle
<1>5. CASE UNCHANGED vars
  BY <1>5, QuietSurvives DEF vars, DurInv, NoTmp
<1> QED
  BY <1>2, <1>3, <1>4, <1>5 DEF Next

\* An object that was flushed and that no client has touched since keeps its
\* bytes and its committed entry through every operation on other objects,
\* failing write or flush, exit, power loss and reopen, in every open mode, for
\* any number of shards.  (The theorem is about what is committed: while a slot
\* that the durable superblock names is overwritten, the variable lost, no open
\* succeeds.  See flush_index, store.rs:1341-1364.)
THEOREM FlushedObjectsSurvive == Spec => []FlushedSurvives
<1>1. Init => DurInv
  BY InitIndInv DEF DurInv, NoTmp, FlushedSurvives, Init, AllKeys
<1>2. DurInv => FlushedSurvives
  BY DEF DurInv
<1> QED
  BY <1>1, <1>2, NextDurInv, PTL DEF Spec

\* A read-write open serves or tombstones every object of the durable index:
\* the bounds and overlap checks never drop one, and the purge of multipart
\* leftovers does not reach client paths.
THEOREM OpenIsLossless == Spec => OpenLosesNothing
<1> DEFINE Lossless == mode = "down" /\ mode' = "rw" =>
             \A k \in Keys : pfiles[k] # None => files'[k] = pfiles[k] \/ k \in tombs'
<1>1. IndInv /\ [Next]_vars => [Lossless]_vars
  <2> SUFFICES ASSUME IndInv, Next, mode = "down", mode' = "rw",
                      NEW k \in Keys, pfiles[k] # None
               PROVE  files'[k] = pfiles[k] \/ k \in tombs'
    OBVIOUS
  <2>1. PICK m \in OpenModes : Open(m, FALSE)
    <3>1. ~ ObjectOp
      BY DEF ObjectOp, Put, Delete, Copy, CopyIfNotExists, Rename, RenameIfNotExists,
           UpdateMetadata, SetMetaLen, WriteFails
    <3>2. ~ DeviceOp
      BY DEF DeviceOp, FlushIndex, FlushFails, Repair, ScrubFreeSpace, DeleteTombstone,
           ClearTombstones, ModifyFlags
    <3>3. Lifecycle
      BY <3>1, <3>2 DEF Next
    <3>4. ~ (Stop \/ PowerLoss)
      BY DEF Stop, PowerLoss, Forget
    <3>5. PICK m \in OpenModes, ro \in BOOLEAN : Open(m, ro)
      BY <3>3, <3>4 DEF Lifecycle
    <3>6. ro = FALSE
      BY <3>5 DEF Open
    <3> QED
      BY <3>5, <3>6
  <2>2. k \in WellPlaced(pfiles)
    BY AllWellPlaced DEF IndInv, TypeOK, SpaceAccounted, AllKeys
  <2>3. k \notin Leftovers(FALSE)
    BY RawStoreAssumption DEF Leftovers
  <2> QED
    BY <2>1, <2>2, <2>3 DEF Open, AllKeys
<1> QED
  BY Invariance, <1>1, PTL DEF Spec, OpenLosesNothing

----------------------------------------------------------------------------
\* What has been written at o is what an entry for it reads back.
LEMMA WriteIsIntact ==
    ASSUME NEW o \in Blocks, NEW p, Len(p) \in Nat,
           FirstFit(o, Len(p)), free \subseteq Blocks, WriteBlocks(o, p),
           NEW e \in Entry, e.offset = o, Len(e.crc) = Len(p),
           \A i \in 1..Len(p) : p[i] = e.crc[i]
    PROVE  Intact(disk', e)
<1> SUFFICES ASSUME NEW i \in 1..Len(p)
             PROVE  disk'[o + i - 1] = p[i]
  BY DEF Intact
<1>1. o \in Nat
  BY DEF Blocks
<1>2. o + i - 1 \in Run(o, Len(p)) /\ (o + i - 1) - o + 1 = i
  BY <1>1 DEF Run
<1>3. o + i - 1 \in Blocks
  BY <1>2 DEF FirstFit
<1> QED
  BY <1>2, <1>3 DEF WriteBlocks

\* A writer that replaces one entry by an intact one, or by none, and
\* changes free blocks only.
LEMMA InsertKeepsIntact ==
    ASSUME IndInv, LiveDataIntact, mode = "rw", NEW k \in AllKeys, NEW e, Insert(k, e),
           e # None => Intact(disk', e),
           \A b \in Blocks \ free : disk'[b] = disk[b]
    PROVE  LiveDataIntact'
<1> SUFFICES ASSUME NEW j \in AllKeys, files'[j] # None
             PROVE  Intact(disk', files'[j])
  BY DEF LiveDataIntact, Intact
<1>1. CASE j = k
  BY <1>1 DEF Insert, IndInv, TypeOK
<1>2. CASE j # k
  <2>1. files'[j] = files[j] /\ files[j] \in Entry
    BY <1>2 DEF Insert, IndInv, TypeOK
  <2>2. Extent(files[j]) \subseteq Blocks \ free
    BY LiveInBlocks, UsedMember DEF IndInv, TypeOK, SpaceAccounted
  <2>3. \A i \in 1..Len(files[j].crc) : files[j].offset + i - 1 \in Extent(files[j])
    BY <2>1, ExtentOfEntry
  <2>4. Intact(disk, files[j])
    BY <2>1, RawStoreAssumption DEF LiveDataIntact
  <2> QED
    BY <2>1, <2>2, <2>3, <2>4 DEF Intact
<1> QED
  BY <1>1, <1>2

\* The blocks of an intact entry are the payload its CRC was taken over.
LEMMA IntactRaw ==
    ASSUME TypeOK, NEW e \in Entry, InBounds(e), Intact(disk, e)
    PROVE  Raw(e) = e.crc
<1>1. Len(Raw(e)) = Len(e.crc) /\ \A i \in 1..Len(e.crc) : Raw(e)[i] = e.crc[i]
  BY RawTyped DEF Intact
<1>2. Raw(e) \in Seq(Cell) /\ e.crc \in Seq(Cell)
  BY RawTyped DEF Entry, Cell
<1> QED
  BY <1>1, <1>2, SeqEqual

\* put, copy and update_metadata index what they have written; delete
\* indexes nothing.
LEMMA ObjectIntact ==
    ASSUME IndInv, LiveDataIntact, NEW k \in Keys,
           \/ \E body \in Seq(Data), meta \in Seq(Data) : Put(k, body, meta)
           \/ \E from \in Keys : Copy(from, k)
           \/ \E meta \in Seq(Data) : UpdateMetadata(k, meta)
           \/ Delete(k)
    PROVE  LiveDataIntact'
<1>0. Keys \subseteq AllKeys /\ free \subseteq Blocks
  BY DEF AllKeys, IndInv, TypeOK
<1>1. ASSUME mode = "rw", NEW p \in Seq(Data), NEW n \in Nat, NEW o \in Blocks,
             FirstFit(o, Len(p)), WriteBlocks(o, p),
             Insert(k, [offset |-> o, crc |-> p, meta_len |-> n])
      PROVE  LiveDataIntact'
  <2> DEFINE e == [offset |-> o, crc |-> p, meta_len |-> n]
  <2>1. e \in Entry /\ e.offset = o /\ e.crc = p /\ Len(p) \in Nat /\ Insert(k, e)
    BY <1>1 DEF Entry
  <2> HIDE DEF e
  <2>2. Intact(disk', e)
    BY <1>0, <1>1, <2>1, WriteIsIntact
  <2>3. \A b \in Blocks \ free : disk'[b] = disk[b]
    BY <1>1, <2>1, WriteStaysFree
  <2> QED
    BY <1>0, <1>1, <2>1, <2>2, <2>3, InsertKeepsIntact
<1>2. CASE \E body \in Seq(Data), meta \in Seq(Data) : Put(k, body, meta)
  <2>1. PICK body \in Seq(Data), meta \in Seq(Data) : Put(k, body, meta)
    BY <1>2
  <2>2. body \o meta \in Seq(Data) /\ Len(meta) \in Nat
    OBVIOUS
  <2> QED
    BY <1>1, <2>1, <2>2 DEF Put
<1>3. CASE \E from \in Keys : Copy(from, k)
  <2>1. PICK from \in Keys : Copy(from, k)
    BY <1>3
  <2>2. files[from] \in Entry /\ InBounds(files[from]) /\ Intact(disk, files[from])
    BY <2>1 DEF Copy, IndInv, TypeOK, SpaceAccounted, Disjoint, LiveDataIntact, AllKeys
  <2>3. Raw(files[from]) = files[from].crc /\ files[from].crc \in Seq(Data)
    BY <2>2, IntactRaw DEF IndInv, Entry
  <2>4. PICK o \in Blocks :
          /\ FirstFit(o, Len(files[from].crc))
          /\ WriteBlocks(o, Raw(files[from]))
          /\ Insert(k, [files[from] EXCEPT !.offset = o])
    BY <2>1 DEF Copy
  <2>5. [files[from] EXCEPT !.offset = o] =
          [offset |-> o, crc |-> files[from].crc, meta_len |-> files[from].meta_len]
    BY <2>2 DEF Entry
  <2>6. mode = "rw" /\ files[from].meta_len \in Nat
    BY <2>1, <2>2 DEF Copy, Entry
  <2> QED
    BY <1>1, <2>3, <2>4, <2>5, <2>6
<1>4. CASE \E meta \in Seq(Data) : UpdateMetadata(k, meta)
  <2>1. PICK meta \in Seq(Data) : UpdateMetadata(k, meta)
    BY <1>4
  <2>2. Body(files[k]) \in Seq(Data)
    BY <2>1, BodyTyped DEF UpdateMetadata, IndInv, TypeOK, SpaceAccounted, Disjoint, AllKeys
  <2>3. Body(files[k]) \o meta \in Seq(Data) /\ Len(meta) \in Nat
    BY <2>2
  <2> QED
    BY <1>1, <2>1, <2>3 DEF UpdateMetadata
<1>5. CASE Delete(k)
  BY <1>0, <1>5, InsertKeepsIntact DEF Delete, device
<1> QED
  BY <1>2, <1>3, <1>4, <1>5

\* With full verification on every open, each step keeps what is listed
\* intact.
LEMMA NextIntact ==
    ASSUME OpenModes \subseteq {"FullVerify"}, IndInv, LiveDataIntact, [Next]_vars
    PROVE  LiveDataIntact'
<1>1. /\ \A meta \in Metas : meta \in Seq(Data)
      /\ \A body \in Bodies : body \in Seq(Data)
      /\ Keys \subseteq AllKeys
  BY RawStoreAssumption DEF AllKeys
<1>2. ASSUME UNCHANGED files, mode # "down",
             \A b \in Blocks \ free : disk'[b] = disk[b], mode = "rw" \/ disk' = disk
      PROVE  LiveDataIntact'
  <2> SUFFICES ASSUME NEW j \in AllKeys, files[j] # None
               PROVE  Intact(disk', files[j])
    BY <1>2 DEF LiveDataIntact, Intact
  <2>1. Intact(disk, files[j]) /\ files[j] \in Entry
    BY <1>2 DEF LiveDataIntact, IndInv, TypeOK
  <2>2. \A i \in 1..Len(files[j].crc) : files[j].offset + i - 1 \in Extent(files[j])
    BY <2>1, ExtentOfEntry
  <2>3. CASE mode = "rw"
    <3>1. Extent(files[j]) \subseteq Blocks \ free
      BY <2>3, LiveInBlocks, UsedMember DEF IndInv, TypeOK, SpaceAccounted
    <3> QED
      BY <1>2, <2>1, <2>2, <3>1 DEF Intact
  <2> QED
    BY <1>2, <2>1, <2>3
<1>3. CASE \E k \in Keys :
             \/ \E body \in Bodies, meta \in Metas : Put(k, body, meta)
             \/ \E from \in Keys : Copy(from, k) \/ CopyIfNotExists(from, k)
             \/ \E meta \in Metas : UpdateMetadata(k, meta)
             \/ Delete(k)
  BY <1>1, <1>3, ObjectIntact DEF CopyIfNotExists
<1>4. CASE \E from, to \in Keys : Rename(from, to) \/ RenameIfNotExists(from, to)
  <2>1. PICK from \in Keys, to \in Keys : Rename(from, to)
    BY <1>4 DEF RenameIfNotExists
  <2>2. disk' = disk /\ \A j \in AllKeys : \E i \in AllKeys : files'[j] \in {files[i], None}
    BY <1>1, <2>1 DEF Rename, device, IndInv, TypeOK
  <2>3. \A i \in AllKeys : files[i] # None => Intact(disk, files[i])
    BY <2>1 DEF LiveDataIntact, Rename
  <2>4. ASSUME NEW j \in AllKeys, files'[j] # None
        PROVE  Intact(disk', files'[j])
    <3>1. PICK i \in AllKeys : files'[j] = files[i]
      BY <2>2, <2>4
    <3> QED
      BY <2>2, <2>3, <2>4, <3>1
  <2> QED
    BY <2>4 DEF LiveDataIntact, Intact
<1>5. CASE \E k \in Keys, meta \in Metas : SetMetaLen(k, Len(meta))
  <2>1. PICK k \in Keys, meta \in Metas : SetMetaLen(k, Len(meta))
    BY <1>5
  <2>2. /\ disk' = disk /\ mode # "down"
        /\ files' = [files EXCEPT ![k].meta_len = Len(meta)]
        /\ files[k] # None
    BY <2>1 DEF SetMetaLen, device
  <2>3. files[k] \in Entry
    BY <1>1, <2>2 DEF IndInv, TypeOK
  <2>4. files'[k].offset = files[k].offset /\ files'[k].crc = files[k].crc
    BY <1>1, <2>2, <2>3 DEF IndInv, TypeOK, Entry
  <2>5. \A j \in AllKeys \ {k} : files'[j] = files[j]
    BY <2>2 DEF IndInv, TypeOK
  <2> QED
    BY <1>1, <2>2, <2>4, <2>5 DEF LiveDataIntact, Intact
<1>6. CASE \E body \in Bodies : WriteFails(body)
  <2>1. PICK p \in Bodies : WriteFails(p)
    BY <1>6
  <2>2. PICK o \in Blocks, n \in 1..Len(p) :
          FirstFit(o, Len(p)) /\ WriteBlocks(o, SubSeq(p, 1, n))
    BY <2>1 DEF WriteFails
  <2>3. p \in Seq(Data)
    BY <1>1
  <2>4. Len(SubSeq(p, 1, n)) = n /\ n \in Nat /\ Len(p) \in Nat /\ n <= Len(p)
    BY <2>3
  <2>5. \A b \in Blocks \ free : disk'[b] = disk[b]
    BY <2>2, <2>4, WriteStaysFree
  <2> QED
    BY <1>2, <2>1, <2>5 DEF WriteFails, index
<1>7. CASE DeviceOp
  <2>1. CASE ScrubFreeSpace
    BY <1>2, <2>1 DEF ScrubFreeSpace, index
  <2>2. CASE ~ ScrubFreeSpace
    <3>1. UNCHANGED <<disk, files, mode>>
      BY <1>7, <2>2 DEF DeviceOp, FlushIndex, FlushFails, Repair, DeleteTombstone,
           ClearTombstones, ModifyFlags, index, device
    <3> QED
      BY <3>1 DEF LiveDataIntact, Intact
  <2> QED
    BY <2>1, <2>2
<1>8. CASE Lifecycle
  <2>1. CASE Stop \/ PowerLoss
    BY <2>1 DEF Stop, PowerLoss, Forget, LiveDataIntact
  <2>2. CASE \E m \in OpenModes, ro \in BOOLEAN : Open(m, ro)
    <3>1. PICK ro \in BOOLEAN : Open("FullVerify", ro)
      BY <2>2
    <3>2. disk' = disk
      BY <3>1 DEF Open, device
    <3>3. ASSUME NEW j \in AllKeys, files'[j] # None
          PROVE  files'[j] = pfiles[j] /\ ~ Stale("FullVerify", pfiles[j])
      BY <3>1, <3>3 DEF Open
    <3> QED
      BY <3>2, <3>3 DEF LiveDataIntact, Stale, Intact
  <2> QED
    BY <1>8, <2>1, <2>2 DEF Lifecycle
<1>9. CASE UNCHANGED vars
  BY <1>9 DEF vars, LiveDataIntact, Intact
<1> QED
  BY <1>3, <1>4, <1>5, <1>6, <1>7, <1>8, <1>9 DEF Next, ObjectOp

\* When every open verifies in full, each object that a handle lists reads
\* back as it was written, whatever crashes and reuse of blocks went before.
THEOREM ListedDataIntact ==
    ASSUME OpenModes \subseteq {"FullVerify"}
    PROVE  Spec => []LiveDataIntact
<1>1. Init => LiveDataIntact
  BY DEF Init, LiveDataIntact
<1>2. IndInv /\ LiveDataIntact /\ [Next]_vars => LiveDataIntact'
  BY NextIntact
<1> QED
  BY Invariance, <1>1, <1>2, PTL DEF Spec

\* When every open verifies in full, update_metadata never changes a body,
\* although it reads it back from the device.
THEOREM MetadataUpdateKeepsBody ==
    ASSUME OpenModes \subseteq {"FullVerify"}
    PROVE  Spec => MetadataKeepsBody
<1>1. ASSUME IndInv, LiveDataIntact, NEW k \in Keys, NEW meta \in Metas,
             UpdateMetadata(k, meta)
      PROVE  SubSeq(files'[k].crc, 1, BodyLen(files'[k])) =
             SubSeq(files[k].crc, 1, BodyLen(files[k]))
  <2> DEFINE body == Body(files[k])
  <2>1. k \in AllKeys /\ mode = "rw" /\ files[k] # None
    BY <1>1 DEF UpdateMetadata, AllKeys
  <2>2. files[k] \in Entry /\ InBounds(files[k]) /\ Intact(disk, files[k])
    BY <1>1, <2>1 DEF IndInv, TypeOK, SpaceAccounted, Disjoint, LiveDataIntact
  <2>3. body = SubSeq(files[k].crc, 1, BodyLen(files[k]))
    BY <1>1, <2>2, IntactRaw DEF Body, IndInv
  <2>4. body \in Seq(Data) /\ meta \in Seq(Data)
    BY <1>1, <2>2, BodyTyped, RawStoreAssumption DEF UpdateMetadata, IndInv
  <2>5. files'[k].crc = body \o meta /\ files'[k].meta_len = Len(meta)
    BY <1>1, <2>1 DEF UpdateMetadata, Insert, IndInv, TypeOK
  <2> HIDE DEF body
  <2>6. BodyLen(files'[k]) = Len(body)
    BY <2>4, <2>5 DEF BodyLen
  <2>7. SubSeq(body \o meta, 1, Len(body)) = body
    BY <2>4
  <2> QED
    BY <2>3, <2>5, <2>6, <2>7
<1> DEFINE Keeps == \A k \in Keys, meta \in Metas : UpdateMetadata(k, meta) =>
             SubSeq(files'[k].crc, 1, BodyLen(files'[k])) =
             SubSeq(files[k].crc, 1, BodyLen(files[k]))
<1>2. IndInv /\ LiveDataIntact => [Keeps]_vars
  BY <1>1
<1> QED
  BY Invariance, ListedDataIntact, <1>2, PTL DEF MetadataKeepsBody
==============================================================================
