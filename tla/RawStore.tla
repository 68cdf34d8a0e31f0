------------------------------ MODULE RawStore ------------------------------
(***************************************************************************)
(* One rawobjstr device and the handle that serves it                      *)
(* (rawobjstr/src/store.rs): the data area with its volatile writes, the   *)
(* index that flush_index makes durable, the in-memory index and free      *)
(* space, and the life of the handle: open with its integrity scan, the    *)
(* operations, process exit and power loss.                                *)
(*                                                                         *)
(* Every operation of the handle runs under one write lock (Inner), so an  *)
(* operation is one step.  The free list appears as its set of blocks:     *)
(* ExtentAllocator shows that the list implements that.  A payload is a    *)
(* sequence with one symbol per 4 KB block; a block holds a symbol with    *)
(* its valid CRC, or Bad when the block's CRC does not match its bytes     *)
(* (torn, zeroed or never written).  The payload CRC32c is taken to be     *)
(* collision free: it is modelled by the payload it was computed over.     *)
(***************************************************************************)
EXTENDS Integers, Sequences

CONSTANTS NBlocks,      \* blocks in the data area
          Keys,         \* object paths clients use
          TmpKeys,      \* paths under MULTIPART_TMP_PREFIX
          Shards,       \* index shards, the numbers below NUM_SHARDS
          ShardOf,      \* shard_for_key
          Data,         \* contents of a block with a valid CRC
          Bodies,       \* bodies that clients store, sequences over Data
          Metas,        \* metadata suffixes, <<>> for none
          OpenModes,    \* the OpenMode values callers use
          IOErrors,     \* whether device writes and syncs can fail
          Bad,          \* a block whose CRC does not match
          None          \* no index entry

AllKeys == Keys \cup TmpKeys
Blocks == 0..(NBlocks - 1)
Cell == Data \cup {Bad}

\* ExtentInfo.  size is Len(crc), padded_size the same in whole blocks.
Entry == [offset : Blocks, crc : Seq(Data), meta_len : Nat]

ASSUME RawStoreAssumption ==
    /\ NBlocks \in Nat \ {0}
    /\ Keys \cap TmpKeys = {}
    /\ Shards \subseteq Nat
    /\ ShardOf \in [AllKeys -> Shards]
    /\ Bodies \subseteq Seq(Data)
    /\ Metas \subseteq Seq(Data)
    /\ OpenModes \subseteq {"Default", "FullVerify", "SkipVerify"}
    /\ IOErrors \in BOOLEAN
    /\ Bad \notin Data
    /\ None \notin Entry

VARIABLES
    disk,       \* what a read of each block returns now
    media,      \* per block, what it may hold after a power loss
    pfiles,     \* the index files the durable superblock committed
    ptombs,     \* the index tombstones it committed
    lost,       \* shards whose slot, as that superblock names it, was overwritten
    wp,         \* FLAG_WRITE_PROTECT in the superblock
    files,      \* Inner.index.files
    tombs,      \* Inner.index.tombstones, by path
    free,       \* the blocks of Inner.allocator's free list
    shardDirty, \* Inner.shard_dirty
    dirty,      \* Inner.dirty
    flipped,    \* shards whose active_slot in memory is not the durable one
    mode,       \* "rw" or "ro" for an open handle, "down" when there is none
    kept        \* history: objects flushed intact and not touched since

device == <<disk, media, pfiles, ptombs, lost, wp>>
index  == <<files, tombs, free, shardDirty, dirty, flipped>>
vars   == <<disk, media, pfiles, ptombs, lost, wp, files, tombs, free,
            shardDirty, dirty, flipped, mode, kept>>

----------------------------------------------------------------------------
Run(o, n) == o..(o + n - 1)

\* Mutant of Extent: the padded size is one block too long.
ExtentOffByOne(e) == IF e = None THEN {} ELSE Run(e.offset, Len(e.crc) + 1)

\* The blocks an index entry occupies.
Extent(e) == IF e = None THEN {} ELSE Run(e.offset, Len(e.crc))

Used(f) == UNION {Extent(f[k]) : k \in AllKeys}

\* Every block of the entry's extent decodes and the payload CRC agrees.
Intact(d, e) == \A i \in 1..Len(e.crc) : d[e.offset + i - 1] = e.crc[i]

\* The blocks of an entry's extent as they are on the device.
Raw(e) == [i \in 1..Len(e.crc) |-> disk[e.offset + i - 1]]

\* ExtentAllocator::alloc of n blocks returns o.
FirstFit(o, n) ==
    /\ Run(o, n) \subseteq free
    /\ \A q \in Blocks : Run(q, n) \subseteq free => o <= q

\* Write p at o.  Until the next sync a power loss may leave the old block,
\* the new one or a torn mixture.
WriteBlocks(o, p) ==
    /\ disk' = [b \in Blocks |-> IF b \in Run(o, Len(p)) THEN p[b - o + 1] ELSE disk[b]]
    /\ media' = [b \in Blocks |-> IF b \in Run(o, Len(p))
                                  THEN media[b] \cup {Bad, p[b - o + 1]}
                                  ELSE media[b]]

\* Every earlier write is on stable storage.
Synced(d) == [b \in Blocks |-> {d[b]}]

\* Mutant of Insert: the extent that k had before is not freed.
InsertLeaking(k, e) ==
    /\ files' = [files EXCEPT ![k] = e]
    /\ free' = free \ Extent(e)
    /\ shardDirty' = [shardDirty EXCEPT ![ShardOf[k]] = TRUE]
    /\ dirty' = TRUE
    /\ flipped' = flipped
    /\ kept' = kept \ {k}

\* Make e the entry of k: free the extent k had, mark the shard dirty.
Insert(k, e) ==
    /\ files' = [files EXCEPT ![k] = e]
    /\ free' = (free \ Extent(e)) \cup Extent(files[k])
    /\ shardDirty' = [shardDirty EXCEPT ![ShardOf[k]] = TRUE]
    /\ dirty' = TRUE
    /\ flipped' = flipped
    /\ kept' = kept \ {k}

----------------------------------------------------------------------------
\* format_with_options: an empty index, both superblocks written, and the
\* handle it returns.  A fresh image holds no valid block.
Init ==
    /\ disk = [b \in Blocks |-> Bad]
    /\ media = [b \in Blocks |-> {Bad}]
    /\ pfiles = [k \in AllKeys |-> None]
    /\ ptombs = {}
    /\ lost = {}
    /\ wp = FALSE
    /\ files = [k \in AllKeys |-> None]
    /\ tombs = {}
    /\ free = Blocks
    /\ shardDirty = [s \in Shards |-> FALSE]
    /\ dirty = FALSE
    /\ flipped = {}
    /\ mode = "rw"
    /\ kept = {}

\* do_put_with_meta, which put_opts, put_with_meta, put_with_meta_from_file
\* and put_part end in: allocate, write, then free the old extent.
Put(k, body, meta) ==
    LET p == body \o meta IN
    /\ mode = "rw"
    /\ p # <<>>
    /\ \E o \in Blocks :
        /\ FirstFit(o, Len(p))
        /\ WriteBlocks(o, p)
        /\ Insert(k, [offset |-> o, crc |-> p, meta_len |-> Len(meta)])
    /\ tombs' = tombs \ {k}
    /\ UNCHANGED <<pfiles, ptombs, lost, wp, mode>>

\* delete: an absent key is Ok(()) and changes nothing.
Delete(k) ==
    /\ mode = "rw"
    /\ files[k] # None
    /\ Insert(k, None)
    /\ UNCHANGED <<device, tombs, mode>>

\* do_copy: the encoded blocks are copied as they are, CRC and metadata
\* length come from the source's entry.
Copy(from, to) ==
    /\ mode = "rw"
    /\ files[from] # None
    /\ \E o \in Blocks :
        /\ FirstFit(o, Len(files[from].crc))
        /\ WriteBlocks(o, Raw(files[from]))
        /\ Insert(to, [files[from] EXCEPT !.offset = o])
    /\ UNCHANGED <<pfiles, ptombs, lost, wp, tombs, mode>>

CopyIfNotExists(from, to) == files[to] = None /\ Copy(from, to)

\* Mutant of Rename: only the target's shard is marked dirty.
RenameMarksTarget(from, to) ==
    /\ mode = "rw"
    /\ files[from] # None
    /\ files' = [files EXCEPT ![from] = None, ![to] = files[from]]
    /\ free' = IF from = to THEN free ELSE free \cup Extent(files[to])
    /\ shardDirty' = [shardDirty EXCEPT ![ShardOf[to]] = TRUE]
    /\ dirty' = TRUE
    /\ kept' = kept \ {from, to}
    /\ UNCHANGED <<device, tombs, flipped, mode>>

\* rename: the entry moves, the extent it replaces is freed.
Rename(from, to) ==
    /\ mode = "rw"
    /\ files[from] # None
    /\ files' = [files EXCEPT ![from] = None, ![to] = files[from]]
    /\ free' = IF from = to THEN free ELSE free \cup Extent(files[to])
    /\ shardDirty' = [shardDirty EXCEPT ![ShardOf[from]] = TRUE, ![ShardOf[to]] = TRUE]
    /\ dirty' = TRUE
    /\ kept' = kept \ {from, to}
    /\ UNCHANGED <<device, tombs, flipped, mode>>

RenameIfNotExists(from, to) == files[to] = None /\ Rename(from, to)

\* The body of an entry: its payload without the metadata suffix
\* (saturating_sub), as read back from the device.
BodyLen(e) == IF e.meta_len <= Len(e.crc) THEN Len(e.crc) - e.meta_len ELSE 0

\* Mutant of Body: the old metadata stays in front of the new.
BodyWithOldMeta(e) == Raw(e)

Body(e) == SubSeq(Raw(e), 1, BodyLen(e))

\* update_metadata: the body is streamed from the old extent to a new one,
\* followed by the new metadata.  A block that fails its CRC is an error.
UpdateMetadata(k, meta) ==
    /\ mode = "rw"
    /\ files[k] # None
    /\ BodyLen(files[k]) > 0 => \A b \in Extent(files[k]) : disk[b] # Bad
    /\ LET p == Body(files[k]) \o meta IN
       /\ p # <<>>
       /\ \E o \in Blocks :
            /\ FirstFit(o, Len(p))
            /\ WriteBlocks(o, p)
            /\ Insert(k, [offset |-> o, crc |-> p, meta_len |-> Len(meta)])
    /\ tombs' = tombs \ {k}
    /\ UNCHANGED <<pfiles, ptombs, lost, wp, mode>>

\* set_meta_len, after a multipart upload whose last part is metadata.
\* Unlike the other mutators it does not test read_only.
SetMetaLen(k, n) ==
    /\ mode # "down"
    /\ files[k] # None
    /\ files' = [files EXCEPT ![k].meta_len = n]
    /\ shardDirty' = [shardDirty EXCEPT ![ShardOf[k]] = TRUE]
    /\ dirty' = TRUE
    /\ kept' = kept \ {k}
    /\ UNCHANGED <<device, tombs, free, flipped, mode>>

\* A device error part way through writing p: the error paths of put, copy
\* and update_metadata free the new extent and leave the index alone, so
\* only free blocks have changed.
WriteFails(p) ==
    /\ IOErrors
    /\ mode = "rw"
    /\ \E o \in Blocks, n \in 1..Len(p) :
        /\ FirstFit(o, Len(p))
        /\ WriteBlocks(o, SubSeq(p, 1, n))
    /\ UNCHANGED <<pfiles, ptombs, lost, wp, index, mode, kept>>

----------------------------------------------------------------------------
\* What flush_index writes: dirty shards from memory, clean ones as they are.
FlushedFiles ==
    [k \in AllKeys |-> IF shardDirty[ShardOf[k]] THEN files[k] ELSE pfiles[k]]

FlushedTombs ==
    {k \in AllKeys : k \in IF shardDirty[ShardOf[k]] THEN tombs ELSE ptombs}

\* Mutant of Commit: the superblock is written without syncing the data.
CommitUnsynced ==
    /\ pfiles' = FlushedFiles
    /\ ptombs' = FlushedTombs
    /\ lost' = {}
    /\ media' = media
    /\ kept' = {k \in AllKeys : FlushedFiles[k] # None /\ Intact(disk, FlushedFiles[k])}

\* The sync of data and shards followed by the superblock that commits them.
Commit ==
    /\ pfiles' = FlushedFiles
    /\ ptombs' = FlushedTombs
    /\ lost' = {}
    /\ media' = Synced(disk)
    /\ kept' = {k \in AllKeys : FlushedFiles[k] # None /\ Intact(disk, FlushedFiles[k])}

ClearDirty ==
    /\ shardDirty' = [s \in Shards |-> FALSE]
    /\ dirty' = FALSE
    /\ flipped' = {}

FlushIndex ==
    /\ mode = "rw"
    /\ Commit
    /\ ClearDirty
    /\ UNCHANGED <<disk, wp, files, tombs, free, mode>>

DirtyShards == {s \in Shards : shardDirty[s]}

\* The loop over the dirty shards, in order, wrote the slots of done and
\* perhaps part of the slot of the shard that failed.
WroteShards(done, torn) ==
    /\ \A s \in done, t \in DirtyShards : t < s => t \in done
    /\ torn = {} \/ \E s \in DirtyShards \ done :
            torn = {s} /\ \A t \in DirtyShards \ done : s <= t

\* The shard holds in memory what the durable superblock says of it.
ShardAsCommitted(s) ==
    \A k \in AllKeys : ShardOf[k] = s =>
        files[k] = pfiles[k] /\ (k \in tombs <=> k \in ptombs)

\* Each write goes to the slot that is not active_slot and makes it the
\* active one in memory.  For a shard that an earlier flush had flipped and
\* not committed, that is the slot the durable superblock names.
Flip(done, torn) ==
    /\ flipped' = (flipped \ done) \cup (done \ flipped)
    /\ lost' = (lost \ (done \cap flipped))
              \cup {s \in done \cap flipped : ~ ShardAsCommitted(s)}
              \cup (torn \cap flipped)

\* flush_index returning an error before the superblock is durable (a slot
\* does not hold its shard, or a write or sync fails: the data is synced once
\* all slots are written) or after it.  The dirty flags stay set.
FlushFails ==
    /\ IOErrors
    /\ mode = "rw"
    /\ \/ Commit /\ flipped' = {}
       \/ /\ \E done, torn \in SUBSET DirtyShards :
                /\ WroteShards(done, torn)
                /\ Flip(done, torn)
                /\ \/ media' = media
                   \/ done = DirtyShards /\ media' = Synced(disk)
          /\ UNCHANGED <<pfiles, ptombs, kept>>
    /\ UNCHANGED <<disk, wp, files, tombs, free, shardDirty, dirty, mode>>

\* repair: rebuild the free list from the index, then flush.
Repair ==
    /\ mode = "rw"
    /\ free' = Blocks \ Used(files)
    /\ Commit
    /\ ClearDirty
    /\ UNCHANGED <<disk, wp, files, tombs, mode>>

\* scrub_free_space: zero the free blocks and sync.  A zeroed block's stored
\* CRC (0) is not the CRC of its bytes.
ScrubFreeSpace ==
    /\ mode = "rw"
    /\ disk' = [b \in Blocks |-> IF b \in free THEN Bad ELSE disk[b]]
    /\ media' = Synced(disk')
    /\ UNCHANGED <<pfiles, ptombs, lost, wp, index, mode, kept>>

\* delete_tombstone: refuses a path that is live.
DeleteTombstone(k) ==
    /\ mode = "rw"
    /\ files[k] = None
    /\ k \in tombs
    /\ tombs' = tombs \ {k}
    /\ shardDirty' = [shardDirty EXCEPT ![ShardOf[k]] = TRUE]
    /\ dirty' = TRUE
    /\ UNCHANGED <<device, files, free, flipped, mode, kept>>

ClearTombstones ==
    /\ mode = "rw"
    /\ tombs # {}
    /\ tombs' = {}
    /\ shardDirty' = [s \in Shards |-> shardDirty[s] \/ \E k \in tombs : ShardOf[k] = s]
    /\ dirty' = TRUE
    /\ UNCHANGED <<device, files, free, flipped, mode, kept>>

\* Mutant of ModifyFlags: no lock is taken.
ModifyFlagsUnlocked(b) ==
    /\ wp' = b
    /\ UNCHANGED <<disk, media, pfiles, ptombs, lost, index, mode, kept>>

\* modify_flags takes the exclusive flock, which a read-write handle holds.
ModifyFlags(b) ==
    /\ mode # "rw"
    /\ wp' = b
    /\ UNCHANGED <<disk, media, pfiles, ptombs, lost, index, mode, kept>>

----------------------------------------------------------------------------
Forget ==
    /\ files' = [k \in AllKeys |-> None]
    /\ tombs' = {}
    /\ free' = {}
    /\ shardDirty' = [s \in Shards |-> FALSE]
    /\ dirty' = FALSE
    /\ flipped' = {}
    /\ mode' = "down"

\* The process exits or is killed: Drop does not flush, the page cache stays.
Stop ==
    /\ mode # "down"
    /\ Forget
    /\ UNCHANGED <<device, kept>>

\* Power loss: unsynced blocks settle on one of their possible contents.  (A
\* slot that settles on its old contents is one the flush never wrote.)
PowerLoss ==
    /\ \E d \in [Blocks -> Cell] :
        /\ \A b \in Blocks : d[b] \in media[b]
        /\ disk' = d
        /\ media' = Synced(d)
    /\ Forget
    /\ UNCHANGED <<pfiles, ptombs, lost, wp, kept>>

\* Mutant of InBounds: an extent that ends at data_end is rejected.
InBoundsStrictly(e) == Len(e.crc) > 0 /\ e.offset + Len(e.crc) < NBlocks

\* An index entry whose extent lies in the data area.
InBounds(e) == Len(e.crc) > 0 /\ e.offset + Len(e.crc) <= NBlocks

\* Entries that survive the bounds check and the overlap check, which
\* compares each extent with its neighbour in offset order.
WellPlaced(f) ==
    LET ok == {k \in AllKeys : f[k] # None /\ InBounds(f[k])}
        before(j, k) == j # k /\ f[j].offset <= f[k].offset
    IN  {k \in ok : ~ \E j \in ok :
            /\ before(j, k)
            /\ ~ \E i \in ok : before(j, i) /\ before(i, k)
            /\ f[j].offset + Len(f[j].crc) > f[k].offset}

\* Mutant of Stale: full verification checks block CRCs but not the payload's.
StaleByBlocks(m, e) ==
    \/ m = "Default" /\ disk[e.offset] = Bad
    \/ m = "FullVerify" /\ \E b \in Extent(e) : disk[b] = Bad

\* What the integrity scan of each OpenMode rejects.
Stale(m, e) ==
    \/ m = "Default" /\ disk[e.offset] = Bad
    \/ m = "FullVerify" /\ ~ Intact(disk, e)

\* Mutant of Leftovers: open keeps the parts of interrupted uploads.
LeftoversKept(ro) == {}

\* "Purge incomplete multipart uploads", which only a writer does.
Leftovers(ro) == IF ro THEN {} ELSE TmpKeys

\* open_impl: load the index (a slot whose CRC is not the superblock's is
\* IndexCorrupt and nothing opens), drop misplaced entries, scan, tombstone the
\* stale ones, purge multipart leftovers, rebuild the free list.  A
\* read-only handle keeps no tombstones of its own, purges nothing and has
\* no allocator.
Open(m, ro) ==
    LET placed == WellPlaced(pfiles)
        stale  == {k \in placed : Stale(m, pfiles[k])}
        keep   == (placed \ stale) \ Leftovers(ro)
        gone   == {k \in AllKeys : pfiles[k] # None} \ keep
    IN
    /\ mode = "down"
    /\ lost = {}
    /\ ro \/ ~ wp
    /\ files' = [k \in AllKeys |-> IF k \in keep THEN pfiles[k] ELSE None]
    /\ tombs' = IF ro THEN ptombs ELSE ptombs \cup stale
    /\ free' = IF ro THEN {} ELSE Blocks \ Used(files')
    /\ shardDirty' = [s \in Shards |-> \E k \in gone : ShardOf[k] = s]
    /\ dirty' = (gone # {})
    /\ flipped' = {}
    /\ mode' = IF ro THEN "ro" ELSE "rw"
    /\ UNCHANGED <<device, kept>>

----------------------------------------------------------------------------
\* Client operations on the objects.
ObjectOp ==
    \/ \E k \in Keys, body \in Bodies, meta \in Metas : Put(k, body, meta)
    \/ \E k \in Keys : Delete(k)
    \/ \E from, to \in Keys : Copy(from, to) \/ CopyIfNotExists(from, to)
    \/ \E from, to \in Keys : Rename(from, to) \/ RenameIfNotExists(from, to)
    \/ \E k \in Keys, meta \in Metas :
        UpdateMetadata(k, meta) \/ SetMetaLen(k, Len(meta))
    \/ \E body \in Bodies : WriteFails(body)

\* Maintenance of the device.
DeviceOp ==
    \/ FlushIndex \/ FlushFails \/ Repair \/ ScrubFreeSpace
    \/ \E k \in Keys : DeleteTombstone(k)
    \/ ClearTombstones
    \/ \E b \in BOOLEAN : ModifyFlags(b)

\* The handle goes away and comes back.
Lifecycle ==
    \/ Stop \/ PowerLoss
    \/ \E m \in OpenModes, ro \in BOOLEAN : Open(m, ro)

Next == ObjectOp \/ DeviceOp \/ Lifecycle

Spec == Init /\ [][Next]_vars

----------------------------------------------------------------------------
\* The shape of Inner, the superblock and the device.
TypeOK ==
    /\ disk \in [Blocks -> Cell]
    /\ media \in [Blocks -> SUBSET Cell]
    /\ pfiles \in [AllKeys -> Entry \cup {None}]
    /\ ptombs \subseteq AllKeys
    /\ lost \subseteq Shards
    /\ wp \in BOOLEAN
    /\ files \in [AllKeys -> Entry \cup {None}]
    /\ tombs \subseteq AllKeys
    /\ free \subseteq Blocks
    /\ shardDirty \in [Shards -> BOOLEAN]
    /\ dirty \in BOOLEAN
    /\ flipped \subseteq Shards
    /\ mode \in {"rw", "ro", "down"}
    /\ kept \subseteq AllKeys

\* No two entries of an index share a block and none leaves the data area.
Disjoint(f) ==
    /\ \A k \in AllKeys : f[k] # None => InBounds(f[k])
    /\ \A j, k \in AllKeys : j # k => Extent(f[j]) \cap Extent(f[k]) = {}

\* Two objects never share a block, in memory or in the index that a crash
\* would bring back, and a writer's free list is exactly the blocks that no
\* object uses: put, copy, rename, update_metadata, delete and their error
\* paths neither leak an extent nor free one twice.
SpaceAccounted ==
    /\ Disjoint(files)
    /\ Disjoint(pfiles)
    /\ mode = "rw" => free = Blocks \ Used(files)

\* A shard whose dirty flag is clear is on disk as it is in memory, in the
\* slot that memory and the durable superblock both name, and needs_flush()
\* is FALSE only when every shard is clean.  flush_index relies on it: it
\* rewrites nothing but the shards marked dirty, so this is also why a flush
\* that succeeds mends what failed flushes did to the slots.
CleanIsPersisted ==
    mode # "down" =>
        /\ \A k \in AllKeys : ~ shardDirty[ShardOf[k]] =>
              /\ files[k] = pfiles[k]
              /\ k \in tombs <=> k \in ptombs
        /\ \A s \in lost \cup flipped : shardDirty[s]
        /\ ~ dirty => \A s \in Shards : ~ shardDirty[s]

\* An object that was flushed and that no client has touched since keeps
\* its bytes on stable storage, its entry in the committed index and its
\* entry in memory, whatever other objects are written, deleted or half
\* written, however often flushes fail, and however often the device is
\* closed, loses power or is reopened (blocks it occupies are never handed
\* to another object).  One thing is not kept: while lost is not empty, after
\* a failed flush whose retry failed or was cut short too, the committed
\* index cannot be read back and open refuses the image.  Run flush_retry
\* shows how that happens.
FlushedSurvives ==
    \A k \in kept :
        /\ pfiles[k] # None
        /\ Intact(disk, pfiles[k])
        /\ \A b \in Extent(pfiles[k]) : media[b] = {disk[b]}
        /\ k \in Keys /\ mode # "down" => files[k] = pfiles[k]

\* With full verification on open, every object that is listed reads back
\* as it was written, also when the blocks it had before the last crash had
\* been freed and reused without a flush.
LiveDataIntact ==
    mode # "down" => \A k \in AllKeys : files[k] # None => Intact(disk, files[k])

\* Opening for writing drops no object in silence: what the durable index
\* listed is either served or recorded as a tombstone for the orchestrator.
OpenLosesNothing ==
    [][mode = "down" /\ mode' = "rw" =>
        \A k \in Keys : pfiles[k] # None => files'[k] = pfiles[k] \/ k \in tombs']_vars

\* While write protection is on nothing the store does changes the durable
\* index: no writer is open, and the read-only handle, set_meta_len
\* included, cannot reach the device.
WriteProtectHolds == [][wp => UNCHANGED <<pfiles, ptombs>>]_vars

\* update_metadata replaces the metadata suffix and never the body, although
\* it reads the body back from the device and although set_meta_len may have
\* moved the border between the two.
MetadataKeepsBody ==
    [][\A k \in Keys, meta \in Metas : UpdateMetadata(k, meta) =>
          SubSeq(files'[k].crc, 1, BodyLen(files'[k])) =
          SubSeq(files[k].crc, 1, BodyLen(files[k]))]_vars
============================================================================
