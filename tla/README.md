# TLA+ models of objstr

objstr is an object store in three layers. `rawobjstr` keeps objects in extents
on one raw device. `shardedobjstr` spreads and replicates objects over several
such devices (or any other object stores). `objstrd` serves the result over S3,
repairs it in the background and has an admin API. These modules model the
three layers; TLC checks them on small instances, and TLAPS proves most of the
properties for every instance: those of the device layer, of the calls of the
sharded store, of the adapter, of the server and of the replicas.

Source paths below are relative to `src/`. `PROJECT.json` maps each definition
to the lines it models.

## Inventory

| Part | State | Operations | What is hard about it |
|---|---|---|---|
| Extent allocator, `rawobjstr/src/allocator.rs` | sorted list of free extents | `alloc` (first fit), `free` (coalescing), `from_free_list` | boundaries: exact fits, extents that touch, the end of the data area |
| Index commit, `rawobjstr/src/{store,superblock,index}.rs` | two superblocks; per shard two slots, an in-memory superblock, dirty flags | `flush_index`, first half of `open_impl`, `reload_index` | crashes between any two writes, torn writes, failed calls that are retried; a read-only handle in another process |
| Object store, `rawobjstr/src/store.rs` | `Inner`: files, tombstones, free list, dirty flags; the device | put, delete, copy, rename, metadata, flush, repair, scrub, flags, open | volatile writes, blocks reused before the index is flushed, error paths, four pieces of state kept in step by hand |
| Streaming and ranged reads, `store.rs`, `extent.rs` | a cloned `ExtentInfo`, a position, buffers | `get_opts`, `StreamingBlockWriter`, `StreamingBlockReader`, `do_get_range` | blocks are read after the lock is released; block arithmetic at borders |
| Multipart, `store.rs` | `part_keys`, temporary extents | `put_part`, `complete`, `abort`, purge at open | futures in any order, or after the upload ended; crashes leave extents |
| Event bus and socket, `rawobjstr/src/event.rs`, `shardedobjstr/src/event.rs` | bounded broadcast channel, reader count, a replica's catalog | emit, authenticate, relay, apply | slow and dead subscribers; start-up of a replica |
| Placement and replication, `shardedobjstr/src/{lib,replication}.rs` | shard health, held slots | put, create, delete, get, copy, read repair, verify, markers, vacuum | partial writes, concurrent callers of one key, placement that changes with health, markers against stale copies |
| Placement catalog, `shardedobjstr/src/catalog.rs` | per key the shards and an update time; a file | put, add/remove replica, rebuild, save, load | it is a cache of the shards and goes stale; its file may be torn |
| Repair, `shardedobjstr/src/repair.rs` | the running sync or sweep | `sync_and_reattach`, sweeps, trim, drain, redistribute | judging by time stamps which of two copies is stale; several workers that each remove copies |
| Sharded multipart, metadata, TLV | upload records; metadata suffix, attributes or sidecar | create, complete, expire; encode, decode | overwriting an object by an upload that then fails; tags and lengths |
| Recovery loop and admin API, `objstrd/src/{recovery,viz}.rs` | probe counters, `admin_op_lock` | probe, detach, reattach, sweeps; take-offline, attach, drain, redistribute, repair | they overlap at every await; progress by batches |
| S3 adapter, `objstrd/src/adapter.rs` | bucket table, statistics cache, upload table, temporary files | object, bucket, listing and multipart requests | several store calls per request with other requests in between |
| Server process, `objstrd/src/bin/server.rs` | what is flushed and saved | start, periodic tasks, drain, final flush | the order of the last steps; crashes |
| Tools, bindings, configuration, pages, logging | - | parsing, printing, routing | no state of their own |

How they interact: an S3 put is a `ShardedObjectStore` put with metadata, which
writes to the `select_targets` shards, records them in the catalog and, on the
plain path, removes the delete marker. Each shard is an `ObjectStore`, often a
`RawObjectStore`, whose operations take one write lock (`Inner`). The device
promises only what has been synced; `flush_index` is the only step that makes
the index durable, and its callback emits the event that makes read-only
handles reload. The recovery loop watches the shards' health, swaps a lost
shard for a placeholder and calls `sync_and_reattach` when it answers again;
admin operations take `admin_op_lock`, which the loops look at before a cycle.

What makes each part correct:

- allocator: it behaves as a set of free blocks, and a list rebuilt from the
  index is the list that `alloc` and `free` maintain;
- index commit: open finds one whole index, the last flushed one or the one
  being flushed; a shard that is clean is on the device; a reader ends with the
  writer's index;
- object store: no block has two owners and none is leaked; a flushed object
  survives whatever happens to others; what is listed reads back; an open drops
  nothing in silence; write protection holds;
- reads: an object that nobody touches while it is read is delivered exactly,
  whole or in part;
- multipart: the parts are joined in call order and leave no extent behind;
- sharded store: no read returns an overwritten or deleted object, the last
  acknowledged value stays on some shard, one creator wins, a corrupt copy is
  mended;
- administration: a mover loses no object, a hold is respected, an operation does
  what it says for a batch of objects, redundancy comes back;
- S3 adapter: answers, ETags, statistics, listings and assembled uploads are
  those of the objects; temporary files have an owner;
- server: a clean stop loses nothing, a start never trusts a wrong catalog;
- replicas: a replica that missed no event knows what its shards let it know.

## Modules

| Module | Models |
|---|---|
| `FreeSpace` | abstract allocator: a set of blocks, the lowest run that fits |
| `ExtentAllocator` | `allocator.rs` and `rebuild_free_list`; implements `FreeSpace` |
| `DurableIndex` | abstract index: a flush is all or nothing, open always finds an index |
| `IndexFlush`, `MCIndexFlush` | `flush_index` and the superblock half of `open_impl`, one action per device call; implements `DurableIndex` |
| `IndexReader` | `reload_index` of a read-only server, read by read, beside the writer of `IndexFlush` |
| `BlockCodec` | `extent.rs` and the ranged reads of `store.rs`: payloads to blocks and back |
| `MCDevice` | instance of the four parts below the store |
| `RawStore` | one device and its handle; builds on the two abstract modules: free space is a set of blocks, a flush that succeeds is one `Commit` |
| `RawReads`, `MCRawStore`, `MCRawReads` | streaming GETs, composed with `RawStore` |
| `RawMultipart`, `MCRawRestart` | uploads, composed with `RawStore` |
| `RawStoreProofs` | type correctness, space accounting, clean shards, write protection; survival of flushed objects, lossless open, intact data, metadata updates |
| `RawStreamProofs` | exact streaming reads (`RawReads`); space, ownership and order of parts (`RawMultipart`) |
| `IndexProofs` | clean shards, crash safety (`IndexFlush` implements `DurableIndex`), the reader; `ExtentAllocator` implements `FreeSpace`; the reads of `BlockCodec` are exact |
| `InductionLemmas` | induction over naturals in set form; what `FlattenSeq` returns; pieces of sequences, quotients |
| `ShardedStore`, `MCShardedStore` | shardedobjstr with whole calls: versions, outages, reattachment, markers, for one object and its delete marker |
| `ShardedProofs` | current reads, surviving values and deletes on mirrors, for `ShardedStore` |
| `ClusterWrites` | the calls of shardedobjstr on one key, shard by shard and await by await |
| `ClusterInspect` | verify, cross-verify, head, metadata and listings, composed with `ClusterWrites` |
| `ClusterAdmin` | recovery loop, repair loop and admin operations, await by await |
| `MCCluster` | instance of the last three |
| `AdminProofs` | no object lost, factor kept, holds respected, operations deliver, for `ClusterAdmin` |
| `ClusterProofs` | one creator, readable puts, read repair, exact calls: `ClusterInspect` with `ClusterWrites` |
| `S3Objects`, `S3Uploads`, `S3Listing` | the S3 adapter: objects and buckets; multipart uploads; paged listings |
| `MetadataTlv` | `tlv.rs` |
| `ServerLifecycle` | start, tasks, shutdown and crashes of the server process, and the catalog file |
| `EventStream` | event bus, socket and the streaming replica |
| `MCGateway` | instance of the last six |
| `GatewayProofs` | `ServerLifecycle`, `S3Uploads`, `S3Objects`, `S3Listing`, `EventStream`, `MetadataTlv` |

### RawStore

`disk` is what a read returns, `media[b]` the contents block `b` may have after a
power loss (one of them once synced). A block holds one payload symbol with a valid
block CRC, or `Bad`. `pfiles`, `ptombs` and `wp` are the durable index and flag;
`files`, `tombs`, `free`, `shardDirty` and `dirty` are `Inner`; `mode` says whether
a handle is open. `kept` is a history variable: the objects that were flushed and
not touched since. `flipped` are the shards whose slot the handle has flipped in
memory since the last superblock it made durable; `lost` are the shards whose slot,
the one the durable superblock names, has other contents. An entry is its offset,
its metadata length and the payload its CRC32c was computed over, because the CRC is
taken to be collision free. Payloads are stored uncompressed.

An action is a whole handler under the lock: `Put` is allocation, write, index
update, release of the old extent, dirty flags and removal of the tombstone.
`WriteFails` is its error path (part of the extent written, the extent given back).
`FlushFails` is a flush that returns an error: before the first slot, after any
number of slots, one of them half written, or after the new index became durable.
Each slot it wrote is flipped in memory and not flipped back, so a later flush of
such a shard writes to the slot that the durable superblock names: `Flip` puts the
shard into `lost` unless it happens to write the committed contents, and while
`lost` is not empty no open succeeds. The next complete flush ends that. `Open(m,
ro)` does the bounds and overlap check, the verification scan of mode `m`, the purge
of multipart leftovers and the rebuild of the free list. `Stop` is an exit or a kill
(`Drop` does not flush).

### IndexFlush

`slot`, `sb` are the device, `slotMedia`, `sbMedia` what each may become after a
power loss; `msb`, `mem`, `dirty` the handle. The content of a shard is a version
number. `plan` holds the faults one behaviour may still contain.

### ShardedStore

Keys do not interact in this layer, so the model has one object and its marker. A
copy is a value and its `last_modified`; `clock` is `Utc::now()` and advances where
the code reads it, so the order in which `updated` and `last_modified` are stamped
is kept. `expect` is a history variable: the values a read may return, with 0 for
NotFound; a put that returned an error allows both outcomes, and so does a delete
that returned one and left its marker on some shard. `sync` is the running
`sync_and_reattach`, a sequence of steps. Client operations, sweeps and the catalog
rebuild are atomic here (`ClusterWrites` and `ClusterAdmin` take them apart).
`Get(s)` has the self-healing of a catalog miss. The jump hash is the constant
`Home`. `Refreshed` is one step in which shards do not go down: a body that breaks
off after the GET has answered, or a put that fails (`repair.rs:529`), would leave
the stale copy where it is; such faults belong to settings that no run and no
theorem covers.

`Settings` holds the replication factor and the faults of a behaviour, so that one
run covers several deployments.

### IndexReader and BlockCodec

`IndexReader` adds to `IndexFlush` a second process that shares only the device.
`Rewrite` replaces the put of `IndexFlush`: a shard gets new content or becomes
empty again, byte for byte, because `reload_index` compares checksums. A read
that meets a write may return `Torn`. `notices` are the FLUSH events on their way.

`BlockCodec` writes one payload in chunks of any size and reads it in every way
the code has: chunks with and without decompression, the `Read` adapter, ranges,
metadata. A neighbour's block lies behind the extent, so reading too far shows.
Subtractions of block numbers wrap at `Word`.

### ClusterWrites and ClusterInspect

One key, three shards of the three kinds (raw, sidecar, S3-like), up to three
callers. `call[c]` is the local state of a running call: its targets, what is
still to be written, what was placed, what failed. A step is the code between
two awaits on a shard. `clean` says that no other call has run a step since the
call began. A body is the name of the caller that wrote it, so a mixture shows.
`repairs` are the tasks of read repair; `purge` is `purge_stale_multiparts`.
A `Play` gives each caller its operation and the state it finds.

### ClusterAdmin

Where the copies of each object are (`copies`) and where the catalog thinks they
are (`entry`); `job[w]` is where each worker is: the recovery loop, the repair
loop and the admin requests. All sweeps share `ReplicateRead`, `ReplicateWrite`,
`RemoveDelete` and `RemoveForget`, as the code shares `replicate_object` and
`remove_replica`. `partitioned_sync` is one step with a free choice of what its
clocks call stale; `ShardedStore` has its steps and clocks. `device` is the
environment. A `Scene` gives placement, requests, loops and failures. Every sweep
handles a batch (`Limit`): `Batch` for the loops, `AdminBatch` for the operations
of the admin API (500 in `viz.rs:1728` and 1820), everything for the sweep that ends
a drain (`repair.rs:987`). `RebuildScan` may pass over a shard that does not answer
and one that is Syncing, whose store is still the placeholder unless it is raw.
`did` of a hold records that the recovery loop was in the middle of a probe or a
sync of the shard when the hold was set (`InPoll`).

### S3Objects, S3Uploads, S3Listing

`req[c]` is a request in progress, one step per store call. `torn`, `outdated` and
`clean` are history: a copy whose source changed while it was read, cached
statistics that a write overtook or that a deletion left, a request that no write
overtook. Sizes wrap at `WordSize`, also the end of a range (`RangeEnd`). A deletion
removes the sidecar first and may fail after it, and a client may go away at every
await (`LoseClient`), also between a write and its invalidation. In `S3Uploads` the
temporary files are explicit, a client can vanish at every await (`Disconnect`), and
`leaked` records the files that the code leaves without an owner (the truncation `as
u16` of the length of the metadata at `adapter.rs:2340` is left out: nothing here
depends on it). In `S3Listing` a key is a short sequence of symbols with the slash
among them, and each page is computed from the keys of that moment. `UrlEncode` maps
the symbols of `Escaped` below all others, as `%` sorts below letters, digits, dot,
slash, tilde and underscore, and `NextMarker` compares the encoded names where the
client asked for them.

### MetadataTlv, ServerLifecycle, EventStream

`MetadataTlv` encodes and decodes field by field; bytes are small numbers with the
lookup bit among them. `ServerLifecycle` has what each shard holds in memory and on
its device, the catalog, its dirty flag and its file, if one is configured
(`catPath`; by default none is, and then nothing is loaded, stripped or saved); a
save is three steps (serialise, rename, clear the flag), and a power loss may tear
an unsynced file. Requests that outlive the drain of a reload go on with stores that
nobody flushes any more; their effects are lost, so `Exit` ends them as it does at
the end of the process. `EventStream` has replicas of two kinds: those that share
the writer's shards (the same bucket or directory, where a HEAD or a listing sees
what the writer has) and those of raw images opened read-only, which see the index
as of their opening (`conn[c].index`) and never reload it. A replica of one shard
does not rebuild its catalog. The module keeps all events ever emitted and each
client's place in them; `excused` collects the keys for which the code makes no
promise.

### Parts in one run

`MCDevice`, `MCGateway` and `MCCluster` extend several modules that share no
variable and no call. A variable `part`, chosen once in the initial state, says
which of them runs; the others keep one initial state. Each behaviour of the run
is therefore a behaviour of one module, the properties of the others hold of
their initial state, and the state spaces add up and do not multiply. Where
modules do share state they are composed: `RawReads` and `RawMultipart` with
`RawStore`, `IndexReader` with `IndexFlush`, `ClusterInspect` with `ClusterWrites`.

## Runs

| Run | Instance | Shows |
|---|---|---|
| `rawstore` | 3 blocks, 2 paths in 2 shards, device errors, full verification. Behaviours of three kinds: payloads of 1 or 2 blocks, with flushes that fail before the first slot or after the commit; payloads of 1 block on 2 blocks, with flushes that fail anywhere and are tried again; a reader with chunks of 1 block in one life of the store | the type invariant, space, clean shards, survival, intact data, lossless open, write protection; an undisturbed read is exact |
| `reads_stale` | 3 blocks, 2 paths, 1 reader | violated: an overtaken read delivers another object |
| `restart` | 1 path, full verification. Behaviours of three kinds: metadata of 1 block on 3 blocks with crashes; an upload of 1 part on 3 blocks with crashes; an upload of 2 parts on 4 blocks in one life of the store | no extent leaked or orphaned; parts are joined in call order; `update_metadata` keeps the body |
| `device` | allocator: 7 blocks, extents up to 4. Commit: 2 shards, 2 versions, 4 transactions; 3 power losses with atomic superblock writes, or 1 with torn ones, or 3 process deaths, or 1 failed call. Reader: 3 transactions, or 2 with a death or a failed call. Codec: blocks of 2 cells, payloads up to 7 in chunks of 1 to 4, metadata up to 3, packed or not, read buffers of 1 and 3 | `FreeSpace` and `DurableIndex` are implemented; clean shards are on the device; the reader is current; reads are exact |
| `flush_retry` | 1 failed call and 1 power loss | violated: open fails |
| `gateway` | listings: 5 keys around a slash and an escaped symbol, pages of 0, 1 and 2, encoded or not. Objects: a writer and a reader, 1 bucket, 2 keys, bodies of 0 and 2 bytes, ranges up to the greatest word (16) and conditions. Uploads: 2 clients, 2 uploads, 2 parts, 3 files, 1 upload at a time. Metadata: 4 fields, values at the border of the length. Server: 1 or 2 shards, with and without a catalog file, 2 stops, 1 failed write. Events: 2 replicas on 1 or 2 shards, shared or raw, a channel of 1, 2 operations or flushes, 1 fault | the ten properties of the adapter, the codec, the server and the replicas |
| `sharded` | 3 shards; 2 copies with single clean outages; 3 copies with double outages and catalog rebuilds; 3 copies with unanswering shards | reads are current, acknowledged values survive, deletes hold on mirrors |
| `sharded_delete` | 2 copies, single clean outages | violated: a deleted object is read again |
| `sharded_outage` | 2 copies, 1 put, both replicas away | violated: an acknowledged object is lost |
| `cluster` | calls: 3 shards of 3 kinds, 22 plays of 2 or 3 callers, 3 failing shard calls. Administration: 3 shards, 3 objects, batches of 1 for operations and 2 for loops, each operation alone and beside each loop, pairs of operations, 1 failing device, a hold of the shard that fails | exact answers, one creator, readable acknowledged puts, read repair, exact inspections; no object lost by one mover, factor kept, holds respected, operations deliver, redundancy restored |
| `hold` | the scene with a hold of the failing shard | violated: the recovery loop attaches a held shard |
| `catalog_rebuild` | 1 or 2 shards, 1 stop | violated: one shard without a file starts with an empty catalog |

Why the bounds are enough. Three blocks with payloads of one and two blocks give
exact fits, fragmentation, refusals and reuse of a block by another object; two
paths in two shards tell apart what a flush rewrites and what it skips. Seven
blocks give the allocator three separate free extents with neighbours on both
sides. Two versions of two shards suffice for a mixture of old and new shards,
and four transactions let each slot and each superblock be written, left behind
and written again. Blocks of two cells and payloads of up to seven put every
border of body, metadata, block and batch at and beside every other. Three shards
give two replicas and a bystander, which is what the repair code chooses between,
and three failing calls let one call miss `min_writes` after its retry and fail in
its clean-up too. Three objects with a batch of one leave a rest that a batch had no
room for. A listing needs a group, a key before it, one
behind it and one that ends in the slash. One upload at a time makes the limit
bite. A channel of one event lags at the second. Every bound is a constant or a
field of a setting, plan, play or scene.

Deadlock is not checked in the runs whose behaviours end when a plan, the plays,
the requests, the versions or the clock are used up (`device`, `flush_retry`,
`gateway`, `catalog_rebuild`, `cluster`, `hold` and the sharded runs). Elsewhere the
system can always go on, and TLC checks that. The kinds of `rawstore` and `restart`
restrict which steps a behaviour takes (`OfKind` of their MC modules), where all of
them together would be too many states; the theorems have no such restriction. What
the kind with a reader leaves out, restarts and flushes of the index, ends the reader
or touches no block of an object.

Fairness is assumed in `cluster` only, for `RedundancyRestored`: weak fairness of
the steps of the recovery loop, of the repair loop and of an operation that has
begun (`AdminFairness`). The loops are tokio tasks that sleep and go on for ever,
and an operation runs in a spawned task that no client can cancel; a device call
that neither answers nor fails is outside the model. An attach runs in the handler
of its request, which is dropped when the client goes away, so its steps are not
fair, and the property counts a shard left Syncing as the code does. Nothing is
assumed about devices, which need not return, nor about requests. The property is
not claimed for scenes in which `AdminOpGuard::drop` finds the mutex taken
(`contended`): the operation then stays registered, and no later cycle runs its
sweeps.

## Proofs

Every theorem is about all values of the constants that the `ASSUME`s of its
modules allow (any number of blocks, shards, keys, callers, clients, uploads,
faults), where a run is about one. Theorems that state a property of a run:

| Theorem | Property | Extra hypothesis |
|---|---|---|
| `TypeCorrect`, `SpaceIsAccounted`, `CleanShardsPersisted`, `WriteProtection` | the invariants of `rawstore` and its write protection | |
| `FlushedObjectsSurvive`, `OpenIsLossless` | `FlushedSurvives`, `OpenLosesNothing` | |
| `ListedDataIntact`, `MetadataUpdateKeepsBody` | `LiveDataIntact`, `MetadataKeepsBody` | opens verify in full |
| `StreamedReadsExact` | `UndisturbedReadExact` | opens verify in full |
| `UploadsAccountForSpace`, `NoPartLeftBehind`, `CompleteIsOrdered` | `SpaceAccounted`, `NoOrphanParts`, `CompleteJoinsInOrder`, with uploads | |
| `FreeListImplementsFreeSpace` | `ImplementsFreeSpace` | |
| `ReadsAreExact` | `ReadsExact` | |
| `CleanDevice` | `CleanIsOnDevice` | `ErrorPlan` |
| `CrashSafe` | `ImplementsDurableIndex` | `CrashPlan` |
| `ReaderFollows` | `ReaderCurrent` | `NoTornError` |
| `CatalogIsTruthful`, `CleanShutdown` | `CatalogTruthful`, `ShutdownKeepsAll` | |
| `PartFilesAccounted`, `CompleteIsExact` | `TempFilesAccounted`, `CompleteAssembles` | |
| `EtagsMatch`, `StatsExact`, `AnswersAreExact` | `EtagMatchesBody`, `CachedStatsExact`, `UndisturbedAnswersExact` | |
| `ReplicasFollow` | `ReplicaConverges` | |
| `DecodingInverts` | `DecodeInverts` | |
| `WalksAreExact` | `WalkIsExact` | |
| `CreatesExclude`, `PutsStayReadable`, `RepairsRestore`, `OperationsDeliverAlone` | `CreateOnce`, `AckedPutsReadable`, `ReadRepairRestores`, `UndisturbedOpExact` | |
| `ReplicatedReads`, `AcknowledgedSurvive` | `LiveReadsCurrent`, `AckedSurvives` | `Supported` |
| `MirroredDeletes` | `MirrorDeletesHold` | no client during a sync |
| `NoMoverLoses` | `NoObjectLost` (for one mover) | |
| `FactorIsKept` | `FactorKept` | |
| `HoldsAreRespected` | `HoldRespected` | |
| `OperationsAlwaysDeliver` | `OperationsDeliver` | two shards or more |

The hypotheses are about what the deployment does, and each is needed. The
default scan of an open checks block CRCs, and a block reused by another object
has a valid one, so without full verification a listed object may be wrong.
`CrashPlan` allows any number of failed calls, or of process deaths, or of power
losses (one, when superblock writes can tear), but one kind in a behaviour:
`flush_retry` shows a failed call and a power loss that lose the index, and the
findings below give the other pairs. `ErrorPlan` and `NoTornError` exclude torn
superblocks together with failed calls (`ErrorPlan` but for a single one): the
copy that a failed write left torn makes open choose a superblock that memory has
overtaken. The plans of each part of `device` satisfy the hypothesis of its theorem.

`Supported` is the part of the table under Findings in which both properties hold,
for any number of shards: one copy per shard with any outages and, not together,
unnoticed faults or rebuilds of the catalog; or at least two copies and one clean
outage at a time, without rebuilds. Every setting of `sharded` is in it.

The properties of the administration have their limits in their own statements.
`NoObjectLost` is about one mover at a time (`OneMover`): requests that the admin lock
keeps apart, or one of the loops without them, or attaches alone. Two movers that
overlap can each count on the copy the other one removes. The shortest example has a
factor of 1 and copies on shards 0 and 1: the recovery loop finds the lock free and its
trim chooses the copy on 1; a drain of 0 begins, finds the entry with 1 and deletes the
copy on 0; the trim deletes the other one. No device fails. `FaultsCovered` is about
the recovery loop: no failure, or one failure of a cluster with a factor of two, two
copies of everything and no shard taken offline. With a factor of 1 or a second
failure the sync of a returning shard can take the last copy for a stale one (finding
3). `HoldRespected` holds with devices that fail and return, but not for a hold that
falls into a probe or a sync of its shard (finding 5). `OperationsDeliver` promises
what one batch can do: the rest of a larger plan is left to the next request. A drain
of the only shard has nowhere to put its objects, so `OperationsAlwaysDeliver` asks
for two.

Other limits that are part of a statement: `FlushedSurvives` is about what is
committed, and open refuses an image while `lost` is not empty (finding 2);
`CatalogTruthful` expects of one shard the whole truth in its first life and, with a
catalog file, after clean stops (finding 6); `WalkIsExact` excepts by name what
`list_object_versions` misses and the repetitions of `list_objects` with a delimiter
and encoded names; `UndisturbedAnswersExact` excepts the range whose last byte is the
greatest word; `ReplicaConverges` compares a replica of raw images with the index as
of its opening.

**Device (`RawStoreProofs`).** The first inductive
invariant, `IndInv`, is `TypeOK`, `SpaceAccounted`, `CleanIsPersisted` and "a
write-protected device has no read-write handle". No part is inductive alone. A
flush writes only dirty shards, so that the durable index has disjoint extents
afterwards needs `CleanIsPersisted` (then it equals the one in memory) and the
disjointness in memory. That memory is disjoint after an open needs the durable
index to be so. A new object is disjoint from the others because the free list is
exactly the complement of the used blocks. Write protection needs that no writer
is open.

Survival adds `NoTmp` (without uploads no temporary part is in either index) and
`FlushedSurvives` itself (`DurInv`). The argument: the entry of a kept object is the
durable one, so its extent is not free, so no write, failed write or scrub touches
its blocks (`WriteStaysFree`, `KeptNotFree`); its blocks are synced, so a power loss
leaves them; and at open it passes the bounds, overlap and CRC checks
(`AllWellPlaced`, `OpenSurvives`). A flush that fails, at whatever slot, frees no
block and writes none of the data area, so it changes neither. `LiveDataIntact` is
inductive together with `IndInv`.

**Reads (`RawStreamProofs`).** `ReadInv` adds to `IndInv` and `LiveDataIntact` that
the clone of an unchanged stream is still the entry in the index
(`StreamsCurrent`). The index is what protects the blocks: while the entry is
listed its blocks are not free, and writes and scrubs reach only free blocks.

**Multipart (`RawStreamProofs`).** `MultiInv` adds to `IndInv` the types of the
uploads, `NoOrphanParts`, and `PartsHold`: the temporary extent of part *i* has
the bytes of the *i*-th `put_part` call. `CompleteJoinsInOrder` needs the last
one, since `complete` reads the parts back from the device, and that in turn needs
`SpaceAccounted`. That the concatenation of what is read is the concatenation of
what was given needs induction over the number of parts; `InductionLemmas` has it
as "a set of naturals that contains 0 and the successor of each member is all of
them", from `WFMin` for the order of the naturals, and derives the recursion of
`FlattenSeq` from it.

**Index commit (`IndexProofs`).** `Commits` says what each position of the flush
has already written, synced and flipped. `CleanInv` adds that the superblock open
would choose agrees with memory on every shard that is not dirty. `CrashInv` adds
that a kill now finds a whole index (`KillSafe`), that every outcome of a power
loss has one (`LossSafe`: each superblock that may be on the media names slots
whose only possible content is synced) and that a crashed device still has one
(`DownSafe`); a step maps to `Put`, `Begin`, `Commit`, a crash or an open of
`DurableIndex`, or to a stutter. `ReaderInv` says what each shard in the reader's
memory is while a reload is half way (`Contents`), that the writer's later
superblocks differ from the one it has seen (`SeenOnce`) and that a difference
between the two is announced or being read (`Followed`).

**Allocator (`IndexProofs`).** `AllocInv`: the list is sorted and its extents do not
overlap (`Chain`), no two neighbours touch, the extents of the index lie apart inside
the data area, and the list has exactly the other blocks. That neighbours never touch
is what first fit needs: free blocks side by side are then in one entry
(`RunInEntry`), so the first entry that is long enough has the lowest run, and there
is none when no entry is. `free` keeps it because after the insertion the list can
touch only on the two sides of the new entry, and each merge removes one of those
places without making another (`MergeKeeps`). The gaps of a rebuild cannot touch,
since an extent lies between any two (`GapsAre`).

**Codec (`IndexProofs`).** `CodecInv` says where each cell of the payload is: until
`finish`, the blocks on the device and in the batch, the block in hand, the chunk in
hand and what has not been fed are, in this order, the whole payload (`Laid`);
afterwards cell *x* is cell *x* mod `BlockData` of block *x* div `BlockData`, and a
block of someone else follows (`Stored`). What a reader has delivered and still
buffers is the beginning of the payload, up to the end of the last block it has read,
unless it has met an error (`Reading`). A range inside the payload touches only blocks
of the payload, also an empty one, whose number of blocks comes out of a subtraction
that wraps (`BlocksOfRange`). The assumption on the constants (`CodecAssumption`) is
that sizes are positive and fit in a word, and that a checksum tells a bad block from
a good one.

**Server (`GatewayProofs`).** `LifeInv`: which variables each phase of start and
stop has settled (`Phases`), that the saved file is the catalog unless the dirty
flag, a running save or a fault says otherwise (`FileCurrent`), the same for the
shards' indexes (`IndexCurrent`), and that the catalog differs from the shards
only by running requests (`Tracked`), also while start-up strips and rebuilds it
(`Restarts`). Without a file there is nothing to save (`FileAbsent`), and a catalog
that was not rebuilt names only what is there (`Sound`).

**Uploads.** `UploadInv`: an upload is in the table or in one running complete
(`HeldOnce`), a file has one owner (`OneOwner`), every part's file is there with
the content of its ETag (`FilesKept`), and a complete that has reached part *i*
has read the first *i* - 1 (`Assembled`). `OneOwner` is what makes the removal of
one part's file harmless to the others.

**Objects.** `S3Inv`: a request carries what its step needs (`Running`): a put
that writes has the digest of its body, statistics on their way to the cache are
those of the bucket unless a write overtook them. `AnswerInv` adds what a reader
knows while nobody overtakes it: the size of its object, then the metadata, with
the conditions decided on that ETag (`Knows`), or that its bucket is empty
(`Empties`). The bytes of a range are then arithmetic, for every range and body:
the interval that `get_object` computes is the set of bytes asked for
(`AskedInterval`), and the slice has each byte at its rank (`SliceExact`). The
constants assume that a body is shorter than the address space, that a range is made
of words and that a `Range` header does not run backwards (s3s parses it).

**Replicas.** `EventInv`: the last event on a key says whether it is present,
unless an operation on it runs (`Orderly`), and a replica together with the events
still on their way to it, in its queue or on the bus, agrees with the shards
(`LastWord`). A replica with raw images of its own knows nothing but what its index
has (`Owned`), so an event can only make it forget, or enter what it already holds.

**Calls (`ClusterProofs`).** The theorems are about `InspectSpec`, that is, with
inspections, repairs and the purge between the steps. `CreateInv`: at most one
caller is between a successful `try_insert` and its end, and entry and copies are
its own; a call that still writes is what keeps others out, and `CreateOnce` does
not mention it. `PutInv`: after the first undisturbed commit no call is at the step
that deletes, because `cleanup_orphaned_writes` finds the key in the catalog.
`GetInv`: what each running repair has in hand is good, and a bad copy that a
reader met has a repair or is restored. `SoloInv`: a running call that is marked
undisturbed is alone, and what it has written is still there; `CalmInv`: as long as
no shard has failed and no calls have overlapped, entry and copies agree between
calls, which a delete relies on when it contacts only the shards of the entry.

**Versions and outages (`ShardedProofs`).** `ShardedInv` is `Base` (types; every
copy is older than now; which shard may sync, be held or be half in service), `Live`
and `Mirrors`. `Live`: unless a delete may have happened there is a time `L` such
that every copy at least as late has a value a read may return, every marker is
earlier, and the entry names only such copies (`Since`). `LiveReadsCurrent` alone is
not inductive: a sync, a trim or a rebuild of the catalog changes which copy a read
reaches, so the invariant has to say that the ones it could reach next are current
too. With one copy per shard every shard in service is in the entry (`OnMirrors`),
and `mirror_sync` copies the newest; with fewer, two shards are, and the entry's own
date is no earlier than `L` (`OnParts`), so that whichever one leaves, the sync of
its return finds the other and refreshes or removes only what is older. Deletes
leave no such time, since a marker may be vacuumed. `Mirrors` therefore says that
the shards in service agree on having the object, and that a shard on its way back
already agrees with one of them; a sync that reads any of them then brings back
nothing deleted.

**Administration (`AdminProofs`).** `Sane` has the types and where each kind of worker
may be and with which lock. `SerialInv` adds that the catalog names only copies that
exist, but for the one being forgotten (`Backed`), and that what a worker read before
its last await still holds when it acts (`Informed`: a copy about to be deleted
leaves `Rf` others in the entry, a listing about to replace the catalog names only
copies that exist, an object that a drain calls safe has an entry elsewhere). One
mover at a time is what keeps `Informed`: nobody else changes the catalog in between.
`Watched` says which of two courses the recovery loop is on: no failure at all
(`Calm`), or a single shard, with two entries for every object (`Single`), so that
the sync finds the copy of another shard and removes nothing. `Course` follows an
operation that runs alone: what is left of its plan is on its list (`Planned`), its
counts are those of the catalog (`Counting`), what the drained shard has is listed or
safe (`Vacating`), a listing is complete (`Exact`). What one batch had no room for is
fixed when its stage begins (`LeftCopies`, `LeftTrims`), from what the scene placed.
`HoldInv`: a shard that was held while the loop was elsewhere is Detached, and the
loop is not between a probe or sync of it and its effect (`PutAway`), since it passes
over Detached shards. The invariants were checked with
TLC on the instance of the run before they were proved.

**Metadata codec (`GatewayProofs`).** `TlvInv` gives every entry of the bytes its
place and its field: entries follow each other without a gap, each holds the bytes of
one field, and every field is left to encode or has an entry (`Marks`). The decoder is
at the beginning of an entry and has read the fields of those before it (`Decoding`).
An entry is read back as its field where it is whole, and ends decoding where it is
cut off (`EntryBack`); that needs the lengths to fit in two bytes, which
`MetadataTooLarge` ensures, and distinct tags below the lookup bit (`TlvAssumption`,
true of the constants of `tlv.rs`).

**Listings (`GatewayProofs`).** `ListingInv`: what a walk has got is in order and
ends in its token, unless its pages overlap (encoded markers), and every key that
was there from the beginning has its entry in it or behind the token (`Walking`).
That a page goes on where the last one ended rests on the order of bytes being total
(`BeforeTransitive`, `BeforeTotal`), on `Sorted` having the entries of a set in that
order (`SortedIs`), and on a common prefix being before the keys it stands for, so
that a key whose group is ahead of the token is ahead of it too (`WantedListed`).
`FoundBelow` is the detour of the code over the directory of the prefix: a key that
starts with the prefix is found there, because the path of a key begins with the
key. `ListingAssumption`: keys are not empty, and the mark of directories is no
symbol of a key.

Only model-checked: `InspectionExact`, which is about metadata with one writer, as
the plays of its run have; a theorem would carry that as a hypothesis. Liveness
under fairness (`RedundancyRestored`) and `ENABLED` are out of the prover's reach.

## Findings

The code and its documents disagree in six places that a run shows; the exact
quotations are in `PROJECT.json`.

1. `reads_stale`: a streaming GET uses its clone of the entry after the lock is
   released; a delete and a put in between make it deliver the other object's
   blocks with valid block CRCs.
2. `flush_retry`: `flush_index` flips a shard's slot in memory before the flush has
   succeeded. After a failed call the retry overwrites the slot that the durable
   superblock names, and a power loss then leaves no readable index.
3. `sharded_outage`: `partitioned_sync` calls a copy stale when its
   `last_modified` is older than the catalog's `updated`, which a put stamps later,
   so every untouched copy qualifies. When both replicas were away, each is removed
   on its return.
4. `sharded_delete`: an overwrite under another set of healthy shards leaves a copy
   on a shard that the catalog no longer names; delete does not reach it, and a get
   that misses the catalog finds it.
5. `hold`: the recovery loop reads a shard's health, awaits a probe and acts on what
   it read. A hold that an operator sets during the await is overwritten: an Offline
   shard that answers is synced and attached, a Healthy one that does not is marked
   Offline for the probe's reason and attached by a later cycle.
6. `catalog_rebuild`: start-up rebuilds the catalog only of clusters of several shards.
   One shard without a catalog file, the default, starts with an empty catalog.

Which guarantees of `ShardedStore` hold, by setting (found by changing `Settings`):

| Setting, 3 shards | LiveReadsCurrent | AckedSurvives | DeletedStaysDeleted |
|---|---|---|---|
| 2 copies, one clean outage at a time | holds | holds | fails |
| 2 copies with a catalog rebuild, unanswering shards, two shards away, or clients during a sync; or 1 copy | one or both fail | one or both fail | fails |
| 3 copies, clean outages of up to two shards, rebuilds | holds | holds | holds |
| 3 copies, unanswering shards | holds | holds | fails |
| 3 copies, rebuild after errors | fails | not examined | fails |
| 3 copies, clients during a sync | fails | fails | fails |

Seen while modelling and not stated as runs. Each is what the code does, and the
properties above exclude it by name (an `excused` key, a `leaked` file, a `clean`
call) or by the scenes of the run.

Device layer. Copy and rename keep a tombstone of the destination
(`rawobjstr/API.md:326`). The default scan does not catch a block fully overwritten
by another object (comment at `store.rs:447`). A backup superblock left stale by
one torn power loss is not rewritten at open, so a second one can leave only a
superblock whose slots are gone (`STORAGE-FORMAT.md:446`). A primary superblock
written but not synced by a killed process is trusted by the next open
(`rawobjstr/README.md:365`). The O_DIRECT reopen drops the flock for a moment
(`store.rs:822`). A `reload_index` that failed half way has emptied a shard but
kept the old superblock; if a later flush brings slot, checksum and size of that
shard back to the old ones, the next reload skips it and clears the dirty flags
(`store.rs:1485`, "the in-memory state now matches disk") with the shard empty. An
empty range at a block border subtracts block numbers below zero, which is
harmless where it wraps and panics in a debug build (`store.rs:326`). A range of a
packed object that inflates to more than 1 GB always fails.

Calls of the sharded store. `put_with_meta`, `copy_if_not_exists` and multipart do
not remove the delete marker; a plain put leaves the old sidecar; an S3-like shard
drops the etag. `put_with_meta_from_file` has no read-only check on its all-raw
path. The clean-up of two failing puts can remove what a third, overlapping put of
the same new key has acknowledged. The placeholder of a Create makes the clean-up of
its own failed write spare the data. A multipart complete that misses `min_writes`,
and the purge of a stale upload, delete the version that was there before; a put
that overlaps a delete can leave copies without an entry: a later read enters the
one it finds, and a delete then takes only that one and returns success with the
others in place (so the claim of `UndisturbedOpExact` for a delete is about
behaviours in which no calls have overlapped before); with a single target
`min_writes` is not looked at. Read repair can bring a deleted object back.
Cross-verify calls one readable copy among errors a mismatch, and verify beside a
put reports mismatches that are none.

Administration. The recovery loop reads `admin_op_lock` and lets go of it before
its sweeps (`recovery.rs:341`); beside a drain it can lose an object with a factor of
1 (above), and together with the repair loop and one failing device one with two
copies. Redistribute beside the recovery loop can take an
object below the factor until the next cycle. `redistribute_sweep` tries again for
ever while a device fails. `AdminOpGuard::drop` uses `try_lock` and leaks the
registration when the mutex is taken (`viz.rs:243`). An attach whose client goes
away leaves its shard Syncing, which the recovery loop passes over. A failing write
that ends after a hold turns Detached into Offline as a probe does (finding 5). With a
batch of 1, an object without a source at the head of the listing keeps the others
from being repaired. The recovery loop repairs under-replication also when
`hold_offline` asked to suppress it. `over_replication_trim` trims delete markers
although `lib.rs:2407` puts them on every healthy shard. `partitioned_sync` treats a
failed listing as an empty one (`repair.rs:498`). A rebuild while a shard with single
copies is away makes its return delete them.

S3 adapter. A part uploaded again leaves the old temporary file, as do failed part
copies and lost clients. Complete of an unknown upload succeeds when the object
exists. A failed complete puts its upload back beyond `MAX_CONCURRENT_UPLOADS`.
`delete_objects` does not invalidate the statistics, nor does a `delete_object` that
reports an error or a write whose client goes away in time. A copy that an overwrite
overtakes stores the old body with the new ETag. A GET of an object without metadata
answers with the MD5 of nothing. A suffix range of an empty object computes `end -
1` on zero, and a range up to byte 2^64 - 1 adds 1 to it (`adapter.rs:1075`): in a
release build it reads nothing and answers with a negative length.
`list_object_versions` with a prefix that ends inside a name misses keys
(`adapter.rs:2555`, what the comment at 1661 says `list_objects_v2` avoids).
`list_objects` with a delimiter and `encoding-type=url` chooses NextMarker among
encoded names (`adapter.rs:1614`), whose order is another: a page can repeat entries
of the one before, but skips none. A put that races `delete_bucket` leaves an object
in no bucket, and empty buckets do not survive a restart.

Server and events. `save_catalog` clears the dirty flag after the file is written,
so a change made meanwhile is not saved at shutdown (`lib.rs:803`). After the ten
seconds of the drain, requests go on beside the final flush. The catalog file is not
synced before the rename. A streaming replica of a "raw image opened read-only"
(`shardedobjstr/src/event.rs:24`, "no FLUSH or `reload_index()` required") keeps the
index of its opening: an object put later, or not flushed by then, never enters its
catalog, since its HEAD fails; and a replica of one shard has no rebuild, so it
knows only what events name. Concurrent authentications exceed `max_readers`, and a
dead client keeps its seat until the next event. `parse_event` trims a key that ends
in white space; `copy_if_not_exists` without metadata emits no event; overlapping
calls may emit in the other order; a lagging replica skips events, and the rebuild
at its start replaces what events changed since its scan. No reader reconnects.

## Not modelled

Configuration only supplies constants. The command line tools, the bindings, the
admin pages and the routing of the server translate requests into calls that the
models have as actions; logging is read by nobody else. `objstrproxyd` has no code
at this commit. Within the modelled parts the following is left out: statistics,
`verify_all`, import and export of `rawobjstr` (they read state or copy it
wholesale); the compression codecs (external crates; a packed payload is opaque);
the O_DIRECT reopen (its effect depends on the operating system); the byte formats
of superblock, index and catalog file beyond "whole" and "torn"; the jump hash;
authentication, tagging and header conversion of the S3 adapter. Clients that write
while a shard is being synced (`lib.rs:1537`, `repair.rs:308`) are in `ShardedStore`
as a setting that no run uses: the code gives no guarantee there.

## Plan

Done: all layers modelled, with whole calls for versions and outages
(`ShardedStore`) and step by step for races (`ClusterWrites`, `ClusterInspect`,
`ClusterAdmin`, the `S3` modules); the proofs above. Next, proofs:

1. `InspectionExact` on `SoloInv`, for plays with one writer of metadata.
2. Which pairs of movers lose nothing, and with which factors.

New questions about a modelled part are added to an existing run as a setting, plan,
play or scene where the properties are the same.
