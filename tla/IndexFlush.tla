----------------------------- MODULE IndexFlush -----------------------------
(***************************************************************************)
(* The commit protocol of the sharded index (flush_index and the first     *)
(* half of open_impl in rawobjstr/src/store.rs, rawobjstr/src/index.rs and *)
(* rawobjstr/src/superblock.rs), write by write and sync by sync: every    *)
(* dirty shard goes to the A/B slot that the in-memory superblock does not *)
(* name, a sync follows, then the primary superblock and a sync, then the  *)
(* backup and a sync.  The process can die between any two of them, the    *)
(* device can lose power, and every call can fail.                         *)
(*                                                                         *)
(* The content of a shard is its version number; the CRC of a shard is     *)
(* collision free, so the superblock's crc field is the version as well.   *)
(***************************************************************************)
EXTENDS Integers

CONSTANTS NumShards,        \* NUM_SHARDS
          MaxVersion,       \* bound on the changes of one shard
          MaxTxn,           \* bound on txn_id
          FaultPlans,       \* bounds on the faults of one behaviour
          Torn,             \* content that fails its checksum
          Corrupt           \* open has returned SuperblockCorrupt or IndexCorrupt

Shards == 0..(NumShards - 1)
Versions == 0..MaxVersion
Slots == Shards \X {0, 1}

\* Superblock: txn_id and shard_slots.
Superblock == [txn : 1..MaxTxn, active : [Shards -> {0, 1}], crc : [Shards -> Versions]]

ASSUME IndexFlushAssumption ==
    /\ NumShards \in Nat \ {0}
    /\ MaxVersion \in Nat /\ MaxTxn \in Nat \ {0}
    /\ FaultPlans \subseteq [errors : Nat, kills : Nat, losses : Nat, torn : BOOLEAN]
    /\ Torn \notin Versions /\ Torn \notin Superblock
    /\ Corrupt \notin [Shards -> Versions]

VARIABLES
    slot,       \* what a read of each shard slot returns
    slotMedia,  \* what each slot may hold after a power loss
    sb,         \* what a read of superblock 0 and 1 returns
    sbMedia,    \* what each superblock may hold after a power loss
    mem,        \* Inner.index per shard, Corrupt when open failed
    dirty,      \* Inner.shard_dirty as the set of dirty shards
    msb,        \* Inner.superblock
    pc,         \* the next device call of flush_index, "idle", or "down"
    shard,      \* shard_idx of the write loop
    plan,       \* the faults still to come: failed device calls, process
                \* deaths, power losses, and whether superblock writes tear
    durable     \* history: the indexes that open may find

device == <<slot, slotMedia, sb, sbMedia>>
flushVars == <<slot, slotMedia, sb, sbMedia, mem, dirty, msb, pc, shard, plan,
          durable>>

\* format_with_options: empty shards in region A, both superblocks, synced.
FirstSuperblock ==
    [txn |-> 1, active |-> [s \in Shards |-> 0], crc |-> [s \in Shards |-> 0]]

FlushInit ==
    /\ slot = [x \in Slots |-> IF x[2] = 0 THEN 0 ELSE Torn]
    /\ slotMedia = [x \in Slots |-> {slot[x]}]
    /\ sb = [i \in {0, 1} |-> FirstSuperblock]
    /\ sbMedia = [i \in {0, 1} |-> {FirstSuperblock}]
    /\ mem = [s \in Shards |-> 0]
    /\ dirty = {}
    /\ msb = FirstSuperblock
    /\ pc = "idle"
    /\ shard = 0
    /\ plan \in FaultPlans
    /\ durable = {mem}

\* A put, delete or other operation on a key of shard s: mark_shard_dirty.
Change(s) ==
    /\ pc = "idle"
    /\ mem[s] < MaxVersion
    /\ mem' = [mem EXCEPT ![s] = @ + 1]
    /\ dirty' = dirty \cup {s}
    /\ UNCHANGED <<device, msb, pc, shard, plan, durable>>

BeginFlush ==
    /\ pc = "idle"
    /\ msb.txn < MaxTxn
    /\ pc' = "shards"
    /\ shard' = 0
    /\ durable' = durable \cup {mem}
    /\ UNCHANGED <<device, mem, dirty, msb, plan>>

\* "Write to the opposite slot."
TargetSlot(s) == <<s, 1 - msb.active[s]>>

SkipShard ==
    /\ pc = "shards"
    /\ shard < NumShards
    /\ shard \notin dirty
    /\ shard' = shard + 1
    /\ UNCHANGED <<device, mem, dirty, msb, pc, plan, durable>>

\* The write of one dirty shard and the update of its entry in the
\* in-memory superblock.
WriteShard ==
    /\ pc = "shards"
    /\ shard < NumShards
    /\ shard \in dirty
    /\ LET x == TargetSlot(shard) IN
       /\ slot' = [slot EXCEPT ![x] = mem[shard]]
       /\ slotMedia' = [slotMedia EXCEPT ![x] = @ \cup {mem[shard], Torn}]
       /\ msb' = [msb EXCEPT !.active[shard] = x[2], !.crc[shard] = mem[shard]]
    /\ shard' = shard + 1
    /\ UNCHANGED <<sb, sbMedia, mem, dirty, pc, plan, durable>>

ShardsDone ==
    /\ pc = "shards"
    /\ shard = NumShards
    /\ pc' = "sync0"
    /\ UNCHANGED <<device, mem, dirty, msb, shard, plan, durable>>

\* Mutant of SyncAll: the sync reaches the superblocks only.
SyncSuperblocksOnly ==
    /\ sbMedia' = [i \in {0, 1} |-> {sb[i]}]
    /\ UNCHANGED <<slot, slotMedia, sb>>

SyncAll ==
    /\ slotMedia' = [x \in Slots |-> {slot[x]}]
    /\ sbMedia' = [i \in {0, 1} |-> {sb[i]}]
    /\ UNCHANGED <<slot, sb>>

\* "Sync shard data before committing the superblock", then take the new
\* transaction id.
SyncShards ==
    /\ pc = "sync0"
    /\ SyncAll
    /\ msb' = [msb EXCEPT !.txn = @ + 1]
    /\ pc' = "sb0"
    /\ UNCHANGED <<mem, dirty, shard, plan, durable>>

WriteSuperblock(i) ==
    /\ sb' = [sb EXCEPT ![i] = msb]
    /\ sbMedia' = [sbMedia EXCEPT ![i] =
                     @ \cup {msb} \cup (IF plan.torn THEN {Torn} ELSE {})]
    /\ UNCHANGED <<slot, slotMedia>>

WritePrimary ==
    /\ pc = "sb0"
    /\ WriteSuperblock(0)
    /\ pc' = "sync1"
    /\ UNCHANGED <<mem, dirty, msb, shard, plan, durable>>

SyncPrimary ==
    /\ pc = "sync1"
    /\ SyncAll
    /\ pc' = "sb1"
    /\ UNCHANGED <<mem, dirty, msb, shard, plan, durable>>

WriteBackup ==
    /\ pc = "sb1"
    /\ WriteSuperblock(1)
    /\ pc' = "sync2"
    /\ UNCHANGED <<mem, dirty, msb, shard, plan, durable>>

\* The last sync, the dirty flags, and Ok(()).
SyncBackup ==
    /\ pc = "sync2"
    /\ SyncAll
    /\ dirty' = {}
    /\ durable' = {mem}
    /\ pc' = "idle"
    /\ UNCHANGED <<mem, msb, shard, plan>>

\* Mutant of FlushError: the dirty flags are cleared all the same.
FlushErrorForgets ==
    /\ plan.errors > 0
    /\ pc \in {"shards", "sync0", "sb0"}
    /\ plan' = [plan EXCEPT !.errors = @ - 1]
    /\ dirty' = {}
    /\ pc' = "idle"
    /\ UNCHANGED <<device, mem, msb, shard, durable>>

\* A device call fails (or a shard outgrows its slot: ShardOverflow) and
\* flush_index returns the error with the `?` operator.  A failed write may
\* have torn its target; the dirty flags and the slots that were already
\* flipped in the in-memory superblock stay as they are.
FlushError ==
    /\ plan.errors > 0
    /\ pc \notin {"idle", "down"}
    /\ \/ /\ pc = "shards" /\ shard \in dirty
          /\ \/ UNCHANGED device
             \/ /\ slot' = [slot EXCEPT ![TargetSlot(shard)] = Torn]
                /\ slotMedia' = [slotMedia EXCEPT ![TargetSlot(shard)] = @ \cup {Torn}]
                /\ UNCHANGED <<sb, sbMedia>>
       \/ /\ plan.torn /\ pc \in {"sb0", "sb1"}
          /\ LET i == IF pc = "sb0" THEN 0 ELSE 1 IN
             /\ sb' = [sb EXCEPT ![i] = Torn]
             /\ sbMedia' = [sbMedia EXCEPT ![i] = @ \cup {Torn}]
          /\ UNCHANGED <<slot, slotMedia>>
       \/ /\ pc \in {"sync0", "sb0", "sync1", "sb1", "sync2"}
          /\ UNCHANGED device
    /\ plan' = [plan EXCEPT !.errors = @ - 1]
    /\ pc' = "idle"
    /\ UNCHANGED <<mem, dirty, msb, shard, durable>>

----------------------------------------------------------------------------
Die ==
    /\ pc # "down"
    /\ pc' = "down"
    /\ UNCHANGED <<mem, dirty, msb, shard, durable>>

\* The process dies; the operating system keeps its writes.
Kill ==
    /\ plan.kills > 0
    /\ plan' = [plan EXCEPT !.kills = @ - 1]
    /\ Die
    /\ UNCHANGED device

\* Power is lost: every unsynced location settles on one possible content.
PowerLoss ==
    /\ plan.losses > 0
    /\ plan' = [plan EXCEPT !.losses = @ - 1]
    /\ Die
    /\ \E x \in [Slots -> Versions \cup {Torn}], a \in sbMedia[0], b \in sbMedia[1] :
        /\ \A y \in Slots : x[y] \in slotMedia[y]
        /\ slot' = x
        /\ slotMedia' = [y \in Slots |-> {x[y]}]
        /\ sb' = [i \in {0, 1} |-> IF i = 0 THEN a ELSE b]
        /\ sbMedia' = [i \in {0, 1} |-> IF i = 0 THEN {a} ELSE {b}]

\* "pick valid one with highest txn_id", Torn when neither is valid.
ChosenSuperblock ==
    CASE sb[0] = Torn -> sb[1]
      [] sb[1] = Torn -> sb[0]
      [] OTHER -> IF sb[0].txn >= sb[1].txn THEN sb[0] ELSE sb[1]

\* ShardData::from_bytes accepts the slot that the superblock names.
Loads(b) == b # Torn /\ \A s \in Shards : slot[<<s, b.active[s]>>] = b.crc[s]

\* open_impl up to the merged index.
OpenIndex ==
    /\ pc = "down"
    /\ mem # Corrupt
    /\ LET b == ChosenSuperblock IN
        \/ /\ Loads(b)
           /\ mem' = b.crc
           /\ msb' = b
           /\ dirty' = {}
           /\ pc' = "idle"
        \/ /\ ~ Loads(b)
           /\ mem' = Corrupt
           /\ UNCHANGED <<msb, dirty, pc>>
    /\ UNCHANGED <<device, shard, plan, durable>>

FlushStep ==
    \/ BeginFlush \/ SkipShard \/ WriteShard \/ ShardsDone \/ SyncShards
    \/ WritePrimary \/ SyncPrimary \/ WriteBackup \/ SyncBackup

FlushNext ==
    \/ \E s \in Shards : Change(s)
    \/ FlushStep \/ FlushError
    \/ Kill \/ PowerLoss \/ OpenIndex

FlushSpec == FlushInit /\ [][FlushNext]_flushVars

----------------------------------------------------------------------------
Promise == INSTANCE DurableIndex WITH cur <- mem

\* Slots and superblocks implement the all-or-nothing index: after any
\* crash open finds the last flushed index or the one being flushed, whole.
ImplementsDurableIndex == Promise!Spec

\* When no shard is dirty and no flush is running, the device holds the
\* index that is in memory: a flush that failed half way keeps its shards
\* dirty, so the retry that succeeds has written all of them.
CleanIsOnDevice ==
    pc = "idle" /\ mem # Corrupt /\ dirty = {} =>
        Loads(ChosenSuperblock) /\ ChosenSuperblock.crc = mem

\* README.md: "Double-buffered index + redundant superblocks ensure the
\* last successful flush always survives."  open never fails.
OpenSucceeds == mem # Corrupt
============================================================================
