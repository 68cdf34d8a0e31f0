----------------------------- MODULE IndexReader -----------------------------
(***************************************************************************)
(* A read-only server beside the writer of IndexFlush: after each flush    *)
(* the writer's callback emits FLUSH, the reader takes the events one by   *)
(* one and calls reload_index, which reads the superblock and then every   *)
(* shard that changed while the writer goes on writing to the same device. *)
(* The two are processes with a lock each: nothing orders their device     *)
(* calls, and a read that meets a write returns a mixture.                 *)
(***************************************************************************)
EXTENDS IndexFlush

VARIABLES
    made,       \* the newest content of each shard
    rmem,       \* the reader's Inner.index per shard
    rsb,        \* the reader's Inner.superblock
    rnew,       \* the superblock that a reload has read
    rpc,        \* the next step of the reader
    rshard,     \* shard_idx of reload_index
    notices,    \* FLUSH events on their way to the reader
    subscribed, \* the event connection is up
    reload      \* the outcome of the last reload, and whether one has failed

Empty == 0     \* the content of a shard without entries

readerVars == <<made, rmem, rsb, rnew, rpc, rshard, notices, subscribed, reload>>

ReaderInit ==
    /\ FlushInit
    /\ made = [s \in Shards |-> Empty]
    /\ rmem = msb.crc
    /\ rsb = msb /\ rnew = msb
    /\ rpc = "idle" /\ rshard = 0
    /\ notices = 0
    /\ subscribed \in BOOLEAN
    /\ reload = [ok |-> TRUE, failed |-> FALSE]

\* A put gives a shard content that it never had; the delete of its only
\* object makes it empty again, byte for byte.
Rewrite(s) ==
    /\ pc = "idle" /\ mem # Corrupt
    /\ \/ made[s] < MaxVersion /\ made' = [made EXCEPT ![s] = @ + 1]
       \/ mem[s] # Empty /\ UNCHANGED made
    /\ mem' = [mem EXCEPT ![s] = IF made' = made THEN Empty ELSE made'[s]]
    /\ dirty' = dirty \cup {s}
    /\ UNCHANGED <<device, msb, pc, shard, plan, durable>>
    /\ UNCHANGED <<rmem, rsb, rnew, rpc, rshard, notices, subscribed, reload>>

\* The flush callbacks run at the end of a flush that succeeded.
WriterFlush ==
    /\ FlushStep
    /\ notices' = IF pc = "sync2" /\ subscribed THEN notices + 1 ELSE notices
    /\ UNCHANGED <<made, rmem, rsb, rnew, rpc, rshard, subscribed, reload>>

WriterFails == FlushError /\ UNCHANGED readerVars

\* The writer dies and opens its device again; nobody renews the
\* subscription.
WriterDies == Kill /\ subscribed' = FALSE /\ UNCHANGED <<made, rmem, rsb, rnew,
                                                         rpc, rshard, notices,
                                                         reload>>
WriterOpens == OpenIndex /\ UNCHANGED readerVars

----------------------------------------------------------------------------
\* The callback of subscribe_events: FLUSH calls reload_index.
TakeNotice ==
    /\ rpc = "idle" /\ notices > 0
    /\ notices' = notices - 1
    /\ rpc' = "superblock"
    /\ UNCHANGED <<flushVars, made, rmem, rsb, rnew, rshard, subscribed, reload>>

\* What the reader gets from a location that the writer may be writing.
ReadOf(content, busy) == {content} \cup (IF busy THEN {Torn} ELSE {})

Fails == [ok |-> FALSE, failed |-> TRUE]

\* The primary superblock, or the backup when the primary is not valid.
ReadSuperblock ==
    /\ rpc = "superblock"
    /\ \E first \in ReadOf(sb[0], pc = "sb0"), second \in ReadOf(sb[1], pc = "sb1") :
         LET b == IF first # Torn THEN first ELSE second IN
         /\ reload' = CASE b = Torn -> Fails
                        [] b # Torn /\ b.txn = rsb.txn -> [reload EXCEPT !.ok = TRUE]
                        [] OTHER -> reload
         /\ rpc' = IF b = Torn \/ b.txn = rsb.txn THEN "idle" ELSE "shards"
         /\ rnew' = IF b = Torn THEN rnew ELSE b
    /\ rshard' = 0
    /\ UNCHANGED <<flushVars, made, rmem, rsb, notices, subscribed>>

\* Mutant of SameShard: the slot alone tells whether a shard has changed.
SameSlot(s) == rsb.active[s] = rnew.active[s]

\* active_slot, crc and size are those of the superblock in memory.
SameShard(s) == rsb.active[s] = rnew.active[s] /\ rsb.crc[s] = rnew.crc[s]

KeepShard ==
    /\ rpc = "shards" /\ rshard < NumShards /\ SameShard(rshard)
    /\ rshard' = rshard + 1
    /\ UNCHANGED <<flushVars, made, rmem, rsb, rnew, rpc, notices, subscribed, reload>>

\* The old entries are removed, then the slot is read; a checksum that does
\* not match ends the reload with what has been done so far.
ReadShard ==
    /\ rpc = "shards" /\ rshard < NumShards /\ ~ SameShard(rshard)
    /\ LET x    == <<rshard, rnew.active[rshard]>>
           busy == pc = "shards" /\ shard < NumShards /\ shard \in dirty /\ TargetSlot(shard) = x
       IN  \E content \in ReadOf(slot[x], busy) :
             \/ /\ content = rnew.crc[rshard]
                /\ rmem' = [rmem EXCEPT ![rshard] = content]
                /\ rshard' = rshard + 1
                /\ UNCHANGED <<rpc, reload>>
             \/ /\ content # rnew.crc[rshard]
                /\ rmem' = [rmem EXCEPT ![rshard] = Empty]
                /\ rpc' = "idle"
                /\ reload' = Fails
                /\ UNCHANGED rshard
    /\ UNCHANGED <<flushVars, made, rsb, rnew, notices, subscribed>>

\* "Update superblock and derived fields."
ReloadDone ==
    /\ rpc = "shards" /\ rshard = NumShards
    /\ rsb' = rnew
    /\ rpc' = "idle"
    /\ reload' = [reload EXCEPT !.ok = TRUE]
    /\ UNCHANGED <<flushVars, made, rmem, rnew, rshard, notices, subscribed>>

ReaderNext ==
    \/ \E s \in Shards : Rewrite(s)
    \/ WriterFlush \/ WriterFails \/ WriterDies \/ WriterOpens
    \/ TakeNotice \/ ReadSuperblock \/ KeepShard \/ ReadShard \/ ReloadDone

ReaderSpec == ReaderInit /\ [][ReaderNext]_<<flushVars, readerVars>>

----------------------------------------------------------------------------
\* When the writer has flushed everything and the last FLUSH has been handled,
\* the last reload_index (store.rs:1406) has succeeded, however many flushes
\* overtook the ones before it; and unless one of those failed half way the
\* reader's index is the writer's, shard by shard.
ReaderCurrent ==
    subscribed /\ notices = 0 /\ rpc = "idle" /\ pc = "idle" /\ dirty = {} =>
        reload.ok /\ (~ reload.failed => rmem = mem)
=============================================================================
