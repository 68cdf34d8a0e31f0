------------------------------ MODULE RawReads ------------------------------
(***************************************************************************)
(* Streaming GETs over a RawStore (get_opts and StreamingBlockReader): the *)
(* index entry is looked up under the lock, the lock is released, and the  *)
(* blocks are read afterwards, chunk by chunk, while other tasks go on     *)
(* changing the store.  Ranged GETs stay under the lock and are one step,  *)
(* so they need no state of their own.                                     *)
(***************************************************************************)
EXTENDS RawStore

CONSTANTS Readers,      \* tasks that stream an object
          ChunkBlocks,  \* BATCH_BLOCKS: blocks per next_chunk
          Idle          \* a task that streams nothing

ASSUME RawReadsAssumption == ChunkBlocks \in Nat \ {0}

VARIABLE reading        \* per task, Idle or the state of its stream

rvars == <<vars, reading>>

\* A stream: the key, the ExtentInfo cloned under the lock, the blocks
\* delivered so far, whether it ended in DataCorruption, and (history)
\* whether the index entry has been replaced or removed meanwhile.  None yet.
RInit == Init /\ reading = [r \in Readers |-> Idle]

\* get_opts without a range, on a rw or ro handle.
BeginGet(r, k) ==
    /\ mode # "down"
    /\ reading[r] = Idle
    /\ files[k] # None
    /\ reading' = [reading EXCEPT ![r] =
            [key |-> k, info |-> files[k], out |-> <<>>, failed |-> FALSE,
             changed |-> FALSE]]
    /\ UNCHANGED vars

MinOf(a, b) == IF a <= b THEN a ELSE b

\* Mutant of ChunkOf: the read starts over from block 0 of the extent.
ChunkFromStart(g) ==
    LET upto == MinOf(Len(g.out) + ChunkBlocks, BodyLen(g.info))
    IN  [i \in 1..(upto - Len(g.out)) |-> disk[g.info.offset + i - 1]]

\* The blocks of the next batch, read at the remembered offset.
ChunkOf(g) ==
    LET from == Len(g.out)
        upto == MinOf(from + ChunkBlocks, BodyLen(g.info))
    IN  [i \in 1..(upto - from) |-> disk[g.info.offset + from + i - 1]]

\* next_chunk: a block that fails its CRC ends the stream with an error.
NextChunk(r) ==
    /\ reading[r] # Idle
    /\ LET g == reading[r]
           c == ChunkOf(g)
       IN  /\ ~ g.failed
           /\ Len(g.out) < BodyLen(g.info)
           /\ reading' = [reading EXCEPT ![r] =
                IF \E i \in DOMAIN c : c[i] = Bad
                THEN [g EXCEPT !.failed = TRUE]
                ELSE [g EXCEPT !.out = @ \o c]]
    /\ UNCHANGED vars

\* The consumer drops the stream, at its end or before.
EndGet(r) ==
    /\ reading[r] # Idle
    /\ reading' = [reading EXCEPT ![r] = Idle]
    /\ UNCHANGED vars

\* A step of the store: streams go on unless the process is gone.
StoreRuns ==
    /\ Next
    /\ reading' = [r \in Readers |->
            IF reading[r] = Idle \/ mode' = "down" THEN Idle
            ELSE [reading[r] EXCEPT !.changed = @ \/ files'[reading[r].key] # reading[r].info]]

RNext ==
    \/ StoreRuns
    \/ \E r \in Readers :
        \/ \E k \in Keys : BeginGet(r, k)
        \/ NextChunk(r) \/ EndGet(r)

RSpec == RInit /\ [][RNext]_rvars

----------------------------------------------------------------------------
\* What a stream delivered so far is a prefix of the object it looked up.
DeliversBody(g) == \A i \in 1..Len(g.out) : i <= Len(g.info.crc) /\ g.out[i] = g.info.crc[i]

\* A GET of an object that nobody overwrites, renames or deletes while it
\* is streamed delivers that object's body and no error, whatever happens
\* to other objects in between: no block of it is reused or scrubbed.
UndisturbedReadExact ==
    \A r \in Readers : reading[r] # Idle /\ ~ reading[r].changed =>
        DeliversBody(reading[r]) /\ ~ reading[r].failed

\* STORAGE-FORMAT.md on wrong bytes from a stale extent: "During normal
\* operation this never happens: the in-memory index is always
\* authoritative."  A stream delivers the object it looked up or fails.
NormalReadsExact ==
    \A r \in Readers : reading[r] # Idle => DeliversBody(reading[r])
============================================================================
