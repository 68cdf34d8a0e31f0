---------------------------- MODULE DurableIndex ----------------------------
(***************************************************************************)
(* What rawobjstr promises of its index on a device that may lose power:   *)
(* flush_index makes the whole index durable at once, a flush that has not *)
(* returned may or may not have happened, and open always finds an index,  *)
(* the last flushed one or the one whose flush was cut short, never a      *)
(* mixture.  IndexFlush implements this with shard slots and superblocks;  *)
(* RawStore uses it as its atomic Commit.                                  *)
(***************************************************************************)
CONSTANTS Shards, Versions

VARIABLES cur,          \* the index in memory, a version per shard
          durable       \* the indexes that open may find

Index == [Shards -> Versions]

Init ==
    /\ cur \in Index
    /\ durable = {cur}

\* A client operation changes one shard in memory.
Change(s) ==
    /\ \E v \in Versions : cur' = [cur EXCEPT ![s] = v]
    /\ UNCHANGED durable

\* A flush has begun: from now on its index may be found.
Begin ==
    /\ durable' = durable \cup {cur}
    /\ UNCHANGED cur

\* The flush has returned Ok: its index is the only one.
Ack ==
    /\ durable' = {cur}
    /\ UNCHANGED cur

\* The store is opened again and finds one of them.
Reopen ==
    /\ cur' \in durable
    /\ UNCHANGED durable

Next == (\E s \in Shards : Change(s)) \/ Begin \/ Ack \/ Reopen

Spec == Init /\ [][Next]_<<cur, durable>>
============================================================================
