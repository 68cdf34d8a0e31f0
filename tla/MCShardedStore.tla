--------------------------- MODULE MCShardedStore ---------------------------
(* TLC instances of ShardedStore: three shards, the home of both keys is   *)
(* shard 0.  The settings differ in the replication factor and the faults. *)
EXTENDS ShardedStore

MCHome == [k \in Keys |-> 0]

\* Shards leave and return as a whole: nothing fails unnoticed.
Outages(rf, out, rebuild, n, time) ==
    [rf |-> rf, out |-> out, outages |-> 2, errors |-> FALSE, during |-> FALSE,
     rebuild |-> rebuild, puts |-> n, time |-> time]

\* Operations and syncs run into shards that do not answer.
Failing(rf, out, n, time) ==
    [Outages(rf, out, FALSE, n, time) EXCEPT !.errors = TRUE, !.outages = out + 1]

MCSettings == {Outages(2, 1, FALSE, 3, 16), Outages(3, 2, TRUE, 2, 10),
               Failing(3, 1, 3, 12), Failing(3, 3, 2, 6)}

MCOneOutage == {Outages(2, 1, FALSE, 3, 16)}
MCBothReplicasAway == {Outages(2, 2, FALSE, 1, 12)}
============================================================================
