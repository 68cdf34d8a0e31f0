------------------------------ MODULE MCCluster ------------------------------
(* TLC instance of the two fine-grained models of a cluster: the calls of  *)
(* several clients step by step (ClusterWrites, ClusterInspect), and the   *)
(* operations and loops of its administration (ClusterAdmin).  A behaviour *)
(* runs one of them; the other stays in an initial state.                  *)
EXTENDS ClusterInspect, ClusterAdmin, TLC

VARIABLE part   \* the model that runs

----------------------------------------------------------------------------
(* Calls: what three clients do, to an object in which state, with which   *)
(* replication factor.  The shards are one of each kind.                   *)

MCKind == [s \in Ids |-> CASE s = 0 -> "raw" [] s = 1 -> "sidecar" [] s = 2 -> "s3"]

Calls(first, second, third, before, factor) ==
    [ops |-> ("w1" :> first @@ "w2" :> second @@ "w3" :> third),
     before |-> before, factor |-> factor, quorum |-> IF factor = 1 THEN 1 ELSE 2, readOnly |-> FALSE]
ReadOnly(p) == [p EXCEPT !.readOnly = TRUE]

MCWritePlays ==
    {Calls("put", "put_meta", "none", "meta", 3),
     Calls("put_meta", "put_file", "put", "plain", 2),
     Calls("put", "delete", "none", "meta", 2),
     Calls("create", "create", "none", "absent", 2),
     Calls("create", "copy_new_meta", "copy_new", "absent", 2),
     Calls("put", "create", "none", "absent", 2),
     Calls("multipart", "delete", "none", "plain", 2),
     Calls("multipart", "put", "none", "absent", 2),
     Calls("multipart", "multipart", "none", "meta", 3),
     Calls("get", "get", "none", "corrupt", 2),
     Calls("get", "delete", "none", "corrupt", 3),
     ReadOnly(Calls("put", "delete", "multipart", "plain", 2)),
     ReadOnly(Calls("create", "put_meta", "copy_new", "plain", 2))}

MCInspectPlays ==
    {Calls("get", "verify", "none", "corrupt", 3),
     Calls("verify", "cross_verify", "none", "altered", 2),
     Calls("cross_verify", "put", "none", "plain", 2),
     Calls("delete", "verify", "cross_verify", "plain", 1),
     Calls("multipart", "verify", "none", "meta", 2),
     Calls("put_meta", "get_meta", "head_meta", "plain", 2),
     Calls("delete", "head", "none", "plain", 2),
     Calls("put", "list", "list_meta", "absent", 2),
     Calls("drop_sidecar", "get_meta", "put_meta", "meta", 2)}

MCPlays == MCWritePlays \cup MCInspectPlays

----------------------------------------------------------------------------
(* Administration: where three objects are, the last two on the same       *)
(* shards, what two operators ask for, which loops run, how many devices   *)
(* fail.                                                                   *)

Nothing == <<"nothing", 0>>
Situation(factor, p1, p2, first, second, loops, failures) ==
    [factor |-> factor, placed |-> ("k1" :> p1 @@ "k2" :> p2 @@ "k3" :> p2),
     ops |-> ("a" :> first @@ "b" :> second), loops |-> loops,
     faults |-> failures, failures |-> failures, contended |-> FALSE]
Requests == {"drain", "redistribute", "repair-replication", "cross-verify", "take-offline"}

MCOneOperation ==
    {Situation(2, p, {0, 1}, <<o, 0>>, Nothing, l, 0) :
        p \in {{0, 1}, {0}, {0, 1, 2}}, o \in Requests, l \in {{"recovery"}, {}}}
    \cup {Situation(2, {0, 1}, {0, 1}, <<o, 0>>, Nothing, {"repair"}, 0) : o \in Requests}
    \cup {Situation(1, {0}, {0}, <<o, 0>>, Nothing, {}, 0) : o \in Requests}
    \cup {Situation(1, {0, 1, 2}, {0, 1}, <<"repair-replication", 0>>, Nothing, {}, 0),
          Situation(3, {0, 1, 2}, {0}, <<"repair-replication", 0>>, Nothing, {}, 0),
          Situation(1, {0}, {1}, Nothing, Nothing, {"recovery"}, 0)}
MCTwoOperations ==
    {Situation(2, {0, 1}, {0, 1}, <<"drain", 0>>, <<"attach", 0>>, l, 0) : l \in {{}, {"recovery"}}}
    \cup {Situation(2, {0, 1}, {0, 1}, <<"drain", 0>>, <<"redistribute", 0>>, {}, 0),
          Situation(1, {0, 1}, {0}, <<"drain", 0>>, <<"repair-replication", 0>>, {}, 1),
          Situation(2, {0, 1}, {0, 1}, <<"take-offline", 0>>, <<"attach", 0>>, {"recovery"}, 0),
          [Situation(2, {0, 1}, {0, 1}, <<"cross-verify", 0>>, Nothing, {"recovery"}, 0)
             EXCEPT !.contended = TRUE]}
MCFailures ==
    {Situation(2, {0, 1}, {1, 2}, Nothing, Nothing, {l}, 1) : l \in {"recovery", "repair"}}
    \cup {Situation(2, {0, 1}, {1, 2}, <<o, 2>>, Nothing, {"recovery"}, 1) : o \in {"attach", "cross-verify", "take-offline"}}
    \cup {Situation(2, {0, 1}, {0, 1}, <<"drain", 2>>, Nothing, {}, 1)}

\* A shard that fails around a hold.
MCHold == {Situation(2, {0, 1}, {1, 2}, <<"take-offline", 2>>, Nothing, {"recovery"}, 1)}

MCScenes == MCOneOperation \cup MCTwoOperations \cup MCFailures

----------------------------------------------------------------------------

\* The state in which a model stays while the other one runs.
MCNoCalls == Calls("create", "create", "none", "absent", 2)
MCNoAdministration == Situation(1, {0}, {1}, Nothing, Nothing, {"recovery"}, 0)

PartInit ==
    /\ part \in {"calls", "administration"}
    /\ part = "calls" \/ play = MCNoCalls
    /\ part = "administration" \/ scene = MCNoAdministration
    /\ InspectInit /\ AdminInit

PartNext ==
    \/ part = "calls" /\ InspectNext /\ UNCHANGED <<adminVars, part>>
    \/ part = "administration" /\ AdminNext /\ UNCHANGED <<inspectVars, part>>

partVars == <<inspectVars, adminVars, part>>

PartSpec == PartInit /\ [][PartNext]_partVars /\ AdminFairness
==============================================================================
