----------------------------- MODULE EventStream -----------------------------
(***************************************************************************)
(* The event bus of a writing server, the socket that relays it, and a     *)
(* streaming replica that keeps its catalog from it: EventBus, EventServer *)
(* and handle_client of rawobjstr/src/event.rs, subscribe_events of the    *)
(* same file, subscribe_streaming_replica of shardedobjstr/src/event.rs    *)
(* and the start-up of objstrd that calls it.                              *)
(*                                                                         *)
(* Every client is a replica with an event source and no FLUSH socket, over *)
(* the shards of the writer: one, or several in mirror mode.  What it reads *)
(* of them depends on their kind.  S3 and fs shards are shared with the     *)
(* writer; a raw image is opened read-only and answers from the index that  *)
(* was durable then; a mem shard of another process is empty.  The bus is a *)
(* broadcast channel: it keeps the last Capacity events, and a handler that *)
(* has fallen further behind skips to the oldest of them.                   *)
(***************************************************************************)
EXTENDS Integers, Sequences, FiniteSets

CONSTANTS
    Replicas,       \* the clients
    EventKeys,      \* object keys
    Trimmed,        \* a key without its trailing white space
    Ops,            \* what the writer does: pairs of a key and an operation
    Mirrors,        \* the sets of shards a cluster may have
    FlushKey,       \* the key of a FLUSH
    Capacity,       \* of the broadcast channel (256 in the code)
    MaxReaders,     \* connections that may be authenticated
    MaxEvents,      \* bound on the writer's operations
    MaxFaults       \* bound on client deaths, wrong secrets and failed HEADs

ASSUME EventAssumption ==
    /\ Trimmed \in [EventKeys -> EventKeys]
    /\ Ops \subseteq EventKeys \X {"put", "delete", "copy_if_not_exists"}
    /\ Capacity \in Nat \ {0}
    /\ \A m \in Mirrors : 0 \in m
    /\ FlushKey \notin EventKeys

VARIABLES
    kind,       \* of the shards: "shared", "raw" or "mem"
    mirror,     \* the shards of the cluster
    durable,    \* the objects in the durable index of each raw shard
    present,    \* the objects on the shards, as the writer sees them
    changes,    \* the writer's operations in progress
    bus,        \* all events emitted
    readerCount,\* reader_count
    conn,       \* each client's connection
    view,       \* each replica's catalog
    excused,    \* for each replica the keys its catalog may be wrong about
    budget      \* operations begun and faults so far

shardVars == <<kind, mirror, durable>>
eventVars == <<shardVars, present, changes, bus, readerCount, conn, view, excused, budget>>

\* The step of the handler, its place in the bus, the lines the client has
\* not handled, the PUT whose HEAD has answered, the indexes of its own shards,
\* the rebuild of start-up, which a cluster of one shard does without, and the
\* keys of the events handled since (history).
Unopened == [step |-> "unopened", alive |-> TRUE, next |-> 0, queue |-> <<>>, head |-> "none",
             index |-> [m \in mirror |-> {}], scan |-> {},
             rebuild |-> IF mirror = {0} THEN "done" ELSE "todo", heard |-> {}]

EventInit ==
    /\ kind \in {"shared", "raw", "mem"}
    /\ mirror \in Mirrors
    /\ present \in SUBSET EventKeys
    /\ durable = [m \in mirror |-> present]
    /\ changes = {}
    /\ bus = <<>>
    /\ readerCount = 0
    /\ conn = [c \in Replicas |-> Unopened]
    /\ view = [c \in Replicas |-> {}]
    /\ excused = [c \in Replicas |-> {}]
    /\ budget = [ops |-> 0, faults |-> 0]

Spend == budget.faults < MaxFaults /\ budget' = [budget EXCEPT !.faults = @ + 1]

InStep(c, s) == conn[c].step = s
Goes(c, s) == conn' = [conn EXCEPT ![c].step = s]
Excuse(keys) == excused' = [c \in Replicas |-> excused[c] \cup keys]

\* What HEAD of shard 0 and the listing of all shards find.
OnShard0(c) == IF kind = "shared" THEN present ELSE conn[c].index[0]
Holds(c) == IF kind = "shared" THEN present ELSE UNION {conn[c].index[m] : m \in mirror}

----------------------------------------------------------------------------
(* The writer: shards first, then the event.  The plain path of            *)
(* copy_if_not_exists emits none.  Two operations on one key may emit in   *)
(* the other order than they reached the shards.                           *)

Emits == {"put", "delete"}

BeginChange(k, op) ==
    /\ budget.ops < MaxEvents
    /\ op = "copy_if_not_exists" => k \notin present
    /\ \A q \in changes : q.key = k => q.op # op
    /\ budget' = [budget EXCEPT !.ops = @ + 1]
    /\ changes' = changes \cup {[key |-> k, op |-> op, step |-> "shards"]}
    /\ IF op \notin Emits \/ Trimmed[k] # k \/ \E q \in changes : Trimmed[q.key] = Trimmed[k]
       THEN Excuse({k, Trimmed[k]})
       ELSE UNCHANGED excused
    /\ UNCHANGED <<shardVars, present, bus, readerCount, conn, view>>

WriteShards(q) ==
    /\ q \in changes /\ q.step = "shards"
    /\ present' = IF q.op = "delete" THEN present \ {q.key} ELSE present \cup {q.key}
    /\ changes' = (changes \ {q}) \cup (IF q.op \in Emits THEN {[q EXCEPT !.step = "emit"]} ELSE {})
    /\ UNCHANGED <<shardVars, bus, readerCount, conn, view, excused, budget>>

\* emit_event.
Emit(q) ==
    /\ q \in changes /\ q.step = "emit"
    /\ bus' = Append(bus, [op |-> q.op, key |-> q.key])
    /\ changes' = changes \ {q}
    /\ UNCHANGED <<shardVars, present, readerCount, conn, view, excused, budget>>

\* A raw shard is flushed, and its flush callback emits FLUSH.
FlushShard(m) ==
    /\ kind = "raw" /\ budget.ops < MaxEvents
    /\ budget' = [budget EXCEPT !.ops = @ + 1]
    /\ durable' = [durable EXCEPT ![m] = present]
    /\ bus' = Append(bus, [op |-> "flush", key |-> FlushKey])
    /\ UNCHANGED <<kind, mirror, present, changes, readerCount, conn, view, excused>>

----------------------------------------------------------------------------
(* The socket: EventServer::start and handle_client.                       *)

\* Before it connects, the client opens its shards.
OpenShards(c) ==
    /\ InStep(c, "unopened")
    /\ conn' = [conn EXCEPT ![c].step = "away", ![c].index = IF kind = "raw" THEN durable ELSE @]
    /\ UNCHANGED <<shardVars, present, changes, bus, readerCount, view, excused, budget>>

\* A client connects, to the Unix socket or over TCP.
Dials(c) == InStep(c, "away") /\ conn[c].alive

\* The accept loop compares reader_count, which only counts those who have
\* authenticated, and subscribes the connection before it has.
Accept(c) ==
    /\ Dials(c)
    /\ IF readerCount >= MaxReaders
       THEN Goes(c, "rejected")
       ELSE conn' = [conn EXCEPT ![c].step = "accepted", ![c].next = Len(bus)]
    /\ UNCHANGED <<shardVars, present, changes, bus, readerCount, view, excused, budget>>

\* The line of an event, read by the client: parse_event trims it, and with it
\* a key that ends in white space.  The replica ignores FLUSH.
Received(queue, e) ==
    IF e.op = "flush" THEN queue ELSE Append(queue, [e EXCEPT !.key = Trimmed[@]])

\* No line within ten seconds, or another secret: the connection is closed.
Refuse(c) ==
    /\ InStep(c, "accepted") /\ Spend
    /\ Goes(c, "rejected")
    /\ UNCHANGED <<shardVars, present, changes, bus, readerCount, view, excused>>

Authenticate(c) ==
    /\ InStep(c, "accepted") /\ conn[c].alive
    /\ Goes(c, "counted")
    /\ readerCount' = readerCount + 1
    /\ UNCHANGED <<shardVars, present, changes, bus, view, excused, budget>>

SendOk(c) ==
    /\ InStep(c, "counted")
    /\ IF conn[c].alive
       THEN Goes(c, "relaying") /\ UNCHANGED readerCount
       ELSE Goes(c, "closed") /\ readerCount' = readerCount - 1
    /\ UNCHANGED <<shardVars, present, changes, bus, view, excused, budget>>

\* rx.recv(): the next event is written to the socket.  A client that has gone
\* is noticed by the failing write.
Relay(c) ==
    /\ InStep(c, "relaying") /\ conn[c].next < Len(bus) /\ conn[c].next >= Len(bus) - Capacity
    /\ IF conn[c].alive
       THEN /\ conn' = [conn EXCEPT ![c].next = @ + 1, ![c].queue = Received(@, bus[conn[c].next + 1])]
            /\ UNCHANGED readerCount
       ELSE Goes(c, "closed") /\ readerCount' = readerCount - 1
    /\ UNCHANGED <<shardVars, present, changes, bus, view, excused, budget>>

\* RecvError::Lagged: the handler goes on with the oldest event kept.
Lag(c) ==
    /\ InStep(c, "relaying") /\ conn[c].next < Len(bus) - Capacity
    /\ conn' = [conn EXCEPT ![c].next = Len(bus) - Capacity]
    /\ excused' = [excused EXCEPT ![c] = @ \cup (EventKeys \cap {bus[i].key : i \in conn[c].next + 1 .. Len(bus) - Capacity})]
    /\ UNCHANGED <<shardVars, present, changes, bus, readerCount, view, budget>>

ClientDies(c) ==
    /\ conn[c].alive /\ conn[c].step \notin {"unopened", "away"} /\ Spend
    /\ conn' = [conn EXCEPT ![c].alive = FALSE]
    /\ UNCHANGED <<shardVars, present, changes, bus, readerCount, view, excused>>

----------------------------------------------------------------------------
(* The replica, once it has read OK.                                       *)

Runs(c) == InStep(c, "relaying") /\ conn[c].alive

\* Mutant of Scan: the catalog is rebuilt before the replica subscribes.
ScanFirst(c) ==
    /\ conn[c].rebuild = "todo"
    /\ conn' = [conn EXCEPT ![c].rebuild = "scanned", ![c].scan = Holds(c), ![c].heard = {}]
    /\ UNCHANGED <<shardVars, present, changes, bus, readerCount, view, excused, budget>>

\* Start-up rebuilds the catalog of a cluster of several shards beside the
\* task that handles the events: rebuild_catalog lists, then replaces.
Scan(c) ==
    /\ Runs(c) /\ conn[c].rebuild = "todo"
    /\ conn' = [conn EXCEPT ![c].rebuild = "scanned", ![c].scan = Holds(c), ![c].heard = {}]
    /\ UNCHANGED <<shardVars, present, changes, bus, readerCount, view, excused, budget>>

Replace(c) ==
    /\ Runs(c) /\ conn[c].rebuild = "scanned"
    /\ conn' = [conn EXCEPT ![c].rebuild = "done"]
    /\ view' = [view EXCEPT ![c] = conn[c].scan]
    /\ UNCHANGED <<shardVars, present, changes, bus, readerCount, excused, budget>>

\* A change that is applied between the two is lost with the old map.
CatalogLost(c, k) ==
    excused' = [excused EXCEPT ![c] = IF conn[c].rebuild = "scanned" THEN @ \cup {k} ELSE @]

\* The line is handled.
Handled(c) ==
    conn' = [conn EXCEPT ![c].queue = Tail(@), ![c].head = "none", ![c].heard = @ \cup {Head(conn[c].queue).key}]

\* PUT: HEAD of shard 0, and the object is skipped when it fails.
HeadObject(c) ==
    /\ Runs(c) /\ conn[c].queue # <<>> /\ conn[c].head = "none"
    /\ LET e == Head(conn[c].queue)
       IN /\ e.op = "put"
          /\ \/ /\ e.key \in OnShard0(c)
                /\ conn' = [conn EXCEPT ![c].head = "found"]
                /\ UNCHANGED <<excused, budget>>
             \/ /\ e.key \notin OnShard0(c)
                /\ Handled(c)
                /\ UNCHANGED <<excused, budget>>
             \/ /\ Spend
                /\ Handled(c)
                /\ excused' = [excused EXCEPT ![c] = @ \cup {e.key}]
    /\ UNCHANGED <<shardVars, present, changes, bus, readerCount, view>>

ApplyPut(c) ==
    /\ Runs(c) /\ conn[c].head = "found"
    /\ view' = [view EXCEPT ![c] = @ \cup {Head(conn[c].queue).key}]
    /\ CatalogLost(c, Head(conn[c].queue).key)
    /\ Handled(c)
    /\ UNCHANGED <<shardVars, present, changes, bus, readerCount, budget>>

\* DELETE.
ApplyDelete(c) ==
    /\ Runs(c) /\ conn[c].queue # <<>> /\ Head(conn[c].queue).op = "delete"
    /\ view' = [view EXCEPT ![c] = @ \ {Head(conn[c].queue).key}]
    /\ CatalogLost(c, Head(conn[c].queue).key)
    /\ Handled(c)
    /\ UNCHANGED <<shardVars, present, changes, bus, readerCount, budget>>

EventNext ==
    \/ \E x \in Ops : BeginChange(x[1], x[2])
    \/ \E q \in changes : WriteShards(q) \/ Emit(q)
    \/ \E m \in mirror : FlushShard(m)
    \/ \E c \in Replicas :
          \/ OpenShards(c) \/ Accept(c) \/ Refuse(c) \/ Authenticate(c) \/ SendOk(c)
          \/ Relay(c) \/ Lag(c) \/ ClientDies(c)
          \/ Scan(c) \/ Replace(c) \/ HeadObject(c) \/ ApplyPut(c) \/ ApplyDelete(c)

EventSpec == EventInit /\ [][EventNext]_eventVars

----------------------------------------------------------------------------
\* Whether the catalog of a replica has a key.  Shards shared with the writer
\* are followed: an object is in the catalog if it is on the shards, of a single
\* shard only once an event has named it.  Of shards of its own the replica only
\* knows what they held when it opened them, less what was deleted since.
Due(c, k) ==
    /\ k \in OnShard0(c)
    /\ IF k \in conn[c].heard THEN k \in present ELSE mirror # {0}

\* The replica has started, read and handled all events, and the writer rests.
UpToDate(c) ==
    /\ Runs(c) /\ conn[c].rebuild = "done"
    /\ conn[c].queue = <<>> /\ conn[c].next = Len(bus) /\ changes = {}

\* A replica that has handled all events (shardedobjstr/src/event.rs:119) has
\* in its catalog what its shards let it know, for every key whose operations
\* did not overlap, that no key with trailing white space is taken for, whose
\* events the channel has not dropped, whose HEAD has not failed, whose events
\* were not handled between the scan and the replacement of the catalog at
\* start-up, and which shard 0 had if another shard did.  (For a "raw image
\* opened read-only" that is less than event.rs:24 says, "no FLUSH or
\* `reload_index()` required": the replica's index is that of its opening, so an
\* object put later, or not flushed by then, never enters its catalog.)
ReplicaConverges ==
    \A c \in Replicas : UpToDate(c) =>
        \A k \in EventKeys \ excused[c] :
            (k \in Holds(c) => k \in OnShard0(c)) => (k \in view[c] <=> Due(c, k))
=============================================================================
