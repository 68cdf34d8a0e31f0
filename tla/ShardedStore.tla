---------------------------- MODULE ShardedStore ----------------------------
(***************************************************************************)
(* The replicated store of shardedobjstr (src/lib.rs, catalog.rs,          *)
(* repair.rs) and the recovery loop that drives it (objstrd recovery.rs),  *)
(* for one object and its delete marker __deleted__/<key>.  Keys do not    *)
(* interact in this layer, so one object shows what every object meets.    *)
(*                                                                         *)
(* Puts, deletes, vacuum, sweeps and the catalog rebuild are atomic here;  *)
(* sync_and_reattach is a sequence of steps between which clients may run. *)
(* A shard can stop answering at any moment; it is noticed when the        *)
(* recovery loop detaches it.  Payloads have one size and no metadata; the *)
(* value of a marker is its deletion time.                                 *)
(***************************************************************************)
EXTENDS Integers, FiniteSets, FiniteSetsExt

CONSTANTS
    N,              \* shard_count
    Home,           \* the jump hash of each key, as a shard
    DeleteRequiresMinWrites,  \* delete_requires_min_writes
    Settings        \* replication factors, faults and bounds of the behaviours

Shards == 0..(N - 1)
Keys == {"object", "marker"}

\* rf: the replication factor; out: how many shards may be away at a time;
\* outages: how many more outages; errors: operations and syncs run while a
\* shard does not answer; during: clients run while a shard syncs; rebuild:
\* the catalog is rebuilt from the shards; puts, time: bounds on the puts and
\* on the clock.
Setting == [rf : 1..N, out : 0..N, outages : Nat, errors : BOOLEAN,
            during : BOOLEAN, rebuild : BOOLEAN, puts : Nat, time : Nat]

ASSUME ShardedAssumption ==
    /\ N \in Nat \ {0}
    /\ Home \in [Keys -> Shards]
    /\ DeleteRequiresMinWrites \in BOOLEAN
    /\ Settings \subseteq Setting

Absent == [val |-> 0, mtime |-> 0]
NoEntry == [shards |-> {}, updated |-> 0]
Unavailable == {"Offline", "Detached"}

VARIABLES
    store,      \* per key and shard: the copy on the shard's backing store
    cat,        \* PlacementCatalog: per key, the shards and the update time
    health,     \* ShardInfo.health: Healthy, Degraded, Offline, Detached or Syncing
    held,       \* the slots that hold an OfflinePlaceholderStore
    down,       \* the shards whose backing store does not answer
    sync,       \* the running sync_and_reattach: its shard and next step
    clock,      \* Utc::now()
    puts,       \* the puts so far; the n-th one writes value n
    expect,     \* history: the values a read may return, 0 for NotFound
    set         \* the setting of this behaviour

vars == <<store, cat, health, held, down, sync, clock, puts, expect, set>>

Present(st, k, s) == st[k][s] # Absent
target == sync.shard
NoSync == [shard |-> 0, step |-> "idle"]
Init ==
    /\ store = [k \in Keys |-> [s \in Shards |-> Absent]]
    /\ cat = [k \in Keys |-> NoEntry]
    /\ health = [s \in Shards |-> "Healthy"]
    /\ held = {}
    /\ down = {}
    /\ sync = NoSync
    /\ clock = 1
    /\ puts = 0
    /\ expect = {0}
    /\ set \in Settings

----------------------------------------------------------------------------
(* Placement.                                                              *)

Available(h) == {s \in Shards : h[s] \notin Unavailable}
Answers(s) == s \notin held /\ s \notin down

MinWrites == IF set.rf > 1 THEN set.rf - 1 ELSE 1

\* The position of shard s clockwise from the home of key k.
Distance(k, s) == IF s >= Home[k] THEN s - Home[k] ELSE s + N - Home[k]

\* select_targets: all writable shards, or the rf nearest to home.
SelectTargets(k, h) ==
    LET writable == {s \in Shards : h[s] \in {"Healthy", "Degraded"}} IN
    {s \in writable :
        Cardinality({r \in writable : Distance(k, r) < Distance(k, s)}) < set.rf}

\* resolve_shards and the shard list of delete_raw: the available shards of
\* the entry, or all available shards on a catalog miss.
Resolve(k, c, h) ==
    IF c[k].shards = {} THEN Available(h) ELSE c[k].shards \cap Available(h)

\* The shards from which a read of k can be served.
Hits(k, st, c, h) == {s \in Resolve(k, c, h) : Answers(s) /\ Present(st, k, s)}

----------------------------------------------------------------------------
(* The catalog.                                                            *)

\* add_replica keeps the update time of an existing entry.
AddReplica(c, k, s, now) ==
    [c EXCEPT ![k] = [shards |-> @.shards \cup {s},
                      updated |-> IF @.shards = {} THEN now ELSE @.updated]]

\* remove_shard and remove_all_for_shard: an entry without shards is dropped.
RemoveShards(c, k, S) ==
    [c EXCEPT ![k] = IF @.shards \subseteq S THEN NoEntry
                     ELSE [shards |-> @.shards \ S, updated |-> @.updated]]

\* The fallback of a read: a hit on a catalog miss enters the catalog.
Rediscovered(c, k, s, now) == IF c[k].shards = {} THEN AddReplica(c, k, s, now) ELSE c

----------------------------------------------------------------------------
(* Writing and deleting on several shards.                                 *)

WriteTo(st, k, S, copy) ==
    [st EXCEPT ![k] = [s \in Shards |-> IF s \in S THEN copy ELSE @[s]]]

\* One write_to_shards_inner: where the payload landed, and the health of
\* the shards afterwards (mark_write_failures).
Attempt(k, targets, h) ==
    LET first == {s \in targets : Answers(s)}
        offline == [s \in Shards |-> IF s \in targets THEN "Offline" ELSE h[s]]
    IN IF first # {}
       THEN [placed |-> first,
             health |-> [s \in Shards |-> IF s \in targets \ first /\ h[s] = "Healthy"
                                          THEN "Degraded" ELSE h[s]]]
       ELSE [placed |-> {s \in SelectTargets(k, offline) \ targets : Answers(s)},
             health |-> offline]

\* cleanup_orphaned_writes: a key without an entry leaves nothing behind.
CleanUp(st, c, k, S) == IF c[k].shards = {} THEN WriteTo(st, k, S, Absent) ELSE st

\* delete_raw: the stores and the catalog after it, and whether it succeeds.
DeletedStore(st, c, h, k) ==
    WriteTo(st, k, {s \in Resolve(k, c, h) : Answers(s)}, Absent)

DeletedCatalog(c, h, k) ==
    LET contacted == Resolve(k, c, h)
        deleted == {s \in contacted : Answers(s)}
    IN IF deleted = contacted THEN [c EXCEPT ![k] = NoEntry]
       ELSE RemoveShards(c, k, deleted)

DeleteSucceeds(c, h, k) ==
    LET contacted == Resolve(k, c, h)
        deleted == {s \in contacted : Answers(s)}
    IN \/ deleted = contacted
       \/ Cardinality(deleted) >= IF DeleteRequiresMinWrites THEN MinWrites ELSE 1

----------------------------------------------------------------------------
(* Clients.                                                                *)

\* When clients run: unless the setting says otherwise, every shard that
\* does not answer has been detached, and no shard is syncing.
Noticed == set.errors \/ \A s \in down : health[s] \in Unavailable \cup {"Syncing"}
ClientsRun == Noticed /\ (set.during \/ sync = NoSync)

\* The fan-out of put: a second write_to_shards after the first one failed
\* everywhere.
PutAttempt ==
    LET targets == SelectTargets("object", health)
        one == Attempt("object", targets, health)
        retry == SelectTargets("object", one.health)
    IN IF one.placed # {} \/ retry \in {{}, targets} THEN one
       ELSE Attempt("object", retry, one.health)

\* put: fan-out, catalog entry, removal of the delete marker.
Put ==
    LET r == PutAttempt
        copy == [val |-> puts + 1, mtime |-> clock]
        written == WriteTo(store, "object", r.placed, copy)
    IN /\ ClientsRun
       /\ puts < set.puts /\ clock + 1 < set.time
       /\ SelectTargets("object", health) # {}
       /\ Cardinality(r.placed) >= MinWrites
       /\ LET entered == [cat EXCEPT !["object"] =
                             [shards |-> r.placed, updated |-> clock + 1]]
          IN /\ store' = DeletedStore(written, entered, r.health, "marker")
             /\ cat' = DeletedCatalog(entered, r.health, "marker")
       /\ health' = r.health
       /\ clock' = clock + 2
       /\ puts' = puts + 1
       /\ expect' = {puts + 1}
       /\ UNCHANGED <<held, down, sync, set>>

\* put returns InsufficientWrites or AllReplicasFailed.
PutFails ==
    LET r == PutAttempt
        copy == [val |-> puts + 1, mtime |-> clock]
        written == WriteTo(store, "object", r.placed, copy)
    IN /\ ClientsRun
       /\ puts < set.puts /\ clock < set.time
       /\ SelectTargets("object", health) # {}
       /\ Cardinality(r.placed) < MinWrites
       /\ store' = CleanUp(written, cat, "object", r.placed)
       /\ health' = r.health
       /\ clock' = clock + 1
       /\ puts' = puts + 1
       /\ expect' = expect \cup (IF r.placed = {} \/ cat["object"].shards = {}
                                 THEN {} ELSE {puts + 1})
       /\ UNCHANGED <<cat, held, down, sync, set>>

\* delete: the marker goes to every available shard, then delete_raw.
Delete ==
    LET r == Attempt("marker", Available(health), health)
        copy == [val |-> clock, mtime |-> clock]
        written == WriteTo(store, "marker", r.placed, copy)
        entered == [cat EXCEPT !["marker"] = [shards |-> r.placed, updated |-> clock + 1]]
    IN /\ ClientsRun
       /\ clock + 1 < set.time
       /\ Available(health) # {}
       /\ Cardinality(r.placed) >= IF DeleteRequiresMinWrites THEN MinWrites ELSE 1
       /\ store' = DeletedStore(written, entered, r.health, "object")
       /\ cat' = DeletedCatalog(entered, r.health, "object")
       /\ health' = r.health
       /\ clock' = clock + 2
       /\ expect' = IF DeleteSucceeds(entered, r.health, "object")
                    THEN {0} ELSE expect \cup {0}
       /\ UNCHANGED <<held, down, sync, puts, set>>

\* put_delete_marker fails: the object is not touched, but a marker that stays
\* behind may delete it later.
DeleteFails ==
    LET r == Attempt("marker", Available(health), health)
        copy == [val |-> clock, mtime |-> clock]
        written == WriteTo(store, "marker", r.placed, copy)
    IN /\ ClientsRun
       /\ clock < set.time
       /\ Available(health) # {}
       /\ Cardinality(r.placed) < IF DeleteRequiresMinWrites THEN MinWrites ELSE 1
       /\ store' = IF DeleteRequiresMinWrites THEN CleanUp(written, cat, "marker", r.placed)
                   ELSE written
       /\ health' = r.health
       /\ clock' = clock + 1
       /\ expect' = IF store' = store THEN expect ELSE expect \cup {0}
       /\ UNCHANGED <<cat, held, down, sync, puts, set>>

\* get, get_opts, get_range and head change the catalog on a miss only; the
\* removal of a replica with a CRC error is not modelled.
Get(s) ==
    /\ ClientsRun
    /\ clock < set.time
    /\ cat["object"].shards = {}
    /\ s \in Hits("object", store, cat, health)
    /\ cat' = AddReplica(cat, "object", s, clock)
    /\ clock' = clock + 1
    /\ UNCHANGED <<store, health, held, down, sync, puts, expect, set>>

----------------------------------------------------------------------------
(* Outages and administration.                                             *)

Away == down \cup {s \in Shards : health[s] \in Unavailable \cup {"Syncing"}}

\* One more outage, of shard s.
Outage(s) ==
    /\ set.outages > 0
    /\ Cardinality(Away \cup {s}) <= set.out
    /\ set' = [set EXCEPT !.outages = @ - 1]

\* The backing store of s stops answering.
Fail(s) ==
    /\ s \notin down
    /\ set.errors \/ sync = NoSync \/ s # target
    /\ Outage(s)
    /\ down' = down \cup {s}
    /\ UNCHANGED <<store, cat, health, held, sync, clock, puts, expect>>

\* It answers again, with the content it had.
Return(s) ==
    /\ s \in down
    /\ down' = down \ {s}
    /\ UNCHANGED <<store, cat, health, held, sync, clock, puts, expect, set>>

\* The recovery loop detaches a shard whose probes fail (detach_shard).
Detach(s) ==
    /\ sync = NoSync
    /\ s \in down
    /\ health[s] \in {"Healthy", "Degraded"}
    /\ health' = [health EXCEPT ![s] = "Offline"]
    /\ held' = held \cup {s}
    /\ UNCHANGED <<store, cat, down, sync, clock, puts, expect, set>>

HoldOffline(s) ==
    /\ sync = NoSync
    /\ Outage(s)
    /\ health' = [health EXCEPT ![s] = "Detached"]
    /\ held' = held \cup {s}
    /\ UNCHANGED <<store, cat, down, sync, clock, puts, expect>>

ReleaseHold(s) ==
    /\ sync = NoSync
    /\ health[s] = "Detached"
    /\ health' = [health EXCEPT ![s] = "Offline"]
    /\ UNCHANGED <<store, cat, held, down, sync, clock, puts, expect, set>>

\* rebuild_catalog: what the available shards list, nothing else.  A raw
\* shard lists from its index in memory, also when its device is gone.
RebuildCatalog ==
    /\ set.rebuild /\ Noticed /\ sync = NoSync
    /\ \E silent \in SUBSET down :
        LET listed(k) == {s \in Available(health) \ silent : Present(store, k, s)} IN
        cat' = [k \in Keys |->
                 IF listed(k) = {} THEN NoEntry
                 ELSE [shards |-> listed(k), updated |-> store[k][Min(listed(k))].mtime]]
    /\ UNCHANGED <<store, health, held, down, sync, clock, puts, expect, set>>

----------------------------------------------------------------------------
(* Background repair.                                                      *)

UnderReplicated(k) ==
    /\ cat[k].shards # {}
    /\ Cardinality({s \in cat[k].shards : health[s] \in {"Healthy", "Syncing"}}) < set.rf

\* re_replication_sweep and the under-replication repair of the recovery
\* loop: replicate_object from a healthy replica to a healthy shard.
Replicate(k, from, to) ==
    /\ Noticed /\ sync = NoSync
    /\ clock < set.time
    /\ UnderReplicated(k)
    /\ from \in cat[k].shards /\ health[from] = "Healthy"
    /\ to \notin cat[k].shards /\ health[to] = "Healthy"
    /\ Answers(from) /\ Present(store, k, from) /\ Answers(to)
    /\ store' = [store EXCEPT ![k][to] = [val |-> store[k][from].val, mtime |-> clock]]
    /\ cat' = AddReplica(cat, k, to, clock)
    /\ clock' = clock + 1
    /\ UNCHANGED <<health, held, down, sync, puts, expect, set>>

\* over_replication_trim: remove_replica on a shard that pick_excess_shard
\* may choose.
Trim(k, s) ==
    /\ Noticed /\ sync = NoSync
    /\ Cardinality({r \in cat[k].shards : health[r] \in {"Healthy", "Degraded"}}) > set.rf
    /\ s \in cat[k].shards /\ health[s] = "Healthy"
    /\ Cardinality({r \in cat[k].shards \ {s} : health[r] = "Healthy"}) >= set.rf
    /\ Answers(s) /\ Present(store, k, s)
    /\ store' = [store EXCEPT ![k][s] = Absent]
    /\ cat' = RemoveShards(cat, k, {s})
    /\ UNCHANGED <<health, held, down, sync, clock, puts, expect, set>>

\* vacuum_delete_markers refuses to run unless every shard is in service.
VacuumRuns ==
    /\ Noticed /\ sync = NoSync
    /\ clock < set.time
    /\ \A s \in Shards : health[s] \notin Unavailable \cup {"Degraded"}
    /\ cat["marker"].shards # {}

\* The object is gone or was put again after the delete: the marker goes.
VacuumMarker ==
    /\ VacuumRuns
    /\ \E m \in Hits("marker", store, cat, health) :
        \/ /\ Hits("object", store, cat, health) = {}
           /\ cat' = DeletedCatalog(cat, health, "marker")
        \/ \E o \in Hits("object", store, cat, health) :
            /\ store["object"][o].mtime > store["marker"][m].val
            /\ cat' = DeletedCatalog(Rediscovered(cat, "object", o, clock), health, "marker")
    /\ store' = DeletedStore(store, cat, health, "marker")
    /\ clock' = clock + 1
    /\ UNCHANGED <<health, held, down, sync, puts, expect, set>>

\* The object is older than the marker, a missed delete: both go.
VacuumObject ==
    /\ VacuumRuns
    /\ \E m \in Hits("marker", store, cat, health), o \in Hits("object", store, cat, health) :
        LET found == Rediscovered(cat, "object", o, clock)
            left == DeletedStore(store, found, health, "object")
            entries == DeletedCatalog(found, health, "object")
        IN /\ store["object"][o].mtime <= store["marker"][m].val
           /\ store' = DeletedStore(left, entries, health, "marker")
           /\ cat' = DeletedCatalog(entries, health, "marker")
    /\ clock' = clock + 1
    /\ UNCHANGED <<health, held, down, sync, puts, expect, set>>

----------------------------------------------------------------------------
(* sync_and_reattach.  The sync works on the original store of the shard,  *)
(* while its slot still holds what it held before.                         *)

AtStep(step) == sync.step = step
GoTo(step) == sync' = [sync EXCEPT !.step = step]

\* The recovery loop found an Offline shard that answers, or an operator
\* asked for the shard to be attached.
SyncBegin(s) ==
    /\ sync = NoSync
    /\ \/ health[s] = "Offline" /\ s \notin down
       \/ health[s] = "Detached" /\ (set.errors \/ s \notin down)
    /\ health' = [health EXCEPT ![s] = "Syncing"]
    /\ sync' = [shard |-> s, step |-> IF set.rf = N THEN "mirror" ELSE "copy"]
    /\ UNCHANGED <<store, cat, held, down, clock, puts, expect, set>>

\* The healthy replicas from which partitioned_sync may copy k.
Sources(k) == {s \in cat[k].shards \ {target} : health[s] = "Healthy"}
Served(k, s) == Answers(s) /\ Present(store, k, s)

\* partitioned_sync, 1: copy what is under-replicated.
SyncCopy ==
    /\ AtStep("copy") /\ clock < set.time
    /\ \E from \in [Keys -> Shards] :
        /\ \A k \in Keys : Sources(k) # {} => from[k] \in Sources(k)
        /\ store' = [k \in Keys |->
             IF UnderReplicated(k) /\ Sources(k) # {} /\ Served(k, from[k]) /\ target \notin down
             THEN [store[k] EXCEPT ![target] = [val |-> store[k][from[k]].val, mtime |-> clock]]
             ELSE store[k]]
    /\ clock' = clock + 1
    /\ GoTo("replay")
    /\ UNCHANGED <<cat, health, held, down, puts, expect, set>>

\* partitioned_sync, 2: replay the delete markers of the catalog.
SyncReplay ==
    LET markers == IF cat["marker"].shards = {} THEN {} ELSE Hits("marker", store, cat, health)
        older(m) == /\ target \notin down /\ Present(store, "object", target)
                    /\ store["object"][target].mtime <= store["marker"][m].val
    IN /\ AtStep("replay")
       /\ \/ /\ \E m \in markers : older(m)
             /\ store' = [store EXCEPT !["object"][target] = Absent]
          \/ /\ markers = {} \/ \E m \in markers : ~ older(m)
             /\ UNCHANGED store
       /\ GoTo("refresh")
       /\ UNCHANGED <<cat, health, held, down, clock, puts, expect, set>>

\* Mutant of Refreshed: only objects without an entry are looked at.
RefreshedIfUnlisted(from) ==
    IF cat["object"].shards = {} THEN Absent ELSE store["object"][target]

\* Mutant of Refreshed: a stale copy is removed and never replaced.
RefreshedByRemoval(from) ==
    IF cat["object"].shards = {} \/ store["object"][target].mtime < cat["object"].updated
    THEN Absent ELSE store["object"][target]

\* partitioned_sync, 3: an object that is not in the catalog is removed, one
\* that is older than its entry is replaced or removed.  (Shards go down between
\* the steps here, not within one: a body that breaks off after the GET has
\* answered, and a put that fails, leave the stale copy where it is.)
Refreshed(from) ==
    LET entry == cat["object"]
        copy == store["object"][target]
    IN IF entry.shards = {} THEN Absent
       ELSE IF copy.mtime >= entry.updated THEN copy
       ELSE IF Sources("object") # {} /\ Served("object", from)
            THEN [val |-> store["object"][from].val, mtime |-> clock]
            ELSE Absent

SyncRefresh ==
    /\ AtStep("refresh") /\ clock < set.time
    /\ \E from \in Shards :
        /\ Sources("object") # {} => from \in Sources("object")
        /\ store' = IF target \in down \/ ~ Present(store, "object", target) THEN store
                    ELSE [store EXCEPT !["object"][target] = Refreshed(from)]
    /\ clock' = clock + 1
    /\ GoTo("markers")
    /\ UNCHANGED <<cat, health, held, down, puts, expect, set>>

\* partitioned_sync, 4: a marker goes when the cluster has none any more, or
\* when the object was put again after it.
SyncMarkers ==
    LET known == Hits("marker", store, cat, health)
        live == Hits("object", store, cat, health)
        newer == {o \in live : store["object"][o].mtime > store["marker"][target].val}
        dropped == [store EXCEPT !["marker"][target] = Absent]
    IN /\ AtStep("markers") /\ clock < set.time
       /\ \/ /\ target \in down \/ ~ Present(store, "marker", target)
             /\ UNCHANGED <<store, cat>>
          \/ /\ target \notin down /\ Present(store, "marker", target)
             /\ known = {}
             /\ store' = dropped
             /\ UNCHANGED cat
          \/ /\ target \notin down /\ Present(store, "marker", target)
             /\ \E m \in known :
                LET found == Rediscovered(cat, "marker", m, clock) IN
                \/ live = {} /\ cat' = found /\ UNCHANGED store
                \/ \E o \in live :
                    /\ cat' = Rediscovered(found, "object", o, clock)
                    /\ store' = IF o \in newer THEN dropped ELSE store
       /\ clock' = clock + 1
       /\ GoTo("attach")
       /\ UNCHANGED <<health, held, down, puts, expect, set>>

\* Mutant of Mirrored: objects that the source does not have are kept.
MirroredAdding(k, src) ==
    IF store[k][src].mtime > store[k][target].mtime
    THEN [val |-> store[k][src].val, mtime |-> clock]
    ELSE store[k][target]

\* mirror_sync: make the shard equal to the first healthy one.
Mirrored(k, src) ==
    IF Present(store, k, src) /\ store[k][src].mtime > store[k][target].mtime
    THEN [val |-> store[k][src].val, mtime |-> clock]
    ELSE IF Present(store, k, src) THEN store[k][target] ELSE Absent

SyncMirror ==
    LET sources == {s \in Shards \ {target} : health[s] = "Healthy"}
        ready == target \notin down /\ sources # {} /\ Answers(Min(sources))
    IN /\ AtStep("mirror") /\ clock < set.time
       /\ \/ /\ ready
             /\ store' = [k \in Keys |->
                            [store[k] EXCEPT ![target] = Mirrored(k, Min(sources))]]
             /\ GoTo("attach")
             /\ UNCHANGED health
          \/ /\ ~ ready
             /\ health' = [health EXCEPT ![target] = "Offline"]
             /\ sync' = NoSync
             /\ UNCHANGED store
       /\ clock' = clock + 1
       /\ UNCHANGED <<cat, held, down, puts, expect, set>>

\* attach_shard: the original store back in its slot, its old placements
\* dropped from the catalog.
Attach ==
    /\ AtStep("attach")
    /\ held' = held \ {target}
    /\ health' = [health EXCEPT ![target] = "Syncing"]
    /\ cat' = RemoveShards(RemoveShards(cat, "object", {target}), "marker", {target})
    /\ GoTo("scan")
    /\ UNCHANGED <<store, down, clock, puts, expect, set>>

\* rebuild_catalog_for_shard: what the shard lists enters the catalog.  The
\* scan fails only on a shard that lists from its device.
Scanned(c, k) == IF Present(store, k, target) THEN AddReplica(c, k, target, clock) ELSE c

Scan ==
    /\ AtStep("scan") /\ clock < set.time
    /\ \/ /\ target \in down
          /\ health' = [health EXCEPT ![target] = "Offline"]
          /\ UNCHANGED cat
       \/ /\ health' = [health EXCEPT ![target] = "Healthy"]
          /\ cat' = Scanned(Scanned(cat, "object"), "marker")
    /\ clock' = clock + 1
    /\ sync' = NoSync
    /\ UNCHANGED <<store, held, down, puts, expect, set>>

SyncStep ==
    \/ \E s \in Shards : SyncBegin(s)
    \/ SyncCopy \/ SyncReplay \/ SyncRefresh \/ SyncMarkers \/ SyncMirror
    \/ Attach \/ Scan

Next ==
    \/ Put \/ PutFails \/ Delete \/ DeleteFails
    \/ \E s \in Shards : Get(s)
    \/ \E s \in Shards : Fail(s) \/ Return(s) \/ Detach(s) \/ HoldOffline(s) \/ ReleaseHold(s)
    \/ RebuildCatalog
    \/ \E k \in Keys, from, to \in Shards : Replicate(k, from, to)
    \/ \E k \in Keys, s \in Shards : Trim(k, s)
    \/ VacuumMarker \/ VacuumObject
    \/ SyncStep

Spec == Init /\ [][Next]_vars

----------------------------------------------------------------------------
Serving == sync = NoSync /\ Noticed
Returned == {store["object"][s].val : s \in Hits("object", store, cat, health)}

\* While an acknowledged object exists, no replica that a read may be served
\* from holds an older value: overwrites, outages, repair, trimming and the
\* reattachment of a shard that missed puts never bring one back.
LiveReadsCurrent == Serving /\ 0 \notin expect => Returned \subseteq expect

\* ObjectStore::delete: "Delete from all shards that hold the object."  No
\* read returns an object after its delete has been acknowledged, nor an
\* overwritten one.
DeletedStaysDeleted == Serving => Returned \subseteq expect

\* With one copy on every shard that promise is kept, also when shards come
\* back with objects that were deleted while they were away and when the
\* catalog is rebuilt from the shards.
MirrorDeletesHold == set.rf = N /\ ~ set.errors => DeletedStaysDeleted

\* repair.rs, partitioned_sync: "If the catalog entry is newer, the object
\* was re-PUT while this shard was offline."  What recovery removes is stale:
\* the value of the last acknowledged put stays on some shard.
AckedSurvives == 0 \notin expect => \E s \in Shards : store["object"][s].val \in expect
============================================================================
