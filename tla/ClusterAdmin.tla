---------------------------- MODULE ClusterAdmin ----------------------------
(***************************************************************************)
(* Who moves replicas in a running cluster: the recovery loop and the      *)
(* repair-replication loop of objstrd (recovery.rs), and the operations of *)
(* the admin API (viz.rs) with the sweeps they call (shardedobjstr         *)
(* repair.rs).  Every await is a step, so the workers interleave; the      *)
(* admin_op_lock is all that keeps them apart.  Objects do not change      *)
(* here (ClusterWrites has the clients, ShardedStore the versions), and    *)
(* free_space, the order of hash maps and the clocks of partitioned_sync   *)
(* are nondeterministic choices.                                           *)
(***************************************************************************)
EXTENDS Integers, FiniteSets, FiniteSetsExt

CONSTANTS
    Objects,
    Slots,       \* the number of shards
    Admins,      \* requests to the admin API
    Threshold,   \* failure_threshold
    Batch,       \* re_replicate_batch_size
    AdminBatch,  \* the batch of the admin API's sweeps (500, viz.rs)
    Scenes       \* where the objects are and who runs

Slot == 0..(Slots - 1)
Loops == {"recovery", "repair"}
Workers == Loops \cup Admins
NoOp == "none"

\* factor: the replication factor; placed: the copies of each object; ops: the
\* request of each admin and its shard; loops: the loops that run; faults: how
\* often a device may fail; failures: how often one still may; contended: the
\* guard of an operation may be dropped while the recovery loop has the mutex.
Scene == [factor : 1..Slots, placed : [Objects -> (SUBSET Slot) \ {{}}],
          ops : [Admins -> STRING \X Slot], loops : SUBSET Loops,
          faults : Nat, failures : Nat, contended : BOOLEAN]

ASSUME AdminAssumption ==
    /\ Slots \in Nat \ {0} /\ Threshold \in Nat \ {0} /\ Batch \in Nat \ {0}
    /\ AdminBatch \in Nat \ {0}
    /\ Scenes \subseteq Scene
    /\ IsFiniteSet(Objects) /\ IsFiniteSet(Admins) /\ Admins \cap (Loops \cup {NoOp}) = {}

VARIABLES
    copies,     \* the shards whose device has the object
    entry,      \* PlacementCatalog: the shards of each object, {} without entry
    state,      \* ShardInfo.health
    why,        \* ShardInfo.detach_reason
    quiet,      \* the shards with suppress_replication
    device,     \* "ok", "silent" or "gone"
    misses,     \* fail_counts
    running,    \* admin_op_lock: the admin whose operation it names
    job,        \* where each worker is
    scene

adminVars == <<copies, entry, state, why, quiet, device, misses, running, job, scene>>
Shared == <<copies, entry, state, why, quiet, device, misses, running, scene>>

Rf == scene.factor
OpName(a) == scene.ops[a][1]
OpShard(a) == scene.ops[a][2]
Healthy == {s \in Slot : state[s] = "Healthy"}
Usable == {s \in Slot : state[s] \in {"Healthy", "Degraded"}}
Answering(s) == device[s] = "ok"

----------------------------------------------------------------------------
(* What the sweeps look for.                                               *)

\* find_under_replicated and find_over_replicated.
Under ==
    {k \in Objects : entry[k] # {} /\
        Cardinality({s \in entry[k] : state[s] \in {"Healthy", "Syncing"}}) < Rf}
Over == {k \in Objects : Cardinality(entry[k] \cap Usable) > Rf}

\* A healthy replica, and find_replication_target.
CopySources(k) == entry[k] \cap Healthy
CopyTargets(k) == Healthy \ entry[k]

\* Mutant of Excess: any healthy copy may go.
ExcessUnchecked(k) == entry[k] \cap Healthy

\* pick_excess_shard: a shard without which the healthy copies suffice.
Excess(k) ==
    {s \in entry[k] \cap Healthy :
        Cardinality(entry[k]) > Rf /\ Cardinality((entry[k] \ {s}) \cap Healthy) >= Rf}

\* plan_repair_replication: what a sweep would copy and trim.
PlannedCopies == {k \in Under : CopySources(k) # {} /\ CopyTargets(k) # {}}
PlannedTrims == {k \in Over : Excess(k) # {}}

\* The first n objects of a listing, in the order of a hash map.
Batches(S, n) == {B \in SUBSET S : Cardinality(B) = Min({Cardinality(S), n})}

\* Mutant of Limit: an operation takes one object less.
LimitShort(w) ==
    IF w \in Loops THEN Batch ELSE IF OpName(w) = "drain" THEN Cardinality(Objects) ELSE AdminBatch - 1

\* The batch_size of a sweep: the loops' re_replicate_batch_size, the
\* operations' own, and usize::MAX at the end of a drain.
Limit(w) ==
    IF w \in Loops THEN Batch ELSE IF OpName(w) = "drain" THEN Cardinality(Objects) ELSE AdminBatch

\* shard_object_counts, and the imbalance that redistribute_sweep tolerates
\* (tolerance_pct 0.10).
Counts == [s \in Healthy |-> Cardinality({k \in Objects : s \in entry[k]})]
Fullest(c) == {s \in DOMAIN c : \A r \in DOMAIN c : c[r] <= c[s]}
Emptiest(c) == {s \in DOMAIN c : \A r \in DOMAIN c : c[r] >= c[s]}
Spread(c, src, dst) == c[src] - c[dst]
Balanced(c) ==
    \/ Cardinality(DOMAIN c) < 2
    \/ \E src \in Fullest(c), dst \in Emptiest(c) :
        \/ 10 * Spread(c, src, dst) * Cardinality(DOMAIN c)
               <= MapThenSumSet(LAMBDA s : c[s], DOMAIN c)
        \/ c[src] <= c[dst] + 1

\* The objects redistribute_sweep may move from src to dst.
Movable(c, src, dst) ==
    {k \in Objects : /\ src \in entry[k] /\ dst \notin entry[k]
                     /\ Cardinality((entry[k] \ {src}) \cap DOMAIN c) + 1 >= Rf}

----------------------------------------------------------------------------
(* Jobs.                                                                   *)

NoJob == [pc |-> "idle", stage |-> "none", shard |-> 0, todo |-> {}, key |-> "none",
          from |-> 0, to |-> 0, did |-> FALSE, safe |-> {}, counts |-> <<>>,
          moved |-> 0, listing |-> <<>>]

AtPc(w, pc) == job[w].pc = pc
Stage(w) == job[w].stage
Continue(w, r) == job' = [job EXCEPT ![w] = r]
Pc(w, pc) == Continue(w, [job[w] EXCEPT !.pc = pc])
Forget(k, s) == [entry EXCEPT ![k] = @ \ {s}]

\* The sweeps of the recovery loop handle an object once, those of
\* repair_replication_sweep until it has its replicas.
Once(w) == w = "recovery"

\* Mutant of Left: every sweep does.
LeftWithout(w, k) == job[w].todo \ {k}

Left(w, k) == IF Once(w) THEN job[w].todo \ {k} ELSE job[w].todo

----------------------------------------------------------------------------
(* replicate_object and remove_replica.                                    *)

\* What follows when one of them fails: the next object, or, in
\* redistribute_sweep, another round.
GiveUp(w) ==
    Continue(w, IF Stage(w) = "move" THEN [job[w] EXCEPT !.pc = "move"]
                ELSE [job[w] EXCEPT !.pc = IF @ = "delete" THEN "trim" ELSE "copy",
                                    !.todo = @ \ {job[w].key}])

ReplicateRead(w) ==
    /\ AtPc(w, "read")
    /\ IF Answering(job[w].from) /\ job[w].from \in copies[job[w].key]
       THEN Pc(w, "write")
       ELSE GiveUp(w)
    /\ UNCHANGED Shared

\* The write, add_replica and, in redistribute_sweep, the check that the
\* object now has enough replicas.
ReplicateWrite(w) ==
    LET k == job[w].key
        t == job[w].to
        now == entry[k] \cup {t}
    IN /\ AtPc(w, "write")
       /\ IF Answering(t)
          THEN /\ copies' = [copies EXCEPT ![k] = @ \cup {t}]
               /\ entry' = [entry EXCEPT ![k] = now]
               /\ Continue(w, [job[w] EXCEPT !.did = TRUE,
                    !.pc = IF Stage(w) # "move" THEN "copy"
                           ELSE IF Cardinality(now \cap DOMAIN job[w].counts) >= Rf THEN "delete"
                           ELSE "move"])
          ELSE GiveUp(w) /\ UNCHANGED <<copies, entry>>
       /\ UNCHANGED <<state, why, quiet, device, misses, running, scene>>

\* remove_replica deletes and then updates the catalog.
RemoveDelete(w) ==
    LET k == job[w].key
        s == job[w].from
    IN /\ AtPc(w, "delete")
       /\ IF Answering(s) /\ s \in copies[k]
          THEN copies' = [copies EXCEPT ![k] = @ \ {s}] /\ Pc(w, "forget")
          ELSE GiveUp(w) /\ UNCHANGED copies
       /\ UNCHANGED <<entry, state, why, quiet, device, misses, running, scene>>

\* The counts of redistribute_sweep after a move.
Moved(c, from, to) ==
    [s \in DOMAIN c |-> IF s = from THEN c[s] - 1 ELSE IF s = to THEN c[s] + 1 ELSE c[s]]

RemoveForget(w) ==
    LET j == job[w] IN
    /\ AtPc(w, "forget")
    /\ entry' = Forget(j.key, j.from)
    /\ Continue(w, IF j.stage = "move"
                   THEN [j EXCEPT !.pc = "move", !.counts = Moved(@, j.from, j.to),
                                  !.moved = @ + 1]
                   ELSE [j EXCEPT !.pc = "trim"])
    /\ UNCHANGED <<copies, state, why, quiet, device, misses, running, scene>>

----------------------------------------------------------------------------
(* re_replication_sweep, the under-replication repair of the recovery      *)
(* loop, over_replication_trim and repair_replication_sweep.               *)

\* re_replication_sweep does nothing unless a shard is out of service that
\* nobody asked to leave alone.
SweepDue == \E s \in Slot \ quiet : state[s] \in {"Offline", "Detached", "Degraded"}

StartStage(w, stage) ==
    \E B \in Batches(CASE stage = "sweep" -> IF SweepDue THEN Under ELSE {}
                       [] stage = "under" -> Under
                       [] stage = "over" -> Over, Limit(w)) :
        Continue(w, [job[w] EXCEPT !.pc = IF stage = "over" THEN "trim" ELSE "copy",
                                   !.stage = stage, !.todo = B,
                                   !.did = IF stage = "over" THEN @ ELSE FALSE])

\* One object of the listing: skipped without a source or a target, or when it
\* has its replicas by now.
CopyNext(w) ==
    /\ AtPc(w, "copy")
    /\ \E k \in job[w].todo :
        IF CopySources(k) = {} \/ CopyTargets(k) = {} \/ (~ Once(w) /\ k \notin Under)
        THEN Continue(w, [job[w] EXCEPT !.todo = @ \ {k}])
        ELSE \E from \in CopySources(k), to \in CopyTargets(k) :
                Continue(w, [job[w] EXCEPT !.pc = "read", !.todo = Left(w, k),
                                           !.key = k, !.from = from, !.to = to])
    /\ UNCHANGED Shared

TrimNext(w) ==
    /\ AtPc(w, "trim")
    /\ \E k \in job[w].todo :
        IF Excess(k) = {}
        THEN Continue(w, [job[w] EXCEPT !.todo = @ \ {k}])
        ELSE \E s \in Excess(k) :
                Continue(w, [job[w] EXCEPT !.pc = "delete", !.todo = Left(w, k),
                                           !.key = k, !.from = s])
    /\ UNCHANGED Shared

\* The listing is through: the next stage, the next poll of the recovery loop,
\* another round of the repair loop, or the end of the operation.
StageEnds(w) ==
    /\ job[w].pc \in {"copy", "trim"} /\ job[w].todo = {}
    /\ CASE Stage(w) = "sweep" /\ ~ job[w].did -> StartStage(w, "under")
         [] Stage(w) = "sweep" /\ job[w].did -> StartStage(w, "over")
         [] Stage(w) = "under" -> StartStage(w, "over")
         [] Stage(w) = "over" /\ w = "recovery" -> Continue(w, NoJob)
         [] Stage(w) = "over" /\ w = "repair" ->
                IF job[w].did /\ Under # {} THEN StartStage(w, "under")
                ELSE Continue(w, NoJob)
         [] Stage(w) = "over" /\ w \in Admins -> Pc(w, "release")
    /\ UNCHANGED Shared

----------------------------------------------------------------------------
(* rebuild_catalog: list the shards in service, then replace the catalog.  *)
(* A raw shard lists from memory.  Of the others, one whose device does not *)
(* answer is skipped, and one that is Syncing, whose store is still the     *)
(* offline placeholder.                                                     *)

RebuildScan(w) ==
    /\ AtPc(w, "scan")
    /\ \E skipped \in SUBSET {s \in Slot : ~ Answering(s) \/ state[s] = "Syncing"} :
        LET scanned == {s \in Slot : state[s] \in {"Healthy", "Degraded", "Syncing"}} \ skipped IN
        Continue(w, [job[w] EXCEPT !.pc = "swap",
                       !.listing = [k \in Objects |-> copies[k] \cap scanned]])
    /\ UNCHANGED Shared

RebuildSwap(w) ==
    /\ AtPc(w, "swap")
    /\ entry' = job[w].listing
    /\ Continue(w, [job[w] EXCEPT !.pc = "begin", !.listing = <<>>])
    /\ UNCHANGED <<copies, state, why, quiet, device, misses, running, scene>>

----------------------------------------------------------------------------
(* Leaving and returning.                                                  *)

Out(s, health, reason) ==
    /\ state' = [state EXCEPT ![s] = health]
    /\ why' = [why EXCEPT ![s] = reason]

\* sync_and_reattach, from its first line on.
BeginSync(w, s) ==
    /\ state' = [state EXCEPT ![s] = "Syncing"]
    /\ Continue(w, [job[w] EXCEPT !.pc = "sync", !.shard = s])

\* The object k after partitioned_sync or mirror_sync of shard s: copied when
\* it lacks replicas, removed when the catalog does not have it, and when the
\* copy counts as stale and no healthy replica can replace it.
Synced(k, s, stale) ==
    LET sources == {r \in (entry[k] \ {s}) \cap Healthy : Answering(r) /\ r \in copies[k]}
        copied == IF sources # {} /\ k \in Under THEN copies[k] \cup {s} ELSE copies[k]
    IN IF entry[k] = {} \/ (stale /\ sources = {}) THEN copied \ {s} ELSE copied

SyncObjects(w) ==
    LET s == job[w].shard IN
    /\ AtPc(w, "sync")
    /\ \E stale \in SUBSET Objects :
        copies' = IF Answering(s) THEN [k \in Objects |-> Synced(k, s, k \in stale)] ELSE copies
    /\ Pc(w, "attach")
    /\ UNCHANGED <<entry, state, why, quiet, device, misses, running, scene>>

\* attach_shard(force): the entries of the shard are replaced by its listing.
AttachShard(w) ==
    LET s == job[w].shard
        back == IF w = "recovery" THEN [job[w] EXCEPT !.pc = "poll", !.shard = s + 1]
                ELSE [job[w] EXCEPT !.pc = "done"]
    IN /\ AtPc(w, "attach")
       /\ \/ /\ entry' = [k \in Objects |-> IF s \in copies[k] THEN entry[k] \cup {s}
                                           ELSE entry[k] \ {s}]
             /\ Out(s, "Healthy", "none")
          \/ /\ ~ Answering(s)
             /\ entry' = [k \in Objects |-> entry[k] \ {s}]
             /\ Out(s, "Offline", "none")
       /\ quiet' = quiet \ {s}
       /\ Continue(w, back)
       /\ UNCHANGED <<copies, device, misses, running, scene>>

----------------------------------------------------------------------------
(* recovery_loop.                                                          *)

Recovery == "recovery"

PollBegins ==
    /\ Recovery \in scene.loops
    /\ AtPc(Recovery, "idle")
    /\ Continue(Recovery, [NoJob EXCEPT !.pc = "poll"])
    /\ UNCHANGED Shared

\* Mutant of ProbeOffline: a shard held offline is probed as well.
ProbeHeld(s) == state[s] \in {"Offline", "Detached"} /\ device[s] # "gone"

\* An Offline shard is probed when its device path exists.
ProbeOffline(s) == state[s] = "Offline" /\ device[s] # "gone"

\* The health of the shard is read, and its device path looked at; then the
\* probe waits for an answer.
Poll ==
    LET s == job[Recovery].shard
        next == [job[Recovery] EXCEPT !.shard = s + 1]
    IN /\ AtPc(Recovery, "poll") /\ s \in Slot
       /\ \/ /\ s \in Usable /\ device[s] = "gone"
             /\ Out(s, "Offline", "missing")
             /\ misses' = [misses EXCEPT ![s] = 0]
             /\ Continue(Recovery, next)
          \/ /\ s \in Usable /\ device[s] # "gone"
             /\ Continue(Recovery, [job[Recovery] EXCEPT !.pc = "probe"])
             /\ UNCHANGED <<state, why, misses>>
          \/ /\ ProbeOffline(s)
             /\ Continue(Recovery, [job[Recovery] EXCEPT !.pc = "reprobe"])
             /\ UNCHANGED <<state, why, misses>>
          \/ /\ s \notin Usable /\ ~ ProbeOffline(s)
             /\ Continue(Recovery, next)
             /\ UNCHANGED <<state, why, misses>>
       /\ UNCHANGED <<copies, entry, quiet, device, running, scene>>

\* The probe of a shard in service: a failure counts, and the last one
\* detaches the shard, whatever its health has become.
ProbeEnds ==
    LET s == job[Recovery].shard IN
    /\ AtPc(Recovery, "probe")
    /\ \/ /\ Answering(s)
          /\ misses' = [misses EXCEPT ![s] = 0]
          /\ UNCHANGED <<state, why>>
       \/ /\ ~ Answering(s) /\ misses[s] + 1 < Threshold
          /\ misses' = [misses EXCEPT ![s] = @ + 1]
          /\ UNCHANGED <<state, why>>
       \/ /\ ~ Answering(s) /\ misses[s] + 1 >= Threshold
          /\ misses' = [misses EXCEPT ![s] = 0]
          /\ Out(s, "Offline", "probe")
    /\ Continue(Recovery, [job[Recovery] EXCEPT !.pc = "poll", !.shard = s + 1])
    /\ UNCHANGED <<copies, entry, quiet, device, running, scene>>

\* The probe of the original store of an Offline shard.
ReprobeEnds ==
    LET s == job[Recovery].shard IN
    /\ AtPc(Recovery, "reprobe")
    /\ IF Answering(s) THEN BeginSync(Recovery, s)
       ELSE /\ Continue(Recovery, [job[Recovery] EXCEPT !.pc = "poll", !.shard = s + 1])
            /\ UNCHANGED state
    /\ UNCHANGED <<copies, entry, why, quiet, device, misses, running, scene>>

\* The polls are through: is an admin operation running?
CheckAdminOp ==
    /\ AtPc(Recovery, "poll") /\ job[Recovery].shard = Slots
    /\ Continue(Recovery, [job[Recovery] EXCEPT !.pc = "locked", !.did = running # NoOp])
    /\ UNCHANGED Shared

\* The mutex is released and, unless one is, the sweeps begin.
SweepsBegin ==
    /\ AtPc(Recovery, "locked")
    /\ IF job[Recovery].did THEN Continue(Recovery, NoJob)
       ELSE StartStage(Recovery, "sweep")
    /\ UNCHANGED Shared

----------------------------------------------------------------------------
(* repair_replication_loop: a cycle is skipped while an operation runs.    *)

CycleBegins ==
    /\ "repair" \in scene.loops
    /\ AtPc("repair", "idle")
    /\ running = NoOp
    /\ Continue("repair", [NoJob EXCEPT !.pc = "scan"])
    /\ UNCHANGED Shared

----------------------------------------------------------------------------
(* The admin API.                                                          *)

Exclusive == {"repair-replication", "redistribute", "drain", "cross-verify"}

\* try_acquire_admin_op.
Acquire(a) ==
    /\ AtPc(a, "idle") /\ OpName(a) \in Exclusive
    /\ IF running # NoOp
       THEN Pc(a, "done") /\ UNCHANGED running
       ELSE /\ running' = a
            /\ Continue(a, [NoJob EXCEPT !.pc = IF OpName(a) = "drain" THEN "hold" ELSE "scan",
                              !.shard = OpShard(a),
                              !.did = OpName(a) = "drain" /\ OpShard(a) \in Usable])
    /\ UNCHANGED <<copies, entry, state, why, quiet, device, misses, scene>>

\* What runs on the rebuilt catalog.
BeginOnCatalog(w) ==
    /\ AtPc(w, "begin")
    /\ IF w = "repair" THEN StartStage(w, "under")
       ELSE CASE OpName(w) = "repair-replication" -> StartStage(w, "under")
              [] OpName(w) = "cross-verify" -> Pc(w, "release")
              [] OpName(w) = "redistribute" ->
                    IF Under # {} \/ Balanced(Counts) THEN Pc(w, "release")
                    ELSE Continue(w, [job[w] EXCEPT !.pc = "move", !.stage = "move",
                                                    !.counts = Counts, !.moved = 0])
    /\ UNCHANGED Shared

\* One round of redistribute_sweep, `while moved < batch_size`.
MoveNext(a) ==
    LET c == job[a].counts IN
    /\ AtPc(a, "move")
    /\ IF job[a].moved >= AdminBatch \/ Balanced(c) THEN Pc(a, "release")
       ELSE \E src \in Fullest(c), dst \in Emptiest(c) :
              IF Movable(c, src, dst) = {} THEN Pc(a, "release")
              ELSE \E k \in Movable(c, src, dst) :
                     Continue(a, [job[a] EXCEPT !.pc = "read", !.key = k,
                                                !.from = src, !.to = dst])
    /\ UNCHANGED Shared

\* Mutant of Release: the lock is not given back.
ReleaseNever(a) ==
    /\ AtPc(a, "release")
    /\ Pc(a, "done")
    /\ UNCHANGED Shared

\* AdminOpGuard::drop: try_lock, and nothing when the mutex is taken.  (The
\* other users of the lock wait for it, so its blocks are single steps to
\* them.)
Release(a) ==
    /\ AtPc(a, "release")
    /\ \/ running' = NoOp
       \/ scene.contended /\ AtPc(Recovery, "locked") /\ UNCHANGED running
    /\ Pc(a, "done")
    /\ UNCHANGED <<copies, entry, state, why, quiet, device, misses, scene>>

\* The recovery loop is between an await and what it does to shard s.
InPoll(s) ==
    /\ job[Recovery].pc \in {"probe", "reprobe", "sync", "attach"}
    /\ job[Recovery].shard = s

\* take-offline and the hold of a drain: hold_offline.  (job.did, which the
\* request has no other use for, is a history of whether the recovery loop was
\* in the middle of something with the shard.)
TakeOffline(a) ==
    \E suppress \in BOOLEAN :
        /\ AtPc(a, "idle") /\ OpName(a) = "take-offline"
        /\ Out(OpShard(a), "Detached", "manual")
        /\ quiet' = IF suppress THEN quiet \cup {OpShard(a)} ELSE quiet \ {OpShard(a)}
        /\ Continue(a, [job[a] EXCEPT !.pc = "done", !.did = InPoll(OpShard(a))])
        /\ UNCHANGED <<copies, entry, device, misses, running, scene>>

\* attach: refused while an operation runs, when the shard is in service, or
\* when the index of a raw shard cannot be reloaded; a shard that was drained
\* is attached as it is, any other is synced first.
AttachRequest(a) ==
    LET s == OpShard(a) IN
    /\ AtPc(a, "idle") /\ OpName(a) = "attach"
    /\ \/ /\ running # NoOp \/ state[s] \notin {"Detached", "Offline"} \/ ~ Answering(s)
          /\ Pc(a, "done") /\ UNCHANGED state
       \/ /\ running = NoOp /\ state[s] \in {"Detached", "Offline"}
          /\ IF why[s] = "drain"
             THEN /\ state' = [state EXCEPT ![s] = "Syncing"]
                  /\ Continue(a, [job[a] EXCEPT !.pc = "attach", !.shard = s])
             ELSE BeginSync(a, s)
    /\ UNCHANGED <<copies, entry, why, quiet, device, misses, running, scene>>

----------------------------------------------------------------------------
(* The drain request and drain_shard.  job.did: the store of the victim was *)
(* taken before the shard was held, so it is the real one.                  *)

DrainHold(a) ==
    LET v == job[a].shard IN
    /\ AtPc(a, "hold")
    /\ Out(v, "Detached", "drain")
    /\ quiet' = quiet \ {v}
    /\ Pc(a, "victim")
    /\ UNCHANGED <<copies, entry, device, misses, running, scene>>

DrainList(a) ==
    LET v == job[a].shard IN
    /\ AtPc(a, "victim")
    /\ \E listed \in {{}, {k \in Objects : v \in copies[k]}} :
        /\ job[a].did /\ Answering(v) => listed # {} \/ \A k \in Objects : v \notin copies[k]
        /\ ~ job[a].did => listed = {}
        /\ Continue(a, [job[a] EXCEPT !.pc = "drain", !.todo = listed])
    /\ UNCHANGED Shared

\* Mutant of SafeAlready: the victim's own entry will do.
SafeIfListed(k, v) == entry[k] # {}

\* The catalog names another shard.
SafeAlready(k, v) == entry[k] \ {v} # {}

\* A put to the survivors (ClusterWrites has its steps): to rf shards in
\* service, of which min_writes must take it.
SurvivorTargets ==
    {T \in SUBSET Usable : Cardinality(T) = Min({Rf, Cardinality(Usable)})}
MinPlaced == IF Rf > 1 THEN Rf - 1 ELSE 1

\* The objects of the victim one by one: safe, moved, or left with an error.
DrainNext(a) ==
    LET v == job[a].shard
        done(k, safe) == [job[a] EXCEPT !.todo = @ \ {k}, !.safe = IF safe THEN @ \cup {k} ELSE @]
    IN /\ AtPc(a, "drain")
       /\ \E k \in job[a].todo :
            \/ /\ SafeAlready(k, v) \/ ~ Answering(v) \/ v \notin copies[k]
               /\ Continue(a, done(k, SafeAlready(k, v)))
               /\ UNCHANGED <<copies, entry, state>>
            \/ /\ ~ SafeAlready(k, v) /\ Answering(v) /\ v \in copies[k]
               /\ \E T \in SurvivorTargets :
                    LET placed == {t \in T : Answering(t)}
                        ok == Cardinality(placed) >= MinPlaced
                    IN /\ copies' = [copies EXCEPT ![k] = IF ok \/ entry[k] # {}
                                                          THEN @ \cup placed ELSE @]
                       /\ entry' = IF ok THEN [entry EXCEPT ![k] = placed] ELSE entry
                       /\ state' = [t \in Slot |->
                            IF t \notin T \ placed THEN state[t]
                            ELSE IF placed = {} THEN "Offline" ELSE "Degraded"]
                       /\ Continue(a, done(k, ok))
       /\ UNCHANGED <<why, quiet, device, misses, running, scene>>

\* The victim leaves the catalog; what is safe is deleted from it.
DrainPurge(a) ==
    LET v == job[a].shard IN
    /\ AtPc(a, "drain") /\ job[a].todo = {}
    /\ entry' = [k \in Objects |-> entry[k] \ {v}]
    /\ Pc(a, "erase")
    /\ UNCHANGED <<copies, state, why, quiet, device, misses, running, scene>>

DrainErase(a) ==
    LET v == job[a].shard IN
    /\ AtPc(a, "erase")
    /\ \E k \in job[a].safe :
        /\ copies' = IF Answering(v) THEN [copies EXCEPT ![k] = @ \ {v}] ELSE copies
        /\ Continue(a, [job[a] EXCEPT !.safe = @ \ {k}])
    /\ UNCHANGED <<entry, state, why, quiet, device, misses, running, scene>>

\* And the survivors' replicas are completed.
DrainSweep(a) ==
    /\ AtPc(a, "erase") /\ job[a].safe = {}
    /\ StartStage(a, "under")
    /\ UNCHANGED Shared

----------------------------------------------------------------------------
(* The devices, and the specification.                                     *)

DeviceFails(s) ==
    /\ scene.failures > 0 /\ Answering(s)
    /\ scene' = [scene EXCEPT !.failures = @ - 1]
    /\ \E d \in {"silent", "gone"} : device' = [device EXCEPT ![s] = d]
    /\ UNCHANGED <<copies, entry, state, why, quiet, misses, running, job>>

DeviceReturns(s) ==
    /\ ~ Answering(s)
    /\ device' = [device EXCEPT ![s] = "ok"]
    /\ UNCHANGED <<copies, entry, state, why, quiet, misses, running, job, scene>>

AdminInit ==
    /\ scene \in Scenes /\ scene.failures = scene.faults
    /\ copies = scene.placed
    /\ entry = scene.placed
    /\ state = [s \in Slot |-> "Healthy"]
    /\ why = [s \in Slot |-> "none"]
    /\ quiet = {}
    /\ device = [s \in Slot |-> "ok"]
    /\ misses = [s \in Slot |-> 0]
    /\ running = NoOp
    /\ job = [w \in Workers |-> NoJob]

\* Steps of any worker.
SweepStep(w) ==
    \/ ReplicateRead(w) \/ ReplicateWrite(w) \/ RemoveDelete(w) \/ RemoveForget(w)
    \/ CopyNext(w) \/ TrimNext(w) \/ StageEnds(w)
    \/ RebuildScan(w) \/ RebuildSwap(w) \/ BeginOnCatalog(w)
    \/ SyncObjects(w) \/ AttachShard(w)

RecoveryStep ==
    \/ PollBegins \/ Poll \/ ProbeEnds \/ ReprobeEnds \/ CheckAdminOp \/ SweepsBegin
    \/ SweepStep(Recovery)
RepairStep == CycleBegins \/ SweepStep("repair")
OperationStep(a) ==
    \/ MoveNext(a) \/ Release(a)
    \/ DrainHold(a) \/ DrainList(a) \/ DrainNext(a) \/ DrainPurge(a) \/ DrainErase(a) \/ DrainSweep(a)
    \/ SweepStep(a)
RequestStep(a) == Acquire(a) \/ TakeOffline(a) \/ AttachRequest(a)
DeviceStep == \E s \in Slot : DeviceFails(s) \/ DeviceReturns(s)

AdminNext ==
    \/ RecoveryStep \/ RepairStep \/ DeviceStep
    \/ \E a \in Admins : OperationStep(a) \/ RequestStep(a)

\* The loops are tasks of the runtime, and an operation that has its lock runs
\* in a task of its own that no client can cancel.  An attach runs in the
\* handler of its request, which ends where it is when the client goes away.
AdminFairness ==
    /\ WF_adminVars(RecoveryStep)
    /\ WF_adminVars(RepairStep)
    /\ \A a \in Admins : WF_adminVars(OpName(a) # "attach" /\ OperationStep(a))

----------------------------------------------------------------------------
(* Properties.                                                             *)

OpsAsked == {OpName(a) : a \in Admins} \ {"nothing"}
Alone == Cardinality(scene.loops \cup {a \in Admins : OpName(a) # "nothing"}) <= 1

\* One mover at a time: the operations that admin_op_lock keeps apart, or one
\* loop.  (The lock does not stop a cycle of a loop that has begun, nor an
\* attach; an attach finds nothing to do unless something else is at work.)
OneMover ==
    /\ \A v, w \in scene.loops : v = w
    /\ scene.loops # {} => \A a \in Admins : OpName(a) \notin Exclusive
    /\ (\E a \in Admins : OpName(a) = "attach") =>
          scene.loops = {} /\ \A a \in Admins : OpName(a) \in {"attach", "nothing"}

\* The faults that the recovery loop can stand: none, or one in a cluster that
\* keeps two copies of everything in service.
FaultsCovered ==
    Recovery \in scene.loops =>
        \/ scene.faults = 0
        \/ /\ scene.faults = 1 /\ Rf >= 2
           /\ \A k \in Objects : Cardinality(scene.placed[k]) >= 2
           /\ \A a \in Admins : OpName(a) # "take-offline"

\* One mover at a time never loses the last copy of an object, through any
\* sequence of operations and the faults it can stand: the trims of
\* pick_excess_shard (lib.rs:2008), the moves of redistribute_sweep, the drain
\* and the sync of a returning shard each decide from a catalog and delete
\* several awaits later.  (Two movers at a time may: a trim that began before a
\* drain took the lock deletes the copy that the drain relied on.)
NoObjectLost == OneMover /\ FaultsCovered => \A k \in Objects : copies[k] # {}

\* A worker that runs alone never takes an object below its factor, or below
\* the copies it had, also while a device fails and returns (the recovery loop
\* within the faults that it can stand): copies are made
\* before others are removed (redistribute_sweep, repair.rs:1204), and only
\* healthy copies count when one is removed.  (A drain removes first and lets
\* its sweep make up for it.  With a factor of 1 the sync of a shard that
\* returns may take the only copy for a stale one.)
FactorKept ==
    Alone /\ FaultsCovered /\ OpsAsked # {"drain"} => \A k \in Objects :
        Cardinality(copies[k]) >= Min({Rf, Cardinality(scene.placed[k])})

\* A shard that an operator took offline stays so through every cycle of the
\* recovery loop, also when its device fails and returns (recovery.rs:330,
\* "manually held offline, do NOT auto-reattach"), unless the loop was already
\* in the middle of a probe or a sync of the shard: take_offline does not look
\* at the loop, and what the loop does next does not look at the hold.
HoldRespected ==
    \A a \in Admins :
        OpsAsked = {"take-offline"} /\ AtPc(a, "done") /\ ~ job[a].did =>
            state[OpShard(a)] = "Detached"

\* What the admin API promises of every such request (viz.rs:1928, "so the
\* recovery loop will NOT auto-reattach it").  A probe that ends after the
\* request makes the loop sync and attach the shard, or marks it Offline for
\* another reason, and the next cycle attaches it.
HeldOut ==
    \A a \in Admins :
        OpsAsked = {"take-offline"} /\ AtPc(a, "done") =>
            state[OpShard(a)] \notin {"Syncing", "Healthy"}

\* What a batch of S may leave out.
BeyondBatch(S) == {S \ B : B \in Batches(S, AdminBatch)}
Short == {k \in Objects : Cardinality(scene.placed[k]) < Rf}
Surplus == {k \in Objects : Cardinality(scene.placed[k]) > Rf}

\* What an operation that runs alone on devices that answer has achieved when
\* it ends: of the plan of repair-replication nothing is left but objects that
\* a batch of those with too few copies, or with too many, had no room for; the
\* counts are even, or nothing can be moved, or a batch was; a drained shard is
\* empty and its objects have their copies elsewhere; the catalog is what the
\* shards hold.
OperationsDeliver ==
    \A a \in Admins : Alone /\ scene.faults = 0 /\ AtPc(a, "done") /\ running = NoOp =>
        CASE OpName(a) = "repair-replication" ->
                /\ \E beyond \in BeyondBatch(Short) : PlannedCopies \subseteq beyond
                /\ \E beyond \in BeyondBatch(Surplus) : PlannedTrims \subseteq beyond
          [] OpName(a) = "redistribute" ->
                \/ Under # {} \/ Balanced(Counts) \/ job[a].moved >= AdminBatch
                \/ \E src \in Fullest(Counts), dst \in Emptiest(Counts) :
                        Movable(Counts, src, dst) = {}
          [] OpName(a) = "drain" ->
                \A k \in Objects :
                    /\ OpShard(a) \notin copies[k] \cup entry[k]
                    /\ Cardinality(copies[k]) >= Min({Rf, Cardinality(Healthy)})
          [] OpName(a) = "cross-verify" -> entry = copies
          [] OTHER -> TRUE

\* With the recovery loop running, whatever operation ran or device failed,
\* every object with a healthy copy ends with as many copies as the factor
\* asks for and the healthy shards allow.  (A copy on a shard whose attach was
\* cut off counts: the shard stays Syncing.  Not when a guard was dropped while
\* the mutex was taken: the operation then stays registered and every later
\* cycle skips its sweeps.)
RedundancyRestored ==
    Recovery \in scene.loops /\ ~ scene.contended ~>
        [](\A k \in Objects : entry[k] \cap Healthy # {} =>
              Cardinality({s \in entry[k] : state[s] \in {"Healthy", "Syncing"}})
                  >= Min({Rf, Cardinality(Healthy)}))
=============================================================================
